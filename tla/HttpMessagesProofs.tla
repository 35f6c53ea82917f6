------------------------- MODULE HttpMessagesProofs -------------------------
(***************************************************************************)
(* Proofs about HttpMessages, for every stream, whatever its headers and   *)
(* its bodies say: no byte is in two messages, and the loop moves on, as   *)
(* long as it takes no message with a negative length.  And about          *)
(* HttpTraffic: messages are found, and their files extracted, as they     *)
(* were sent.                                                              *)
(***************************************************************************)
EXTENDS HttpTraffic, OperatorProofs

HeaderFields == {Header[s] : s \in DOMAIN Header} \union {NoFields}

Message == [line : Symbol, header : HeaderFields, begin : Nat, first : Nat, last : Nat]

MessagesTypeOK ==
    /\ stream \in [Direction -> Seq(Symbol)]
    /\ parsing \in Direction \union {"done"}
    /\ offset \in Int
    /\ messages \in [Direction -> Seq(Message)]

\* What the loop has found since it took a message with a negative length lies
\* behind where it is.
Behind(ms, at) ==
    \A i \in 1 .. Len(ms) : (\A k \in i .. Len(ms) : ~GoesBack(ms[k])) => ms[i].last < at

\* The loop has not looked at the responses before the requests are done.
FoundBehind ==
    /\ parsing = "request" => messages["response"] = << >>
    /\ parsing # "done" => Behind(messages[parsing], At)

IInv == MessagesTypeOK /\ NoByteTwice /\ FoundBehind

-----------------------------------------------------------------------------
\* A set of numbers below a bound has a largest one.
LEMMA LargestBelow ==
    ASSUME NEW b \in Nat, NEW S \in SUBSET (0 .. b), S # {}
    PROVE  \E i \in S : \A j \in S : j <= i
  <1> DEFINE T == {b - i : i \in S}
  <1>1. T \subseteq Nat /\ T # {}
    <2>1. PICK k \in S : TRUE
      OBVIOUS
    <2>2. b - k \in T
      BY <2>1
    <2>3. \A i \in S : b - i \in Nat
      OBVIOUS
    <2> QED
      BY <2>2, <2>3
  <1>2. PICK x \in T : \A y \in T : ~ (<<y, x>> \in OpToRel(<, Nat))
    BY <1>1, NatLessThanWellFounded, WFMin
  <1>3. \A y \in T : ~ (y < x)
    BY <1>1, <1>2 DEF OpToRel
  <1>4. PICK i \in S : x = b - i
    BY <1>2
  <1>5. \A j \in S : j <= i
    <2> SUFFICES ASSUME NEW j \in S PROVE j <= i
      OBVIOUS
    <2>1. b - j \in T
      OBVIOUS
    <2>2. ~ (b - j < b - i)
      BY <2>1, <1>3, <1>4
    <2>3. i \in Int /\ j \in Int
      OBVIOUS
    <2> QED
      BY <2>2, <2>3
  <1> QED
    BY <1>5

\* A place is a position, and an offset that is one is its own place.
LEMMA PlaceIs ==
    ASSUME MessagesTypeOK, parsing # "done"
    PROVE  /\ Data \in Seq(Symbol) /\ Len(Data) \in Nat
           /\ At \in Nat \ {0}
           /\ offset > 0 => At = offset
           /\ \A i \in Int : Place(Data, i) \in Nat \ {0} /\ (i > 0 => Place(Data, i) = i)
           /\ \A i \in Int : i <= Len(Data) => Place(Data, i) - 1 <= Len(Data)
  <1>1. Data \in Seq(Symbol) /\ offset \in Int
    BY DEF MessagesTypeOK, Data
  <1>2. Len(Data) \in Nat
    BY <1>1
  <1>3. \A i \in Int : /\ Place(Data, i) \in Nat \ {0} /\ (i > 0 => Place(Data, i) = i)
                       /\ i <= Len(Data) => Place(Data, i) - 1 <= Len(Data)
    BY <1>2 DEF Place
  <1> QED
    BY <1>1, <1>2, <1>3 DEF At

\* Whatever lines there are, what they say of the length is a length, or
\* nothing.
LEMMA FieldsType ==
    ASSUME MessagesTypeOK, parsing # "done", NEW h \in Nat
    PROVE  Fields(h) \in HeaderFields /\ Fields(h).length \in Int \union {NoLength}
  <1> DEFINE lines == {i \in At .. h - 1 : Data[i] \in DOMAIN Header}
  <1>0. At \in Nat
    BY PlaceIs
  <1>1. lines \in SUBSET (0 .. h)
    BY <1>0
  <1>2. lines # {} => \E i \in lines : \A j \in lines : j <= i
    BY <1>1, LargestBelow
  <1>3. Fields(h) \in HeaderFields
    <2>1. CASE lines = {}
      BY <2>1 DEF Fields, HeaderFields
    <2>2. CASE lines # {}
      <3> DEFINE i == CHOOSE i \in lines : \A j \in lines : j <= i
      <3>1. i \in lines
        BY <1>2, <2>2
      <3>2. Data[i] \in DOMAIN Header /\ Fields(h) = Header[Data[i]]
        BY <2>2, <3>1 DEF Fields
      <3> QED
        BY <3>2 DEF HeaderFields
    <2> QED
      BY <2>1, <2>2
  <1> QED
    BY <1>3, MessagesAssumption DEF HeaderFields

\* The empty line that is found lies behind the offset, inside the data.
LEMMA HeaderInside ==
    ASSUME MessagesTypeOK, parsing # "done", NEW h \in HeaderEnds
    PROVE  /\ Len(Data) \in Nat /\ h \in Nat /\ At \in Nat \ {0} /\ At <= h /\ h + 1 <= Len(Data)
           /\ Data[At] \in Symbol
  <1>1. Data \in Seq(Symbol) /\ Len(Data) \in Nat /\ At \in Nat \ {0}
    BY PlaceIs
  <1>2. h \in Int /\ At <= h /\ h <= Len(Data) - 1
    BY <1>1 DEF HeaderEnds
  <1>3. At \in 1 .. Len(Data)
    BY <1>1, <1>2
  <1> QED
    BY <1>1, <1>2, <1>3

\* A message that begins where the loop is, and whose body lies inside the
\* data, shares nothing with those found since the loop last went back.
LEMMA FoundKeepsApart ==
    ASSUME IInv, parsing # "done", UNCHANGED stream, NEW h \in HeaderEnds,
           NEW last \in Nat, last <= Len(Data), Found(h, last)
    PROVE  /\ messages' \in [Direction -> Seq(Message)]
           /\ NoByteTwice'
           /\ \A d \in Direction \ {parsing} : messages'[d] = messages[d]
           /\ messages' # messages
           /\ LET n == Len(messages[parsing])
              IN  /\ n \in Nat /\ Len(messages'[parsing]) = n + 1
                  /\ messages'[parsing][n + 1].header = Fields(h)
                  /\ messages'[parsing][n + 1].last = last
                  /\ \A i \in 1 .. n : messages'[parsing][i] = messages[parsing][i]
  <1> DEFINE m == [line |-> Data[At], header |-> Fields(h), begin |-> At, first |-> h + 2, last |-> last]
             ms == messages[parsing]
             n == Len(ms)
  <1>1. /\ parsing \in Direction /\ Len(Data) \in Nat /\ h \in Nat
        /\ At \in Nat /\ At <= h /\ Data[At] \in Symbol
    BY HeaderInside DEF IInv, MessagesTypeOK
  <1>2. m \in Message
    BY <1>1, FieldsType DEF IInv, Message
  <1>3. messages \in [Direction -> Seq(Message)] /\ ms \in Seq(Message) /\ n \in Nat
    BY <1>1 DEF IInv, MessagesTypeOK
  <1>4. messages' = [messages EXCEPT ![parsing] = Append(ms, m)]
    BY DEF Found
  <1>5. Append(ms, m) \in Seq(Message)
    BY <1>2, <1>3
  <1>6. messages' \in [Direction -> Seq(Message)]
    BY <1>1, <1>3, <1>4, <1>5
  <1>7. messages'[parsing] = Append(ms, m)
    BY <1>1, <1>3, <1>4
  <1>8. \A d \in Direction \ {parsing} : messages'[d] = messages[d]
    BY <1>3, <1>4
  <1>9. /\ DOMAIN ms = 1 .. n
        /\ DOMAIN Append(ms, m) = 1 .. n + 1 /\ Len(Append(ms, m)) = n + 1
        /\ \A i \in 1 .. n : Append(ms, m)[i] = ms[i]
        /\ Append(ms, m)[n + 1] = m
    BY <1>2, <1>3
  <1>10. messages' # messages
    <2>1. Len(messages'[parsing]) # Len(messages[parsing])
      BY <1>3, <1>7, <1>9
    <2> QED
      BY <2>1
  <1>11. Behind(ms, At)
    BY DEF IInv, FoundBehind
  <1>12. m.begin = At /\ m.last = last /\ m.header = Fields(h)
    OBVIOUS
  <1> HIDE DEF m, ms, n
  <1>13. NoByteTwice'
    <2> SUFFICES ASSUME NEW d \in Direction, NEW j \in DOMAIN messages'[d]
                 PROVE  /\ messages'[d][j].last <= Len(stream[d])
                        /\ \A i \in 1 .. j - 1 :
                             (\A k \in i .. j - 1 : ~GoesBack(messages'[d][k]))
                               => messages'[d][i].last < messages'[d][j].begin
      BY DEF NoByteTwice, GoesBack
    <2>1. CASE d # parsing
      BY <2>1, <1>8 DEF IInv, NoByteTwice
    <2>2. CASE d = parsing
      <3>1. j \in 1 .. n + 1 /\ messages'[d] = Append(ms, m)
        BY <2>2, <1>7, <1>9
      <3>2. \A i \in 1 .. j - 1 : i \in 1 .. n
        BY <3>1, <1>3
      <3>3. CASE j = n + 1
        <4>1. messages'[d][j].last <= Len(stream[d])
          BY <2>2, <3>1, <3>3, <1>9, <1>12 DEF Data
        <4>2. ASSUME NEW i \in 1 .. j - 1, \A k \in i .. j - 1 : ~GoesBack(messages'[d][k])
              PROVE  messages'[d][i].last < messages'[d][j].begin
          <5>1. i \in 1 .. n /\ \A k \in i .. n : k \in i .. j - 1 /\ k \in 1 .. n
            BY <3>2, <3>3, <1>3
          <5>2. \A k \in i .. n : ~GoesBack(ms[k])
            BY <5>1, <4>2, <3>1, <1>9
          <5>3. ms[i].last < At
            BY <5>1, <5>2, <1>11 DEF Behind, n
          <5> QED
            BY <5>1, <5>3, <3>1, <3>3, <1>9, <1>12
        <4> QED
          BY <4>1, <4>2
      <3>4. CASE j # n + 1
        <4>1. j \in DOMAIN ms /\ j \in 1 .. n
          BY <3>1, <3>4, <1>3, <1>9
        <4>2. ms[j].last <= Len(stream[d])
          BY <4>1, <2>2 DEF IInv, NoByteTwice, ms
        <4>3. ASSUME NEW i \in 1 .. j - 1, \A k \in i .. j - 1 : ~GoesBack(messages'[d][k])
              PROVE  messages'[d][i].last < messages'[d][j].begin
          <5>1. i \in 1 .. n /\ \A k \in i .. j - 1 : k \in 1 .. n
            BY <4>1, <1>3
          <5>2. \A k \in i .. j - 1 : ~GoesBack(ms[k])
            BY <5>1, <4>3, <3>1, <1>9
          <5>3. ms[i].last < ms[j].begin
            BY <5>2, <4>1, <1>1 DEF IInv, NoByteTwice, ms
          <5> QED
            BY <5>1, <5>3, <4>1, <3>1, <1>9
        <4> QED
          BY <4>1, <4>2, <4>3, <3>1, <1>9
      <3> QED
        BY <3>3, <3>4
    <2> QED
      BY <2>1, <2>2
  <1> QED
    BY <1>3, <1>6, <1>7, <1>8, <1>9, <1>10, <1>12, <1>13 DEF ms, n

\* Where a direction is finished, the next one is begun with nothing found
\* in it.
LEMMA FinishKeeps ==
    ASSUME IInv, parsing # "done", FinishDirection, UNCHANGED stream,
           messages' \in [Direction -> Seq(Message)], NoByteTwice',
           \A d \in Direction \ {parsing} : messages'[d] = messages[d]
    PROVE  IInv' /\ parsing' # parsing
  <1>1. parsing \in Direction
    BY DEF IInv, MessagesTypeOK
  <1>2. parsing' \in {"response", "done"} /\ parsing' # parsing /\ offset' = 1
    BY <1>1 DEF FinishDirection, Direction
  <1>3. MessagesTypeOK'
    BY <1>2 DEF IInv, MessagesTypeOK, Direction
  <1>4. parsing' = "response" => messages'["response"] = << >>
    BY <1>1, <1>2 DEF FinishDirection, IInv, FoundBehind, Direction
  <1>5. FoundBehind'
    <2>1. CASE parsing' = "response"
      <3>1. messages'[parsing'] = << >>
        BY <2>1, <1>4
      <3>2. 1 .. Len(messages'[parsing']) = {}
        BY <3>1
      <3>3. Behind(messages[parsing], At)'
        BY <3>2 DEF Behind
      <3> QED
        BY <2>1, <3>3 DEF FoundBehind
    <2>2. CASE parsing' = "done"
      BY <2>2 DEF FoundBehind
    <2> QED
      BY <1>2, <2>1, <2>2
  <1> QED
    BY <1>2, <1>3, <1>5 DEF IInv

\* What a round of the loop that keeps to its direction may do.
Onward == At' > At \/ (messages' # messages /\ GoesBack(Latest'))

\* A message whose end is known leaves the loop behind it, unless its length
\* is negative.
LEMMA FoundUpToKeeps ==
    ASSUME IInv, parsing # "done", UNCHANGED stream, NEW h \in HeaderEnds,
           NEW last \in Int, last <= Len(Data), FoundUpTo(h, last),
           h + 1 <= last \/ Fields(h).length \in Int \ Nat
    PROVE  IInv' /\ Onward
  <1> DEFINE end == Place(Data, last + 1) - 1
             n == Len(messages[parsing])
             found == messages'[parsing]
  <1>1. /\ Len(Data) \in Nat /\ h \in Nat /\ At \in Nat \ {0} /\ At <= h /\ h + 1 <= Len(Data)
        /\ parsing \in Direction
    BY HeaderInside DEF IInv, MessagesTypeOK
  <1>2. end \in Nat /\ end <= Len(Data) /\ (last >= 0 => end = last)
    BY <1>1 DEF Place
  <1>3. Found(h, end) /\ offset' = last + 1 /\ parsing' = parsing
    BY DEF FoundUpTo
  <1> HIDE DEF end
  <1>4. /\ messages' \in [Direction -> Seq(Message)]
        /\ NoByteTwice'
        /\ \A d \in Direction \ {parsing} : messages'[d] = messages[d]
        /\ messages' # messages
        /\ n \in Nat /\ Len(found) = n + 1
        /\ found[n + 1].header = Fields(h)
        /\ found[n + 1].last = end
        /\ \A i \in 1 .. n : found[i] = messages[parsing][i]
    BY <1>2, <1>3, FoundKeepsApart
  <1>5. MessagesTypeOK'
    BY <1>3, <1>4 DEF IInv, MessagesTypeOK
  <1>6. At' = Place(Data, last + 1)
    BY <1>3 DEF At, Data, Place
  <1>7. parsing' = "request" => messages'["response"] = << >>
    BY <1>1, <1>3, <1>4 DEF IInv, FoundBehind, Direction
  <1>8. CASE Fields(h).length \in Int \ Nat
    <2>1. GoesBack(found[n + 1])
      BY <1>4, <1>8 DEF GoesBack
    <2>2. Latest' = found[n + 1]
      BY <1>3, <1>4 DEF Latest
    <2>3. Onward
      BY <1>4, <2>1, <2>2 DEF Onward
    <2>4. Behind(found, At')
      <3> SUFFICES ASSUME NEW i \in 1 .. Len(found) PROVE \E k \in i .. Len(found) : GoesBack(found[k])
        BY DEF Behind
      <3>1. n + 1 \in i .. Len(found)
        BY <1>4
      <3> QED
        BY <2>1, <3>1
    <2>5. FoundBehind'
      <3>1. Behind(messages[parsing], At)'
        BY <1>3, <2>4 DEF Behind, GoesBack
      <3> QED
        BY <1>7, <3>1 DEF FoundBehind
    <2> QED
      BY <1>4, <1>5, <2>3, <2>5 DEF IInv
  <1>9. CASE h + 1 <= last
    <2>1. end = last /\ At' = last + 1
      BY <1>1, <1>2, <1>6, <1>9 DEF Place
    <2>2. Onward
      BY <2>1, <1>1, <1>9 DEF Onward
    <2>3. Behind(found, At')
      <3> SUFFICES ASSUME NEW i \in 1 .. Len(found), \A k \in i .. Len(found) : ~GoesBack(found[k])
                   PROVE  found[i].last < At'
        BY DEF Behind
      <3>1. CASE i = n + 1
        BY <3>1, <1>4, <2>1
      <3>2. CASE i # n + 1
        <4>1. i \in 1 .. n /\ \A k \in i .. n : k \in i .. Len(found) /\ k \in 1 .. n
          BY <3>2, <1>4
        <4>2. \A k \in i .. n : ~GoesBack(messages[parsing][k])
          BY <4>1, <1>4
        <4>3. messages[parsing][i].last < At
          BY <4>1, <4>2, <1>1 DEF IInv, FoundBehind, Behind, Direction
        <4>4. messages[parsing][i] \in Message
          <5>1. messages[parsing] \in Seq(Message)
            BY <1>1 DEF IInv, MessagesTypeOK
          <5> QED
            BY <5>1, <4>1
        <4>5. found[i].last \in Nat /\ found[i].last < At
          BY <4>1, <4>3, <4>4, <1>4 DEF Message
        <4> QED
          BY <4>5, <2>1, <1>1, <1>9
      <3> QED
        BY <3>1, <3>2
    <2>4. FoundBehind'
      <3>1. Behind(messages[parsing], At)'
        BY <1>3, <2>3 DEF Behind, GoesBack
      <3> QED
        BY <1>7, <3>1 DEF FoundBehind
    <2> QED
      BY <1>4, <1>5, <2>2, <2>4 DEF IInv
  <1> QED
    BY <1>8, <1>9

\* A message that takes all the rest finishes its direction.
LEMMA FoundLastKeeps ==
    ASSUME IInv, parsing # "done", UNCHANGED stream, NEW h \in HeaderEnds, FoundLast(h)
    PROVE  IInv' /\ parsing' # parsing
  <1>1. Len(Data) \in Nat
    BY HeaderInside DEF IInv
  <1>2. /\ messages' \in [Direction -> Seq(Message)]
        /\ NoByteTwice'
        /\ \A d \in Direction \ {parsing} : messages'[d] = messages[d]
    BY <1>1, FoundKeepsApart DEF FoundLast
  <1> QED
    BY <1>2, FinishKeeps DEF FoundLast

-----------------------------------------------------------------------------
LEMMA InitIInv == stream \in [Direction -> Seq(Symbol)] /\ LoopInit => IInv
  <1> SUFFICES ASSUME stream \in [Direction -> Seq(Symbol)], LoopInit PROVE IInv
    OBVIOUS
  <1>1. \A d \in Direction : messages[d] = << >>
    BY DEF LoopInit
  <1>2. MessagesTypeOK
    BY DEF LoopInit, MessagesTypeOK, Direction
  <1>3. NoByteTwice
    BY <1>1 DEF NoByteTwice
  <1>4. FoundBehind
    <2>1. parsing \in Direction
      BY DEF LoopInit, Direction
    <2>2. 1 .. Len(messages[parsing]) = {}
      BY <1>1, <2>1
    <2> QED
      BY <1>1, <2>2 DEF Behind, FoundBehind, Direction
  <1> QED
    BY <1>2, <1>3, <1>4 DEF IInv

\* Every round keeps the invariant and moves on.
LEMMA RoundKeeps ==
    ASSUME IInv, Round
    PROVE  IInv' /\ (parsing' = parsing => Onward)
  <1>1. parsing # "done" /\ UNCHANGED stream
    BY DEF Round
  <1>2. CASE Stop
    <2>1. FinishDirection /\ UNCHANGED messages
      BY <1>2 DEF Stop
    <2>2. messages' \in [Direction -> Seq(Message)] /\ NoByteTwice'
      BY <2>1, <1>1 DEF IInv, MessagesTypeOK, NoByteTwice, GoesBack
    <2> QED
      BY <2>1, <2>2, <1>1, FinishKeeps
  <1>3. ASSUME NEW h \in HeaderEnds,
               SkipBlock(h) \/ ReadDelimited(h) \/ ReadChunked(h) \/ ReadUntilNext(h)
        PROVE  IInv' /\ (parsing' = parsing => Onward)
    <2>1. /\ Len(Data) \in Nat /\ h \in Nat /\ At \in Nat \ {0}
          /\ At <= h /\ h + 1 <= Len(Data)
      BY <1>1, HeaderInside DEF IInv, MessagesTypeOK
    <2>2. CASE SkipBlock(h)
      <3>1. offset' = h + 2 /\ parsing' = parsing /\ messages' = messages
        BY <2>1, <2>2 DEF SkipBlock
      <3>2. At' = h + 2 /\ Onward
        <4>1. At' = h + 2
          BY <3>1, <2>1 DEF At, Place
        <4> QED
          BY <4>1, <2>1 DEF Onward
      <3>3. MessagesTypeOK' /\ NoByteTwice'
        BY <3>1, <2>1, <1>1 DEF IInv, MessagesTypeOK, NoByteTwice, GoesBack
      <3>4. \A i \in 1 .. Len(messages[parsing]) : messages[parsing][i].last \in Nat
        <4>1. messages[parsing] \in Seq(Message)
          BY <1>1 DEF IInv, MessagesTypeOK
        <4>2. \A i \in 1 .. Len(messages[parsing]) : messages[parsing][i] \in Message
          BY <4>1
        <4> QED
          BY <4>2 DEF Message
      <3>5. FoundBehind'
        <4>1. Behind(messages[parsing], At)
          BY <1>1 DEF IInv, FoundBehind
        <4>2. Behind(messages[parsing], h + 2)
          BY <4>1, <3>4, <2>1 DEF Behind
        <4>3. Behind(messages[parsing], At)'
          BY <4>2, <3>1, <3>2 DEF Behind, GoesBack
        <4> QED
          BY <4>3, <3>1 DEF IInv, FoundBehind
      <3> QED
        BY <3>2, <3>3, <3>5 DEF IInv
    <2>3. CASE ReadDelimited(h)
      <3> DEFINE length == Fields(h).length
                 last == IF h + 1 + length < Len(Data) THEN h + 1 + length ELSE Len(Data)
      <3>1. length \in Int
        BY <2>1, <2>3, <1>1, FieldsType DEF ReadDelimited, IInv
      <3>2. FoundUpTo(h, last)
        BY <2>3 DEF ReadDelimited
      <3>3. last \in Int /\ last <= Len(Data) /\ (h + 1 <= last \/ length \in Int \ Nat)
        <4> HIDE DEF length
        <4> QED
          BY <3>1, <2>1
      <3> HIDE DEF last
      <3> QED
        BY <3>2, <3>3, <1>1, FoundUpToKeeps
    <2>4. CASE ReadChunked(h)
      <3>1. ASSUME NEW t \in LastChunks(h + 2), FoundUpTo(h, t + 2)
            PROVE  IInv' /\ Onward
        <4>1. t + 2 \in Int /\ h + 1 <= t + 2 /\ t + 2 <= Len(Data)
          BY <2>1 DEF LastChunks
        <4> QED
          BY <3>1, <4>1, <1>1, FoundUpToKeeps
      <3>2. CASE FoundLast(h)
        BY <3>2, <1>1, FoundLastKeeps
      <3> QED
        BY <2>4, <3>1, <3>2 DEF ReadChunked, First
    <2>5. CASE ReadUntilNext(h)
      <3>1. ASSUME NEW n \in NextOpenings(h + 2), FoundUpTo(h, n - 1)
            PROVE  IInv' /\ Onward
        <4>1. n - 1 \in Int /\ h + 1 <= n - 1 /\ n - 1 <= Len(Data)
          BY <2>1 DEF NextOpenings
        <4> QED
          BY <3>1, <4>1, <1>1, FoundUpToKeeps
      <3>2. CASE FoundLast(h)
        BY <3>2, <1>1, FoundLastKeeps
      <3> QED
        BY <2>5, <3>1, <3>2 DEF ReadUntilNext, First
    <2> QED
      BY <1>3, <2>2, <2>3, <2>4, <2>5
  <1> QED
    BY <1>2, <1>3 DEF Round

LEMMA StepIInv == IInv /\ [Round]_messageVars => IInv'
  <1> SUFFICES ASSUME IInv, [Round]_messageVars PROVE IInv'
    OBVIOUS
  <1>1. CASE Round
    BY <1>1, RoundKeeps
  <1>2. CASE UNCHANGED messageVars
    <2>1. stream' = stream /\ parsing' = parsing /\ offset' = offset /\ messages' = messages
      BY <1>2 DEF messageVars
    <2>2. MessagesTypeOK' /\ NoByteTwice'
      BY <2>1 DEF IInv, MessagesTypeOK, NoByteTwice, GoesBack
    <2>3. At' = At
      BY <2>1 DEF At, Data, Place
    <2>4. FoundBehind'
      BY <2>1, <2>3 DEF IInv, FoundBehind, Behind, GoesBack
    <2> QED
      BY <2>2, <2>4 DEF IInv
  <1> QED
    BY <1>1, <1>2

LEMMA InvariantHolds == MessagesSpec => []IInv
  BY InitIInv, StepIInv, PTL DEF MessagesSpec

-----------------------------------------------------------------------------
\* The loop's state keeps its type, whatever a stream contains: a body, even
\* of a message with a negative length, has positions in the data, though the
\* offset may be any integer (http.py:262-333).
THEOREM MessagesTypeCorrectness == MessagesSpec => []MessagesTypeOK
  <1>1. IInv => MessagesTypeOK
    BY DEF IInv
  <1> QED
    BY <1>1, InvariantHolds, PTL

\* For every stream and everything its headers may say, bodies lie inside the
\* data, and no byte is in two messages, unless the loop went back between
\* them with a message of negative length (http.py:288-331).
THEOREM BodiesApart == MessagesSpec => []NoByteTwice
  <1>1. IInv => NoByteTwice
    BY DEF IInv
  <1> QED
    BY <1>1, InvariantHolds, PTL

\* On every stream, every round of the loop moves on in its direction or ends
\* it, except one that takes a message with a negative length (http.py:267).
THEOREM LoopMovesOn == MessagesSpec => MovesOn
  <1>1. IInv /\ [Round]_messageVars
          => [parsing' = parsing => At' > At \/ (messages' # messages /\ GoesBack(Latest'))]_messageVars
    BY RoundKeeps DEF Onward
  <1> QED
    BY <1>1, InvariantHolds, PTL DEF MessagesSpec, MovesOn

-----------------------------------------------------------------------------
\* What is sent in a direction: its messages one behind the other.

SentMessage == [line : Symbol, body : Seq(Symbol)]

\* Where the i-th of some messages ends.
End(ms, i) == Len(Bytes(SubSeq(ms, 1, i)))

LEMMA WireIs ==
    ASSUME NEW m \in SentMessage
    PROVE  /\ Wire(m) \in Seq(Symbol)
           /\ Len(m.body) \in Nat
           /\ Len(Wire(m)) = 4 + Len(m.body)
           /\ Wire(m)[1] = m.line /\ Wire(m)[2] = Rest /\ Wire(m)[3] = CRLF /\ Wire(m)[4] = CRLF
           /\ \A p \in 1 .. Len(m.body) : Wire(m)[4 + p] = m.body[p]
  <1> DEFINE head == <<m.line, Rest, CRLF, CRLF>>
  <1>1. m.line \in Symbol /\ m.body \in Seq(Symbol) /\ Rest \in Symbol /\ CRLF \in Symbol
    BY ExchangesAssumption, MessagesAssumption DEF SentMessage
  <1>2. head \in Seq(Symbol) /\ Len(head) = 4 /\ head[1] = m.line /\ head[2] = Rest /\ head[3] = CRLF
        /\ head[4] = CRLF
    BY <1>1
  <1> DEFINE tail == m.body
             n == Len(tail)
  <1>3. Wire(m) = head \o tail /\ tail \in Seq(Symbol) /\ n \in Nat
    BY <1>1 DEF Wire
  <1> HIDE DEF head, tail
  <1>4. /\ Wire(m) \in Seq(Symbol)
        /\ Len(Wire(m)) = Len(head) + Len(tail)
        /\ \A i \in 1 .. Len(head) + Len(tail) :
              Wire(m)[i] = IF i <= Len(head) THEN head[i] ELSE tail[i - Len(head)]
    <2>1. /\ head \o tail \in Seq(Symbol)
          /\ Len(head \o tail) = Len(head) + Len(tail)
          /\ \A i \in 1 .. Len(head) + Len(tail) :
              (head \o tail)[i] = IF i <= Len(head) THEN head[i] ELSE tail[i - Len(head)]
      BY <1>2, <1>3, ConcatProperties
    <2> QED
      BY <2>1, <1>3, Zenon
  <1> HIDE DEF n
  <1>5. /\ Len(Wire(m)) = 4 + n
        /\ \A i \in 1 .. 4 + n : Wire(m)[i] = IF i <= 4 THEN head[i] ELSE tail[i - 4]
    BY <1>2, <1>4, Zenon DEF n
  <1>6. \A p \in 1 .. n : Wire(m)[4 + p] = tail[p]
    <2> SUFFICES ASSUME NEW p \in 1 .. n PROVE Wire(m)[4 + p] = tail[p]
      OBVIOUS
    <2>1. 4 + p \in 1 .. 4 + n /\ ~ (4 + p <= 4) /\ (4 + p) - 4 = p
      BY <1>3
    <2> QED
      BY <2>1, <1>5
  <1>7. \A i \in 1 .. 4 : Wire(m)[i] = head[i]
    BY <1>3, <1>5
  <1>8. Wire(m)[1] = m.line /\ Wire(m)[2] = Rest /\ Wire(m)[3] = CRLF /\ Wire(m)[4] = CRLF
    BY <1>2, <1>7
  <1> QED
    BY <1>3, <1>4, <1>5, <1>6, <1>8 DEF n, tail

\* One more message adds what it is on the wire.
LEMMA BytesGrow ==
    ASSUME NEW ms \in Seq(SentMessage)
    PROVE  /\ Bytes(ms) \in Seq(Symbol)
           /\ ms = << >> => Bytes(ms) = << >>
           /\ \A m \in SentMessage : Bytes(Append(ms, m)) = Bytes(ms) \o Wire(m)
  <1> DEFINE wires(s) == [i \in DOMAIN s |-> Wire(s[i])]
  <1>1. DOMAIN ms = 1 .. Len(ms) /\ Len(ms) \in Nat /\ \A i \in 1 .. Len(ms) : ms[i] \in SentMessage
    OBVIOUS
  <1>2. wires(ms) \in Seq(Seq(Symbol)) /\ Len(wires(ms)) = Len(ms)
    <2>1. \A i \in 1 .. Len(ms) : Wire(ms[i]) \in Seq(Symbol)
      BY <1>1, WireIs
    <2> QED
      BY <1>1, <2>1
  <1>3. Bytes(ms) \in Seq(Symbol)
    <2>1. << >> \in Seq(Symbol)
      OBVIOUS
    <2> QED
      BY <1>2, <2>1, FlattenAppend, Zenon DEF Bytes
  <1>4. ms = << >> => Bytes(ms) = << >>
    <2> SUFFICES ASSUME ms = << >> PROVE Bytes(ms) = << >>
      OBVIOUS
    <2>1. Len(wires(ms)) = 0 /\ wires(ms) = << >>
      BY <1>2
    <2> QED
      BY <2>1 DEF Bytes, FlattenSeq
  <1>5. ASSUME NEW m \in SentMessage
        PROVE  Bytes(Append(ms, m)) = Bytes(ms) \o Wire(m)
    <2>1. wires(Append(ms, m)) = Append(wires(ms), Wire(m))
      <3>1. /\ Append(ms, m) \in Seq(SentMessage) /\ Len(Append(ms, m)) = Len(ms) + 1
            /\ Append(ms, m)[Len(ms) + 1] = m
            /\ \A i \in 1 .. Len(ms) : Append(ms, m)[i] = ms[i]
        BY AppendProperties
      <3>2. DOMAIN wires(Append(ms, m)) = 1 .. Len(ms) + 1
        BY <3>1
      <3>3. Wire(m) \in Seq(Symbol)
        BY WireIs
      <3>4. /\ Append(wires(ms), Wire(m)) \in Seq(Seq(Symbol))
            /\ Len(Append(wires(ms), Wire(m))) = Len(ms) + 1
            /\ Append(wires(ms), Wire(m))[Len(ms) + 1] = Wire(m)
            /\ \A i \in 1 .. Len(ms) : Append(wires(ms), Wire(m))[i] = wires(ms)[i]
        BY <1>2, <3>3, AppendProperties
      <3>5. \A i \in 1 .. Len(ms) + 1 : wires(Append(ms, m))[i] = Append(wires(ms), Wire(m))[i]
        <4> SUFFICES ASSUME NEW i \in 1 .. Len(ms) + 1
                     PROVE  wires(Append(ms, m))[i] = Append(wires(ms), Wire(m))[i]
          OBVIOUS
        <4>1. i \in DOMAIN Append(ms, m)
          BY <3>1
        <4>2. wires(Append(ms, m))[i] = Wire(Append(ms, m)[i])
          BY <4>1
        <4>3. CASE i = Len(ms) + 1
          BY <4>2, <4>3, <3>1, <3>4
        <4>4. CASE i # Len(ms) + 1
          <5>1. i \in 1 .. Len(ms)
            BY <4>4, <1>1
          <5>2. wires(ms)[i] = Wire(ms[i])
            BY <5>1, <1>1
          <5> QED
            BY <5>1, <5>2, <4>2, <3>1, <3>4
        <4> QED
          BY <4>3, <4>4
      <3>6. wires(Append(ms, m)) = [i \in 1 .. Len(ms) + 1 |-> wires(Append(ms, m))[i]]
        BY <3>2
      <3>7. Append(wires(ms), Wire(m)) = [i \in 1 .. Len(ms) + 1 |-> Append(wires(ms), Wire(m))[i]]
        BY <3>4
      <3> HIDE DEF wires
      <3> QED
        BY <3>5, <3>6, <3>7, Zenon
    <2>2. Wire(m) \in Seq(Symbol)
      BY WireIs
    <2>3. FlattenSeq(Append(wires(ms), Wire(m))) = FlattenSeq(wires(ms)) \o Wire(m)
      BY <1>2, <2>2, FlattenAppend
    <2> QED
      BY <2>1, <2>3, Zenon DEF Bytes
  <1> QED
    BY <1>3, <1>4, <1>5

LEMMA UpToNext ==
    ASSUME NEW T, NEW s \in Seq(T), NEW i \in 0 .. Len(s) - 1
    PROVE  /\ SubSeq(s, 1, i) \in Seq(T) /\ SubSeq(s, 1, i + 1) \in Seq(T)
           /\ SubSeq(s, 1, i + 1) = Append(SubSeq(s, 1, i), s[i + 1])
           /\ s[i + 1] \in T
  <1>1. Len(s) \in Nat /\ i \in Nat /\ i + 1 \in 1 .. Len(s)
    OBVIOUS
  <1>2. /\ SubSeq(s, 1, i) \in Seq(T) /\ Len(SubSeq(s, 1, i)) = i
        /\ \A p \in 1 .. i : SubSeq(s, 1, i)[p] = s[p]
    BY <1>1
  <1>3. /\ SubSeq(s, 1, i + 1) \in Seq(T) /\ Len(SubSeq(s, 1, i + 1)) = i + 1
        /\ \A p \in 1 .. i + 1 : SubSeq(s, 1, i + 1)[p] = s[p]
    BY <1>1
  <1>4. s[i + 1] \in T
    BY <1>1
  <1> DEFINE u == SubSeq(s, 1, i)
             v == SubSeq(s, 1, i + 1)
             w == Append(u, s[i + 1])
  <1>5. /\ w \in Seq(T) /\ Len(w) = i + 1 /\ w[i + 1] = s[i + 1]
        /\ \A p \in 1 .. i : w[p] = u[p]
    BY <1>2, <1>4, AppendProperties
  <1> HIDE DEF u, v, w
  <1>6. \A p \in 1 .. i + 1 : v[p] = w[p]
    BY <1>1, <1>2, <1>3, <1>5 DEF u, v
  <1>7. v = w
    BY <1>3, <1>5, <1>6 DEF v
  <1> QED
    BY <1>2, <1>3, <1>4, <1>7 DEF u, v, w

LEMMA BytesUpTo ==
    ASSUME NEW ms \in Seq(SentMessage), NEW i \in 0 .. Len(ms) - 1
    PROVE  /\ Bytes(SubSeq(ms, 1, i)) \in Seq(Symbol)
           /\ ms[i + 1] \in SentMessage
           /\ Bytes(SubSeq(ms, 1, i + 1)) = Bytes(SubSeq(ms, 1, i)) \o Wire(ms[i + 1])
  BY UpToNext, BytesGrow

\* The messages up to one of them are on the wire before all later ones.
LEMMA BytesBefore ==
    ASSUME NEW ms \in Seq(SentMessage), NEW i \in 0 .. Len(ms), NEW j \in i .. Len(ms)
    PROVE  /\ Bytes(SubSeq(ms, 1, i)) \in Seq(Symbol) /\ Bytes(SubSeq(ms, 1, j)) \in Seq(Symbol)
           /\ End(ms, i) \in Nat /\ End(ms, j) \in Nat /\ End(ms, i) <= End(ms, j)
           /\ \A p \in 1 .. End(ms, i) : Bytes(SubSeq(ms, 1, j))[p] = Bytes(SubSeq(ms, 1, i))[p]
  <1> DEFINE B(k) == Bytes(SubSeq(ms, 1, k))
             Holds(n) == i + n <= Len(ms) =>
                            /\ Len(B(i)) <= Len(B(i + n))
                            /\ \A p \in 1 .. Len(B(i)) : B(i + n)[p] = B(i)[p]
             N == {n \in Nat : Holds(n)}
  <1>1. Len(ms) \in Nat /\ i \in Nat
    OBVIOUS
  <1>2. ASSUME NEW k \in 0 .. Len(ms) PROVE B(k) \in Seq(Symbol) /\ Len(B(k)) \in Nat
    <2>1. SubSeq(ms, 1, k) \in Seq(SentMessage)
      BY <1>1
    <2>2. B(k) \in Seq(Symbol)
      BY <2>1, BytesGrow
    <2> QED
      BY <2>2
  <1>3. 0 \in N
    <2>1. i + 0 = i /\ Len(B(i)) \in Nat
      BY <1>1, <1>2
    <2> HIDE DEF B
    <2> QED
      BY <2>1
  <1>4. ASSUME NEW n \in N PROVE n + 1 \in N
    <2>1. n \in Nat /\ n + 1 \in Nat /\ Holds(n)
      OBVIOUS
    <2>2. ASSUME i + (n + 1) <= Len(ms)
          PROVE  /\ Len(B(i)) <= Len(B(i + (n + 1)))
                 /\ \A p \in 1 .. Len(B(i)) : B(i + (n + 1))[p] = B(i)[p]
      <3> DEFINE k == i + n
                 w == Wire(ms[k + 1])
      <3>1. k \in 0 .. Len(ms) - 1 /\ i + (n + 1) = k + 1 /\ i + n <= Len(ms) /\ k \in 0 .. Len(ms)
        BY <1>1, <2>1, <2>2
      <3>2. B(k + 1) = B(k) \o w /\ ms[k + 1] \in SentMessage
        BY <3>1, BytesUpTo
      <3>3. w \in Seq(Symbol)
        BY <3>2, WireIs
      <3>4. B(k) \in Seq(Symbol) /\ Len(B(k)) \in Nat /\ Len(w) \in Nat /\ Len(B(i)) \in Nat
        BY <1>1, <1>2, <3>1, <3>3
      <3>5. Len(B(i)) <= Len(B(k)) /\ \A p \in 1 .. Len(B(i)) : B(k)[p] = B(i)[p]
        BY <2>1, <3>1
      <3> HIDE DEF B, w
      <3>6. /\ Len(B(k) \o w) = Len(B(k)) + Len(w)
            /\ \A p \in 1 .. Len(B(k)) + Len(w) :
                 (B(k) \o w)[p] = IF p <= Len(B(k)) THEN B(k)[p] ELSE w[p - Len(B(k))]
        BY <3>3, <3>4, ConcatProperties
      <3> HIDE DEF k
      <3>7. ASSUME NEW p \in 1 .. Len(B(i)) PROVE B(k + 1)[p] = B(i)[p]
        <4>1. p \in 1 .. Len(B(k)) + Len(w) /\ p <= Len(B(k))
          BY <3>4, <3>5
        <4> QED
          BY <4>1, <3>2, <3>5, <3>6
      <3>8. Len(B(i)) <= Len(B(k + 1))
        BY <3>2, <3>4, <3>5, <3>6
      <3> QED
        BY <3>1, <3>7, <3>8
    <2> HIDE DEF B
    <2> QED
      BY <2>1, <2>2
  <1>5. N \in SUBSET Nat
    OBVIOUS
  <1> HIDE DEF N
  <1>6. N = Nat
    BY <1>3, <1>4, <1>5, Induction
  <1> USE DEF N
  <1>7. j - i \in Nat /\ i + (j - i) = j /\ j \in 0 .. Len(ms) /\ j <= Len(ms)
    BY <1>1
  <1>8. Holds(j - i)
    BY <1>6, <1>7
  <1> HIDE DEF N, B
  <1>9. Len(B(i)) <= Len(B(j)) /\ \A p \in 1 .. Len(B(i)) : B(j)[p] = B(i)[p]
    BY <1>7, <1>8
  <1>10. B(i) \in Seq(Symbol) /\ Len(B(i)) \in Nat /\ B(j) \in Seq(Symbol) /\ Len(B(j)) \in Nat
    BY <1>2, <1>7
  <1> QED
    BY <1>9, <1>10 DEF B, End

\* Each message lies behind the ones before it, as it is on the wire.
LEMMA MessageAt ==
    ASSUME NEW ms \in Seq(SentMessage), NEW i \in 0 .. Len(ms) - 1
    PROVE  /\ End(ms, i) \in Nat
           /\ ms[i + 1] \in SentMessage
           /\ End(ms, i + 1) = End(ms, i) + 4 + Len(ms[i + 1].body)
           /\ End(ms, i + 1) <= Len(Bytes(ms))
           /\ \A p \in 1 .. 4 + Len(ms[i + 1].body) :
                 Bytes(ms)[End(ms, i) + p] = Wire(ms[i + 1])[p]
  <1> DEFINE b == End(ms, i)
             w == Wire(ms[i + 1])
             n == Len(ms[i + 1].body)
             u == Bytes(SubSeq(ms, 1, i))
             v == Bytes(SubSeq(ms, 1, i + 1))
  <1>1. Len(ms) \in Nat /\ i \in Nat /\ i + 1 \in 0 .. Len(ms) /\ Len(ms) \in i + 1 .. Len(ms)
        /\ i \in 0 .. Len(ms) /\ Len(ms) \in 0 .. Len(ms)
    OBVIOUS
  <1>2. u \in Seq(Symbol) /\ ms[i + 1] \in SentMessage /\ v = u \o w
    BY BytesUpTo
  <1>3. w \in Seq(Symbol) /\ n \in Nat /\ Len(w) = 4 + n
    BY <1>2, WireIs
  <1>4. SubSeq(ms, 1, Len(ms)) = ms
    BY <1>1
  <1>5. /\ Len(v) \in Nat /\ Len(v) <= Len(Bytes(ms))
        /\ \A p \in 1 .. Len(v) : Bytes(ms)[p] = v[p]
    BY <1>1, <1>4, BytesBefore DEF End
  <1>6. b = Len(u) /\ End(ms, i + 1) = Len(v)
    BY DEF End
  <1> HIDE DEF u, v, w, b, n
  <1>7. b \in Nat
    BY <1>2, <1>6
  <1>8. Len(v) = b + (4 + n) /\ \A p \in 1 .. b + (4 + n) : v[p] = IF p <= b THEN u[p] ELSE w[p - b]
    <2>1. /\ Len(u \o w) = Len(u) + Len(w)
          /\ \A p \in 1 .. Len(u) + Len(w) : (u \o w)[p] = IF p <= Len(u) THEN u[p] ELSE w[p - Len(u)]
      BY <1>2, <1>3, ConcatProperties
    <2> QED
      BY <2>1, <1>2, <1>3, <1>6
  <1>9. ASSUME NEW p \in 1 .. 4 + n PROVE Bytes(ms)[b + p] = w[p]
    <2>1. b + p \in 1 .. b + (4 + n) /\ ~ (b + p <= b) /\ (b + p) - b = p
      BY <1>3, <1>7
    <2>2. v[b + p] = w[p]
      BY <2>1, <1>8
    <2> QED
      BY <2>1, <2>2, <1>5, <1>8
  <1>10. Len(v) = b + 4 + n
    BY <1>3, <1>7, <1>8
  <1> QED
    BY <1>2, <1>5, <1>6, <1>7, <1>9, <1>10 DEF b, n, w

-----------------------------------------------------------------------------
\* The words that messages of a direction begin with.
Words(d) == IF d = "request" THEN Valid ELSE {"HTTP/"}

\* The beginning of what was sent has come.
Captured(d) ==
    /\ stream[d] \in Seq(Symbol)
    /\ Len(stream[d]) <= Len(Bytes(Sent(d)))
    /\ \A i \in 1 .. Len(stream[d]) : stream[d][i] = Bytes(Sent(d))[i]

StreamInv ==
    /\ exchanges \in Seq(Exchanges)
    /\ \A d \in Direction : Captured(d)

LEMMA SendableIs ==
    ASSUME NEW words, NEW m \in Sendable(words)
    PROVE  /\ m \in SentMessage /\ m.line # CRLF /\ m.line \in DOMAIN Header
           /\ m.line \in DOMAIN Opening /\ Opening[m.line] \in words
  BY DEF Sendable, SentMessage

LEMMA SentType ==
    ASSUME exchanges \in Seq(Exchanges), NEW d \in Direction
    PROVE  Sent(d) \in Seq(Sendable(Words(d))) /\ Sent(d) \in Seq(SentMessage)
  <1> DEFINE T == Sendable(Words(d))
             t == [i \in DOMAIN exchanges |->
                     IF d = "request" THEN <<exchanges[i].request>> ELSE exchanges[i].responses]
  <1>1. Len(exchanges) \in Nat /\ DOMAIN exchanges = 1 .. Len(exchanges)
        /\ \A i \in 1 .. Len(exchanges) : exchanges[i] \in Exchanges
    OBVIOUS
  <1>2. ASSUME NEW i \in 1 .. Len(exchanges) PROVE t[i] \in Seq(T)
    <2>1. exchanges[i].request \in Sendable(Valid) /\ exchanges[i].responses \in Seq(Sendable({"HTTP/"}))
      BY <1>1, ExchangesAssumption
    <2>2. t[i] = IF d = "request" THEN <<exchanges[i].request>> ELSE exchanges[i].responses
      BY <1>1
    <2>3. CASE d = "request"
      <3>1. T = Sendable(Valid)
        BY <2>3 DEF Words
      <3>2. <<exchanges[i].request>> \in Seq(T)
        BY <2>1, <3>1
      <3> QED
        BY <2>2, <2>3, <3>2
    <2>4. CASE d # "request"
      <3>1. T = Sendable({"HTTP/"})
        BY <2>4 DEF Words
      <3> QED
        BY <2>1, <2>2, <2>4, <3>1
    <2> QED
      BY <2>3, <2>4
  <1>3. t = [i \in 1 .. Len(exchanges) |-> t[i]]
    BY <1>1
  <1> HIDE DEF t, T
  <1>4. t \in Seq(Seq(T))
    BY <1>1, <1>2, <1>3
  <1>5. << >> \in Seq(T)
    OBVIOUS
  <1>6. FlattenSeq(t) \in Seq(T)
    BY <1>4, <1>5, FlattenAppend
  <1>7. Sent(d) \in Seq(T)
    BY <1>6, Zenon DEF Sent, t
  <1>8. \A m \in T : m \in SentMessage
    BY SendableIs DEF T
  <1>9. Sent(d) \in Seq(SentMessage)
    BY <1>7, <1>8
  <1> QED
    BY <1>7, <1>9 DEF T

\* What the stream has of a message.
LEMMA DataAt ==
    ASSUME StreamInv, parsing \in Direction, NEW i \in 0 .. Len(Sent(parsing)) - 1
    PROVE  LET m == Sent(parsing)[i + 1]
               b == End(Sent(parsing), i)
           IN  /\ m \in Sendable(Words(parsing)) /\ m \in SentMessage
               /\ b \in Nat /\ Len(Data) \in Nat /\ Len(m.body) \in Nat
               /\ End(Sent(parsing), i + 1) = b + 4 + Len(m.body)
               /\ \A p \in 1 .. 4 + Len(m.body) : b + p <= Len(Data) => Data[b + p] = Wire(m)[p]
  <1> DEFINE ms == Sent(parsing)
             m == ms[i + 1]
             b == End(ms, i)
  <1>1. ms \in Seq(Sendable(Words(parsing))) /\ ms \in Seq(SentMessage)
    BY SentType DEF StreamInv
  <1>2. /\ Data \in Seq(Symbol) /\ Len(Data) <= Len(Bytes(ms))
        /\ \A p \in 1 .. Len(Data) : Data[p] = Bytes(ms)[p]
    BY DEF StreamInv, Captured, Data
  <1>3. m \in Sendable(Words(parsing))
    BY <1>1
  <1> HIDE DEF ms
  <1>4. /\ b \in Nat /\ m \in SentMessage /\ End(ms, i + 1) = b + 4 + Len(m.body)
        /\ \A p \in 1 .. 4 + Len(m.body) : Bytes(ms)[b + p] = Wire(m)[p]
    BY <1>1, MessageAt DEF ms
  <1>5. Len(Data) \in Nat /\ Len(m.body) \in Nat
    BY <1>2, <1>4, WireIs
  <1> HIDE DEF m, b
  <1>6. ASSUME NEW p \in 1 .. 4 + Len(m.body), b + p <= Len(Data)
        PROVE  Data[b + p] = Wire(m)[p]
    <2>1. b + p \in 1 .. Len(Data)
      BY <1>4, <1>5, <1>6
    <2> QED
      BY <2>1, <1>2, <1>4
  <1> QED
    BY <1>3, <1>4, <1>5, <1>6 DEF m, b, ms

\* Where a message begins, the loop finds its header, if it was captured.
LEMMA HeaderAt ==
    ASSUME StreamInv, parsing \in Direction, NEW i \in 0 .. Len(Sent(parsing)) - 1,
           offset = End(Sent(parsing), i) + 1, offset <= Len(Data)
    PROVE  LET m == Sent(parsing)[i + 1]
           IN  /\ Data[offset] = m.line /\ m.line # CRLF /\ At = offset /\ Opens(At, Valid)
               /\ \A h \in HeaderEnds : offset + 3 <= Len(Data) /\ (First(h, HeaderEnds) => h = offset + 2)
               /\ offset + 3 <= Len(Data) => offset + 2 \in HeaderEnds
               /\ offset + 3 <= Len(Data) => Fields(offset + 2) = Header[m.line]
  <1> DEFINE m == Sent(parsing)[i + 1]
             b == End(Sent(parsing), i)
             n == Len(m.body)
  <1>1. /\ m \in Sendable(Words(parsing)) /\ m \in SentMessage
        /\ b \in Nat /\ Len(Data) \in Nat /\ n \in Nat
        /\ \A p \in 1 .. 4 + n : b + p <= Len(Data) => Data[b + p] = Wire(m)[p]
    BY DataAt
  <1>2. offset = b + 1 /\ offset <= Len(Data) /\ offset \in Nat /\ At = offset
    BY <1>1 DEF At, Place
  <1> HIDE DEF m, b, n
  <1>3. /\ m.line # CRLF /\ m.line \in DOMAIN Header /\ m.line \in DOMAIN Opening
        /\ Opening[m.line] \in Words(parsing)
    BY <1>1, SendableIs
  <1>4. Wire(m)[1] = m.line /\ Wire(m)[2] = Rest /\ Wire(m)[3] = CRLF /\ Wire(m)[4] = CRLF
    BY <1>1, WireIs
  <1>5. Rest # CRLF /\ Rest \notin DOMAIN Header
    BY ExchangesAssumption
  <1>6. 1 \in 1 .. 4 + n /\ 2 \in 1 .. 4 + n /\ 3 \in 1 .. 4 + n /\ 4 \in 1 .. 4 + n
    BY <1>1
  <1>7. /\ Data[offset] = m.line
        /\ offset + 1 <= Len(Data) => Data[offset + 1] = Rest
        /\ offset + 2 <= Len(Data) => Data[offset + 2] = CRLF
        /\ offset + 3 <= Len(Data) => Data[offset + 3] = CRLF
    <2>1. b + 1 = offset /\ b + 2 = offset + 1 /\ b + 3 = offset + 2 /\ b + 4 = offset + 3
      BY <1>1, <1>2
    <2> QED
      BY <2>1, <1>1, <1>2, <1>4, <1>6
  <1>8. Opens(At, Valid)
    BY <1>2, <1>3, <1>7 DEF Opens, Words
  <1>9. ASSUME NEW h \in HeaderEnds PROVE h >= offset + 2 /\ h \in Int /\ h <= Len(Data) - 1
    <2>1. h \in Int /\ offset <= h /\ h <= Len(Data) - 1 /\ Data[h] = CRLF
      BY <1>1, <1>2 DEF HeaderEnds
    <2>2. h # offset
      BY <2>1, <1>3, <1>7
    <2>3. h # offset + 1
      BY <2>1, <1>1, <1>2, <1>5, <1>7
    <2> QED
      BY <2>1, <2>2, <2>3, <1>2
  <1>10. offset + 3 <= Len(Data) => offset + 2 \in HeaderEnds
    <2> SUFFICES ASSUME offset + 3 <= Len(Data) PROVE offset + 2 \in HeaderEnds
      OBVIOUS
    <2>1. offset + 2 \in offset .. Len(Data) - 1 /\ offset + 2 <= Len(Data) /\ (offset + 2) + 1 = offset + 3
      BY <1>1, <1>2
    <2> QED
      BY <2>1, <1>2, <1>7 DEF HeaderEnds
  <1>11. ASSUME NEW h \in HeaderEnds, First(h, HeaderEnds) PROVE h = offset + 2
    <2>1. h >= offset + 2 /\ h \in Int /\ offset + 3 <= Len(Data)
      BY <1>1, <1>2, <1>9
    <2>2. h <= offset + 2
      BY <2>1, <1>10, <1>11 DEF First
    <2> QED
      BY <2>1, <2>2, <1>2
  <1>12. ASSUME offset + 3 <= Len(Data) PROVE Fields(offset + 2) = Header[m.line]
    <2> DEFINE lines == {j \in offset .. (offset + 2) - 1 : Data[j] \in DOMAIN Header}
    <2>1. \A j \in offset .. (offset + 2) - 1 : j = offset \/ j = offset + 1
      BY <1>2
    <2>2. offset \in lines
      BY <1>2, <1>3, <1>7
    <2>3. offset + 1 \notin lines
      BY <1>1, <1>2, <1>5, <1>7, <1>12
    <2>4. lines = {offset}
      BY <2>1, <2>2, <2>3
    <2>5. Fields(offset + 2) = IF lines = {} THEN NoFields
                               ELSE Header[Data[CHOOSE j \in lines : \A k \in lines : k <= j]]
      BY <1>2 DEF Fields
    <2> HIDE DEF lines
    <2>6. (CHOOSE j \in lines : \A k \in lines : k <= j) = offset
      BY <2>4, <1>2
    <2> QED
      BY <2>4, <2>5, <2>6, <1>7
  <1> QED
    BY <1>1, <1>2, <1>3, <1>7, <1>8, <1>9, <1>10, <1>11, <1>12 DEF m

\* The loop is at the beginning of the message after the i-th, of which the
\* header was captured and the end can be told.
AtMessage(i) ==
    /\ StreamInv
    /\ parsing \in Direction
    /\ i \in 0 .. Len(Sent(parsing)) - 1
    /\ offset = End(Sent(parsing), i) + 1
    /\ At = offset /\ offset + 3 <= Len(Data)
    /\ Delimited(parsing, i + 1)

\* It finds it: up to its end, or what there is of it.
FoundAsSent(i) ==
    LET end == End(Sent(parsing), i + 1)
        last == IF end <= Len(Data) THEN end ELSE Len(Data)
    IN  /\ Found(offset + 2, last)
        /\ \/ offset' = last + 1 /\ UNCHANGED parsing
           \/ FinishDirection /\ Len(Data) <= end

LEMMA BodyAt ==
    ASSUME NEW i, AtMessage(i)
    PROVE  LET m == Sent(parsing)[i + 1]
               n == Len(m.body)
               h == offset + 2
           IN  /\ h \in Nat /\ Len(Data) \in Nat /\ h + 1 <= Len(Data) /\ n \in Nat
               /\ m \in Sendable(Words(parsing)) /\ DOMAIN m.body = 1 .. n
               /\ End(Sent(parsing), i + 1) = h + 1 + n
               /\ \A p \in 1 .. n : h + 1 + p <= Len(Data) => Data[h + 1 + p] = m.body[p]
               /\ Fields(h) = Header[m.line]
  <1> DEFINE m == Sent(parsing)[i + 1]
             b == End(Sent(parsing), i)
             n == Len(m.body)
             h == offset + 2
  <1>1. /\ m \in Sendable(Words(parsing)) /\ m \in SentMessage
        /\ b \in Nat /\ Len(Data) \in Nat /\ n \in Nat
        /\ End(Sent(parsing), i + 1) = b + 4 + n
        /\ \A p \in 1 .. 4 + n : b + p <= Len(Data) => Data[b + p] = Wire(m)[p]
    BY DataAt DEF AtMessage
  <1>2. offset = b + 1 /\ offset + 3 <= Len(Data)
    BY DEF AtMessage
  <1>3. Fields(h) = Header[m.line]
    <2>1. offset <= Len(Data)
      BY <1>1, <1>2
    <2> QED
      BY <2>1, <1>2, HeaderAt DEF AtMessage
  <1>4. DOMAIN m.body = 1 .. n /\ \A p \in 1 .. n : Wire(m)[4 + p] = m.body[p]
    <2>1. m.body \in Seq(Symbol)
      BY <1>1 DEF SentMessage
    <2> QED
      BY <2>1, <1>1, WireIs
  <1> HIDE DEF m, b, n
  <1>5. h \in Nat /\ h + 1 = b + 4 /\ h + 1 <= Len(Data) /\ b + 4 + n = h + 1 + n
    BY <1>1, <1>2
  <1>6. ASSUME NEW p \in 1 .. n, h + 1 + p <= Len(Data) PROVE Data[h + 1 + p] = m.body[p]
    <2>1. 4 + p \in 1 .. 4 + n /\ b + (4 + p) = h + 1 + p
      BY <1>1, <1>5
    <2> QED
      BY <2>1, <1>1, <1>4, <1>6
  <1> QED
    BY <1>1, <1>3, <1>4, <1>5, <1>6 DEF m, n

\* A place behind the header is where it is.
LEMMA FoundUpToIs ==
    ASSUME NEW h, NEW last \in Nat, FoundUpTo(h, last)
    PROVE  Found(h, last) /\ offset' = last + 1 /\ UNCHANGED parsing
  <1>1. Place(Data, last + 1) - 1 = last
    BY DEF Place
  <1> QED
    BY <1>1, Zenon DEF FoundUpTo

LEMMA DelimitedAsSent ==
    ASSUME NEW i, AtMessage(i), ReadDelimited(offset + 2)
    PROVE  FoundAsSent(i)
  <1> DEFINE m == Sent(parsing)[i + 1]
             n == Len(m.body)
             h == offset + 2
             end == End(Sent(parsing), i + 1)
  <1>1. /\ h \in Nat /\ Len(Data) \in Nat /\ h + 1 <= Len(Data) /\ n \in Nat
        /\ end = h + 1 + n /\ Fields(h) = Header[m.line]
    BY BodyAt
  <1>2. Fields(h).length # NoLength
        /\ FoundUpTo(h, IF h + 1 + Fields(h).length < Len(Data) THEN h + 1 + Fields(h).length ELSE Len(Data))
    BY DEF ReadDelimited
  <1>3. Delimited(parsing, i + 1)
    BY DEF AtMessage
  <1>4. Header[m.line].length = n
    BY <1>1, <1>2, <1>3 DEF Delimited
  <1>5. (IF h + 1 + n < Len(Data) THEN h + 1 + n ELSE Len(Data)) = IF end <= Len(Data) THEN end ELSE Len(Data)
    <2> HIDE DEF h, n, end
    <2> QED
      BY <1>1
  <1>6. FoundUpTo(h, IF end <= Len(Data) THEN end ELSE Len(Data))
    BY <1>1, <1>2, <1>4, <1>5, Zenon
  <1>7. (IF end <= Len(Data) THEN end ELSE Len(Data)) \in Nat
    <2> HIDE DEF h, n, end
    <2> QED
      BY <1>1
  <1> QED
    BY <1>6, <1>7, FoundUpToIs DEF FoundAsSent

LEMMA ChunkedAsSent ==
    ASSUME NEW i, AtMessage(i), ReadChunked(offset + 2)
    PROVE  FoundAsSent(i)
  <1> DEFINE m == Sent(parsing)[i + 1]
             body == m.body
             n == Len(m.body)
             h == offset + 2
             end == End(Sent(parsing), i + 1)
             LooksLast(k) == /\ body[k] \in ZeroEnd /\ k + 2 <= n
                             /\ body[k + 1] = CRLF /\ body[k + 2] = CRLF
  <1>1. /\ h \in Nat /\ Len(Data) \in Nat /\ h + 1 <= Len(Data) /\ n \in Nat
        /\ DOMAIN body = 1 .. n
        /\ end = h + 1 + n /\ Fields(h) = Header[m.line]
        /\ \A p \in 1 .. n : h + 1 + p <= Len(Data) => Data[h + 1 + p] = body[p]
    BY BodyAt
  <1>2. /\ Fields(h).length = NoLength /\ Fields(h).chunked
        /\ \/ \E t \in LastChunks(h + 2) : First(t, LastChunks(h + 2)) /\ FoundUpTo(h, t + 2)
           \/ LastChunks(h + 2) = {} /\ FoundLast(h)
    BY DEF ReadChunked
  <1>3. n > 2 /\ \A k \in 1 .. n : LooksLast(k) <=> k + 2 = n
    <2>1. Delimited(parsing, i + 1)
      BY DEF AtMessage
    <2>2. NoLength # n
      BY <1>1, MessagesAssumption
    <2> QED
      BY <2>1, <2>2, <1>1, <1>2 DEF Delimited
  <1> HIDE DEF m, body, n, h, end
  <1>4. ASSUME NEW t \in LastChunks(h + 2), t + 2 <= end PROVE t + 2 = end
    <2> DEFINE k == t - (h + 1)
    <2>1. t \in Int /\ h + 2 <= t /\ t + 2 <= Len(Data) /\ Data[t] \in ZeroEnd /\ Data[t + 1] = CRLF /\ Data[t + 2] = CRLF
      BY <1>1 DEF LastChunks
    <2>2. /\ k \in 1 .. n /\ k + 1 \in 1 .. n /\ k + 2 \in 1 .. n /\ k + 2 <= n
          /\ h + 1 + k = t /\ h + 1 + (k + 1) = t + 1 /\ h + 1 + (k + 2) = t + 2
      BY <2>1, <1>1, <1>4
    <2> HIDE DEF k
    <2>3. Data[t] = body[k] /\ Data[t + 1] = body[k + 1] /\ Data[t + 2] = body[k + 2]
      <3>1. t <= Len(Data) /\ t + 1 <= Len(Data)
        BY <2>1, <1>1
      <3> QED
        BY <3>1, <2>1, <2>2, <1>1
    <2>4. k + 2 = n
      BY <2>1, <2>2, <2>3, <1>3
    <2> QED
      BY <2>2, <2>4, <1>1
  <1>5. CASE end <= Len(Data)
    <2> DEFINE t == end - 2
    <2>1. t \in Nat /\ t \in h + 2 .. Len(Data) - 2 /\ t + 2 = end /\ t + 1 = h + 1 + (n - 1) /\ t = h + 1 + (n - 2) /\ t + 2 = h + 1 + n
          /\ t <= Len(Data) /\ t + 1 <= Len(Data) /\ t + 2 <= Len(Data)
          /\ n - 2 \in 1 .. n /\ n - 1 \in 1 .. n /\ n \in 1 .. n
          /\ (n - 2) + 1 = n - 1 /\ (n - 2) + 2 = n
      BY <1>1, <1>3, <1>5
    <2> HIDE DEF t
    <2>2. body[n - 2] \in ZeroEnd /\ body[n - 1] = CRLF /\ body[n] = CRLF
      BY <2>1, <1>3
    <2>3. Data[t] = body[n - 2] /\ Data[t + 1] = body[n - 1] /\ Data[t + 2] = body[n]
      BY <2>1, <1>1
    <2>4. t \in LastChunks(h + 2)
      BY <2>1, <2>2, <2>3 DEF LastChunks
    <2>5. PICK s \in LastChunks(h + 2) : First(s, LastChunks(h + 2)) /\ FoundUpTo(h, s + 2)
      BY <2>4, <1>2
    <2>6. s <= t /\ s \in Int
      BY <2>4, <2>5, <1>1 DEF First, LastChunks
    <2>7. s + 2 = end
      <3>1. s + 2 <= end
        BY <2>1, <2>6
      <3> QED
        BY <3>1, <2>5, <1>4, Zenon
    <2>8. FoundUpTo(h, end)
      BY <2>5, <2>7
    <2> QED
      <3>1. end \in Nat
        BY <1>1
      <3>2. Found(h, end) /\ offset' = end + 1 /\ UNCHANGED parsing
        BY <2>8, <3>1, FoundUpToIs
      <3> QED
        BY <3>2, <1>5 DEF FoundAsSent, h, end
  <1>6. CASE ~ (end <= Len(Data))
    <2>1. \A t \in LastChunks(h + 2) : t + 2 <= Len(Data) /\ t \in Int
      BY <1>1 DEF LastChunks
    <2>2. LastChunks(h + 2) = {}
      <3> SUFFICES ASSUME NEW t \in LastChunks(h + 2) PROVE FALSE
        OBVIOUS
      <3>1. t + 2 <= Len(Data) /\ t + 2 <= end /\ t \in Int /\ end \in Int
        BY <2>1, <1>1, <1>6
      <3>2. t + 2 = end
        BY <3>1, <1>4
      <3> QED
        BY <3>1, <3>2, <1>1, <1>6
    <2>3. FoundLast(h)
      BY <2>2, <1>2
    <2>4. Len(Data) <= end
      BY <1>1, <1>6
    <2> QED
      BY <2>3, <2>4, <1>6 DEF FoundAsSent, FoundLast, h, end
  <1> QED
    BY <1>5, <1>6

LEMMA UntilNextAsSent ==
    ASSUME NEW i, AtMessage(i), ReadUntilNext(offset + 2)
    PROVE  FoundAsSent(i)
  <1> DEFINE m == Sent(parsing)[i + 1]
             body == m.body
             n == Len(m.body)
             h == offset + 2
             end == End(Sent(parsing), i + 1)
             N == NextOpenings(h + 2)
  <1>1. /\ h \in Nat /\ Len(Data) \in Nat /\ h + 1 <= Len(Data) /\ n \in Nat
        /\ DOMAIN body = 1 .. n
        /\ end = h + 1 + n /\ Fields(h) = Header[m.line]
        /\ \A p \in 1 .. n : h + 1 + p <= Len(Data) => Data[h + 1 + p] = body[p]
    BY BodyAt
  <1>2. /\ Fields(h).length = NoLength /\ ~Fields(h).chunked
        /\ \/ \E t \in N : First(t, N) /\ FoundUpTo(h, t - 1)
           \/ N = {} /\ FoundLast(h)
    BY DEF ReadUntilNext
  <1>3. /\ i + 1 < Len(Sent(parsing)) => Opening[Sent(parsing)[(i + 1) + 1].line] \in Searched \union {"HTTP/"}
        /\ \A k \in 1 .. n : body[k] \in DOMAIN Opening => (Opening[body[k]] = "HTTP/") = (parsing = "request")
    <2>1. Delimited(parsing, i + 1)
      BY DEF AtMessage
    <2>2. NoLength # n
      BY <1>1, MessagesAssumption
    <2> QED
      BY <2>1, <2>2, <1>1, <1>2 DEF Delimited
  <1>4. i \in 0 .. Len(Sent(parsing)) - 1 /\ Len(Sent(parsing)) \in Nat /\ StreamInv /\ parsing \in Direction
    <2>1. Sent(parsing) \in Seq(SentMessage)
      BY SentType DEF AtMessage, StreamInv
    <2> QED
      BY <2>1 DEF AtMessage
  <1> HIDE DEF m, body, n, h, end
  <1>5. ASSUME NEW t \in N PROVE t \in Int /\ t > end /\ t <= Len(Data)
    <2>1. t \in Int /\ h + 2 <= t /\ t <= Len(Data) /\ Opens(t, Searched)
      BY <1>1 DEF NextOpenings
    <2>2. CASE t <= end
      <3> DEFINE k == t - (h + 1)
      <3>1. k \in 1 .. n /\ h + 1 + k = t
        BY <2>1, <2>2, <1>1
      <3> HIDE DEF k
      <3>2. Data[t] = body[k]
        BY <3>1, <2>1, <1>1
      <3>3. /\ body[k] \in DOMAIN Opening
            /\ Opening[body[k]] \in IF parsing = "request" THEN Searched ELSE {"HTTP/"}
        BY <3>2, <2>1 DEF Opens
      <3>4. (Opening[body[k]] = "HTTP/") = (parsing = "request")
        BY <3>1, <3>3, <1>3
      <3>5. "HTTP/" \notin Searched
        BY DEF Searched
      <3> QED
        BY <3>3, <3>4, <3>5
    <2>3. end \in Int
      BY <1>1
    <2> QED
      BY <2>1, <2>2, <2>3
  <1>6. CASE end < Len(Data)
    <2>1. i + 1 \in 0 .. Len(Sent(parsing)) - 1
      <3>1. CASE i + 1 = Len(Sent(parsing))
        <4>1. Sent(parsing) \in Seq(SentMessage)
          BY <1>4, SentType DEF StreamInv
        <4>2. SubSeq(Sent(parsing), 1, Len(Sent(parsing))) = Sent(parsing)
          BY <4>1
        <4>3. end = Len(Bytes(Sent(parsing)))
          BY <4>2, <3>1 DEF end, End
        <4>4. Len(Data) <= Len(Bytes(Sent(parsing)))
          BY <1>4 DEF StreamInv, Captured, Data
        <4> QED
          BY <4>3, <4>4, <1>1, <1>6
      <3> QED
        BY <3>1, <1>4
    <2> DEFINE m2 == Sent(parsing)[(i + 1) + 1]
    <2>2. /\ m2 \in Sendable(Words(parsing)) /\ m2 \in SentMessage /\ Len(m2.body) \in Nat
          /\ \A p \in 1 .. 4 + Len(m2.body) : end + p <= Len(Data) => Data[end + p] = Wire(m2)[p]
      BY <2>1, <1>4, DataAt DEF end
    <2> HIDE DEF m2
    <2>3. end + 1 <= Len(Data) /\ 1 \in 1 .. 4 + Len(m2.body) /\ end + 1 \in h + 2 .. Len(Data)
      BY <2>2, <1>1, <1>6
    <2>4. Data[end + 1] = m2.line
      BY <2>2, <2>3, WireIs
    <2>5. m2.line \in DOMAIN Opening /\ Opening[m2.line] \in Words(parsing)
      BY <2>2, SendableIs
    <2>6. Opening[m2.line] \in Searched \union {"HTTP/"}
      BY <2>1, <1>3, <1>4 DEF m2
    <2>7. Opens(end + 1, Searched)
      BY <2>4, <2>5, <2>6 DEF Opens, Words, Valid, Searched
    <2>8. end + 1 \in N
      BY <2>3, <2>7 DEF NextOpenings
    <2>9. PICK t \in N : First(t, N) /\ FoundUpTo(h, t - 1)
      BY <2>8, <1>2
    <2>10. t <= end + 1 /\ t > end /\ t \in Int /\ end \in Int
      BY <2>8, <2>9, <1>1, <1>5 DEF First
    <2>11. t - 1 = end
      BY <2>10
    <2>12. FoundUpTo(h, end) /\ end <= Len(Data)
      BY <2>9, <2>11, <1>1, <1>6
    <2> QED
      <3>1. end \in Nat
        BY <1>1
      <3>2. Found(h, end) /\ offset' = end + 1 /\ UNCHANGED parsing
        BY <2>12, <3>1, FoundUpToIs
      <3> QED
        BY <3>2, <2>12 DEF FoundAsSent, h, end
  <1>7. CASE ~ (end < Len(Data))
    <2>1. N = {}
      BY <1>1, <1>5, <1>7
    <2>2. FoundLast(h)
      BY <2>1, <1>2
    <2>3. Len(Data) <= end /\ (IF end <= Len(Data) THEN end ELSE Len(Data)) = Len(Data)
      BY <1>1, <1>7
    <2> QED
      BY <2>2, <2>3 DEF FoundAsSent, FoundLast, h, end
  <1> QED
    BY <1>6, <1>7

-----------------------------------------------------------------------------
\* A message as it was sent, as far as it was captured.
AsSent(d, i) ==
    [line |-> Sent(d)[i].line, header |-> Header[Sent(d)[i].line],
     begin |-> HeaderEnd(d, i) - 3, first |-> HeaderEnd(d, i) + 1, last |-> Min({BodyEnd(d, i), Len(stream[d])})]

\* A direction that the loop is through with.
Past(d) == parsing = "done" \/ (parsing = "response" /\ d = "request")

\* What is found in a direction are its first messages, and the loop is
\* behind the last of them until there is no header left.
InStep(d) ==
    LET k == Len(messages[d])
    IN  /\ k <= Len(Sent(d))
        /\ \A i \in 1 .. k : messages[d][i] = AsSent(d, i) /\ HeaderEnd(d, i) <= Len(stream[d])
        /\ parsing = d => offset = Min({BodyEnd(d, k), Len(stream[d])}) + 1
        /\ Past(d) => k = Len(Sent(d)) \/ HeaderEnd(d, k + 1) > Len(stream[d])

SentInv ==
    /\ IInv
    /\ StreamInv
    /\ \A d \in Direction : Framed(d) => InStep(d)

LEMMA EndTypes ==
    ASSUME StreamInv, NEW d \in Direction, NEW i \in 0 .. Len(Sent(d))
    PROVE  /\ End(Sent(d), i) \in Nat /\ BodyEnd(d, i) = End(Sent(d), i)
           /\ HeaderEnd(d, i + 1) = End(Sent(d), i) + 4
           /\ Len(Sent(d)) \in Nat /\ Len(stream[d]) \in Nat
           /\ i = 0 => End(Sent(d), i) = 0
           /\ i = Len(Sent(d)) => Len(stream[d]) <= End(Sent(d), i)
  <1>1. Sent(d) \in Seq(SentMessage)
    BY SentType DEF StreamInv
  <1>2. Len(Sent(d)) \in Nat /\ i \in Nat /\ Len(Sent(d)) \in i .. Len(Sent(d))
    BY <1>1
  <1>3. End(Sent(d), i) \in Nat
    BY <1>1, <1>2, BytesBefore
  <1>4. HeaderEnd(d, i + 1) = End(Sent(d), i) + 4
    <2>1. (i + 1) - 1 = i
      BY <1>2
    <2> QED
      BY <2>1 DEF HeaderEnd, End
  <1>5. ASSUME i = 0 PROVE End(Sent(d), i) = 0
    <2>1. SubSeq(Sent(d), 1, 0) = << >>
      BY <1>1
    <2>2. << >> \in Seq(SentMessage) /\ Len(<< >>) = 0
      OBVIOUS
    <2>3. Bytes(<< >>) = << >>
      BY <2>2, BytesGrow
    <2> QED
      BY <2>1, <2>2, <2>3, <1>5, Zenon DEF End
  <1>6. ASSUME i = Len(Sent(d)) PROVE Len(stream[d]) <= End(Sent(d), i)
    <2>1. SubSeq(Sent(d), 1, Len(Sent(d))) = Sent(d)
      BY <1>1
    <2> QED
      BY <2>1, <1>6 DEF StreamInv, Captured, End
  <1>7. Len(stream[d]) \in Nat
    BY DEF StreamInv, Captured
  <1> QED
    BY <1>2, <1>3, <1>4, <1>5, <1>6, <1>7 DEF BodyEnd, End

\* What a round can do: find the next message as it was sent, or finish the
\* direction when there is none whose header was captured.
LEMMA RoundIs ==
    ASSUME SentInv, Round, Framed(parsing)
    PROVE  LET k == Len(messages[parsing])
           IN  \/ /\ FinishDirection /\ UNCHANGED messages
                  /\ k = Len(Sent(parsing)) \/ HeaderEnd(parsing, k + 1) > Len(Data)
               \/ /\ k \in 0 .. Len(Sent(parsing)) - 1
                  /\ offset = End(Sent(parsing), k) + 1 /\ At = offset /\ offset + 3 <= Len(Data)
                  /\ Fields(offset + 2) = Header[Sent(parsing)[k + 1].line]
                  /\ Data[offset] = Sent(parsing)[k + 1].line
                  /\ FoundAsSent(k)
  <1> DEFINE k == Len(messages[parsing])
             S == Sent(parsing)
             b == End(S, k)
  <1>1. parsing \in Direction /\ StreamInv /\ InStep(parsing)
    BY DEF SentInv, IInv, MessagesTypeOK, Round
  <1>2. k \in Nat /\ k <= Len(S)
    <2>1. messages[parsing] \in Seq(Message)
      BY <1>1 DEF SentInv, IInv, MessagesTypeOK
    <2> QED
      BY <2>1, <1>1 DEF InStep
  <1>3. Len(S) \in Nat
    BY <1>1, SentType DEF StreamInv
  <1>4. k \in 0 .. Len(S)
    BY <1>2, <1>3
  <1>5. /\ b \in Nat /\ BodyEnd(parsing, k) = b /\ HeaderEnd(parsing, k + 1) = b + 4
        /\ Len(Data) \in Nat /\ k = Len(S) => Len(Data) <= b
    BY <1>1, <1>4, EndTypes DEF Data
  <1>6. offset = (IF b <= Len(Data) THEN b ELSE Len(Data)) + 1
    <2>1. offset = Min({b, Len(Data)}) + 1
      BY <1>1, <1>5 DEF InStep, Data
    <2> QED
      BY <2>1, <1>5, MinOfTwo
  <1> HIDE DEF k, S, b
  <1>7. CASE Len(Data) <= b
    <2>1. offset = Len(Data) + 1
      BY <1>5, <1>6, <1>7
    <2>2. HeaderEnds = {}
      BY <2>1, <1>5 DEF HeaderEnds, At, Place
    <2>3. Stop
      BY <2>2 DEF Round
    <2>4. HeaderEnd(parsing, k + 1) > Len(Data)
      BY <1>5, <1>7
    <2> QED
      BY <2>3, <2>4 DEF Stop, k
  <1>8. CASE ~ (Len(Data) <= b)
    <2>1. offset = b + 1 /\ offset <= Len(Data) /\ k \in 0 .. Len(S) - 1 /\ offset \in Nat
      BY <1>2, <1>3, <1>5, <1>6, <1>8
    <2> DEFINE m == S[k + 1]
    <2>2. /\ Data[offset] = m.line /\ m.line # CRLF /\ At = offset /\ Opens(At, Valid)
          /\ \A h \in HeaderEnds : offset + 3 <= Len(Data) /\ (First(h, HeaderEnds) => h = offset + 2)
          /\ offset + 3 <= Len(Data) => offset + 2 \in HeaderEnds
          /\ offset + 3 <= Len(Data) => Fields(offset + 2) = Header[m.line]
      BY <1>1, <2>1, HeaderAt DEF S, b
    <2>3. CASE Stop
      <3>1. HeaderEnds = {}
        BY <2>2, <2>3 DEF Stop
      <3>2. ~ (offset + 3 <= Len(Data))
        BY <3>1, <2>2
      <3>3. HeaderEnd(parsing, k + 1) > Len(Data)
        BY <3>2, <2>1, <1>5
      <3> QED
        BY <3>3, <2>3 DEF Stop, k
    <2>4. ASSUME NEW h \in HeaderEnds, First(h, HeaderEnds),
                 SkipBlock(h) \/ ReadDelimited(h) \/ ReadChunked(h) \/ ReadUntilNext(h)
          PROVE  FoundAsSent(k) /\ offset + 3 <= Len(Data)
      <3>1. h = offset + 2 /\ offset + 3 <= Len(Data)
        BY <2>2, <2>4
      <3>2. ~ SkipBlock(h)
        BY <2>2 DEF SkipBlock
      <3>3. Delimited(parsing, k + 1)
        <4>1. DOMAIN Sent(parsing) = 1 .. Len(S) /\ k + 1 \in 1 .. Len(S)
          <5>1. S \in Seq(SentMessage)
            BY <1>1, SentType DEF StreamInv, S
          <5> QED
            BY <5>1, <2>1, <1>3 DEF S
        <4> QED
          BY <4>1 DEF Framed
      <3>4. AtMessage(k)
        BY <1>1, <2>1, <2>2, <3>1, <3>3 DEF AtMessage, S, b
      <3> QED
        BY <2>4, <3>1, <3>2, <3>4, DelimitedAsSent, ChunkedAsSent, UntilNextAsSent
    <2>5. Stop \/ (FoundAsSent(k) /\ offset + 3 <= Len(Data))
      BY <2>4 DEF Round
    <2> QED
      BY <2>1, <2>2, <2>3, <2>5 DEF k, S, b
  <1> QED
    BY <1>7, <1>8

\* A round leaves the other direction's messages alone, and never goes back.
LEMMA OthersStay ==
    ASSUME SentInv, Round
    PROVE  /\ parsing \in Direction
           /\ \A d \in Direction \ {parsing} : messages'[d] = messages[d]
           /\ parsing' # parsing => FinishDirection
  <1>1. parsing \in Direction /\ messages \in [Direction -> Seq(Message)]
    BY DEF SentInv, IInv, MessagesTypeOK, Round
  <1>2. ASSUME NEW h, NEW last, Found(h, last)
        PROVE  \A d \in Direction \ {parsing} : messages'[d] = messages[d]
    BY <1>1, <1>2 DEF Found
  <1>3. CASE Stop
    BY <1>1, <1>3 DEF Stop
  <1>4. ASSUME NEW h, SkipBlock(h) \/ ReadDelimited(h) \/ ReadChunked(h) \/ ReadUntilNext(h)
        PROVE  /\ \A d \in Direction \ {parsing} : messages'[d] = messages[d]
               /\ parsing' # parsing => FinishDirection
    <2>1. ASSUME NEW last, FoundUpTo(h, last)
          PROVE  /\ \A d \in Direction \ {parsing} : messages'[d] = messages[d]
                 /\ parsing' = parsing
      BY <2>1, <1>2 DEF FoundUpTo
    <2>2. CASE FoundLast(h)
      BY <2>2, <1>2 DEF FoundLast
    <2>3. CASE SkipBlock(h)
      BY <2>3 DEF SkipBlock
    <2> QED
      BY <1>4, <2>1, <2>2, <2>3 DEF ReadDelimited, ReadChunked, ReadUntilNext
  <1> QED
    BY <1>1, <1>3, <1>4 DEF Round

LEMMA SentStays ==
    ASSUME exchanges' = exchanges, stream' = stream, NEW d \in Direction
    PROVE  /\ Sent(d)' = Sent(d)
           /\ Framed(d)' = Framed(d)
           /\ \A i : AsSent(d, i)' = AsSent(d, i)
           /\ \A i : HeaderEnd(d, i)' = HeaderEnd(d, i) /\ BodyEnd(d, i)' = BodyEnd(d, i)
  <1>1. Sent(d)' = Sent(d)
    BY Zenon DEF Sent
  <1>2. \A i : HeaderEnd(d, i)' = HeaderEnd(d, i) /\ BodyEnd(d, i)' = BodyEnd(d, i)
    BY <1>1, Zenon DEF HeaderEnd, BodyEnd
  <1>3. \A i : AsSent(d, i)' = AsSent(d, i)
    <2> SUFFICES ASSUME NEW i PROVE AsSent(d, i)' = AsSent(d, i)
      OBVIOUS
    <2>1. HeaderEnd(d, i)' = HeaderEnd(d, i) /\ BodyEnd(d, i)' = BodyEnd(d, i)
      BY <1>2
    <2> QED
      BY <1>1, <2>1, Zenon DEF AsSent
  <1>4. \A i : Delimited(d, i)' = Delimited(d, i)
    <2> SUFFICES ASSUME NEW i PROVE Delimited(d, i)' = Delimited(d, i)
      OBVIOUS
    <2> QED
      BY <1>1, Zenon DEF Delimited
  <1>5. Framed(d)' = Framed(d)
    BY <1>1, <1>4, Zenon DEF Framed
  <1> QED
    BY <1>1, <1>2, <1>3, <1>5

\* Every round keeps the invariant.
LEMMA RoundInStep ==
    ASSUME SentInv, Round, UNCHANGED exchanges, NEW d \in Direction, Framed(d)
    PROVE  InStep(d)'
  <1> DEFINE k == Len(messages[d])
             k2 == Len(messages'[d])
  <1>1. /\ StreamInv /\ InStep(d) /\ stream' = stream /\ exchanges' = exchanges
        /\ parsing \in Direction /\ messages \in [Direction -> Seq(Message)]
    BY DEF SentInv, IInv, MessagesTypeOK, Round
  <1>2. SUFFICES /\ k2 <= Len(Sent(d))
                 /\ \A i \in 1 .. k2 : messages'[d][i] = AsSent(d, i) /\ HeaderEnd(d, i) <= Len(stream[d])
                 /\ parsing' = d => offset' = Min({BodyEnd(d, k2), Len(stream[d])}) + 1
                 /\ Past(d)' => k2 = Len(Sent(d)) \/ HeaderEnd(d, k2 + 1) > Len(stream[d])
    <2>1. /\ Sent(d)' = Sent(d) /\ \A i : AsSent(d, i)' = AsSent(d, i)
          /\ \A i : HeaderEnd(d, i)' = HeaderEnd(d, i) /\ BodyEnd(d, i)' = BodyEnd(d, i)
      BY <1>1, SentStays
    <2> QED
      BY <2>1, <1>1, Zenon DEF InStep
  <1>3. Len(Sent(d)) \in Nat /\ k \in 0 .. Len(Sent(d)) /\ Len(stream[d]) \in Nat
    <2>1. messages[d] \in Seq(Message) /\ k <= Len(Sent(d))
      BY <1>1 DEF InStep
    <2>2. k \in Nat
      BY <2>1
    <2>3. Len(Sent(d)) \in Nat /\ Len(stream[d]) \in Nat
      BY <1>1, SentType DEF StreamInv, Captured
    <2> QED
      BY <2>1, <2>2, <2>3
  <1>4. CASE d # parsing
    <2>1. messages'[d] = messages[d] /\ (parsing' # parsing => FinishDirection)
      BY <1>4, OthersStay
    <2>2. Past(d)' => Past(d)
      BY <1>1, <1>4, <2>1 DEF Past, FinishDirection, Direction
    <2>3. ASSUME parsing' = d PROVE k = 0 /\ offset' = 1
      <3>1. FinishDirection /\ parsing = "request"
        BY <1>1, <1>4, <2>1, <2>3 DEF FinishDirection, Direction
      <3>2. messages["response"] = << >> /\ d = "response"
        BY <1>4, <3>1 DEF SentInv, IInv, FoundBehind, Direction
      <3> QED
        BY <3>1, <3>2 DEF FinishDirection
    <2>4. ASSUME parsing' = d PROVE offset' = Min({BodyEnd(d, k2), Len(stream[d])}) + 1
      <3>1. k2 = 0 /\ offset' = 1
        BY <2>1, <2>3, <2>4
      <3>2. BodyEnd(d, 0) = 0
        BY <1>1, <1>3, EndTypes
      <3>3. Min({0, Len(stream[d])}) = 0
        BY <1>3, MinOfTwo
      <3>4. offset' = 0 + 1
        BY <3>1
      <3> QED
        BY <3>1, <3>2, <3>3, <3>4, Zenon
    <2> QED
      BY <1>1, <2>1, <2>2, <2>4, Zenon DEF InStep
  <1>5. CASE d = parsing
    <2> DEFINE Found0 == /\ FinishDirection /\ UNCHANGED messages
                         /\ k = Len(Sent(d)) \/ HeaderEnd(d, k + 1) > Len(stream[d])
    <2>1. \/ Found0
          \/ /\ k \in 0 .. Len(Sent(d)) - 1
             /\ offset = End(Sent(d), k) + 1 /\ At = offset /\ offset + 3 <= Len(stream[d])
             /\ Fields(offset + 2) = Header[Sent(d)[k + 1].line]
             /\ Data[offset] = Sent(d)[k + 1].line
             /\ FoundAsSent(k)
      BY <1>5, RoundIs DEF Data
    <2>2. CASE Found0
      <3>1. parsing' # d
        BY <1>1, <1>5, <2>2 DEF FinishDirection, Direction
      <3> QED
        BY <1>1, <2>2, <3>1 DEF InStep
    <2>3. CASE ~ Found0
      <3> DEFINE end == End(Sent(d), k + 1)
                 last == IF end <= Len(stream[d]) THEN end ELSE Len(stream[d])
                 m == [line |-> Data[At], header |-> Fields(offset + 2), begin |-> At,
                       first |-> offset + 2 + 2, last |-> last]
      <3>1. /\ k \in 0 .. Len(Sent(d)) - 1
            /\ offset = End(Sent(d), k) + 1 /\ At = offset /\ offset + 3 <= Len(stream[d])
            /\ m.header = Header[Sent(d)[k + 1].line]
            /\ m.line = Sent(d)[k + 1].line
            /\ Found(offset + 2, last)
            /\ \/ offset' = last + 1 /\ UNCHANGED parsing
               \/ FinishDirection /\ Len(stream[d]) <= end
        BY <1>5, <2>1, <2>3, Zenon DEF FoundAsSent, Data
      <3>2. /\ End(Sent(d), k) \in Nat /\ HeaderEnd(d, k + 1) = End(Sent(d), k) + 4
            /\ end \in Nat /\ BodyEnd(d, k + 1) = end /\ HeaderEnd(d, (k + 1) + 1) = end + 4
        <4>1. k \in 0 .. Len(Sent(d)) /\ k + 1 \in 0 .. Len(Sent(d))
          BY <1>3, <3>1
        <4> QED
          BY <4>1, <1>1, EndTypes
      <3>3. last = Min({BodyEnd(d, k + 1), Len(stream[d])})
        <4>1. end \in Int /\ Len(stream[d]) \in Int
          BY <1>3, <3>2
        <4>2. Min({end, Len(stream[d])}) = last
          BY <4>1, MinOfTwo, Zenon
        <4>3. BodyEnd(d, k + 1) = end
          BY <3>2
        <4> QED
          BY <4>2, <4>3, Zenon
      <3>4. m.first = HeaderEnd(d, k + 1) + 1 /\ m.begin = HeaderEnd(d, k + 1) - 3 /\ HeaderEnd(d, k + 1) <= Len(stream[d])
        BY <1>3, <3>1, <3>2
      <3>5. m = AsSent(d, k + 1)
        BY <3>1, <3>3, <3>4 DEF AsSent
      <3>6. messages'[d] = Append(messages[d], m)
        <4>1. messages' = [messages EXCEPT ![parsing] = Append(messages[parsing], m)]
          BY <3>1 DEF Found
        <4> QED
          BY <4>1, <1>1, <1>5
      <3> HIDE DEF m, end, last
      <3>7. /\ k2 = k + 1 /\ messages'[d][k + 1] = m
            /\ \A i \in 1 .. k : messages'[d][i] = messages[d][i]
        <4>1. messages[d] \in Seq(Message)
          BY <1>1
        <4> QED
          BY <3>6, <4>1
      <3>8. ASSUME NEW i \in 1 .. k2
            PROVE  messages'[d][i] = AsSent(d, i) /\ HeaderEnd(d, i) <= Len(stream[d])
        <4>1. CASE i = k + 1
          BY <4>1, <3>4, <3>5, <3>7
        <4>2. CASE i # k + 1
          <5>1. i \in 1 .. k
            BY <4>2, <3>7, <1>3
          <5> QED
            BY <5>1, <3>7, <1>1 DEF InStep
        <4> QED
          BY <4>1, <4>2
      <3>9. ASSUME parsing' = d PROVE offset' = Min({BodyEnd(d, k2), Len(stream[d])}) + 1
        <4>1. ~ FinishDirection
          BY <3>9, <1>1, <1>5 DEF FinishDirection, Direction
        <4> QED
          BY <4>1, <3>1, <3>3, <3>7
      <3>10. ASSUME Past(d)' PROVE HeaderEnd(d, k2 + 1) > Len(stream[d])
        <4>1. Len(stream[d]) <= end
          <5>1. parsing' # parsing
            BY <3>10, <1>1, <1>5 DEF Past, Direction
          <5> QED
            BY <5>1, <3>1
        <4> QED
          BY <4>1, <3>2, <3>7, <1>3
      <3>11. k2 <= Len(Sent(d))
        BY <3>1, <3>7, <1>3
      <3> QED
        BY <3>8, <3>9, <3>10, <3>11, Zenon
    <2> QED
      BY <2>2, <2>3
  <1> QED
    BY <1>4, <1>5

-----------------------------------------------------------------------------
LEMMA InitStream == Init => stream \in [Direction -> Seq(Symbol)] /\ LoopInit /\ StreamInv
  <1> SUFFICES ASSUME Init PROVE stream \in [Direction -> Seq(Symbol)] /\ LoopInit /\ StreamInv
    OBVIOUS
  <1>1. exchanges \in Seq(Exchanges)
    <2>1. PICK n \in 0 .. MaxExchanges : exchanges \in [1 .. n -> Exchanges]
      BY DEF Init, SeqOf
    <2>2. n \in Nat
      BY ExchangesAssumption
    <2> QED
      BY <2>1, <2>2
  <1>2. ASSUME NEW d \in Direction
        PROVE  stream[d] \in Seq(Symbol) /\ Captured(d)
    <2> DEFINE bytes == Bytes(Sent(d))
               n == Len(bytes) - cut[d]
    <2>1. bytes \in Seq(Symbol)
      BY <1>1, SentType, BytesGrow
    <2>2. cut[d] \in Nat /\ cut[d] <= Len(bytes)
      <3>1. PICK n1 \in 0 .. MaxCut : cut = [request |-> n1, response |-> 0] \/ cut = [request |-> 0, response |-> n1]
        BY DEF Init
      <3>2. n1 \in Nat
        BY ExchangesAssumption
      <3>3. cut.request \in Nat /\ cut.response \in Nat
        BY <3>1, <3>2
      <3>4. cut[d] \in Nat
        BY <3>3 DEF Direction
      <3> QED
        BY <3>4 DEF Init
    <2>3. stream[d] = SubSeq(bytes, 1, n)
      BY DEF Init
    <2> HIDE DEF bytes
    <2>4. n \in 0 .. Len(bytes)
      BY <2>1, <2>2
    <2> HIDE DEF n
    <2>5. /\ SubSeq(bytes, 1, n) \in Seq(Symbol) /\ Len(SubSeq(bytes, 1, n)) = n
          /\ \A i \in 1 .. n : SubSeq(bytes, 1, n)[i] = bytes[i]
      BY <2>1, <2>4
    <2>6. n <= Len(bytes)
      BY <2>1, <2>4
    <2> QED
      BY <2>3, <2>5, <2>6 DEF Captured, bytes
  <1>3. stream = [d \in Direction |-> stream[d]]
    BY DEF Init
  <1>4. stream \in [Direction -> Seq(Symbol)]
    BY <1>2, <1>3, Zenon
  <1> QED
    BY <1>1, <1>2, <1>4 DEF Init, StreamInv

LEMMA InitSentInv == Init => SentInv
  <1> SUFFICES ASSUME Init PROVE SentInv
    OBVIOUS
  <1>1. IInv /\ StreamInv /\ LoopInit
    BY InitStream, InitIInv
  <1>2. ASSUME NEW d \in Direction PROVE InStep(d)
    <2>1. messages[d] = << >> /\ Len(messages[d]) = 0
      BY <1>1 DEF LoopInit
    <2>2. Len(Sent(d)) \in Nat /\ 0 \in 0 .. Len(Sent(d))
      BY <1>1, SentType DEF StreamInv
    <2>3. BodyEnd(d, 0) = 0 /\ Len(stream[d]) \in Nat
      BY <1>1, <2>2, EndTypes
    <2>4. Min({0, Len(stream[d])}) = 0
      BY <2>3, MinOfTwo
    <2>5. offset = 0 + 1 /\ ~ Past(d)
      BY <1>1 DEF LoopInit, Past
    <2>6. offset = Min({BodyEnd(d, Len(messages[d])), Len(stream[d])}) + 1
      BY <2>1, <2>3, <2>4, <2>5, Zenon
    <2>7. 1 .. Len(messages[d]) = {} /\ Len(messages[d]) <= Len(Sent(d))
      BY <2>1, <2>2
    <2> QED
      BY <2>5, <2>6, <2>7, Zenon DEF InStep
  <1> QED
    BY <1>1, <1>2 DEF SentInv

LEMMA StepSentInv == SentInv /\ [Next]_vars => SentInv'
  <1> SUFFICES ASSUME SentInv, [Next]_vars PROVE SentInv'
    OBVIOUS
  <1>1. stream' = stream /\ exchanges' = exchanges /\ (Round \/ UNCHANGED messageVars)
    BY DEF Next, vars, messageVars, Round
  <1>2. IInv'
    BY <1>1, StepIInv DEF SentInv
  <1>3. \A d \in Direction : Sent(d)' = Sent(d) /\ Framed(d)' = Framed(d)
    BY <1>1, SentStays
  <1>4. StreamInv'
    <2>1. \A d \in Direction : Captured(d)'
      <3> SUFFICES ASSUME NEW d \in Direction PROVE Captured(d)'
        OBVIOUS
      <3>1. Captured(d) /\ Sent(d)' = Sent(d)
        BY <1>3 DEF SentInv, StreamInv
      <3> QED
        BY <1>1, <3>1, Zenon DEF Captured
    <2> QED
      BY <1>1, <2>1 DEF SentInv, StreamInv
  <1>5. ASSUME NEW d \in Direction, Framed(d)' PROVE InStep(d)'
    <2>1. Framed(d) /\ InStep(d)
      BY <1>3, <1>5 DEF SentInv
    <2>2. CASE Round
      BY <2>1, <2>2, <1>1, RoundInStep
    <2>3. CASE UNCHANGED messageVars
      <3>1. messages' = messages /\ parsing' = parsing /\ offset' = offset
        BY <2>3 DEF messageVars
      <3>2. /\ Sent(d)' = Sent(d) /\ \A i : AsSent(d, i)' = AsSent(d, i)
            /\ \A i : HeaderEnd(d, i)' = HeaderEnd(d, i) /\ BodyEnd(d, i)' = BodyEnd(d, i)
        BY <1>1, SentStays
      <3>3. Past(d)' = Past(d)
        BY <3>1 DEF Past
      <3> QED
        BY <2>1, <3>1, <3>2, <3>3, <1>1, Zenon DEF InStep
    <2> QED
      BY <1>1, <2>2, <2>3
  <1> QED
    BY <1>2, <1>4, <1>5 DEF SentInv

\* The headers of messages lie behind each other.
LEMMA HeadersGrow ==
    ASSUME StreamInv, NEW d \in Direction, NEW i \in 1 .. Len(Sent(d)), NEW j \in i .. Len(Sent(d))
    PROVE  HeaderEnd(d, i) \in Nat /\ HeaderEnd(d, j) \in Nat /\ HeaderEnd(d, i) <= HeaderEnd(d, j)
  <1>1. Sent(d) \in Seq(SentMessage) /\ Len(Sent(d)) \in Nat
    BY SentType DEF StreamInv
  <1>2. /\ i - 1 \in 0 .. Len(Sent(d)) /\ j - 1 \in 0 .. Len(Sent(d)) /\ j - 1 \in i - 1 .. Len(Sent(d))
        /\ (i - 1) + 1 = i /\ (j - 1) + 1 = j
    BY <1>1
  <1>3. End(Sent(d), i - 1) \in Nat /\ End(Sent(d), j - 1) \in Nat /\ End(Sent(d), i - 1) <= End(Sent(d), j - 1)
    BY <1>1, <1>2, BytesBefore
  <1>4. HeaderEnd(d, i) = End(Sent(d), i - 1) + 4 /\ HeaderEnd(d, j) = End(Sent(d), j - 1) + 4
    BY <1>2, EndTypes
  <1> QED
    BY <1>3, <1>4

LEMMA SentInvMeans == SentInv => MessagesAsSent
  <1> SUFFICES ASSUME SentInv, parsing = "done", NEW d \in Direction, Framed(d)
               PROVE  LET whole == {i \in DOMAIN Sent(d) : HeaderEnd(d, i) <= Len(stream[d])}
                      IN  messages[d] = [i \in 1 .. Cardinality(whole) |-> AsSent(d, i)]
    BY DEF MessagesAsSent, AsSent
  <1> DEFINE whole == {i \in DOMAIN Sent(d) : HeaderEnd(d, i) <= Len(stream[d])}
             k == Len(messages[d])
  <1>1. /\ k <= Len(Sent(d))
        /\ \A i \in 1 .. k : messages[d][i] = AsSent(d, i) /\ HeaderEnd(d, i) <= Len(stream[d])
        /\ k = Len(Sent(d)) \/ HeaderEnd(d, k + 1) > Len(stream[d])
    BY DEF SentInv, InStep, Past
  <1>2. messages[d] \in Seq(Message) /\ StreamInv
    BY DEF SentInv, IInv, MessagesTypeOK
  <1> HIDE DEF whole
  <1>3. DOMAIN Sent(d) = 1 .. Len(Sent(d)) /\ Len(Sent(d)) \in Nat /\ Len(stream[d]) \in Nat /\ k \in Nat
    <2>1. Sent(d) \in Seq(SentMessage) /\ stream[d] \in Seq(Symbol)
      BY <1>2, SentType DEF StreamInv, Captured
    <2>2. k \in Nat
      BY <1>2
    <2> QED
      BY <2>1, <2>2
  <1> DEFINE n == Len(Sent(d))
             c == Len(stream[d])
  <1>9. messages[d] = [i \in 1 .. k |-> messages[d][i]]
    BY <1>2
  <1>7. \A i \in 1 .. k : HeaderEnd(d, i) <= Len(stream[d])
    BY <1>1, Zenon
  <1>8. k \in Nat /\ n \in Nat /\ c \in Nat /\ k <= n /\ (k = n \/ HeaderEnd(d, k + 1) > c)
    BY <1>1, <1>3, Zenon
  <1> HIDE DEF k, n, c
  <1>4. whole = 1 .. k
    <2>1. ASSUME NEW i \in 1 .. k PROVE i \in whole
      <3>1. i \in 1 .. n
        BY <1>8
      <3>2. i \in DOMAIN Sent(d)
        BY <1>3, <3>1, Zenon DEF n
      <3> QED
        BY <1>7, <3>2 DEF whole
    <2>2. ASSUME NEW i \in whole PROVE i \in 1 .. k
      <3>1. i \in 1 .. n /\ HeaderEnd(d, i) <= c
        BY <1>3, Zenon DEF whole, n, c
      <3>2. CASE i > k
        <4>1. HeaderEnd(d, k + 1) > c /\ k + 1 \in 1 .. n /\ i \in k + 1 .. n
          BY <1>8, <3>1, <3>2
        <4>2. HeaderEnd(d, i) \in Nat /\ HeaderEnd(d, k + 1) \in Nat /\ HeaderEnd(d, k + 1) <= HeaderEnd(d, i)
          BY <1>2, <4>1, HeadersGrow DEF n
        <4> QED
          BY <1>8, <3>1, <4>1, <4>2
      <3> QED
        BY <1>8, <3>1, <3>2
    <2> QED
      BY <2>1, <2>2
  <1>5. Cardinality(whole) = k
    <2>1. Cardinality(1 .. k) = k
      BY <1>8, FS_Interval
    <2> QED
      BY <1>4, <2>1, Zenon
  <1>6. messages[d] = [i \in 1 .. Cardinality(whole) |-> AsSent(d, i)]
    <2>1. messages[d] = [i \in 1 .. k |-> AsSent(d, i)]
      BY <1>1, <1>9, Zenon
    <2> QED
      BY <2>1, <1>5, Zenon
  <1> QED
    BY <1>6 DEF whole

LEMMA SentInvHolds == Spec => []SentInv
  BY InitSentInv, StepSentInv, PTL DEF Spec

-----------------------------------------------------------------------------
\* The loop over the messages of a client and its server is the loop over any
\* stream, so that all that is proved of it holds for their exchanges.
THEOREM ExchangesRunLoop == Spec => MessagesSpec
  <1>1. Init => stream \in [Direction -> Seq(Symbol)] /\ LoopInit
    BY InitStream
  <1>2. [Next]_vars => [Round]_messageVars
    BY DEF Next, vars, messageVars
  <1> QED
    BY <1>1, <1>2, PTL DEF Spec, MessagesSpec

\* Messages whose ends can be told are found as they were sent, whatever is
\* in their bodies and wherever the capture ends (http.py:262-333).
THEOREM MessagesAsSentHolds == Spec => []MessagesAsSent
  BY SentInvHolds, SentInvMeans, PTL

-----------------------------------------------------------------------------
\* Sequences of sequences put together.
LEMMA FlattenNext ==
    ASSUME NEW T, NEW ss \in Seq(Seq(T)), NEW i \in 0 .. Len(ss) - 1
    PROVE  /\ FlattenSeq(SubSeq(ss, 1, i)) \in Seq(T) /\ ss[i + 1] \in Seq(T)
           /\ FlattenSeq(SubSeq(ss, 1, i + 1)) = FlattenSeq(SubSeq(ss, 1, i)) \o ss[i + 1]
  <1>1. /\ SubSeq(ss, 1, i) \in Seq(Seq(T)) /\ ss[i + 1] \in Seq(T)
        /\ SubSeq(ss, 1, i + 1) = Append(SubSeq(ss, 1, i), ss[i + 1])
    BY UpToNext
  <1> QED
    BY <1>1, FlattenAppend, Zenon

LEMMA FlattenEnds ==
    ASSUME NEW T, NEW ss \in Seq(Seq(T))
    PROVE  /\ SubSeq(ss, 1, 0) = << >> /\ FlattenSeq(<< >>) = << >>
           /\ SubSeq(ss, 1, Len(ss)) = ss /\ Len(ss) \in Nat
           /\ FlattenSeq(ss) \in Seq(T)
  <1>1. SubSeq(ss, 1, 0) = << >> /\ SubSeq(ss, 1, Len(ss)) = ss /\ Len(ss) \in Nat
    OBVIOUS
  <1>2. FlattenSeq(<< >>) = << >>
    <2>1. Len(<< >>) = 0
      OBVIOUS
    <2> QED
      BY <2>1 DEF FlattenSeq
  <1>3. << >> \in Seq(T)
    OBVIOUS
  <1>4. FlattenSeq(ss) \in Seq(T)
    BY <1>3, FlattenAppend
  <1> QED
    BY <1>1, <1>2, <1>4

\* One of each.
LEMMA FlattenSingles ==
    ASSUME NEW T, NEW ss \in Seq(Seq(T)), \A i \in DOMAIN ss : Len(ss[i]) = 1
    PROVE  /\ FlattenSeq(ss) \in Seq(T) /\ Len(FlattenSeq(ss)) = Len(ss)
           /\ \A i \in DOMAIN ss : FlattenSeq(ss)[i] = ss[i][1]
  <1> DEFINE F(k) == FlattenSeq(SubSeq(ss, 1, k))
             Holds(k) == k <= Len(ss) => Len(F(k)) = k /\ \A p \in 1 .. k : F(k)[p] = ss[p][1]
             N == {k \in Nat : Holds(k)}
  <1>1. DOMAIN ss = 1 .. Len(ss) /\ Len(ss) \in Nat /\ F(Len(ss)) = FlattenSeq(ss)
        /\ F(0) = << >> /\ FlattenSeq(ss) \in Seq(T)
    <2>1. /\ SubSeq(ss, 1, 0) = << >> /\ FlattenSeq(<< >>) = << >>
          /\ SubSeq(ss, 1, Len(ss)) = ss /\ Len(ss) \in Nat /\ FlattenSeq(ss) \in Seq(T)
      BY FlattenEnds
    <2>2. DOMAIN ss = 1 .. Len(ss)
      OBVIOUS
    <2> QED
      BY <2>1, <2>2, Zenon
  <1>2. 0 \in N
    <2>1. Len(F(0)) = 0 /\ 1 .. 0 = {}
      BY <1>1
    <2> QED
      BY <2>1
  <1>3. ASSUME NEW k \in N PROVE k + 1 \in N
    <2>1. k \in Nat /\ k + 1 \in Nat /\ Holds(k)
      OBVIOUS
    <2>2. ASSUME k + 1 <= Len(ss)
          PROVE  Len(F(k + 1)) = k + 1 /\ \A p \in 1 .. k + 1 : F(k + 1)[p] = ss[p][1]
      <3> DEFINE s == F(k)  t == ss[k + 1]  w == F(k + 1)
      <3>1. k \in 0 .. Len(ss) - 1 /\ k <= Len(ss) /\ k + 1 \in DOMAIN ss
        BY <1>1, <2>1, <2>2
      <3>2. s \in Seq(T) /\ t \in Seq(T) /\ w = s \o t
        BY <3>1, FlattenNext
      <3>3. Len(t) = 1 /\ Len(s) = k /\ \A p \in 1 .. k : s[p] = ss[p][1]
        BY <2>1, <3>1
      <3> HIDE DEF F, s, t, w
      <3>4. Len(w) = Len(s) + Len(t) /\ \A p \in 1 .. Len(s) + Len(t) :
               w[p] = IF p <= Len(s) THEN s[p] ELSE t[p - Len(s)]
        BY <3>2, ConcatProperties, Zenon
      <3>5. Len(w) = k + 1 /\ \A p \in 1 .. k + 1 : w[p] = IF p <= k THEN s[p] ELSE t[p - k]
        BY <3>3, <3>4
      <3>6. ASSUME NEW p \in 1 .. k + 1 PROVE w[p] = ss[p][1]
        <4>1. CASE p <= k
          BY <4>1, <3>3, <3>5, <2>1
        <4>2. CASE ~ (p <= k)
          <5>1. p = k + 1 /\ p - k = 1
            BY <4>2, <2>1
          <5> QED
            BY <5>1, <4>2, <3>5 DEF t
        <4> QED
          BY <4>1, <4>2
      <3> QED
        BY <3>5, <3>6 DEF w
    <2> HIDE DEF F
    <2> QED
      BY <2>1, <2>2
  <1>4. N \in SUBSET Nat
    OBVIOUS
  <1> HIDE DEF N
  <1>5. N = Nat
    BY <1>2, <1>3, <1>4, Induction
  <1> USE DEF N
  <1>6. Holds(Len(ss))
    BY <1>1, <1>5
  <1> HIDE DEF N, F
  <1> QED
    BY <1>1, <1>6

\* Empty ones at the end add nothing.
LEMMA FlattenPads ==
    ASSUME NEW T, NEW ss \in Seq(Seq(T)), NEW m \in 0 .. Len(ss),
           \A i \in m + 1 .. Len(ss) : ss[i] = << >>
    PROVE  FlattenSeq(ss) = FlattenSeq(SubSeq(ss, 1, m))
  <1> DEFINE F(k) == FlattenSeq(SubSeq(ss, 1, k))
             Holds(n) == m + n <= Len(ss) => F(m + n) = F(m)
             N == {n \in Nat : Holds(n)}
  <1>1. Len(ss) \in Nat /\ F(Len(ss)) = FlattenSeq(ss) /\ m \in Nat
    <2>1. SubSeq(ss, 1, Len(ss)) = ss /\ Len(ss) \in Nat
      BY FlattenEnds
    <2>2. m \in Nat
      OBVIOUS
    <2> QED
      BY <2>1, <2>2, Zenon
  <1>2. 0 \in N
    <2>1. m + 0 = m
      BY <1>1
    <2> QED
      BY <2>1
  <1>3. ASSUME NEW n \in N PROVE n + 1 \in N
    <2>1. n \in Nat /\ n + 1 \in Nat /\ Holds(n)
      OBVIOUS
    <2>2. ASSUME m + (n + 1) <= Len(ss) PROVE F(m + (n + 1)) = F(m)
      <3> DEFINE k == m + n
      <3>1. k \in 0 .. Len(ss) - 1 /\ k <= Len(ss) /\ m + (n + 1) = k + 1 /\ k + 1 \in m + 1 .. Len(ss)
        BY <1>1, <2>1, <2>2
      <3>2. F(k) \in Seq(T) /\ F(k + 1) = F(k) \o ss[k + 1]
        BY <3>1, FlattenNext
      <3>3. ss[k + 1] = << >>
        BY <3>1
      <3> HIDE DEF F
      <3>4. F(k) \o << >> = F(k)
        BY <3>2
      <3> QED
        BY <2>1, <3>1, <3>2, <3>3, <3>4
    <2> HIDE DEF F
    <2> QED
      BY <2>1, <2>2
  <1>4. N \in SUBSET Nat
    OBVIOUS
  <1> HIDE DEF N
  <1>5. N = Nat
    BY <1>2, <1>3, <1>4, Induction
  <1> USE DEF N
  <1>6. Len(ss) - m \in Nat /\ m + (Len(ss) - m) = Len(ss)
    BY <1>1
  <1>7. Holds(Len(ss) - m)
    BY <1>5, <1>6
  <1> HIDE DEF N, F
  <1>8. F(Len(ss)) = F(m)
    BY <1>1, <1>6, <1>7
  <1> QED
    BY <1>1, <1>8 DEF F

\* A file with its direction.
Tag(d, f) == [direction |-> d] @@ f
Tags(d, T, U) == \A f \in T : Tag(d, f) \in U

\* Files keep their order and number when their direction is added.
LEMMA TransferredIs ==
    ASSUME NEW T, NEW d, NEW U, Tags(d, T, U), NEW s \in Seq(T)
    PROVE  /\ Transferred(d, s) \in Seq(U) /\ Len(Transferred(d, s)) = Len(s)
           /\ \A k \in 1 .. Len(s) : Transferred(d, s)[k] = Tag(d, s[k])
  <1> DEFINE n == Len(s)
  <1>1. n \in Nat /\ DOMAIN s = 1 .. n /\ \A k \in 1 .. n : s[k] \in T
    OBVIOUS
  <1>2. \A f \in T : Tag(d, f) \in U
    BY DEF Tags
  <1>3. Transferred(d, s) = [k \in DOMAIN s |-> Tag(d, s[k])]
    BY Zenon DEF Transferred, Tag
  <1> HIDE DEF n
  <1>4. Transferred(d, s) = [k \in 1 .. n |-> Tag(d, s[k])]
    BY <1>1, <1>3, Zenon
  <1>5. \A k \in 1 .. n : Transferred(d, s)[k] = Tag(d, s[k])
    BY <1>4
  <1>6. Transferred(d, s) \in Seq(U) /\ Len(Transferred(d, s)) = n
    <2>1. Transferred(d, s) \in [1 .. n -> U]
      BY <1>1, <1>2, <1>4
    <2> QED
      BY <1>1, <2>1
  <1> QED
    BY <1>5, <1>6, Zenon DEF n

LEMMA TransferredJoin ==
    ASSUME NEW T, NEW d, NEW U, Tags(d, T, U),
           NEW s \in Seq(T), NEW t \in Seq(T)
    PROVE  Transferred(d, s \o t) = Transferred(d, s) \o Transferred(d, t)
  <1> DEFINE u == Transferred(d, s)  v == Transferred(d, t)  x == s \o t  y == Transferred(d, x)  z == u \o v
             m == Len(s)  n == Len(t)
  <1>1. /\ x \in Seq(T) /\ Len(x) = m + n /\ m \in Nat /\ n \in Nat
        /\ \A p \in 1 .. m + n : x[p] = IF p <= m THEN s[p] ELSE t[p - m]
    BY ConcatProperties
  <1>2. u \in Seq(U) /\ Len(u) = m /\ \A p \in 1 .. m : u[p] = Tag(d, s[p])
    BY TransferredIs, Zenon
  <1>3. v \in Seq(U) /\ Len(v) = n /\ \A p \in 1 .. n : v[p] = Tag(d, t[p])
    BY TransferredIs, Zenon
  <1>9. x \in Seq(T)
    BY <1>1
  <1> HIDE DEF u, v, x, m, n
  <1>4. y \in Seq(U) /\ Len(y) = Len(x) /\ \A p \in 1 .. Len(x) : y[p] = Tag(d, x[p])
    BY <1>9, TransferredIs, Zenon
  <1> HIDE DEF y
  <1>5. /\ z \in Seq(U) /\ Len(z) = Len(u) + Len(v)
        /\ \A p \in 1 .. Len(u) + Len(v) : z[p] = IF p <= Len(u) THEN u[p] ELSE v[p - Len(u)]
    BY <1>2, <1>3, ConcatProperties
  <1> HIDE DEF z
  <1>6. ASSUME NEW p \in 1 .. m + n PROVE y[p] = z[p]
    <2>1. z[p] = IF p <= m THEN u[p] ELSE v[p - m]
      BY <1>2, <1>3, <1>5
    <2>2. x[p] = IF p <= m THEN s[p] ELSE t[p - m]
      BY <1>1
    <2>3. y[p] = Tag(d, x[p])
      BY <1>1, <1>4
    <2>4. CASE p <= m
      <3>1. p \in 1 .. m
        BY <1>1, <2>4
      <3> QED
        BY <1>2, <2>1, <2>2, <2>3, <2>4, <3>1
    <2>5. CASE ~ (p <= m)
      <3>1. p - m \in 1 .. n
        BY <1>1, <2>5
      <3> QED
        BY <1>3, <2>1, <2>2, <2>3, <2>5, <3>1
    <2> QED
      BY <2>4, <2>5
  <1>7. Len(y) = m + n /\ Len(z) = m + n
    BY <1>1, <1>2, <1>3, <1>4, <1>5
  <1>8. y = z
    <2>1. y = [p \in 1 .. m + n |-> y[p]] /\ z = [p \in 1 .. m + n |-> z[p]]
      BY <1>4, <1>5, <1>7
    <2> QED
      BY <1>6, <2>1, Zenon
  <1> QED
    BY <1>8 DEF y, z, x, u, v

LEMMA FlattenTransferred ==
    ASSUME NEW T, NEW d, NEW U, Tags(d, T, U),
           NEW ss \in Seq(Seq(T)), NEW tt \in Seq(Seq(U)), Len(tt) = Len(ss),
           \A i \in 1 .. Len(ss) : tt[i] = Transferred(d, ss[i])
    PROVE  FlattenSeq(tt) = Transferred(d, FlattenSeq(ss))
  <1> DEFINE F(k) == FlattenSeq(SubSeq(ss, 1, k))
             G(k) == FlattenSeq(SubSeq(tt, 1, k))
             Holds(k) == k <= Len(ss) => G(k) = Transferred(d, F(k))
             N == {k \in Nat : Holds(k)}
  <1>1. /\ Len(ss) \in Nat /\ F(Len(ss)) = FlattenSeq(ss) /\ G(Len(ss)) = FlattenSeq(tt)
        /\ F(0) = << >> /\ G(0) = << >>
    BY FlattenEnds
  <1>2. 0 \in N
    <2>1. Transferred(d, << >>) = << >>
      BY DEF Transferred
    <2> HIDE DEF F, G
    <2> QED
      BY <2>1, <1>1
  <1>3. ASSUME NEW k \in N PROVE k + 1 \in N
    <2>1. k \in Nat /\ k + 1 \in Nat /\ Holds(k)
      OBVIOUS
    <2>2. ASSUME k + 1 <= Len(ss) PROVE G(k + 1) = Transferred(d, F(k + 1))
      <3>1. k \in 0 .. Len(ss) - 1 /\ k <= Len(ss) /\ k + 1 \in 1 .. Len(ss) /\ k \in 0 .. Len(tt) - 1
        BY <1>1, <2>1, <2>2
      <3>2. F(k) \in Seq(T) /\ ss[k + 1] \in Seq(T) /\ F(k + 1) = F(k) \o ss[k + 1]
        BY <3>1, FlattenNext
      <3>3. G(k + 1) = G(k) \o tt[k + 1]
        BY <3>1, FlattenNext
      <3>4. G(k) = Transferred(d, F(k)) /\ tt[k + 1] = Transferred(d, ss[k + 1])
        BY <2>1, <3>1
      <3> HIDE DEF F, G
      <3>5. \A s, t \in Seq(T) : Transferred(d, s \o t) = Transferred(d, s) \o Transferred(d, t)
        BY TransferredJoin
      <3> QED
        BY <3>2, <3>3, <3>4, <3>5, Zenon
    <2> HIDE DEF F, G
    <2> QED
      BY <2>1, <2>2
  <1>4. N \in SUBSET Nat
    OBVIOUS
  <1> HIDE DEF N
  <1>5. N = Nat
    BY <1>2, <1>3, <1>4, Induction
  <1> USE DEF N
  <1>6. Holds(Len(ss))
    BY <1>1, <1>5
  <1> HIDE DEF N, F, G
  <1> QED
    BY <1>1, <1>6

-----------------------------------------------------------------------------
\* What is cut off is missing.
CutInv ==
    \A d \in Direction : cut[d] \in Nat /\ Len(stream[d]) = Len(Bytes(Sent(d))) - cut[d]

LEMMA InitCutInv == Init => CutInv
  <1> SUFFICES ASSUME Init, NEW d \in Direction
               PROVE  cut[d] \in Nat /\ Len(stream[d]) = Len(Bytes(Sent(d))) - cut[d]
    BY DEF CutInv
  <1> DEFINE bytes == Bytes(Sent(d))
             n == Len(bytes) - cut[d]
  <1>1. bytes \in Seq(Symbol)
    <2>1. exchanges \in Seq(Exchanges)
      BY InitStream DEF StreamInv
    <2> QED
      BY <2>1, SentType, BytesGrow
  <1>2. cut[d] \in Nat /\ cut[d] <= Len(bytes)
    <2>1. PICK n1 \in 0 .. MaxCut : cut = [request |-> n1, response |-> 0] \/ cut = [request |-> 0, response |-> n1]
      BY DEF Init
    <2>2. n1 \in Nat
      BY ExchangesAssumption
    <2>3. cut.request \in Nat /\ cut.response \in Nat
      BY <2>1, <2>2
    <2>4. cut[d] \in Nat
      BY <2>3 DEF Direction
    <2> QED
      BY <2>4 DEF Init
  <1>3. stream[d] = SubSeq(bytes, 1, n)
    BY DEF Init
  <1> HIDE DEF bytes
  <1>4. n \in 0 .. Len(bytes)
    BY <1>1, <1>2
  <1>5. Len(SubSeq(bytes, 1, n)) = n
    BY <1>1, <1>4
  <1> QED
    BY <1>2, <1>3, <1>5 DEF bytes

LEMMA StepCutInv == CutInv /\ [Next]_vars => CutInv'
  <1> SUFFICES ASSUME CutInv, [Next]_vars, NEW d \in Direction
               PROVE  (cut[d] \in Nat /\ Len(stream[d]) = Len(Bytes(Sent(d))) - cut[d])'
    BY DEF CutInv
  <1>1. stream' = stream /\ exchanges' = exchanges /\ cut' = cut
    BY DEF Next, vars, messageVars, Round
  <1>2. Sent(d)' = Sent(d)
    BY <1>1, SentStays
  <1> QED
    BY <1>1, <1>2, Zenon DEF CutInv

\* Each exchange sends its request, and its response if it has one of them.
LEMMA SentIs ==
    ASSUME exchanges \in Seq(Exchanges), NEW d \in Direction, d = "response" => OneResponseEach
    PROVE  /\ Len(Sent(d)) = Len(exchanges) /\ Len(exchanges) \in Nat
           /\ \A i \in 1 .. Len(exchanges) :
                Sent(d)[i] = IF d = "request" THEN exchanges[i].request ELSE exchanges[i].responses[1]
  <1> DEFINE T == Sendable(Words(d))
             t == [i \in DOMAIN exchanges |->
                     IF d = "request" THEN <<exchanges[i].request>> ELSE exchanges[i].responses]
  <1>1. Len(exchanges) \in Nat /\ DOMAIN exchanges = 1 .. Len(exchanges)
        /\ \A i \in 1 .. Len(exchanges) : exchanges[i] \in Exchanges
    OBVIOUS
  <1>2. ASSUME NEW i \in 1 .. Len(exchanges)
        PROVE  /\ t[i] \in Seq(T) /\ Len(t[i]) = 1
               /\ t[i][1] = IF d = "request" THEN exchanges[i].request ELSE exchanges[i].responses[1]
    <2>1. exchanges[i].request \in Sendable(Valid) /\ exchanges[i].responses \in Seq(Sendable({"HTTP/"}))
      BY <1>1, ExchangesAssumption
    <2>2. t[i] = IF d = "request" THEN <<exchanges[i].request>> ELSE exchanges[i].responses
      BY <1>1
    <2>3. CASE d = "request"
      <3>1. T = Sendable(Valid)
        BY <2>3 DEF Words
      <3>2. <<exchanges[i].request>> \in Seq(T)
        BY <2>1, <3>1
      <3> QED
        BY <2>2, <2>3, <3>2
    <2>4. CASE d # "request"
      <3>1. T = Sendable({"HTTP/"})
        BY <2>4 DEF Words
      <3>2. Len(exchanges[i].responses) = 1
        BY <1>1, <2>4 DEF Direction, OneResponseEach
      <3> QED
        BY <2>1, <2>2, <2>4, <3>1, <3>2
    <2> QED
      BY <2>3, <2>4
  <1>3. t = [i \in 1 .. Len(exchanges) |-> t[i]]
    BY <1>1
  <1> HIDE DEF t, T
  <1>4. t \in Seq(Seq(T)) /\ Len(t) = Len(exchanges) /\ DOMAIN t = 1 .. Len(exchanges)
    BY <1>1, <1>2, <1>3
  <1>5. Len(FlattenSeq(t)) = Len(t) /\ \A i \in DOMAIN t : FlattenSeq(t)[i] = t[i][1]
    <2>1. \A i \in DOMAIN t : Len(t[i]) = 1
      BY <1>2, <1>4
    <2> QED
      BY <1>4, <2>1, FlattenSingles
  <1>6. Sent(d) = FlattenSeq(t)
    BY Zenon DEF Sent, t
  <1> QED
    BY <1>1, <1>2, <1>4, <1>5, <1>6

\* A message that is found, and whose body was captured whole, has that body.
LEMMA FoundWhole ==
    ASSUME SentInv, NEW d \in Direction, Framed(d), NEW i \in 1 .. Len(messages[d]),
           BodyEnd(d, i) <= Len(stream[d])
    PROVE  /\ i \in 1 .. Len(Sent(d))
           /\ messages[d][i].line = Sent(d)[i].line /\ messages[d][i].header = Header[Sent(d)[i].line]
           /\ Body(d, messages[d][i]) = Sent(d)[i].body
  <1> DEFINE found == messages[d][i]
             m == Sent(d)[i]
             b == End(Sent(d), i - 1)
             n == Len(m.body)
             s == stream[d]
  <1>1. StreamInv /\ messages \in [Direction -> Seq(Message)] /\ InStep(d)
    BY DEF SentInv, IInv, MessagesTypeOK
  <1>2. Sent(d) \in Seq(SentMessage) /\ Len(Sent(d)) \in Nat
    BY <1>1, SentType DEF StreamInv
  <1>3. Len(messages[d]) <= Len(Sent(d)) /\ Len(messages[d]) \in Nat
    BY <1>1 DEF InStep
  <1>4. i \in 1 .. Len(Sent(d)) /\ i - 1 \in 0 .. Len(Sent(d)) - 1 /\ i - 1 \in 0 .. Len(Sent(d)) /\ (i - 1) + 1 = i
        /\ i \in 0 .. Len(Sent(d))
    BY <1>2, <1>3
  <1>5. /\ b \in Nat /\ m \in SentMessage /\ End(Sent(d), i) = b + 4 + n
        /\ \A p \in 1 .. 4 + n : Bytes(Sent(d))[b + p] = Wire(m)[p]
        /\ End(Sent(d), i) <= Len(Bytes(Sent(d)))
    <2> DEFINE j == i - 1
    <2>1. j \in 0 .. Len(Sent(d)) - 1 /\ j + 1 = i
      BY <1>4
    <2> HIDE DEF j
    <2>2. /\ End(Sent(d), j) \in Nat /\ Sent(d)[j + 1] \in SentMessage
          /\ End(Sent(d), j + 1) = End(Sent(d), j) + 4 + Len(Sent(d)[j + 1].body)
          /\ End(Sent(d), j + 1) <= Len(Bytes(Sent(d)))
          /\ \A p \in 1 .. 4 + Len(Sent(d)[j + 1].body) :
                Bytes(Sent(d))[End(Sent(d), j) + p] = Wire(Sent(d)[j + 1])[p]
      BY <1>2, <2>1, MessageAt
    <2> QED
      BY <2>1, <2>2, Zenon DEF j
  <1>6. BodyEnd(d, i) = b + 4 + n /\ HeaderEnd(d, i) = b + 4 /\ Len(s) \in Nat
    BY <1>1, <1>4, <1>5, EndTypes
  <1>7. found = AsSent(d, i)
    BY <1>1 DEF InStep
  <1>8. found.line = m.line /\ found.header = Header[m.line] /\ found.first = HeaderEnd(d, i) + 1
        /\ found.last = Min({BodyEnd(d, i), Len(stream[d])})
    <2> HIDE DEF found, m
    <2>1. AsSent(d, i).line = Sent(d)[i].line /\ AsSent(d, i).header = Header[Sent(d)[i].line]
          /\ AsSent(d, i).first = HeaderEnd(d, i) + 1
          /\ AsSent(d, i).last = Min({BodyEnd(d, i), Len(stream[d])})
      BY Zenon DEF AsSent
    <2> QED
      BY <1>7, <2>1, Zenon DEF m
  <1>9. n \in Nat /\ Len(m.body) = n /\ m.body \in Seq(Symbol) /\ \A p \in 1 .. n : Wire(m)[4 + p] = m.body[p]
    BY <1>5, WireIs DEF SentMessage
  <1> HIDE DEF found, m, b, n, s
  <1>10. Min({BodyEnd(d, i), Len(stream[d])}) = BodyEnd(d, i)
    <2>1. BodyEnd(d, i) \in Nat /\ Len(stream[d]) \in Nat
      BY <1>5, <1>6, <1>9 DEF s
    <2> QED
      BY <2>1, MinOfTwo
  <1>11. found.first = b + 5 /\ found.last = b + 4 + n /\ b + 4 + n <= Len(s)
    BY <1>5, <1>6, <1>8, <1>10 DEF s
  <1>12. s \in Seq(Symbol) /\ \A p \in 1 .. Len(s) : s[p] = Bytes(Sent(d))[p]
    BY <1>1 DEF StreamInv, Captured, s
  <1> DEFINE w == SubSeq(s, b + 5, b + 4 + n)
  <1>13. /\ w \in Seq(Symbol) /\ Len(w) = n
         /\ \A p \in 1 .. n : w[p] = s[p + b + 4]
    BY <1>5, <1>9, <1>11, <1>12
  <1> HIDE DEF w
  <1>14. ASSUME NEW p \in 1 .. n PROVE w[p] = m.body[p]
    <2>1. p + b + 4 \in 1 .. Len(s) /\ p + b + 4 = b + (4 + p) /\ 4 + p \in 1 .. 4 + n
      BY <1>5, <1>6, <1>9, <1>11
    <2>2. w[p] = Bytes(Sent(d))[b + (4 + p)]
      BY <1>12, <1>13, <2>1
    <2> QED
      BY <1>5, <1>9, <2>1, <2>2
  <1>15. w = m.body
    <2>1. w = [p \in 1 .. n |-> w[p]] /\ m.body = [p \in 1 .. n |-> m.body[p]]
      <3>1. \A x \in Seq(Symbol) : x = [p \in 1 .. Len(x) |-> x[p]]
        OBVIOUS
      <3> QED
        BY <3>1, <1>9, <1>13, Zenon
    <2> QED
      BY <1>14, <2>1, Zenon
  <1>16. Body(d, found) = m.body
    BY <1>11, <1>15, Zenon DEF Body, w, s
  <1> QED
    BY <1>4, <1>8, <1>16 DEF found, m

-----------------------------------------------------------------------------
\* What the exchanges carry, and what of it has arrived.
Carryable == UNION {Range(e.uploads) \union Range(e.download) : e \in Exchanges}
Tagged(d) == {Tag(d, f) : f \in Carryable}

Arrived(i) == BodyEnd("response", i) <= Len(stream["response"])
Uploaded == [i \in DOMAIN exchanges |-> exchanges[i].uploads]
Downloaded == [i \in DOMAIN exchanges |-> IF Arrived(i) THEN exchanges[i].download ELSE << >>]

FromRequests == [i \in DOMAIN messages["request"] |-> RequestObjects(messages["request"][i])]
FromResponses == [i \in DOMAIN messages["response"] |-> ResponseObjects(i)]

LEMMA CarryableIs ==
    /\ \A e \in Exchanges : e.uploads \in Seq(Carryable) /\ e.download \in Seq(Carryable)
    /\ \A d : Tags(d, Carryable, Tagged(d))
  <1>1. ASSUME NEW e \in Exchanges PROVE e.uploads \in Seq(Carryable) /\ e.download \in Seq(Carryable)
    <2>1. e.uploads \in Seq(Range(e.uploads)) /\ e.download \in Seq(Range(e.download))
      BY CarriedAssumption DEF IsSeq
    <2>2. Range(e.uploads) \subseteq Carryable /\ Range(e.download) \subseteq Carryable
      BY Zenon DEF Carryable
    <2>3. \A S : \A s \in Seq(S) : S \subseteq Carryable => s \in Seq(Carryable)
      OBVIOUS
    <2> QED
      BY <2>1, <2>2, <2>3, Zenon
  <1>2. \A d : Tags(d, Carryable, Tagged(d))
    BY Zenon DEF Tags, Tagged
  <1> QED
    BY <1>1, <1>2

LEMMA FlattenCarried ==
    ASSUME NEW d, NEW ss \in Seq(Seq(Carryable)), NEW tt \in Seq(Seq(Tagged(d))), Len(tt) = Len(ss),
           \A i \in 1 .. Len(ss) : tt[i] = Transferred(d, ss[i])
    PROVE  FlattenSeq(tt) = Transferred(d, FlattenSeq(ss))
  <1>1. Tags(d, Carryable, Tagged(d))
    BY CarryableIs
  <1> QED
    BY <1>1, FlattenTransferred

\* What the loop finds is whole up to the last message, and nothing of those
\* behind it arrived whole.
LEMMA WholeOrLast ==
    ASSUME SentInv, NEW d \in Direction, Framed(d), parsing = "done"
    PROVE  LET k == Len(messages[d])
           IN  /\ k \in Nat /\ Len(Sent(d)) \in Nat /\ k <= Len(Sent(d)) /\ DOMAIN messages[d] = 1 .. k
               /\ \A i \in 1 .. k - 1 : BodyEnd(d, i) <= Len(stream[d])
               /\ \A i \in k + 1 .. Len(Sent(d)) : ~ (BodyEnd(d, i) <= Len(stream[d]))
  <1> DEFINE k == Len(messages[d])
             n == Len(Sent(d))
             c == Len(stream[d])
             E(i) == End(Sent(d), i)
  <1>1. StreamInv /\ messages \in [Direction -> Seq(Message)] /\ InStep(d) /\ Past(d)
    BY DEF SentInv, IInv, MessagesTypeOK, Past
  <1>2. Sent(d) \in Seq(SentMessage) /\ n \in Nat /\ c \in Nat
    BY <1>1, SentType DEF StreamInv, Captured
  <1>3. k <= n /\ k \in Nat /\ DOMAIN messages[d] = 1 .. k
        /\ (\A i \in 1 .. k : HeaderEnd(d, i) <= c) /\ (k = n \/ HeaderEnd(d, k + 1) > c)
    BY <1>1 DEF InStep
  <1>4. \A i \in 0 .. n : E(i) \in Nat /\ BodyEnd(d, i) = E(i) /\ HeaderEnd(d, i + 1) = E(i) + 4
    BY <1>1, EndTypes
  <1>5. \A i \in 0 .. n : \A j \in i .. n : E(i) <= E(j)
    BY <1>2, BytesBefore
  <1>6. \A i \in 0 .. n - 1 : E(i) + 4 <= E(i + 1)
    <2> SUFFICES ASSUME NEW i \in 0 .. n - 1 PROVE E(i) + 4 <= E(i + 1)
      OBVIOUS
    <2>1. /\ E(i) \in Nat /\ Sent(d)[i + 1] \in SentMessage
          /\ E(i + 1) = E(i) + 4 + Len(Sent(d)[i + 1].body)
      BY <1>2, MessageAt
    <2>2. Len(Sent(d)[i + 1].body) \in Nat
      BY <2>1, WireIs
    <2> HIDE DEF E
    <2> QED
      BY <2>1, <2>2
  <1> HIDE DEF k, n, c, E
  <1>7. ASSUME NEW i \in 1 .. k - 1 PROVE BodyEnd(d, i) <= c
    <2>1. i \in 0 .. n /\ i + 1 \in 1 .. k
      BY <1>2, <1>3
    <2>2. HeaderEnd(d, i + 1) <= c
      BY <1>3, <2>1
    <2> QED
      BY <1>2, <1>4, <2>1, <2>2
  <1>8. ASSUME NEW i \in k + 1 .. n PROVE ~ (BodyEnd(d, i) <= c)
    <2>1. k \in 0 .. n /\ k \in 0 .. n - 1 /\ k + 1 \in 0 .. n /\ i \in 0 .. n /\ i \in k + 1 .. n /\ k # n
      BY <1>2, <1>3
    <2>2. E(k) + 4 > c /\ E(k) + 4 <= E(k + 1) /\ E(k + 1) <= E(i) /\ BodyEnd(d, i) = E(i)
      BY <1>3, <1>4, <1>5, <1>6, <2>1
    <2>3. E(k) \in Nat /\ E(k + 1) \in Nat /\ E(i) \in Nat
      BY <1>4, <2>1
    <2> QED
      BY <1>2, <2>2, <2>3
  <1> QED
    BY <1>2, <1>3, <1>7, <1>8, Zenon DEF k, n, c

\* With nothing cut off, all of it is.
LEMMA NothingCut ==
    ASSUME SentInv, CutInv, NEW d \in Direction, Framed(d), parsing = "done", cut[d] = 0
    PROVE  /\ Len(messages[d]) = Len(Sent(d))
           /\ \A i \in 1 .. Len(Sent(d)) : BodyEnd(d, i) <= Len(stream[d])
  <1> DEFINE n == Len(Sent(d))
             k == Len(messages[d])
             c == Len(stream[d])
  <1>1. StreamInv
    BY DEF SentInv
  <1>2. Sent(d) \in Seq(SentMessage) /\ n \in Nat /\ c \in Nat
    BY <1>1, SentType DEF StreamInv, Captured
  <1>3. BodyEnd(d, n) = c
    <2>1. SubSeq(Sent(d), 1, Len(Sent(d))) = Sent(d)
      BY <1>2
    <2>2. BodyEnd(d, n) = Len(Bytes(Sent(d)))
      BY <2>1, Zenon DEF BodyEnd
    <2>3. Len(Bytes(Sent(d))) \in Nat
      BY <1>2, BytesGrow
    <2> QED
      BY <2>2, <2>3 DEF CutInv
  <1>4. ASSUME NEW i \in 1 .. n PROVE BodyEnd(d, i) <= c
    <2>1. i \in 0 .. n /\ n \in i .. n /\ n \in 0 .. n
      BY <1>2
    <2>2. End(Sent(d), i) <= End(Sent(d), n)
      BY <1>2, <2>1, BytesBefore
    <2>3. BodyEnd(d, i) = End(Sent(d), i) /\ BodyEnd(d, n) = End(Sent(d), n)
      BY DEF BodyEnd, End
    <2> QED
      BY <1>3, <2>2, <2>3
  <1>5. k = n
    <2>1. k \in Nat /\ k <= n /\ \A i \in k + 1 .. n : ~ (BodyEnd(d, i) <= c)
      BY WholeOrLast
    <2> HIDE DEF k, n, c
    <2>2. CASE k < n
      <3>1. n \in k + 1 .. n /\ n \in 1 .. n
        BY <1>2, <2>1, <2>2
      <3> QED
        BY <1>4, <2>1, <3>1
    <2> QED
      BY <1>2, <2>1, <2>2
  <1> QED
    BY <1>4, <1>5

\* A message that was captured whole gives the files that it carries.
LEMMA RequestGives ==
    ASSUME SentInv, Framed("request"), OneResponseEach, NEW i \in 1 .. Len(messages["request"]),
           BodyEnd("request", i) <= Len(stream["request"])
    PROVE  /\ messages["request"][i].line = exchanges[i].request.line
           /\ RequestObjects(messages["request"][i]) = Transferred("request", exchanges[i].uploads)
  <1> DEFINE e == exchanges[i]
             m == messages["request"][i]
  <1>1. exchanges \in Seq(Exchanges) /\ "request" \in Direction
    BY DEF SentInv, StreamInv, Direction
  <1>2. /\ i \in 1 .. Len(Sent("request"))
        /\ m.line = Sent("request")[i].line /\ m.header = Header[Sent("request")[i].line]
        /\ Body("request", m) = Sent("request")[i].body
    BY <1>1, FoundWhole
  <1>3. i \in 1 .. Len(exchanges) /\ Sent("request")[i] = e.request
    <2>1. /\ Len(Sent("request")) = Len(exchanges)
          /\ \A j \in 1 .. Len(exchanges) : Sent("request")[j] = exchanges[j].request
      BY <1>1, SentIs
    <2> QED
      BY <1>2, <2>1
  <1>4. e \in Exchanges /\ Len(e.responses) = 1
    BY <1>1, <1>3 DEF OneResponseEach
  <1> HIDE DEF e, m
  <1>5. RequestFiles(e.request.line, Header[e.request.line], e.request.body) = Transferred("request", e.uploads)
    BY <1>4, CarriedAssumption, Zenon
  <1>6. RequestObjects(m) = RequestFiles(m.line, m.header, Body("request", m))
    BY Zenon DEF RequestObjects
  <1>7. RequestObjects(m) = Transferred("request", e.uploads)
    BY <1>2, <1>3, <1>5, <1>6, Zenon
  <1> QED
    BY <1>2, <1>3, <1>7, Zenon DEF e, m

LEMMA ResponseGives ==
    ASSUME SentInv, Framed("response"), OneResponseEach, NEW i \in 1 .. Len(messages["response"]),
           Arrived(i), i \in DOMAIN messages["request"],
           messages["request"][i].line = exchanges[i].request.line
    PROVE  ResponseObjects(i) = Transferred("response", exchanges[i].download)
  <1> DEFINE e == exchanges[i]
             m == messages["response"][i]
  <1>1. exchanges \in Seq(Exchanges) /\ "response" \in Direction /\ "response" # "request"
    BY DEF SentInv, StreamInv, Direction
  <1>2. /\ i \in 1 .. Len(Sent("response"))
        /\ m.header = Header[Sent("response")[i].line]
        /\ Body("response", m) = Sent("response")[i].body
    BY <1>1, FoundWhole DEF Arrived
  <1>3. i \in 1 .. Len(exchanges) /\ Sent("response")[i] = e.responses[1]
    <2>1. /\ Len(Sent("response")) = Len(exchanges)
          /\ \A j \in 1 .. Len(exchanges) : Sent("response")[j] = exchanges[j].responses[1]
      BY <1>1, SentIs
    <2> QED
      BY <1>2, <2>1
  <1>4. e \in Exchanges /\ Len(e.responses) = 1
    BY <1>1, <1>3 DEF OneResponseEach
  <1> HIDE DEF e, m
  <1>5. ResponseFiles(UriOf(e.request.line), Header[e.responses[1].line], e.responses[1].body)
          = Transferred("response", e.download)
    BY <1>4, CarriedAssumption, Zenon
  <1>6. ResponseObjects(i) = ResponseFiles(UriOf(messages["request"][i].line), m.header, Body("response", m))
    BY Zenon DEF ResponseObjects, m
  <1>7. messages["request"][i].line = e.request.line
    BY DEF e
  <1>8. ResponseObjects(i) = Transferred("response", e.download)
    BY <1>2, <1>3, <1>5, <1>6, <1>7, Zenon
  <1> QED
    BY <1>8, Zenon DEF e

LEMMA RequestsGive ==
    ASSUME SentInv, CutInv, Framed("request"), OneResponseEach, parsing = "done", cut.request = 0
    PROVE  /\ DOMAIN messages["request"] = 1 .. Len(exchanges)
           /\ \A i \in 1 .. Len(exchanges) : messages["request"][i].line = exchanges[i].request.line
           /\ FlattenSeq(FromRequests) = Transferred("request", FlattenSeq(Uploaded))
           /\ FlattenSeq(FromRequests) \in Seq(Tagged("request"))
  <1> DEFINE n == Len(exchanges)
  <1>1. exchanges \in Seq(Exchanges) /\ "request" \in Direction /\ n \in Nat /\ DOMAIN exchanges = 1 .. n
        /\ \A i \in 1 .. n : exchanges[i] \in Exchanges
    BY DEF SentInv, StreamInv, Direction
  <1>2. Len(Sent("request")) = n
    BY <1>1, SentIs
  <1>3. cut["request"] = 0
    OBVIOUS
  <1>4. /\ Len(messages["request"]) = n
        /\ \A i \in 1 .. n : BodyEnd("request", i) <= Len(stream["request"])
    BY <1>1, <1>2, <1>3, NothingCut
  <1>5. DOMAIN messages["request"] = 1 .. n
    BY <1>1, <1>4, WholeOrLast
  <1>6. \A i \in 1 .. n : /\ messages["request"][i].line = exchanges[i].request.line
                          /\ RequestObjects(messages["request"][i]) = Transferred("request", exchanges[i].uploads)
    BY <1>4, RequestGives
  <1> HIDE DEF n
  <1> DEFINE ss == Uploaded
             tt == FromRequests
  <1>7. ss \in Seq(Seq(Carryable)) /\ Len(ss) = n /\ \A i \in 1 .. n : ss[i] = exchanges[i].uploads
    <2>1. \A i \in 1 .. n : exchanges[i].uploads \in Seq(Carryable)
      BY <1>1, CarryableIs
    <2>2. ss = [i \in 1 .. n |-> exchanges[i].uploads]
      BY <1>1 DEF Uploaded
    <2> HIDE DEF ss
    <2> QED
      BY <1>1, <2>1, <2>2
  <1>8. Tags("request", Carryable, Tagged("request"))
    BY CarryableIs
  <1>9. tt \in Seq(Seq(Tagged("request"))) /\ Len(tt) = n
        /\ \A i \in 1 .. n : tt[i] = Transferred("request", ss[i])
    <2>1. tt = [i \in 1 .. n |-> Transferred("request", exchanges[i].uploads)]
      BY <1>5, <1>6, Zenon DEF FromRequests
    <2>2. \A i \in 1 .. n : Transferred("request", exchanges[i].uploads) \in Seq(Tagged("request"))
      <3> SUFFICES ASSUME NEW i \in 1 .. n
                   PROVE  Transferred("request", exchanges[i].uploads) \in Seq(Tagged("request"))
        OBVIOUS
      <3>1. exchanges[i].uploads \in Seq(Carryable)
        BY <1>1, CarryableIs
      <3> QED
        BY <1>8, <3>1, TransferredIs
    <2> HIDE DEF ss, tt
    <2>3. tt \in [1 .. n -> Seq(Tagged("request"))]
      BY <2>1, <2>2
    <2>4. tt \in Seq(Seq(Tagged("request"))) /\ Len(tt) = n
      BY <1>1, <2>3
    <2>5. \A i \in 1 .. n : tt[i] = Transferred("request", ss[i])
      BY <1>7, <2>1
    <2> QED
      BY <2>4, <2>5
  <1> HIDE DEF ss, tt
  <1>10. FlattenSeq(tt) = Transferred("request", FlattenSeq(ss))
    BY <1>7, <1>8, <1>9, FlattenTransferred
  <1>11. FlattenSeq(tt) \in Seq(Tagged("request"))
    BY <1>9, FlattenEnds
  <1> QED
    BY <1>5, <1>6, <1>10, <1>11, Zenon DEF ss, tt, n

LEMMA Wider ==
    ASSUME NEW T, NEW V, T \subseteq V, NEW s \in Seq(Seq(T))
    PROVE  s \in Seq(Seq(V))
  <1> DEFINE A == Seq(T)
             B == Seq(V)
  <1>1. A \subseteq B
    OBVIOUS
  <1>2. s \in Seq(A)
    OBVIOUS
  <1> HIDE DEF A, B
  <1>3. s \in Seq(B)
    BY <1>1, <1>2
  <1> QED
    BY <1>3 DEF B

\* The object that a response gives.
LEMMA ResponseIs == \A i : ResponseObjects(i) = << >> \/ \E x : ResponseObjects(i) = <<x>>
  BY Zenon DEF ResponseObjects, ResponseFiles, Object

LEMMA ResponsesGive ==
    ASSUME SentInv, CutInv, Framed("response"), OneResponseEach, parsing = "done",
           DOMAIN messages["request"] = 1 .. Len(exchanges),
           \A i \in 1 .. Len(exchanges) : messages["request"][i].line = exchanges[i].request.line
    PROVE  LET whole == Transferred("response", FlattenSeq(Downloaded))
           IN  /\ whole \in Seq(Tagged("response"))
               /\ \/ FlattenSeq(FromResponses) = whole
                  \/ cut.response > 0 /\ \E x : FlattenSeq(FromResponses) = Append(whole, x)
  <1> DEFINE n == Len(exchanges)
             k == Len(messages["response"])
             m == IF k > 0 /\ ~ Arrived(k) THEN k - 1 ELSE k
             D == Downloaded
             whole == Transferred("response", FlattenSeq(D))
  <1>1. exchanges \in Seq(Exchanges) /\ "response" \in Direction /\ n \in Nat /\ DOMAIN exchanges = 1 .. n
        /\ \A i \in 1 .. n : exchanges[i] \in Exchanges
    BY DEF SentInv, StreamInv, Direction
  <1>2. Len(Sent("response")) = n
    BY <1>1, SentIs
  <1>3. /\ k \in Nat /\ k <= n /\ DOMAIN messages["response"] = 1 .. k
        /\ \A i \in 1 .. k - 1 : Arrived(i)
        /\ \A i \in k + 1 .. n : ~ Arrived(i)
    BY <1>1, <1>2, WholeOrLast DEF Arrived
  <1>4. \A i \in 1 .. k : Arrived(i) => ResponseObjects(i) = Transferred("response", exchanges[i].download)
    <2> SUFFICES ASSUME NEW i \in 1 .. k, Arrived(i)
                 PROVE  ResponseObjects(i) = Transferred("response", exchanges[i].download)
      OBVIOUS
    <2>1. i \in 1 .. n
      BY <1>1, <1>3
    <2>2. i \in DOMAIN messages["request"] /\ messages["request"][i].line = exchanges[i].request.line
      BY <2>1
    <2> QED
      BY <2>2, ResponseGives
  <1>5. ASSUME ~ (cut.response > 0) PROVE m = k
    <2>1. cut["response"] = 0
      BY <1>1, <1>5 DEF CutInv
    <2>2. \A i \in 1 .. n : Arrived(i)
      BY <1>1, <1>2, <2>1, NothingCut DEF Arrived
    <2>3. k > 0 => k \in 1 .. n
      BY <1>1, <1>3
    <2> QED
      BY <2>2, <2>3
  <1> HIDE DEF n, k
  <1>6. /\ m \in 0 .. n /\ m <= k /\ (m = k \/ (k > 0 /\ m = k - 1))
        /\ \A i \in 1 .. m : Arrived(i) /\ i \in 1 .. k
        /\ \A i \in m + 1 .. n : ~ Arrived(i)
    <2>1. CASE k > 0 /\ ~ Arrived(k)
      <3>1. m = k - 1
        BY <2>1
      <3>2. \A i \in m + 1 .. n : i = k \/ i \in k + 1 .. n
        BY <1>1, <1>3, <3>1
      <3> QED
        BY <1>1, <1>3, <2>1, <3>1, <3>2
    <2>2. CASE ~ (k > 0 /\ ~ Arrived(k))
      <3>1. m = k
        BY <2>2
      <3>2. \A i \in 1 .. k : i = k \/ i \in 1 .. k - 1
        BY <1>3
      <3>3. k \in 0 .. n
        BY <1>1, <1>3
      <3> QED
        BY <1>1, <1>3, <2>2, <3>1, <3>2, <3>3
    <2> QED
      BY <2>1, <2>2
  <1> HIDE DEF m
  <1>7. /\ D \in Seq(Seq(Carryable)) /\ Len(D) = n
        /\ \A i \in 1 .. n : D[i] = IF Arrived(i) THEN exchanges[i].download ELSE << >>
    <2>1. \A i \in 1 .. n : exchanges[i].download \in Seq(Carryable)
      BY <1>1, CarryableIs
    <2>2. D = [i \in 1 .. n |-> IF Arrived(i) THEN exchanges[i].download ELSE << >>]
      BY <1>1, Zenon DEF Downloaded
    <2> HIDE DEF D
    <2>3. \A i \in 1 .. n : D[i] = IF Arrived(i) THEN exchanges[i].download ELSE << >>
      BY <2>2
    <2>4. << >> \in Seq(Carryable)
      OBVIOUS
    <2>5. D \in [1 .. n -> Seq(Carryable)]
      BY <2>1, <2>2, <2>4
    <2> QED
      BY <1>1, <2>3, <2>5
  <1>8. Tags("response", Carryable, Tagged("response"))
    BY CarryableIs
  <1> HIDE DEF D
  <1> DEFINE S == SubSeq(D, 1, m)
  <1>9. /\ S \in Seq(Seq(Carryable)) /\ Len(S) = m /\ \A i \in 1 .. m : S[i] = exchanges[i].download
    <2>1. /\ S \in Seq(Seq(Carryable)) /\ Len(S) = m /\ \A i \in 1 .. m : S[i] = D[i]
      BY <1>1, <1>6, <1>7
    <2>2. \A i \in 1 .. m : i \in 1 .. n
      BY <1>1, <1>6
    <2> QED
      BY <1>6, <1>7, <2>1, <2>2
  <1>10. FlattenSeq(D) = FlattenSeq(S)
    <2>1. \A i \in m + 1 .. Len(D) : D[i] = << >>
      <3>1. \A i \in m + 1 .. n : i \in 1 .. n
        BY <1>1, <1>6
      <3> QED
        BY <1>6, <1>7, <3>1
    <2>2. m \in 0 .. Len(D)
      BY <1>6, <1>7
    <2> QED
      BY <1>7, <2>1, <2>2, FlattenPads
  <1> HIDE DEF S
  <1> DEFINE R == [i \in 1 .. m |-> Transferred("response", S[i])]
  <1>11. R \in Seq(Seq(Tagged("response"))) /\ Len(R) = m /\ \A i \in 1 .. m : R[i] = Transferred("response", S[i])
    <2>1. \A i \in 1 .. m : Transferred("response", S[i]) \in Seq(Tagged("response"))
      <3> SUFFICES ASSUME NEW i \in 1 .. m PROVE Transferred("response", S[i]) \in Seq(Tagged("response"))
        OBVIOUS
      <3>1. S[i] \in Seq(Carryable)
        BY <1>9
      <3> QED
        BY <1>8, <3>1, TransferredIs
    <2>2. m \in Nat
      BY <1>6, <1>1
    <2> QED
      BY <2>1, <2>2
  <1>12. \A i \in 1 .. m : R[i] = ResponseObjects(i)
    BY <1>4, <1>6, <1>9, <1>11
  <1> HIDE DEF R
  <1> HIDE DEF whole
  <1>13. FlattenSeq(R) = Transferred("response", FlattenSeq(S))
    <2>1. S \in Seq(Seq(Carryable)) /\ R \in Seq(Seq(Tagged("response"))) /\ Len(R) = Len(S)
          /\ \A i \in 1 .. Len(S) : R[i] = Transferred("response", S[i])
      BY <1>9, <1>11, Zenon
    <2> QED
      BY <2>1, FlattenCarried
  <1>14. FlattenSeq(R) = whole /\ FlattenSeq(R) \in Seq(Tagged("response"))
    <2>1. FlattenSeq(R) \in Seq(Tagged("response"))
      BY <1>11, FlattenEnds
    <2> QED
      BY <2>1, <1>10, <1>13, Zenon DEF whole
  <1>15. FromResponses = [i \in 1 .. k |-> ResponseObjects(i)]
    BY <1>3, Zenon DEF FromResponses
  <1>16. CASE m = k
    <2>1. R = [i \in 1 .. k |-> R[i]]
      BY <1>11, <1>16
    <2>2. FromResponses = R
      BY <1>12, <1>15, <1>16, <2>1, Zenon
    <2> QED
      BY <1>14, <2>2, Zenon DEF whole, D
  <1>17. CASE m # k
    <2> DEFINE o == ResponseObjects(k)
    <2>1. k = m + 1 /\ k > 0 /\ cut.response > 0
      BY <1>5, <1>6, <1>17, <1>3
    <2>2. PICK x : o = << >> \/ o = <<x>>
      BY ResponseIs, Zenon
    <2> HIDE DEF o
    <2> DEFINE V == Tagged("response") \union {x}
    <2>3. R \in Seq(Seq(V)) /\ o \in Seq(V)
      <3>1. Tagged("response") \subseteq V /\ x \in V
        OBVIOUS
      <3> HIDE DEF V
      <3>3. o \in Seq(V)
        <4>1. << >> \in Seq(V) /\ \A v \in V : <<v>> \in Seq(V)
          OBVIOUS
        <4> QED
          BY <2>2, <3>1, <4>1, Zenon
      <3>2. R \in Seq(Seq(V))
        BY <1>11, <3>1, Wider, Zenon
      <3> QED
        BY <3>2, <3>3
    <2> HIDE DEF V
    <2>4. FromResponses = Append(R, o)
      <3> DEFINE w == Append(R, o)
      <3>1. /\ w \in Seq(Seq(V)) /\ Len(w) = m + 1 /\ w[m + 1] = o
            /\ \A i \in 1 .. m : w[i] = R[i]
        BY <1>11, <2>3, AppendProperties
      <3> HIDE DEF w
      <3>2. \A i \in 1 .. k : i \in 1 .. m \/ i = m + 1
        BY <2>1, <1>1, <1>6
      <3>3. \A i \in 1 .. k : w[i] = ResponseObjects(i)
        BY <1>12, <2>1, <3>1, <3>2, Zenon DEF o
      <3>4. w = [i \in 1 .. k |-> w[i]]
        BY <2>1, <3>1
      <3>5. FromResponses = w
        BY <1>15, <3>3, <3>4, Zenon
      <3> QED
        BY <3>5 DEF w
    <2>5. FlattenSeq(Append(R, o)) = FlattenSeq(R) \o o
      BY <2>3, FlattenAppend
    <2>6. CASE o = << >>
      <3>1. FlattenSeq(R) \o << >> = FlattenSeq(R)
        BY <1>14
      <3> QED
        BY <1>14, <2>4, <2>5, <2>6, <3>1, Zenon DEF whole, D
    <2>7. CASE o = <<x>>
      <3>1. \A s \in Seq(Tagged("response")) : s \o <<x>> = Append(s, x)
        OBVIOUS
      <3>2. FlattenSeq(R) \o <<x>> = Append(FlattenSeq(R), x)
        BY <1>14, <3>1
      <3> QED
        BY <1>14, <2>1, <2>4, <2>5, <2>7, <3>2, Zenon DEF whole, D
    <2> QED
      BY <2>2, <2>6, <2>7
  <1> QED
    BY <1>16, <1>17

\* The files of a connection are those of its exchanges.
LEMMA FilesMean == SentInv /\ CutInv => FilesAsSent
  <1> DEFINE up == Transferred("request", FlattenSeq(Uploaded))
             down == Transferred("response", FlattenSeq(Downloaded))
             files == up \o down
             a == FlattenSeq(FromRequests)
             b == FlattenSeq(FromResponses)
  <1> SUFFICES ASSUME SentInv, CutInv, parsing = "done", Framed("request"), Framed("response"),
                      OneResponseEach, cut.request = 0
               PROVE  \/ Objects = files
                      \/ cut.response > 0 /\ \E partial \in Range(Objects) : Objects = Append(files, partial)
    BY Zenon DEF FilesAsSent, Uploaded, Downloaded, Arrived
  <1>1. a = up /\ a \in Seq(Tagged("request"))
        /\ DOMAIN messages["request"] = 1 .. Len(exchanges)
        /\ \A i \in 1 .. Len(exchanges) : messages["request"][i].line = exchanges[i].request.line
    BY RequestsGive
  <1>2. down \in Seq(Tagged("response")) /\ (b = down \/ (cut.response > 0 /\ \E x : b = Append(down, x)))
    BY <1>1, ResponsesGive
  <1>3. Objects = a \o b
    BY Zenon DEF Objects, FromRequests, FromResponses
  <1> HIDE DEF up, down, a, b
  <1>4. CASE b = down
    BY <1>1, <1>3, <1>4
  <1>5. ASSUME cut.response > 0, NEW x, b = Append(down, x)
        PROVE  \E partial \in Range(Objects) : Objects = Append(files, partial)
    <2> DEFINE V == Tagged("request") \union Tagged("response") \union {x}
               w == a \o b
    <2>1. a \in Seq(V) /\ down \in Seq(V) /\ x \in V
      BY <1>1, <1>2
    <2> HIDE DEF V
    <2>2. a \o Append(down, x) = Append(a \o down, x)
      BY <2>1
    <2>3. /\ a \o down \in Seq(V) /\ Append(a \o down, x) \in Seq(V)
          /\ Append(a \o down, x)[Len(a \o down) + 1] = x /\ Len(a \o down) \in Nat
          /\ Len(Append(a \o down, x)) = Len(a \o down) + 1
      BY <2>1, AppendProperties
    <2>4. Len(a \o down) + 1 \in DOMAIN Append(a \o down, x)
      BY <2>3
    <2>5. x \in Range(Append(a \o down, x))
      BY <2>3, <2>4, Zenon DEF Range
    <2>6. Objects = Append(files, x)
      BY <1>1, <1>3, <1>5, <2>2, Zenon
    <2> QED
      BY <2>5, <2>6, <1>1, Zenon
  <1> QED
    BY <1>2, <1>4, <1>5

\* What was transferred on a connection is extracted, and under the names of
\* its own exchanges, for any exchanges in any number and wherever the
\* responses are cut off (http.py:140-241).
THEOREM FilesAsSentHolds == Spec => []FilesAsSent
  <1>1. Spec => []CutInv
    BY InitCutInv, StepCutInv, PTL DEF Spec
  <1> QED
    BY <1>1, SentInvHolds, FilesMean, PTL
=============================================================================
