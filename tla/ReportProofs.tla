---------------------------- MODULE ReportProofs ----------------------------
(***************************************************************************)
(* Proofs about Report, for any streams, payloads and names: files have    *)
(* their own names, every candidate is merged into the file that the       *)
(* reference takes from all, and what was found is on disk.                *)
(***************************************************************************)
EXTENDS Report, OperatorProofs

\* What is found is well-formed, and each phase leaves the work of the later
\* ones to them.
Formed ==
    /\ IsSequence(candidates) /\ \A c \in ToSet(candidates) : IsObject(c)
    /\ \A e \in DOMAIN data_port_map : IsName(data_port_map[e]) /\ data_port_map[e] # NoName
    /\ IsSequence(processed) /\ ToSet(processed) \subseteq Streams
    /\ phase \in {"streams", "analysis", "export"}

Phases ==
    /\ IsSequence(files)
    /\ position \in 0 .. Len(candidates)
    /\ phase = "streams" => position = 0 /\ files = << >>
    /\ phase = "export" => position = Len(candidates)
    /\ IsSequence(saved) /\ Len(saved) <= Len(files)
    /\ phase # "export" => saved = << >>
    /\ \A i \in DOMAIN saved : saved[i].file = files[i]

-----------------------------------------------------------------------------
LEMMA IndexedIs ==
    ASSUME NEW f, NEW n \in Nat, DOMAIN f = 1 .. n, f = [i \in 1 .. n |-> f[i]]
    PROVE  IsSequence(f) /\ Len(f) = n
  <1>1. \A i \in 1 .. n : f[i] \in ToSet(f)
    BY DEF ToSet
  <1>2. f \in [1 .. n -> ToSet(f)]
    BY <1>1
  <1>3. f \in Seq(ToSet(f))
    BY <1>2
  <1>4. Len(f) = n
    BY <1>3
  <1> QED
    BY <1>3, <1>4 DEF IsSequence

LEMMA SequenceIs ==
    ASSUME NEW s, IsSequence(s)
    PROVE  Len(s) \in Nat /\ DOMAIN s = 1 .. Len(s) /\ s = [i \in 1 .. Len(s) |-> s[i]]
  BY DEF IsSequence

LEMMA JoinedIs ==
    ASSUME NEW s, NEW t, IsSequence(s), IsSequence(t)
    PROVE  IsSequence(s \o t) /\ ToSet(s \o t) = ToSet(s) \union ToSet(t)
  BY Joined DEF IsSequence

LEMMA EmptyIs == IsSequence(<< >>) /\ ToSet(<< >>) = {}
  BY DEF IsSequence, ToSet

LEMMA OneIs ==
    ASSUME NEW e
    PROVE  IsSequence(<<e>>) /\ ToSet(<<e>>) = {e}
  BY DEF IsSequence, ToSet

LEMMA StreamIs ==
    ASSUME NEW s \in Streams
    PROVE  /\ s.c2s \in DOMAIN Size /\ s.s2c \in DOMAIN Size
           /\ IsSequence(s.messages) /\ \A o \in ToSet(s.messages) : IsObject(o) /\ o.proto # "FTP"
           /\ IsSequence(s.shares) /\ \A o \in ToSet(s.shares) : IsObject(o) /\ o.proto # "FTP"
           /\ IsSequence(s.names) /\ \A n \in ToSet(s.names) : IsName(n) /\ n # NoName
           /\ DataPayload(s) \in DOMAIN Size
  BY StreamsAssumption, Zenon DEF DataPayload

LEMMA FixedNames == IsName(DefaultName) /\ IsName(UnknownTransfer)
  BY DEF DefaultName, UnknownTransfer, IsName, IsSequence, ToSet

LEMMA FtpObjectsAre ==
    ASSUME Formed, NEW s \in Streams
    PROVE  IsSequence(FtpObjects(s)) /\ \A o \in ToSet(FtpObjects(s)) : IsObject(o)
  <1> DEFINE name == IF KnownName(s) = NoName THEN UnknownTransfer ELSE KnownName(s)
             o == [data |-> DataPayload(s), proto |-> "FTP", src |-> s.client, xor |-> FALSE, name |-> name]
  <1>1. KnownName(s) = NoName \/ IsName(KnownName(s))
    BY Zenon DEF Formed, KnownName
  <1>2. IsName(name)
    BY <1>1, FixedNames, Zenon
  <1> HIDE DEF name
  <1>3. o.data \in DOMAIN Size /\ o.name = name
    BY StreamIs
  <1> HIDE DEF o
  <1>4. IsObject(o)
    BY <1>2, <1>3 DEF IsObject
  <1>5. FtpObjects(s) = << >> \/ FtpObjects(s) = <<o>>
    BY Zenon DEF FtpObjects, o, name
  <1> QED
    BY <1>4, <1>5, EmptyIs, OneIs

LEMMA CarvedAre ==
    ASSUME NEW p \in DOMAIN Size, NEW from
    PROVE  /\ IsSequence(CarvedFrom(p, from))
           /\ \A o \in ToSet(CarvedFrom(p, from)) : IsObject(o) /\ o.proto # "FTP"
           /\ Size[p] >= MinPayloadSize =>
                \A item \in ToSet(Carved[p]) : \E o \in ToSet(CarvedFrom(p, from)) : o.data = item.data
  <1>1. CASE Size[p] < MinPayloadSize
    <2>1. CarvedFrom(p, from) = << >>
      BY <1>1 DEF CarvedFrom
    <2>2. ~ (Size[p] >= MinPayloadSize)
      BY <1>1, FtpAssumption, ExtractionAssumption
    <2> QED
      BY <2>1, <2>2, EmptyIs
  <1>2. CASE ~ (Size[p] < MinPayloadSize)
    <2> DEFINE items == Carved[p]
               Item(i) == [data |-> items[i].data, proto |-> items[i].method, src |-> from,
                           xor |-> items[i].xor, name |-> items[i].name]
               objects == [i \in DOMAIN items |-> Item(i)]
    <2>1. CarvedFrom(p, from) = objects
      BY <1>2 DEF CarvedFrom
    <2>2. IsSequence(items) /\ \A item \in ToSet(items) : IsObject(item) /\ item.method # "FTP"
      BY ExtractionAssumption
    <2>3. Len(items) \in Nat /\ DOMAIN items = 1 .. Len(items)
      BY <2>2, SequenceIs
    <2>4. ASSUME NEW i \in DOMAIN items
          PROVE  IsObject(Item(i)) /\ Item(i).proto # "FTP" /\ Item(i).data = items[i].data
      <3>1. IsObject(items[i]) /\ items[i].method # "FTP"
        BY <2>2 DEF ToSet
      <3>2. Item(i).data = items[i].data /\ Item(i).name = items[i].name /\ Item(i).proto = items[i].method
        OBVIOUS
      <3> HIDE DEF Item
      <3> QED
        BY <3>1, <3>2 DEF IsObject
    <2> HIDE DEF Item
    <2>5. DOMAIN objects = 1 .. Len(items) /\ objects = [i \in 1 .. Len(items) |-> objects[i]]
      BY <2>3
    <2>6. \A o \in ToSet(objects) : IsObject(o) /\ o.proto # "FTP"
      BY <2>4 DEF ToSet
    <2>7. \A item \in ToSet(items) : \E o \in ToSet(objects) : o.data = item.data
      BY <2>4 DEF ToSet
    <2>8. ToSet(Carved[p]) = ToSet(items)
      OBVIOUS
    <2> HIDE DEF objects, items
    <2>9. IsSequence(objects)
      BY <2>3, <2>5, IndexedIs
    <2> QED
      BY <2>1, <2>6, <2>7, <2>8, <2>9
  <1> QED
    BY <1>1, <1>2

LEMMA RawObjectIs ==
    ASSUME NEW p \in DOMAIN Size, NEW from, NEW to
    PROVE  /\ IsSequence(RawObject(p, from, to))
           /\ \A o \in ToSet(RawObject(p, from, to)) : IsObject(o) /\ o.proto # "FTP"
           /\ Size[p] >= RawSize => \E o \in ToSet(RawObject(p, from, to)) : o.data = p
  <1> DEFINE base == <<"raw_tcp", from.host, Str[from.port], "to", Str[to.port]>>
             name == [base |-> base, ext |-> "bin"]
             o == [data |-> p, proto |-> "RAW_TCP", src |-> from, xor |-> FALSE, name |-> name]
  <1>1. DOMAIN base = 1 .. 5 /\ base = [i \in 1 .. 5 |-> base[i]]
    OBVIOUS
  <1> HIDE DEF base
  <1>2. IsSequence(base)
    BY <1>1, IndexedIs
  <1>3. IsName(name)
    BY <1>2 DEF IsName
  <1> HIDE DEF name
  <1>4. o.data = p /\ o.name = name /\ o.proto # "FTP"
    OBVIOUS
  <1> HIDE DEF o
  <1>5. IsObject(o) /\ o.proto # "FTP"
    BY <1>3, <1>4 DEF IsObject
  <1>6. RawObject(p, from, to) = IF Size[p] < RawSize THEN << >> ELSE <<o>>
    BY Zenon DEF RawObject, o, name, base
  <1>7. CASE Size[p] < RawSize
    <2>1. ~ (Size[p] >= RawSize)
      BY <1>7, FtpAssumption DEF RawSize
    <2> QED
      BY <2>1, <1>6, <1>7, EmptyIs, Zenon
  <1>8. CASE ~ (Size[p] < RawSize)
    <2>1. RawObject(p, from, to) = <<o>>
      BY <1>6, <1>8, Zenon
    <2>2. IsSequence(RawObject(p, from, to)) /\ ToSet(RawObject(p, from, to)) = {o}
      BY <2>1, OneIs
    <2>3. ASSUME NEW x \in ToSet(RawObject(p, from, to)) PROVE IsObject(x) /\ x.proto # "FTP"
      <3>1. x = o
        BY <2>2
      <3> QED
        BY <1>5, <3>1
    <2>4. o \in ToSet(RawObject(p, from, to)) /\ o.data = p
      BY <1>4, <2>2
    <2> QED
      BY <2>2, <2>3, <2>4
  <1> QED
    BY <1>7, <1>8

LEMMA MatchedAre ==
    ASSUME Formed, NEW s \in Streams
    PROVE  /\ IsSequence(Matched(s)) /\ \A o \in ToSet(Matched(s)) : IsObject(o)
           /\ ToSet(Matched(s)) = ToSet(s.messages) \union ToSet(FtpObjects(s)) \union ToSet(s.shares)
  <1>1. IsSequence(s.messages \o FtpObjects(s))
        /\ ToSet(s.messages \o FtpObjects(s)) = ToSet(s.messages) \union ToSet(FtpObjects(s))
    BY StreamIs, FtpObjectsAre, JoinedIs
  <1>2. IsSequence(Matched(s))
        /\ ToSet(Matched(s)) = ToSet(s.messages \o FtpObjects(s)) \union ToSet(s.shares)
    BY <1>1, StreamIs, JoinedIs DEF Matched
  <1> QED
    BY <1>1, <1>2, StreamIs, FtpObjectsAre

LEMMA CopiedAre ==
    ASSUME NEW s \in Streams
    PROVE  /\ IsSequence(Copied(s)) /\ \A o \in ToSet(Copied(s)) : IsObject(o) /\ o.proto # "FTP"
           /\ CarveRawStreams /\ Matched(s) = << >> =>
                \A p \in {s.c2s, s.s2c} : Size[p] >= RawSize => \E o \in ToSet(Copied(s)) : o.data = p
  <1> DEFINE a == RawObject(s.c2s, s.client, s.server)
             b == RawObject(s.s2c, s.server, s.client)
  <1>1. /\ IsSequence(a) /\ \A o \in ToSet(a) : IsObject(o) /\ o.proto # "FTP"
        /\ Size[s.c2s] >= RawSize => \E o \in ToSet(a) : o.data = s.c2s
        /\ IsSequence(b) /\ \A o \in ToSet(b) : IsObject(o) /\ o.proto # "FTP"
        /\ Size[s.s2c] >= RawSize => \E o \in ToSet(b) : o.data = s.s2c
    BY StreamIs, RawObjectIs
  <1>2. RawObjects(s) = a \o b
    BY DEF RawObjects
  <1> HIDE DEF a, b
  <1>3. IsSequence(a \o b) /\ ToSet(a \o b) = ToSet(a) \union ToSet(b)
    BY <1>1, JoinedIs
  <1>4. Copied(s) = IF CarveRawStreams /\ Matched(s) = << >> THEN a \o b ELSE << >>
    BY <1>2 DEF Copied
  <1>5. CASE CarveRawStreams /\ Matched(s) = << >>
    <2>1. Copied(s) = a \o b
      BY <1>4, <1>5
    <2> QED
      BY <2>1, <1>1, <1>3, Zenon
  <1>6. CASE ~ (CarveRawStreams /\ Matched(s) = << >>)
    <2>1. Copied(s) = << >>
      BY <1>4, <1>6
    <2> QED
      BY <2>1, <1>6, EmptyIs, Zenon
  <1> QED
    BY <1>5, <1>6

-----------------------------------------------------------------------------
\* The least and the greatest of some positions.
LEMMA MinIs ==
    ASSUME NEW S \in SUBSET Nat, S # {}
    PROVE  Min(S) \in S /\ \A k \in S : Min(S) <= k
  <1>1. PICK x \in S : \A y \in S : ~ (<<y, x>> \in OpToRel(<, Nat))
    BY NatLessThanWellFounded, WFMin
  <1>2. \A y \in S : ~ (y < x)
    BY <1>1 DEF OpToRel
  <1>3. \A y \in S : x <= y
    BY <1>2
  <1> QED
    BY <1>3, Zenon DEF Min

LEMMA MaxIs ==
    ASSUME NEW b \in Nat, NEW S \in SUBSET (0 .. b), S # {}
    PROVE  Max(S) \in S /\ \A k \in S : k <= Max(S)
  <1> DEFINE T == {b - i : i \in S}
  <1>1. T \in SUBSET Nat /\ T # {}
    <2>1. PICK k \in S : TRUE
      OBVIOUS
    <2>2. b - k \in T
      BY <2>1
    <2>3. \A i \in S : b - i \in Nat
      OBVIOUS
    <2> QED
      BY <2>2, <2>3
  <1>2. Min(T) \in T /\ \A t \in T : Min(T) <= t
    <2> HIDE DEF T
    <2> QED
      BY <1>1, MinIs
  <1>3. PICK i \in S : Min(T) = b - i
    BY <1>2
  <1>4. \A j \in S : b - i <= b - j
    BY <1>2, <1>3
  <1>5. \A j \in S : i >= j
    <2> SUFFICES ASSUME NEW j \in S PROVE i >= j
      OBVIOUS
    <2>1. i \in Int /\ j \in Int /\ b - i <= b - j
      BY <1>4
    <2> QED
      BY <2>1
  <1>6. Max(S) \in S /\ \A j \in S : Max(S) >= j
    BY <1>5, Zenon DEF Max
  <1> QED
    BY <1>6

-----------------------------------------------------------------------------
\* The table of announced channels.
Channels(s) == s.passive \o s.active
NameAt(s, i) == IF i <= Len(s.names) THEN s.names[i] ELSE DefaultName

\* Each endpoint in it was announced by a control stream, which gave it its
\* name, the last one that announced it, and what was announced is in it.
EntryOf(e, map, all, k) ==
    /\ IsControl(all[k])
    /\ \E i \in DOMAIN Channels(all[k]) : Channels(all[k])[i] = e /\ map[e] = NameAt(all[k], i)
    /\ \A m \in DOMAIN all : IsControl(all[m]) /\ e \in ToSet(Channels(all[m])) => m <= k

Mapped(map, all) ==
    /\ \A e \in DOMAIN map : \E k \in DOMAIN all : EntryOf(e, map, all, k)
    /\ \A k \in DOMAIN all : IsControl(all[k]) => ToSet(Channels(all[k])) \subseteq DOMAIN map

MapInv == Mapped(data_port_map, processed)

LEMMA ChannelsAre ==
    ASSUME NEW s \in Streams
    PROVE  /\ IsSequence(Channels(s))
           /\ IsControl(s) => ToSet(Channels(s)) = {t.channel : t \in s.carries}
           /\ IsControl(s) /\ Plain(s) =>
                \A i \in DOMAIN Channels(s) :
                   i <= Len(s.names) /\ [channel |-> Channels(s)[i], name |-> s.names[i]] \in s.carries
  <1>1. /\ IsSequence(Channels(s))
        /\ IsControl(s) => ToSet(Channels(s)) = {t.channel : t \in s.carries}
        /\ IsControl(s) /\ Plain(s) =>
             /\ Len(Channels(s)) <= Len(s.names)
             /\ \A i \in DOMAIN Channels(s) :
                  [channel |-> Channels(s)[i], name |-> s.names[i]] \in s.carries
    BY StreamsAssumption, Zenon DEF Channels
  <1>2. Len(Channels(s)) \in Nat /\ DOMAIN Channels(s) = 1 .. Len(Channels(s)) /\ Len(s.names) \in Nat
    BY <1>1, SequenceIs, StreamIs
  <1>3. Len(Channels(s)) <= Len(s.names) => \A i \in DOMAIN Channels(s) : i <= Len(s.names)
    BY <1>2
  <1> QED
    BY <1>1, <1>3, Zenon

LEMMA NamesAre ==
    ASSUME NEW s \in Streams, NEW i \in DOMAIN Channels(s)
    PROVE  /\ IsName(NameAt(s, i)) /\ NameAt(s, i) # NoName
           /\ NameAt(s, i) \in ToSet(s.names) \union {DefaultName}
  <1>1. Len(s.names) \in Nat /\ DOMAIN s.names = 1 .. Len(s.names)
    BY StreamIs, SequenceIs
  <1>2. i \in Nat /\ i >= 1
    BY ChannelsAre, SequenceIs
  <1>3. i <= Len(s.names) => i \in DOMAIN s.names
    BY <1>1, <1>2
  <1>4. i <= Len(s.names) => s.names[i] \in ToSet(s.names)
    BY <1>3 DEF ToSet
  <1>5. IF i <= Len(s.names) THEN NameAt(s, i) \in ToSet(s.names) ELSE NameAt(s, i) = DefaultName
    BY <1>4, Zenon DEF NameAt
  <1>6. \A n \in ToSet(s.names) : IsName(n) /\ n # NoName
    BY StreamIs
  <1> QED
    BY <1>5, <1>6, FixedNames, NoNameAssumption

LEMMA RegisteredIs ==
    ASSUME NEW s \in Streams, RegisterControlStream(s)
    PROVE  /\ DOMAIN data_port_map' = DOMAIN data_port_map \union ToSet(Channels(s))
           /\ \A e \in ToSet(Channels(s)) : \E i \in DOMAIN Channels(s) :
                Channels(s)[i] = e /\ data_port_map'[e] = NameAt(s, i)
           /\ \A e \in DOMAIN data_port_map \ ToSet(Channels(s)) : data_port_map'[e] = data_port_map[e]
  <1> DEFINE At(e) == {i \in DOMAIN Channels(s) : Channels(s)[i] = e}
             D == DOMAIN data_port_map \union ToSet(Channels(s))
  <1>1. data_port_map' = [e \in D |-> IF e \in ToSet(Channels(s)) THEN NameAt(s, Max(At(e))) ELSE data_port_map[e]]
    BY DEF RegisterControlStream, Channels, NameAt
  <1>2. ASSUME NEW e \in ToSet(Channels(s))
        PROVE  Max(At(e)) \in DOMAIN Channels(s) /\ Channels(s)[Max(At(e))] = e
    <2>1. Len(Channels(s)) \in Nat /\ DOMAIN Channels(s) = 1 .. Len(Channels(s))
      BY ChannelsAre, SequenceIs
    <2>2. At(e) # {}
      BY <1>2 DEF ToSet
    <2>3. At(e) \in SUBSET (0 .. Len(Channels(s)))
      BY <2>1
    <2>4. Max(At(e)) \in At(e)
      <3> HIDE DEF At
      <3> QED
        BY <2>1, <2>2, <2>3, MaxIs
    <2> QED
      BY <2>4
  <1> HIDE DEF At
  <1> QED
    BY <1>1, <1>2, Zenon

-----------------------------------------------------------------------------
\* What handing over a stream adds.
LEMMA HandOverIs ==
    ASSUME Formed, NEW s \in Streams, HandOver(s)
    PROVE  /\ IsSequence(candidates')
           /\ \A o \in ToSet(candidates') : IsObject(o)
           /\ ToSet(candidates) \subseteq ToSet(candidates')
           /\ ToSet(Matched(s)) \subseteq ToSet(candidates')
           /\ ToSet(Copied(s)) \subseteq ToSet(candidates')
           /\ \A o \in ToSet(candidates') :
                o.proto = "FTP" => o \in ToSet(candidates) \union ToSet(FtpObjects(s))
           /\ \A p \in {s.c2s, s.s2c} : Size[p] >= MinPayloadSize =>
                \A item \in ToSet(Carved[p]) : \E o \in ToSet(candidates') : o.data = item.data
  <1> DEFINE c1 == CarvedFrom(s.c2s, s.client)
             c2 == CarvedFrom(s.s2c, s.server)
             t1 == candidates \o Matched(s)
             t2 == t1 \o c1
             t3 == t2 \o c2
             t4 == t3 \o Copied(s)
  <1>1. candidates' = t4
    BY DEF HandOver, ProcessStream
  <1>2. /\ IsSequence(Matched(s)) /\ \A o \in ToSet(Matched(s)) : IsObject(o)
        /\ IsSequence(Copied(s)) /\ \A o \in ToSet(Copied(s)) : IsObject(o) /\ o.proto # "FTP"
    BY MatchedAre, CopiedAre
  <1>3. /\ IsSequence(c1) /\ \A o \in ToSet(c1) : IsObject(o) /\ o.proto # "FTP"
        /\ IsSequence(c2) /\ \A o \in ToSet(c2) : IsObject(o) /\ o.proto # "FTP"
        /\ Size[s.c2s] >= MinPayloadSize =>
             \A item \in ToSet(Carved[s.c2s]) : \E o \in ToSet(c1) : o.data = item.data
        /\ Size[s.s2c] >= MinPayloadSize =>
             \A item \in ToSet(Carved[s.s2c]) : \E o \in ToSet(c2) : o.data = item.data
    BY StreamIs, CarvedAre
  <1>4. IsSequence(candidates) /\ \A o \in ToSet(candidates) : IsObject(o)
    BY DEF Formed
  <1> HIDE DEF c1, c2
  <1>5. IsSequence(t1) /\ ToSet(t1) = ToSet(candidates) \union ToSet(Matched(s))
    BY <1>2, <1>4, JoinedIs
  <1> HIDE DEF t1
  <1>6. IsSequence(t2) /\ ToSet(t2) = ToSet(t1) \union ToSet(c1)
    BY <1>3, <1>5, JoinedIs
  <1> HIDE DEF t2
  <1>7. IsSequence(t3) /\ ToSet(t3) = ToSet(t2) \union ToSet(c2)
    BY <1>3, <1>6, JoinedIs
  <1> HIDE DEF t3
  <1>8. IsSequence(t4) /\ ToSet(t4) = ToSet(t3) \union ToSet(Copied(s))
    BY <1>2, <1>7, JoinedIs
  <1> HIDE DEF t4
  <1>9. /\ IsSequence(t4)
        /\ ToSet(t4) = ToSet(candidates) \union ToSet(Matched(s)) \union ToSet(c1) \union ToSet(c2) \union ToSet(Copied(s))
    BY <1>5, <1>6, <1>7, <1>8
  <1>10. \A o \in ToSet(t4) : IsObject(o)
    BY <1>2, <1>3, <1>4, <1>9
  <1>11. /\ ToSet(candidates) \subseteq ToSet(t4)
         /\ ToSet(Matched(s)) \subseteq ToSet(t4)
         /\ ToSet(Copied(s)) \subseteq ToSet(t4)
    BY <1>9
  <1>12. \A o \in ToSet(Matched(s)) : o.proto = "FTP" => o \in ToSet(FtpObjects(s))
    BY MatchedAre, StreamIs
  <1>13. \A o \in ToSet(t4) : o.proto = "FTP" => o \in ToSet(candidates) \union ToSet(FtpObjects(s))
    BY <1>2, <1>3, <1>9, <1>12
  <1>14. \A p \in {s.c2s, s.s2c} : Size[p] >= MinPayloadSize =>
           \A item \in ToSet(Carved[p]) : \E o \in ToSet(t4) : o.data = item.data
    <2>1. ToSet(c1) \subseteq ToSet(t4) /\ ToSet(c2) \subseteq ToSet(t4)
      BY <1>9
    <2> QED
      BY <1>3, <2>1
  <1> QED
    BY <1>1, <1>9, <1>10, <1>11, <1>13, <1>14, Zenon

LEMMA ProcessedGrows ==
    ASSUME Formed, NEW s \in Streams, HandOver(s)
    PROVE  /\ IsSequence(processed') /\ ToSet(processed') = ToSet(processed) \union {s}
           /\ Len(processed) \in Nat /\ DOMAIN processed = 1 .. Len(processed)
           /\ DOMAIN processed' = 1 .. Len(processed) + 1
           /\ processed'[Len(processed) + 1] = s
           /\ \A k \in 1 .. Len(processed) : processed'[k] = processed[k]
  <1>1. processed' = Append(processed, s) /\ IsSequence(processed)
    BY DEF HandOver, Formed
  <1> QED
    BY <1>1, AppendedIs DEF IsSequence

LEMMA MapNext == MapInv' <=> Mapped(data_port_map', processed')
  BY Zenon DEF MapInv, Mapped, EntryOf, Channels, NameAt

LEMMA MapStep ==
    ASSUME Formed, MapInv, NEW s \in Streams, HandOver(s)
    PROVE  MapInv' /\ \A e \in DOMAIN data_port_map' : IsName(data_port_map'[e]) /\ data_port_map'[e] # NoName
  <1> DEFINE n == Len(processed)
             map == data_port_map'
             all == processed'
  <1>1. /\ n \in Nat /\ DOMAIN processed = 1 .. n /\ DOMAIN all = 1 .. n + 1
        /\ all[n + 1] = s /\ \A k \in 1 .. n : all[k] = processed[k]
    BY ProcessedGrows
  <1>2. n + 1 \in 1 .. n + 1 /\ \A k \in 1 .. n : k \in 1 .. n + 1 /\ k <= n + 1
    BY <1>1
  <1>3. n + 1 <= n + 1 /\ \A k \in 1 .. n + 1 : k \in 1 .. n \/ k = n + 1
    BY <1>1
  <1>4. /\ \A e \in DOMAIN data_port_map : \E k \in DOMAIN processed : EntryOf(e, data_port_map, processed, k)
        /\ \A k \in 1 .. n :
             IsControl(processed[k]) => ToSet(Channels(processed[k])) \subseteq DOMAIN data_port_map
        /\ \A e \in DOMAIN data_port_map : IsName(data_port_map[e]) /\ data_port_map[e] # NoName
    BY <1>1, Zenon DEF MapInv, Mapped, Formed
  <1> HIDE DEF n, map, all
  <1>5. ASSUME NEW e \in DOMAIN data_port_map, map[e] = data_port_map[e],
               ~ (IsControl(s) /\ e \in ToSet(Channels(s)))
        PROVE  \E k \in DOMAIN all : EntryOf(e, map, all, k)
    <2>1. PICK k \in 1 .. n : EntryOf(e, data_port_map, processed, k)
      BY <1>1, <1>4
    <2>2. all[k] = processed[k] /\ k \in DOMAIN all
      BY <1>1, <1>2
    <2>3. \A m \in DOMAIN all : IsControl(all[m]) /\ e \in ToSet(Channels(all[m])) => m <= k
      BY <1>1, <1>3, <1>5, <2>1, Zenon DEF EntryOf
    <2> QED
      BY <1>5, <2>1, <2>2, <2>3, Zenon DEF EntryOf
  <1>6. CASE IsControl(s)
    <2>1. RegisterControlStream(s)
      BY <1>6 DEF HandOver, ProcessStream, FtpParse
    <2>2. /\ DOMAIN map = DOMAIN data_port_map \union ToSet(Channels(s))
          /\ \A e \in ToSet(Channels(s)) : \E i \in DOMAIN Channels(s) :
               Channels(s)[i] = e /\ map[e] = NameAt(s, i)
          /\ \A e \in DOMAIN data_port_map \ ToSet(Channels(s)) : map[e] = data_port_map[e]
      BY <2>1, RegisteredIs DEF map
    <2>3. ASSUME NEW e \in ToSet(Channels(s)) PROVE \E k \in DOMAIN all : EntryOf(e, map, all, k)
      <3>1. \A m \in DOMAIN all : m <= n + 1
        BY <1>1, <1>2, <1>3
      <3>2. EntryOf(e, map, all, n + 1)
        BY <1>1, <1>6, <2>2, <3>1, Zenon DEF EntryOf
      <3> QED
        BY <1>1, <1>2, <3>2
    <2>4. \A e \in DOMAIN map : \E k \in DOMAIN all : EntryOf(e, map, all, k)
      <3>1. \A e \in DOMAIN map : e \in ToSet(Channels(s)) \/ (e \in DOMAIN data_port_map /\ e \notin ToSet(Channels(s)))
        BY <2>2
      <3> QED
        BY <1>5, <2>2, <2>3, <3>1
    <2>5. \A k \in DOMAIN all : IsControl(all[k]) => ToSet(Channels(all[k])) \subseteq DOMAIN map
      <3>1. DOMAIN data_port_map \subseteq DOMAIN map /\ ToSet(Channels(s)) \subseteq DOMAIN map
        BY <2>2
      <3>2. ASSUME NEW k \in 1 .. n, IsControl(all[k]) PROVE ToSet(Channels(all[k])) \subseteq DOMAIN map
        <4>1. all[k] = processed[k]
          BY <1>1
        <4>2. ToSet(Channels(all[k])) \subseteq DOMAIN data_port_map
          BY <1>4, <3>2, <4>1, Zenon
        <4> QED
          BY <3>1, <4>2
      <3>3. ToSet(Channels(all[n + 1])) \subseteq DOMAIN map
        BY <1>1, <3>1, Zenon
      <3> QED
        BY <1>1, <1>3, <3>2, <3>3, Zenon
    <2>6. ASSUME NEW e \in ToSet(Channels(s)) PROVE IsName(map[e]) /\ map[e] # NoName
      <3>1. PICK i \in DOMAIN Channels(s) : map[e] = NameAt(s, i)
        BY <2>2
      <3>2. IsName(NameAt(s, i)) /\ NameAt(s, i) # NoName
        BY NamesAre
      <3> QED
        BY <3>1, <3>2
    <2>7. \A e \in DOMAIN map : IsName(map[e]) /\ map[e] # NoName
      <3>1. \A e \in DOMAIN data_port_map \ ToSet(Channels(s)) : IsName(map[e]) /\ map[e] # NoName
        BY <1>4, <2>2, Zenon
      <3> QED
        BY <2>2, <2>6, <3>1
    <2>8. Mapped(map, all)
      BY <2>4, <2>5, Zenon DEF Mapped
    <2> QED
      BY <2>7, <2>8, MapNext DEF map, all
  <1>7. CASE ~ IsControl(s)
    <2>1. map = data_port_map
      BY <1>7 DEF HandOver, ProcessStream, FtpParse, map
    <2>2. \A e \in DOMAIN map : \E k \in DOMAIN all : EntryOf(e, map, all, k)
      BY <1>5, <1>7, <2>1
    <2>3. \A k \in DOMAIN all : IsControl(all[k]) => ToSet(Channels(all[k])) \subseteq DOMAIN map
      BY <1>1, <1>3, <1>4, <1>7, <2>1
    <2>4. \A e \in DOMAIN map : IsName(map[e]) /\ map[e] # NoName
      BY <1>4, <2>1, Zenon
    <2>5. Mapped(map, all)
      BY <2>2, <2>3, Zenon DEF Mapped
    <2> QED
      BY <2>4, <2>5, MapNext DEF map, all
  <1> QED
    BY <1>6, <1>7

-----------------------------------------------------------------------------
\* TransferNames, stream by stream.
Announced(all, k, data) == \E t \in all[k].carries : t.channel \in {data.server, data.client}

OnlyOne(all, i, j) ==
    /\ ~IsControl(all[i]) /\ Size[DataPayload(all[i])] > 0
    /\ IsControl(all[j]) /\ Plain(all[j]) /\ Announced(all, j, all[i])
    /\ \A k \in 1 .. i - 1 : Announced(all, k, all[i]) => k = j

FoundAs(data, control, found) ==
    \E c \in found, t \in control.carries :
        /\ t.channel \in {data.server, data.client}
        /\ c.proto = "FTP" /\ c.src = data.client
        /\ c.data = DataPayload(data) /\ c.name = t.name

LEMMA TransferNamesIs ==
    TransferNames <=> \A i \in DOMAIN processed : \A j \in 1 .. i - 1 :
        OnlyOne(processed, i, j) => FoundAs(processed[i], processed[j], ToSet(candidates))
  BY Zenon DEF TransferNames, OnlyOne, FoundAs, Announced

\* The name in the table is that of the transfer.
LEMMA EntryIs ==
    ASSUME Formed, MapInv, NEW data, NEW j \in DOMAIN processed, IsControl(processed[j]), Plain(processed[j]),
           \A k \in DOMAIN processed : Announced(processed, k, data) => k = j,
           NEW e \in {data.server, data.client}, e \in DOMAIN data_port_map
    PROVE  \E t \in processed[j].carries : t.channel = e /\ t.name = data_port_map[e]
  <1>1. PICK k \in DOMAIN processed :
          /\ IsControl(processed[k])
          /\ \E i \in DOMAIN Channels(processed[k]) :
               Channels(processed[k])[i] = e /\ data_port_map[e] = NameAt(processed[k], i)
    BY Zenon DEF MapInv, Mapped, EntryOf
  <1>2. PICK i \in DOMAIN Channels(processed[k]) :
          Channels(processed[k])[i] = e /\ data_port_map[e] = NameAt(processed[k], i)
    BY <1>1
  <1>3. processed[k] \in Streams
    BY DEF Formed, ToSet
  <1>4. e \in {t.channel : t \in processed[k].carries}
    <2>1. e \in ToSet(Channels(processed[k]))
      BY <1>2 DEF ToSet
    <2> QED
      BY <1>1, <1>3, <2>1, ChannelsAre
  <1>5. k = j
    BY <1>4 DEF Announced
  <1>6. /\ i <= Len(processed[j].names)
        /\ [channel |-> Channels(processed[j])[i], name |-> processed[j].names[i]] \in processed[j].carries
    BY <1>1, <1>2, <1>3, <1>5, ChannelsAre
  <1> DEFINE t == [channel |-> Channels(processed[j])[i], name |-> processed[j].names[i]]
  <1>7. t.channel = e /\ t.name = data_port_map[e]
    BY <1>2, <1>5, <1>6 DEF NameAt
  <1> QED
    BY <1>6, <1>7, Zenon

LEMMA TransferNameFound ==
    ASSUME Formed, MapInv, NEW s \in Streams, ~IsControl(s), Size[DataPayload(s)] > 0,
           NEW j \in DOMAIN processed, IsControl(processed[j]), Plain(processed[j]), Announced(processed, j, s),
           \A k \in DOMAIN processed : Announced(processed, k, s) => k = j
    PROVE  FoundAs(s, processed[j], ToSet(FtpObjects(s)))
  <1> DEFINE control == processed[j]
  <1>1. control \in Streams
    BY DEF Formed, ToSet
  <1>2. s.server \in DOMAIN data_port_map \/ s.client \in DOMAIN data_port_map
    <2>1. ToSet(Channels(control)) = {t.channel : t \in control.carries}
      BY <1>1, ChannelsAre
    <2>2. ToSet(Channels(control)) \subseteq DOMAIN data_port_map
      BY Zenon DEF MapInv, Mapped
    <2> QED
      BY <2>1, <2>2 DEF Announced
  <1>3. \E e \in {s.server, s.client} : e \in DOMAIN data_port_map /\ KnownName(s) = data_port_map[e]
    BY <1>2 DEF KnownName
  <1>4. PICK e \in {s.server, s.client} : e \in DOMAIN data_port_map /\ KnownName(s) = data_port_map[e]
    BY <1>3
  <1>5. PICK t \in control.carries : t.channel = e /\ t.name = data_port_map[e]
    BY <1>4, EntryIs
  <1>6. KnownName(s) # NoName /\ KnownName(s) = t.name
    BY <1>4, <1>5 DEF Plain
  <1> DEFINE o == [data |-> DataPayload(s), proto |-> "FTP", src |-> s.client, xor |-> FALSE, name |-> KnownName(s)]
  <1>7. ~ (Size[DataPayload(s)] = 0)
    OBVIOUS
  <1>8. FtpObjects(s) = <<o>>
    BY <1>6, <1>7, Zenon DEF FtpObjects
  <1>9. o \in ToSet(FtpObjects(s))
    <2> HIDE DEF o
    <2> QED
      BY <1>8, OneIs
  <1>10. o.proto = "FTP" /\ o.src = s.client /\ o.data = DataPayload(s) /\ o.name = t.name
    BY <1>6
  <1> HIDE DEF o
  <1>11. t \in processed[j].carries /\ t.channel \in {s.server, s.client}
    BY <1>5
  <1> QED
    BY <1>9, <1>10, <1>11, Zenon DEF FoundAs

LEMMA TransferNamesStep ==
    ASSUME Formed, MapInv, TransferNames, NEW s \in Streams, HandOver(s)
    PROVE  TransferNames'
  <1> DEFINE n == Len(processed)
  <1>1. /\ n \in Nat /\ DOMAIN processed = 1 .. n /\ DOMAIN processed' = 1 .. n + 1
        /\ processed'[n + 1] = s /\ \A k \in 1 .. n : processed'[k] = processed[k]
    BY ProcessedGrows
  <1> HIDE DEF n
  <1>2. ToSet(candidates) \subseteq ToSet(candidates') /\ ToSet(FtpObjects(s)) \subseteq ToSet(candidates')
    BY HandOverIs, MatchedAre
  <1>3. ASSUME NEW i \in 1 .. n + 1, NEW j \in 1 .. i - 1, OnlyOne(processed', i, j)
        PROVE  FoundAs(processed'[i], processed'[j], ToSet(candidates'))
    <2>1. i \in Nat /\ j \in 1 .. n /\ \A k \in 1 .. i - 1 : k \in 1 .. n
      BY <1>1
    <2>2. processed'[j] = processed[j] /\ \A k \in 1 .. i - 1 : processed'[k] = processed[k]
      BY <1>1, <2>1
    <2>3. CASE i \in 1 .. n
      <3>1. processed'[i] = processed[i]
        BY <1>1, <2>3
      <3>2. OnlyOne(processed, i, j)
        BY <1>3, <2>2, <3>1, Zenon DEF OnlyOne, Announced
      <3>3. FoundAs(processed[i], processed[j], ToSet(candidates))
        BY <1>1, <2>3, <3>2, TransferNamesIs
      <3> QED
        BY <1>2, <2>2, <3>1, <3>3 DEF FoundAs
    <2>4. CASE i = n + 1
      <3>1. processed'[i] = s /\ \A k \in 1 .. n : k \in 1 .. i - 1
        BY <1>1, <2>4
      <3>2. /\ ~IsControl(s) /\ Size[DataPayload(s)] > 0
            /\ IsControl(processed[j]) /\ Plain(processed[j]) /\ Announced(processed, j, s)
            /\ \A k \in 1 .. n : Announced(processed, k, s) => k = j
        BY <1>3, <2>2, <3>1, Zenon DEF OnlyOne, Announced
      <3>3. FoundAs(s, processed[j], ToSet(FtpObjects(s)))
        BY <1>1, <2>1, <3>2, TransferNameFound
      <3> QED
        BY <1>2, <2>2, <3>1, <3>3 DEF FoundAs
    <2>5. i \in 1 .. n \/ i = n + 1
      BY <1>1
    <2> QED
      BY <2>3, <2>4, <2>5
  <1>4. TransferNames' <=> \A i \in DOMAIN processed' : \A j \in 1 .. i - 1 :
           OnlyOne(processed', i, j) => FoundAs(processed'[i], processed'[j], ToSet(candidates'))
    BY Zenon DEF TransferNames, OnlyOne, FoundAs, Announced
  <1> QED
    BY <1>1, <1>3, <1>4, Zenon

-----------------------------------------------------------------------------
\* SessionNames: what was announced before a stream does not change, and the
\* table has just that.
LEMMA TransferStays ==
    ASSUME NEW all, NEW more, NEW i \in Nat, more[i] = all[i],
           \A k \in 1 .. i - 1 : more[k] = all[k], NEW c, TransferOf(all, i, c)
    PROVE  TransferOf(more, i, c)
  <1>1. ASSUME NEW e PROVE Announcing(more, e, i) = Announcing(all, e, i)
    <2>1. \A k : k \in Announcing(more, e, i) <=> k \in Announcing(all, e, i)
      BY Zenon DEF Announcing
    <2> QED
      BY <2>1
  <1>2. \A e, k : k \in Announcing(all, e, i) => more[k] = all[k]
    BY Zenon DEF Announcing
  <1>3. ASSUME NEW e, NEW name, NamedByLast(all, e, i, name) PROVE NamedByLast(more, e, i, name)
    <2>1. PICK k \in Announcing(all, e, i) :
            (\A m \in Announcing(all, e, i) : m <= k) /\ name \in ToSet(all[k].names) \union {DefaultName}
      BY <1>3, Zenon DEF NamedByLast
    <2>2. name \in ToSet(more[k].names) \union {DefaultName}
      <3>1. more[k] = all[k]
        BY <1>2
      <3> QED
        BY <2>1, <3>1
    <2>3. k \in Announcing(more, e, i) /\ \A m \in Announcing(more, e, i) : m <= k
      BY <1>1, <2>1
    <2> QED
      BY <2>2, <2>3, Zenon DEF NamedByLast
  <1> QED
    BY <1>1, <1>3, Zenon DEF TransferOf

LEMMA TableIs ==
    ASSUME Formed, MapInv, NEW s \in Streams, HandOver(s), NEW e
    PROVE  /\ e \in DOMAIN data_port_map <=> Announcing(processed', e, Len(processed) + 1) # {}
           /\ e \in DOMAIN data_port_map =>
                /\ data_port_map[e] # NoName
                /\ NamedByLast(processed', e, Len(processed) + 1, data_port_map[e])
  <1> DEFINE n == Len(processed)
             all == processed'
  <1>1. /\ n \in Nat /\ DOMAIN processed = 1 .. n /\ (n + 1) - 1 = n
        /\ \A k \in 1 .. n : all[k] = processed[k]
    BY ProcessedGrows
  <1> HIDE DEF n, all
  <1>2. \A k \in 1 .. n : processed[k] \in Streams
    BY <1>1 DEF Formed, ToSet
  <1>3. ASSUME NEW k \in 1 .. n, IsControl(processed[k])
        PROVE  e \in ToSet(Channels(processed[k])) <=> \E t \in processed[k].carries : t.channel = e
    <2>1. ToSet(Channels(processed[k])) = {t.channel : t \in processed[k].carries}
      BY <1>2, <1>3, ChannelsAre
    <2> QED
      BY <2>1, Zenon
  <1>4. \A k : k \in Announcing(all, e, n + 1) <=>
           k \in 1 .. n /\ IsControl(processed[k]) /\ e \in ToSet(Channels(processed[k]))
    BY <1>1, <1>3, Zenon DEF Announcing
  <1>5. ASSUME e \in DOMAIN data_port_map
        PROVE  \E k \in Announcing(all, e, n + 1) :
                 /\ \A m \in Announcing(all, e, n + 1) : m <= k
                 /\ data_port_map[e] \in ToSet(all[k].names) \union {DefaultName}
    <2>1. PICK k \in 1 .. n : EntryOf(e, data_port_map, processed, k)
      BY <1>1, <1>5, Zenon DEF MapInv, Mapped
    <2>2. PICK i \in DOMAIN Channels(processed[k]) :
            Channels(processed[k])[i] = e /\ data_port_map[e] = NameAt(processed[k], i)
      BY <2>1, Zenon DEF EntryOf
    <2>3. e \in ToSet(Channels(processed[k])) /\ IsControl(processed[k])
      BY <2>1, <2>2 DEF EntryOf, ToSet
    <2>4. \A m \in Announcing(all, e, n + 1) : m <= k
      BY <1>1, <1>4, <2>1, Zenon DEF EntryOf
    <2>5. data_port_map[e] \in ToSet(all[k].names) \union {DefaultName}
      BY <1>1, <1>2, <2>2, NamesAre, Zenon
    <2> QED
      BY <1>4, <2>3, <2>4, <2>5, Zenon
  <1>6. ASSUME NEW k \in Announcing(all, e, n + 1) PROVE e \in DOMAIN data_port_map
    BY <1>1, <1>4, <1>6, Zenon DEF MapInv, Mapped
  <1>7. e \in DOMAIN data_port_map => data_port_map[e] # NoName
    BY Zenon DEF Formed
  <1>8. e \in DOMAIN data_port_map => NamedByLast(all, e, n + 1, data_port_map[e])
    BY <1>5, Zenon DEF NamedByLast
  <1>9. e \in DOMAIN data_port_map <=> Announcing(all, e, n + 1) # {}
    BY <1>5, <1>6
  <1> QED
    BY <1>7, <1>8, <1>9 DEF n, all

LEMMA SessionNameFound ==
    ASSUME Formed, MapInv, NEW s \in Streams, HandOver(s), NEW c \in ToSet(FtpObjects(s))
    PROVE  TransferOf(processed', Len(processed) + 1, c)
  <1> DEFINE o == [data |-> DataPayload(s), proto |-> "FTP", src |-> s.client, xor |-> FALSE,
                   name |-> IF KnownName(s) = NoName THEN UnknownTransfer ELSE KnownName(s)]
             i == Len(processed) + 1
             all == processed'
  <1>1. ~ IsControl(s) /\ FtpObjects(s) = <<o>>
    <2>1. FtpObjects(s) # << >>
      BY EmptyIs
    <2> QED
      BY <2>1, Zenon DEF FtpObjects
  <1>2. /\ o.src = s.client /\ o.data = DataPayload(s)
        /\ o.name = IF KnownName(s) = NoName THEN UnknownTransfer ELSE KnownName(s)
    OBVIOUS
  <1> HIDE DEF o
  <1>3. c = o
    BY <1>1, OneIs
  <1>4. all[i] = s
    BY ProcessedGrows
  <1>5. \A e : /\ e \in DOMAIN data_port_map <=> Announcing(all, e, i) # {}
               /\ e \in DOMAIN data_port_map =>
                    data_port_map[e] # NoName /\ NamedByLast(all, e, i, data_port_map[e])
    BY TableIs
  <1> HIDE DEF all, i
  <1>6. IF s.server \in DOMAIN data_port_map THEN NamedByLast(all, s.server, i, o.name)
        ELSE IF s.client \in DOMAIN data_port_map THEN NamedByLast(all, s.client, i, o.name)
        ELSE o.name = UnknownTransfer
    <2>1. CASE s.server \in DOMAIN data_port_map
      <3>1. KnownName(s) = data_port_map[s.server] /\ data_port_map[s.server] # NoName
        BY <1>5, <2>1, Zenon DEF KnownName
      <3>2. o.name = data_port_map[s.server]
        BY <1>2, <3>1
      <3> QED
        BY <1>5, <2>1, <3>2
    <2>2. CASE s.server \notin DOMAIN data_port_map /\ s.client \in DOMAIN data_port_map
      <3>1. KnownName(s) = data_port_map[s.client] /\ data_port_map[s.client] # NoName
        BY <1>5, <2>2, Zenon DEF KnownName
      <3>2. o.name = data_port_map[s.client]
        BY <1>2, <3>1
      <3> QED
        BY <1>5, <2>2, <3>2
    <2>3. CASE s.server \notin DOMAIN data_port_map /\ s.client \notin DOMAIN data_port_map
      <3>1. KnownName(s) = NoName
        BY <2>3, Zenon DEF KnownName
      <3> QED
        BY <1>2, <2>3, <3>1
    <2> QED
      BY <2>1, <2>2, <2>3
  <1>7. TransferOf(all, i, c)
    BY <1>1, <1>2, <1>3, <1>4, <1>5, <1>6, Zenon DEF TransferOf
  <1> QED
    BY <1>7 DEF all, i

LEMMA SessionNamesNext ==
    SessionNames' <=>
        \A c \in ToSet(candidates') : c.proto = "FTP" => \E i \in DOMAIN processed' : TransferOf(processed', i, c)
  BY Zenon DEF SessionNames, TransferOf, NamedByLast, Announcing, DataPayload, IsControl

LEMMA SessionNamesStep ==
    ASSUME Formed, MapInv, SessionNames, NEW s \in Streams, HandOver(s)
    PROVE  SessionNames'
  <1> DEFINE n == Len(processed)
             all == processed'
  <1>1. /\ n \in Nat /\ DOMAIN processed = 1 .. n /\ DOMAIN all = 1 .. n + 1
        /\ \A k \in 1 .. n : all[k] = processed[k]
    BY ProcessedGrows
  <1>2. \A o \in ToSet(candidates') : o.proto = "FTP" => o \in ToSet(candidates) \union ToSet(FtpObjects(s))
    BY HandOverIs
  <1>3. \A c \in ToSet(FtpObjects(s)) : TransferOf(all, n + 1, c)
    BY SessionNameFound
  <1> HIDE DEF n, all
  <1>4. ASSUME NEW c \in ToSet(candidates), c.proto = "FTP"
        PROVE  \E i \in DOMAIN all : TransferOf(all, i, c)
    <2>1. PICK i \in DOMAIN processed : TransferOf(processed, i, c)
      BY <1>4, Zenon DEF SessionNames
    <2>2. i \in Nat /\ i \in 1 .. n + 1 /\ \A k \in 1 .. i - 1 : k \in 1 .. n
      BY <1>1
    <2>3. all[i] = processed[i] /\ \A k \in 1 .. i - 1 : all[k] = processed[k]
      BY <1>1, <2>2
    <2> QED
      BY <1>1, <2>1, <2>2, <2>3, TransferStays
  <1>5. n + 1 \in DOMAIN all
    BY <1>1
  <1>6. \A c \in ToSet(candidates') : c.proto = "FTP" => \E i \in DOMAIN all : TransferOf(all, i, c)
    BY <1>2, <1>3, <1>4, <1>5
  <1> QED
    BY <1>6, SessionNamesNext DEF all

-----------------------------------------------------------------------------
\* Counting those that are not behind gives the places of a linear order: each
\* place is taken, by one.
LEMMA PlacesTaken ==
    ASSUME NEW n \in Nat, NEW R,
           \A i \in 1 .. n : <<i, i>> \in R,
           \A i, j \in 1 .. n : <<i, j>> \in R \/ <<j, i>> \in R,
           \A i, j \in 1 .. n : <<i, j>> \in R /\ <<j, i>> \in R => i = j,
           \A i, j, k \in 1 .. n : <<i, j>> \in R /\ <<j, k>> \in R => <<i, k>> \in R
    PROVE  LET Place(i) == Cardinality({j \in 1 .. n : <<j, i>> \in R})
           IN  /\ \A i \in 1 .. n : Place(i) \in 1 .. n
               /\ \A i, j \in 1 .. n : Place(i) = Place(j) => i = j
               /\ \A k \in 1 .. n : \E i \in 1 .. n : Place(i) = k
  <1> DEFINE D == 1 .. n
             Up(i) == {j \in D : <<j, i>> \in R}
             P(i) == Cardinality(Up(i))
             place == [i \in D |-> P(i)]
  <1>1. IsFiniteSet(D) /\ Cardinality(D) = n
    BY FS_Interval
  <1>2. ASSUME NEW i \in D PROVE IsFiniteSet(Up(i)) /\ P(i) \in D
    <2>1. IsFiniteSet(Up(i)) /\ P(i) <= n
      <3>1. Up(i) \in SUBSET D
        OBVIOUS
      <3> HIDE DEF Up, D
      <3>2. IsFiniteSet(Up(i)) /\ Cardinality(Up(i)) <= Cardinality(D)
        BY <1>1, <3>1, FS_Subset
      <3> QED
        BY <1>1, <3>2
    <2>2. P(i) \in Nat
      BY <2>1, FS_CardinalityType
    <2>3. {i} \subseteq Up(i)
      OBVIOUS
    <2>4. Cardinality({i}) = 1
      BY FS_Singleton
    <2>5. 1 <= P(i)
      <3> HIDE DEF Up
      <3> QED
        BY <2>1, <2>3, <2>4, FS_Subset
    <2> HIDE DEF P, Up
    <2> QED
      BY <2>1, <2>2, <2>5
  <1>3. ASSUME NEW i \in D, NEW j \in D, <<i, j>> \in R, P(i) = P(j) PROVE i = j
    <2>1. Up(i) \subseteq Up(j)
      BY <1>3
    <2>2. Up(i) = Up(j)
      <3> HIDE DEF Up
      <3> QED
        BY <1>2, <1>3, <2>1, FS_Subset
    <2>3. j \in Up(i)
      BY <2>2
    <2> QED
      BY <1>3, <2>3
  <1>4. \A i, j \in D : P(i) = P(j) => i = j
    <2> SUFFICES ASSUME NEW i \in D, NEW j \in D, P(i) = P(j) PROVE i = j
      OBVIOUS
    <2>1. <<i, j>> \in R \/ <<j, i>> \in R
      OBVIOUS
    <2> HIDE DEF P
    <2> QED
      BY <1>3, <2>1
  <1> HIDE DEF P, Up
  <1>5. place \in Injection(D, D)
    BY <1>2, <1>4 DEF Injection, IsInjective
  <1>6. place \in Surjection(D, D)
    <2> HIDE DEF place
    <2> QED
      BY <1>1, <1>5, FS_Injection
  <1>7. \A k \in D : \E i \in D : P(i) = k
    BY <1>6 DEF Surjection
  <1> QED
    BY <1>2, <1>4, <1>7 DEF P, Up

\* The order of the report is linear.
LEMMA OrderIsLinear ==
    ASSUME NEW n \in Nat, NEW a, NEW b, \A i \in 1 .. n : a[i] \in Int /\ b[i] \in Int,
           NEW i \in 1 .. n, NEW j \in 1 .. n, NEW k \in 1 .. n
    PROVE  LET B(x, y) == \/ a[x] > a[y]
                          \/ a[x] = a[y] /\ b[x] > b[y]
               A(x, y) == \/ B(x, y)
                          \/ ~B(y, x) /\ x <= y
           IN  /\ A(i, i)
               /\ A(i, j) \/ A(j, i)
               /\ A(i, j) /\ A(j, i) => i = j
               /\ A(i, j) /\ A(j, k) => A(i, k)
  <1> DEFINE a1 == a[i]  a2 == a[j]  a3 == a[k]  b1 == b[i]  b2 == b[j]  b3 == b[k]
  <1>1. a1 \in Int /\ a2 \in Int /\ a3 \in Int /\ b1 \in Int /\ b2 \in Int /\ b3 \in Int
    OBVIOUS
  <1> HIDE DEF a1, a2, a3, b1, b2, b3
  <1>2. i \in Int /\ j \in Int /\ k \in Int
    OBVIOUS
  <1>3. (a1 > a1 \/ (a1 = a1 /\ b1 > b1)) \/ (~(a1 > a1 \/ (a1 = a1 /\ b1 > b1)) /\ i <= i)
    BY <1>1, <1>2
  <1>4. \/ (a1 > a2 \/ (a1 = a2 /\ b1 > b2)) \/ (~(a2 > a1 \/ (a2 = a1 /\ b2 > b1)) /\ i <= j)
        \/ (a2 > a1 \/ (a2 = a1 /\ b2 > b1)) \/ (~(a1 > a2 \/ (a1 = a2 /\ b1 > b2)) /\ j <= i)
    BY <1>1, <1>2
  <1>5. /\ (a1 > a2 \/ (a1 = a2 /\ b1 > b2)) \/ (~(a2 > a1 \/ (a2 = a1 /\ b2 > b1)) /\ i <= j)
        /\ (a2 > a1 \/ (a2 = a1 /\ b2 > b1)) \/ (~(a1 > a2 \/ (a1 = a2 /\ b1 > b2)) /\ j <= i)
        => i = j
    BY <1>1, <1>2
  <1>6. /\ (a1 > a2 \/ (a1 = a2 /\ b1 > b2)) \/ (~(a2 > a1 \/ (a2 = a1 /\ b2 > b1)) /\ i <= j)
        /\ (a2 > a3 \/ (a2 = a3 /\ b2 > b3)) \/ (~(a3 > a2 \/ (a3 = a2 /\ b3 > b2)) /\ j <= k)
        => (a1 > a3 \/ (a1 = a3 /\ b1 > b3)) \/ (~(a3 > a1 \/ (a3 = a1 /\ b3 > b1)) /\ i <= k)
    BY <1>1, <1>2
  <1> QED
    BY <1>3, <1>4, <1>5, <1>6, Zenon DEF a1, a2, a3, b1, b2, b3

\* Ranking puts the same files in another order.
LEMMA RankIs ==
    ASSUME IsSequence(files), \A f \in ToSet(files) : f.score \in Int /\ Size[f.data] \in Int, Rank
    PROVE  /\ IsSequence(files') /\ Len(files') = Len(files) /\ ToSet(files') = ToSet(files)
           /\ \E order \in [1 .. Len(files) -> 1 .. Len(files)] :
                \A k \in 1 .. Len(files) : files'[k] = files[order[k]] /\ \A m \in 1 .. Len(files) : order[k] = order[m] => k = m
  <1> DEFINE n == Len(files)
             Ahead(j, i) == \/ Before(files[j], files[i])
                            \/ ~Before(files[i], files[j]) /\ j <= i
             Place(i) == Cardinality({j \in 1 .. n : Ahead(j, i)})
             R == {p \in (1 .. n) \X (1 .. n) : Ahead(p[1], p[2])}
             Counted(i) == Cardinality({j \in 1 .. n : <<j, i>> \in R})
             order == [k \in 1 .. n |-> CHOOSE i \in 1 .. n : Place(i) = k]
  <1>1. n \in Nat /\ DOMAIN files = 1 .. n
    BY SequenceIs
  <1>2. files' = [k \in 1 .. n |-> files[CHOOSE i \in 1 .. n : Place(i) = k]]
    BY <1>1 DEF Rank
  <1>3. \A i \in 1 .. n : files[i] \in ToSet(files)
    BY <1>1 DEF ToSet
  <1>4. ASSUME NEW i \in 1 .. n, NEW j \in 1 .. n, NEW k \in 1 .. n
        PROVE  /\ Ahead(i, i)
               /\ Ahead(i, j) \/ Ahead(j, i)
               /\ Ahead(i, j) /\ Ahead(j, i) => i = j
               /\ Ahead(i, j) /\ Ahead(j, k) => Ahead(i, k)
    <2> DEFINE a == [x \in 1 .. n |-> files[x].score]
               b == [x \in 1 .. n |-> Size[files[x].data]]
    <2>1. \A x \in 1 .. n : a[x] \in Int /\ b[x] \in Int
      BY <1>3
    <2>2. \A x, y \in 1 .. n : Before(files[x], files[y]) <=> (a[x] > a[y] \/ (a[x] = a[y] /\ b[x] > b[y]))
      BY Zenon DEF Before
    <2> HIDE DEF a, b, n
    <2>3. LET B(x, y) == \/ a[x] > a[y]
                         \/ a[x] = a[y] /\ b[x] > b[y]
              A(x, y) == \/ B(x, y)
                         \/ ~B(y, x) /\ x <= y
          IN  /\ A(i, i)
              /\ A(i, j) \/ A(j, i)
              /\ A(i, j) /\ A(j, i) => i = j
              /\ A(i, j) /\ A(j, k) => A(i, k)
      BY <1>1, <2>1, OrderIsLinear
    <2> QED
      BY <2>2, <2>3, Zenon
  <1> HIDE DEF n, Ahead
  <1>5. \A i, j \in 1 .. n : <<i, j>> \in R <=> Ahead(i, j)
    OBVIOUS
  <1>6. \A i \in 1 .. n : {j \in 1 .. n : <<j, i>> \in R} = {j \in 1 .. n : Ahead(j, i)}
    BY <1>5
  <1>7. \A i \in 1 .. n : Counted(i) = Place(i)
    BY <1>6
  <1> HIDE DEF R
  <1>8. /\ \A i \in 1 .. n : <<i, i>> \in R
        /\ \A i, j \in 1 .. n : <<i, j>> \in R \/ <<j, i>> \in R
        /\ \A i, j \in 1 .. n : <<i, j>> \in R /\ <<j, i>> \in R => i = j
        /\ \A i, j, k \in 1 .. n : <<i, j>> \in R /\ <<j, k>> \in R => <<i, k>> \in R
    BY <1>4, <1>5, Zenon
  <1>9. /\ \A i \in 1 .. n : Counted(i) \in 1 .. n
        /\ \A i, j \in 1 .. n : Counted(i) = Counted(j) => i = j
        /\ \A k \in 1 .. n : \E i \in 1 .. n : Counted(i) = k
    BY <1>1, <1>8, PlacesTaken
  <1> HIDE DEF Counted, Place
  <1>10. \A k \in 1 .. n : order[k] \in 1 .. n /\ Place(order[k]) = k
    BY <1>7, <1>9
  <1>11. \A i \in 1 .. n : Place(i) \in 1 .. n /\ order[Place(i)] = i
    BY <1>7, <1>9, <1>10
  <1>12. files' = [k \in 1 .. n |-> files[order[k]]]
    BY <1>2
  <1>13. order \in [1 .. n -> 1 .. n]
    BY <1>10
  <1> HIDE DEF order
  <1>14. DOMAIN files' = 1 .. n /\ \A k \in 1 .. n : files'[k] = files[order[k]]
    BY <1>12
  <1>15. files' = [k \in 1 .. n |-> files'[k]]
    BY <1>12
  <1>16. IsSequence(files') /\ Len(files') = n
    BY <1>1, <1>14, <1>15, IndexedIs
  <1>17. ToSet(files') = ToSet(files)
    <2>1. ToSet(files) = {files[i] : i \in 1 .. n} /\ ToSet(files') = {files'[k] : k \in 1 .. n}
      BY <1>1, <1>14, Zenon DEF ToSet
    <2>2. \A k \in 1 .. n : files'[k] \in {files[i] : i \in 1 .. n}
      BY <1>10, <1>14
    <2>3. \A i \in 1 .. n : files[i] = files'[Place(i)]
      BY <1>11, <1>14
    <2>4. \A i \in 1 .. n : files[i] \in {files'[k] : k \in 1 .. n}
      BY <1>11, <2>3
    <2> QED
      BY <2>1, <2>2, <2>4
  <1>18. \A k, m \in 1 .. n : order[k] = order[m] => k = m
    BY <1>10
  <1> QED
    BY <1>13, <1>14, <1>16, <1>17, <1>18, Zenon DEF n

-----------------------------------------------------------------------------
\* What a file is after the first p candidates.
SameUpTo(all, p, content) == {k \in 1 .. p : all[k].data = content}
FittingUpTo(all, p, content) == {k \in SameUpTo(all, p, content) : DottedName(all[k]).ext = Extension[content]}

NameUpTo(all, p, content) ==
    IF Extension[content] = "bin" THEN DottedName(all[Min(SameUpTo(all, p, content))])
    ELSE IF FittingUpTo(all, p, content) # {} THEN DottedName(all[Min(FittingUpTo(all, p, content))])
    ELSE DottedName(all[Max(SameUpTo(all, p, content))])

Scored(all, p, f) ==
    /\ \E k \in SameUpTo(all, p, f.data) : f.score = Score(all[k])
    /\ \A k \in SameUpTo(all, p, f.data) : Score(all[k]) <= f.score
    /\ f.level = Level(f.score)

FileIs(all, p, f) ==
    /\ f = [data |-> f.data, name |-> f.name, proto |-> f.proto, src |-> f.src,
            score |-> f.score, level |-> f.level, indicators |-> f.indicators]
    /\ LargeEnough(f.data)
    /\ SameUpTo(all, p, f.data) # {}
    /\ Scored(all, p, f)
    /\ f.indicators = UNION {Analyzed(all[k]).indicators : k \in SameUpTo(all, p, f.data)}
    /\ f.proto = all[Min(SameUpTo(all, p, f.data))].proto
    /\ f.src = all[Min(SameUpTo(all, p, f.data))].src
    /\ f.name = NameUpTo(all, p, f.data)

LEMMA ScoreIs ==
    ASSUME NEW c, IsObject(c)
    PROVE  Score(c) \in Int
  <1>1. BaseScore[c.data] \in Nat
    BY ExtractionAssumption DEF IsObject
  <1> DEFINE x == BaseScore[c.data] + IF c.xor THEN 40 ELSE 0
  <1>2. x \in Int
    BY <1>1
  <1> HIDE DEF x
  <1>3. Min({100, x}) \in Int
    BY <1>2, MinOfTwo
  <1> QED
    BY <1>3 DEF Score, x

LEMMA AnalyzedIs ==
    ASSUME NEW c
    PROVE  LET a == Analyzed(c) IN
           /\ a = [data |-> a.data, name |-> a.name, proto |-> a.proto, src |-> a.src,
                   score |-> a.score, level |-> a.level, indicators |-> a.indicators]
           /\ a.data = c.data /\ a.name = DottedName(c) /\ a.proto = c.proto /\ a.src = c.src
           /\ a.score = Score(c) /\ a.level = Level(Score(c))
  <1> DEFINE name == DottedName(c)
             score == Score(c)
             level == Level(Score(c))
             more == Indicators[c.data] \union IF c.xor THEN {"xor"} ELSE {}
  <1>1. Analyzed(c) = [data |-> c.data, name |-> name, proto |-> c.proto, src |-> c.src,
                       score |-> score, level |-> level, indicators |-> more]
    BY Zenon DEF Analyzed
  <1> HIDE DEF name, score, level, more
  <1>2. /\ Analyzed(c).data = c.data /\ Analyzed(c).name = name
        /\ Analyzed(c).proto = c.proto /\ Analyzed(c).src = c.src
        /\ Analyzed(c).score = score /\ Analyzed(c).level = level /\ Analyzed(c).indicators = more
    BY <1>1
  <1> QED
    BY <1>1, <1>2, Zenon DEF name, score, level

\* One more candidate among those with the same content.
LEMMA SameGrows ==
    ASSUME NEW all, NEW p \in Nat, NEW content
    PROVE  /\ SameUpTo(all, p, content) \in SUBSET (1 .. p)
           /\ FittingUpTo(all, p, content) \in SUBSET (1 .. p)
           /\ SameUpTo(all, p + 1, content) = SameUpTo(all, p, content) \union
                IF all[p + 1].data = content THEN {p + 1} ELSE {}
           /\ all[p + 1].data = content =>
                FittingUpTo(all, p + 1, content) = FittingUpTo(all, p, content) \union
                  IF DottedName(all[p + 1]).ext = Extension[content] THEN {p + 1} ELSE {}
  <1>1. \A k : k \in 1 .. p + 1 <=> k \in 1 .. p \/ k = p + 1
    OBVIOUS
  <1>2. SameUpTo(all, p, content) \in SUBSET (1 .. p)
        /\ FittingUpTo(all, p, content) \in SUBSET (1 .. p)
    BY Zenon DEF SameUpTo, FittingUpTo
  <1> DEFINE n == p + 1
  <1>3. \A k : k \in SameUpTo(all, n, content) <=> k \in 1 .. n /\ all[k].data = content
    BY Zenon DEF SameUpTo
  <1>4. \A k : k \in SameUpTo(all, p, content) <=> k \in 1 .. p /\ all[k].data = content
    BY Zenon DEF SameUpTo
  <1>5. \A k : k \in FittingUpTo(all, n, content)
                 <=> k \in SameUpTo(all, n, content) /\ DottedName(all[k]).ext = Extension[content]
    BY Zenon DEF FittingUpTo
  <1>6. \A k : k \in FittingUpTo(all, p, content)
                 <=> k \in SameUpTo(all, p, content) /\ DottedName(all[k]).ext = Extension[content]
    BY Zenon DEF FittingUpTo
  <1>7. \A k : k \in 1 .. n <=> k \in 1 .. p \/ k = n
    BY <1>1
  <1> HIDE DEF n
  <1>8. SameUpTo(all, n, content) = SameUpTo(all, p, content) \union IF all[n].data = content THEN {n} ELSE {}
    BY <1>3, <1>4, <1>7
  <1>9. all[n].data = content =>
          FittingUpTo(all, n, content) = FittingUpTo(all, p, content) \union
            IF DottedName(all[n]).ext = Extension[content] THEN {n} ELSE {}
    BY <1>5, <1>6, <1>8
  <1> QED
    BY <1>2, <1>8, <1>9 DEF n

LEMMA MinGrows ==
    ASSUME NEW p \in Nat, NEW S \in SUBSET (1 .. p)
    PROVE  /\ S # {} => Min(S) \in S /\ Max(S) \in S /\ Min(S \union {p + 1}) = Min(S)
           /\ Max(S \union {p + 1}) = p + 1
           /\ Min({p + 1}) = p + 1
  <1> DEFINE n == p + 1
             T == S \union {n}
  <1>1. n \in Nat /\ \A k \in 1 .. p : k \in Nat /\ k < n
    OBVIOUS
  <1>2. T \in SUBSET Nat /\ T # {} /\ T \in SUBSET (0 .. n) /\ {n} \in SUBSET Nat /\ {n} # {}
    BY <1>1
  <1>3. Min(T) \in T /\ \A k \in T : Min(T) <= k
    <2> HIDE DEF T
    <2> QED
      BY <1>2, MinIs
  <1>4. Max(T) \in T /\ \A k \in T : k <= Max(T)
    <2> HIDE DEF T, n
    <2> QED
      BY <1>1, <1>2, MaxIs
  <1>5. Min({n}) = n
    <2> HIDE DEF n
    <2>1. Min({n}) \in {n}
      BY <1>2, MinIs
    <2> QED
      BY <2>1
  <1>6. Max(T) = n
    <2> HIDE DEF n
    <2>1. n <= Max(T)
      BY <1>4
    <2>2. Max(T) \in S => Max(T) \in Nat /\ Max(T) < n
      BY <1>1
    <2>3. Max(T) \in S \/ Max(T) = n
      BY <1>4
    <2> QED
      BY <1>1, <2>1, <2>2, <2>3
  <1>7. ASSUME S # {} PROVE Min(S) \in S /\ Max(S) \in S /\ Min(T) = Min(S)
    <2>1. S \in SUBSET Nat /\ S \in SUBSET (0 .. p)
      BY <1>1
    <2>2. Min(S) \in S /\ \A k \in S : Min(S) <= k
      BY <1>7, <2>1, MinIs
    <2>3. Max(S) \in S
      BY <1>7, <2>1, MaxIs
    <2> HIDE DEF n
    <2>4. Min(S) \in Nat /\ Min(S) < n /\ Min(T) \in Nat
      BY <1>1, <1>2, <1>3, <2>2
    <2>5. Min(T) <= Min(S) /\ Min(T) # n
      <3>1. Min(T) <= Min(S)
        BY <1>3, <2>2
      <3> QED
        BY <1>1, <2>4, <3>1
    <2>6. Min(S) <= Min(T)
      BY <1>3, <2>2, <2>5
    <2> QED
      BY <2>2, <2>3, <2>4, <2>5, <2>6
  <1> HIDE DEF T
  <1> QED
    BY <1>5, <1>6, <1>7 DEF T

\* A file of a new content.
LEMMA FileNew ==
    ASSUME NEW all, NEW p \in Nat, NEW c, c = all[p + 1], IsObject(c), LargeEnough(c.data),
           SameUpTo(all, p, c.data) = {}
    PROVE  FileIs(all, p + 1, Analyzed(c))
  <1> DEFINE n == p + 1
             f == Analyzed(c)
             same == SameUpTo(all, n, c.data)
             fitting == FittingUpTo(all, n, c.data)
  <1>1. same = {n}
    <2>1. same = SameUpTo(all, p, c.data) \union IF all[n].data = c.data THEN {n} ELSE {}
      BY SameGrows, Zenon
    <2> HIDE DEF f, same, fitting
    <2>2. same = {} \union {n}
      BY <2>1, Zenon
    <2> QED
      BY <2>2
  <1>2. fitting = {n} \/ fitting = {}
    <2>1. FittingUpTo(all, p, c.data) = {}
      BY DEF FittingUpTo
    <2>2. fitting = FittingUpTo(all, p, c.data) \union IF DottedName(all[n]).ext = Extension[c.data] THEN {n} ELSE {}
      BY SameGrows, Zenon
    <2> HIDE DEF f, same, fitting
    <2>3. fitting = {} \union IF DottedName(all[n]).ext = Extension[c.data] THEN {n} ELSE {}
      BY <2>1, <2>2, Zenon
    <2> QED
      BY <2>3
  <1>3. Min({n}) = n /\ Max({n}) = n
    <2>1. {} \in SUBSET (1 .. p) /\ {} \union {p + 1} = {p + 1}
      OBVIOUS
    <2> QED
      BY <2>1, MinGrows
  <1>4. /\ f = [data |-> f.data, name |-> f.name, proto |-> f.proto, src |-> f.src,
                score |-> f.score, level |-> f.level, indicators |-> f.indicators]
        /\ f.data = c.data /\ f.name = DottedName(c) /\ f.proto = c.proto /\ f.src = c.src
        /\ f.score = Score(c) /\ f.level = Level(Score(c))
    BY AnalyzedIs
  <1>5. Score(c) \in Int /\ Score(c) <= Score(c)
    <2>1. Score(c) \in Int
      BY ScoreIs
    <2> QED
      BY <2>1
  <1>6. all[n] = c
    OBVIOUS
  <1> HIDE DEF n
  <1>7. f.name = NameUpTo(all, n, c.data)
    BY <1>1, <1>2, <1>3, <1>4, <1>6, Zenon DEF NameUpTo
  <1> DEFINE found == {Analyzed(all[k]).indicators : k \in same}
  <1>8. f.indicators = UNION found
    <2>1. found = {f.indicators}
      BY <1>1, <1>6
    <2> HIDE DEF found, f
    <2> QED
      BY <2>1
  <1> HIDE DEF f
  <1>9. Scored(all, n, f)
    BY <1>1, <1>4, <1>5, <1>6, Zenon DEF Scored
  <1>10. f.proto = all[Min(same)].proto /\ f.src = all[Min(same)].src
    BY <1>1, <1>3, <1>4, <1>6, Zenon
  <1>11. same # {}
    BY <1>1
  <1> QED
    BY <1>4, <1>7, <1>8, <1>9, <1>10, <1>11, Zenon DEF FileIs, f, n

\* A file whose content is found again.
LEMMA FileMerged ==
    ASSUME NEW all, NEW p \in Nat, NEW c, c = all[p + 1], IsObject(c),
           \A k \in 1 .. p : IsObject(all[k]),
           NEW f, FileIs(all, p, f), f.data = c.data
    PROVE  FileIs(all, p + 1, Merged(f, Analyzed(c))) /\ Merged(f, Analyzed(c)).data = f.data
  <1> DEFINE n == p + 1
             a == Analyzed(c)
             g == Merged(f, a)
             extension == Extension[c.data]
             old == SameUpTo(all, p, c.data)
             same == SameUpTo(all, n, c.data)
             oldFitting == FittingUpTo(all, p, c.data)
             fitting == FittingUpTo(all, n, c.data)
  <1>1. /\ old \in SUBSET (1 .. p) /\ oldFitting \in SUBSET (1 .. p) /\ oldFitting \subseteq old
        /\ old # {} /\ same = old \union {n}
        /\ fitting = oldFitting \union IF DottedName(c).ext = extension THEN {n} ELSE {}
    BY SameGrows DEF FileIs, FittingUpTo
  <1>2. /\ Min(old) \in old /\ Max(old) \in old /\ Min(same) = Min(old) /\ Max(same) = n
        /\ oldFitting # {} => Min(oldFitting) \in oldFitting /\ Min(oldFitting \union {n}) = Min(oldFitting)
        /\ Min({n}) = n
    <2> HIDE DEF old, oldFitting, same, fitting
    <2> QED
      BY <1>1, MinGrows
  <1>3. all[n] = c
    OBVIOUS
  <1>4. /\ a.data = c.data /\ a.name = DottedName(c)
        /\ a.score = Score(c) /\ a.level = Level(Score(c))
    BY AnalyzedIs
  <1>5. /\ f = [data |-> f.data, name |-> f.name, proto |-> f.proto, src |-> f.src,
                score |-> f.score, level |-> f.level, indicators |-> f.indicators]
        /\ LargeEnough(f.data) /\ Scored(all, p, f)
        /\ f.indicators = UNION {Analyzed(all[k]).indicators : k \in old}
        /\ f.proto = all[Min(old)].proto /\ f.src = all[Min(old)].src /\ f.name = NameUpTo(all, p, c.data)
    BY Zenon DEF FileIs
  <1>6. Score(c) \in Int /\ \A k \in old : Score(all[k]) \in Int
    BY <1>1, ScoreIs
  <1> HIDE DEF n, a, old, same, oldFitting, fitting
  <1>7. /\ g = [data |-> g.data, name |-> g.name, proto |-> g.proto, src |-> g.src,
                score |-> g.score, level |-> g.level, indicators |-> g.indicators]
        /\ g.data = f.data /\ g.proto = f.proto /\ g.src = f.src
        /\ g.score = IF a.score > f.score THEN a.score ELSE f.score
        /\ g.level = IF a.score > f.score THEN a.level ELSE f.level
        /\ g.indicators = f.indicators \union a.indicators
        /\ g.name = IF f.name.ext # extension /\ extension # "bin" THEN a.name ELSE f.name
    <2> DEFINE d == f.data
               name == f.name
               proto == f.proto
               src == f.src
               score == f.score
               level == f.level
               indicators == f.indicators
               name1 == IF name.ext # extension /\ extension # "bin" THEN a.name ELSE name
               score1 == IF a.score > score THEN a.score ELSE score
               level1 == IF a.score > score THEN a.level ELSE level
    <2>1. f = [data |-> d, name |-> name, proto |-> proto, src |-> src,
               score |-> score, level |-> level, indicators |-> indicators]
      BY <1>5
    <2>2. g = [f EXCEPT !.score = score1, !.level = level1, !.indicators = @ \union a.indicators, !.name = name1]
      BY <1>4, Zenon DEF Merged
    <2> HIDE DEF d, name, proto, src, score, level, indicators, name1, score1, level1
    <2>3. g = [data |-> d, name |-> name1, proto |-> proto, src |-> src,
               score |-> score1, level |-> level1, indicators |-> indicators \union a.indicators]
      BY <2>1, <2>2
    <2> HIDE DEF g
    <2>4. /\ g.data = d /\ g.name = name1 /\ g.proto = proto /\ g.src = src
          /\ g.score = score1 /\ g.level = level1 /\ g.indicators = indicators \union a.indicators
      BY <2>3
    <2> QED
      BY <2>3, <2>4, Zenon DEF d, name, proto, src, score, level, indicators, name1, score1, level1
  <1> HIDE DEF g
  <1>8. Scored(all, n, g)
    <2>1. PICK w \in old : f.score = Score(all[w])
      BY <1>5, Zenon DEF Scored, old
    <2>2. (\A k \in old : Score(all[k]) <= f.score) /\ f.level = Level(f.score)
      BY <1>5, Zenon DEF Scored, old
    <2> DEFINE high == IF Score(c) > f.score THEN Score(c) ELSE f.score
    <2>3. f.score \in Int
      BY <1>6, <2>1
    <2>4. g.score = high /\ g.level = Level(high)
      BY <1>4, <1>7, <2>2, Zenon
    <2>5. high = f.score \/ high = Score(c)
      OBVIOUS
    <2>6. Score(c) <= high /\ \A k \in old : Score(all[k]) <= high
      BY <1>6, <2>2, <2>3
    <2> HIDE DEF high
    <2>7. \E k \in same : g.score = Score(all[k])
      BY <1>1, <1>3, <2>1, <2>4, <2>5
    <2>8. \A k \in same : Score(all[k]) <= g.score
      BY <1>1, <1>3, <2>4, <2>6
    <2> QED
      BY <1>7, <2>4, <2>7, <2>8, Zenon DEF Scored, same, old
  <1>9. g.indicators = UNION {Analyzed(all[k]).indicators : k \in same}
    <2> DEFINE E(k) == Analyzed(all[k]).indicators
               olds == {E(k) : k \in old}
               news == {E(k) : k \in same}
    <2>1. E(n) = a.indicators
      BY <1>3 DEF a
    <2> HIDE DEF E
    <2>2. news = olds \union {E(n)}
      BY <1>1
    <2>3. f.indicators = UNION olds
      BY <1>5 DEF E
    <2> HIDE DEF olds, news
    <2>4. UNION news = (UNION olds) \union E(n)
      BY <2>2
    <2>5. g.indicators = UNION news
      BY <1>7, <2>1, <2>3, <2>4
    <2> QED
      BY <2>5 DEF news, E
  <1>10. g.name = NameUpTo(all, n, c.data)
    <2>1. CASE extension = "bin"
      <3>1. g.name = f.name /\ f.name = DottedName(all[Min(old)])
        BY <1>5, <1>7, <2>1, Zenon DEF NameUpTo, old
      <3> QED
        BY <1>2, <2>1, <3>1, Zenon DEF NameUpTo, same
    <2>2. CASE extension # "bin" /\ oldFitting # {}
      <3>1. f.name = DottedName(all[Min(oldFitting)])
        BY <1>5, <2>2, Zenon DEF NameUpTo, oldFitting
      <3>2. f.name.ext = extension
        BY <1>2, <2>2, <3>1, Zenon DEF oldFitting, FittingUpTo
      <3>3. fitting # {} /\ Min(fitting) = Min(oldFitting)
        BY <1>1, <1>2, <2>2
      <3>4. g.name = f.name
        BY <1>7, <3>2, Zenon
      <3> QED
        BY <2>2, <3>1, <3>3, <3>4, Zenon DEF NameUpTo, fitting
    <2>3. CASE extension # "bin" /\ oldFitting = {}
      <3>1. f.name = DottedName(all[Max(old)])
        BY <1>5, <2>3, Zenon DEF NameUpTo, oldFitting, old
      <3>2. f.name.ext # extension
        <4>1. Max(old) \notin oldFitting
          BY <2>3
        <4> QED
          BY <1>2, <3>1, <4>1, Zenon DEF oldFitting, FittingUpTo, old
      <3>3. g.name = DottedName(all[n])
        BY <1>3, <1>4, <1>7, <2>3, <3>2, Zenon
      <3>4. fitting = {n} \/ fitting = {}
        BY <1>1, <2>3
      <3> QED
        BY <1>2, <2>3, <3>3, <3>4, Zenon DEF NameUpTo, fitting, same
    <2> QED
      BY <2>1, <2>2, <2>3
  <1>11. g.proto = all[Min(same)].proto /\ g.src = all[Min(same)].src /\ same # {}
    <2>1. same # {}
      BY <1>1
    <2> QED
      BY <1>2, <1>5, <1>7, <2>1, Zenon
  <1>12. g.data = c.data /\ LargeEnough(g.data)
    BY <1>5, <1>7, Zenon
  <1>13. FileIs(all, n, g)
    BY <1>7, <1>8, <1>9, <1>10, <1>11, <1>12, Zenon DEF FileIs, same
  <1> QED
    BY <1>7, <1>13, Zenon DEF g, a, n

LEMMA FileOther ==
    ASSUME NEW all, NEW p \in Nat, NEW f, FileIs(all, p, f), f.data # all[p + 1].data
    PROVE  FileIs(all, p + 1, f)
  <1> DEFINE n == p + 1
  <1>1. SameUpTo(all, n, f.data) = SameUpTo(all, p, f.data)
    <2>1. SameUpTo(all, n, f.data) = SameUpTo(all, p, f.data) \union IF all[n].data = f.data THEN {n} ELSE {}
      BY SameGrows, Zenon
    <2> HIDE DEF n
    <2>2. SameUpTo(all, n, f.data) = SameUpTo(all, p, f.data) \union {}
      BY <2>1, Zenon DEF n
    <2> QED
      BY <2>2
  <1> HIDE DEF n
  <1>2. FittingUpTo(all, n, f.data) = FittingUpTo(all, p, f.data)
    BY <1>1, Zenon DEF FittingUpTo
  <1>3. NameUpTo(all, n, f.data) = NameUpTo(all, p, f.data)
    BY <1>1, <1>2, Zenon DEF NameUpTo
  <1>4. Scored(all, n, f)
    BY <1>1, Zenon DEF Scored, FileIs
  <1>5. FileIs(all, n, f)
    BY <1>1, <1>3, <1>4, Zenon DEF FileIs
  <1> QED
    BY <1>5 DEF n

-----------------------------------------------------------------------------
\* The files are those of the candidates analyzed so far: one for each
\* content.
MergeInv ==
    /\ \A i, j \in DOMAIN files : files[i].data = files[j].data => i = j
    /\ \A f \in ToSet(files) : FileIs(candidates, position, f)
    /\ \A k \in 1 .. position : LargeEnough(candidates[k].data) =>
         \E f \in ToSet(files) : f.data = candidates[k].data

Merging(all, p, fs) ==
    /\ \A i, j \in DOMAIN fs : fs[i].data = fs[j].data => i = j
    /\ \A f \in ToSet(fs) : FileIs(all, p, f)
    /\ \A k \in 1 .. p : LargeEnough(all[k].data) => \E f \in ToSet(fs) : f.data = all[k].data

LEMMA AnalyzeStep ==
    ASSUME Formed, IsSequence(files), position \in 0 .. Len(candidates), MergeInv, AnalyzeNext
    PROVE  MergeInv' /\ IsSequence(files') /\ position' \in 0 .. Len(candidates) /\ candidates' = candidates
  <1> DEFINE all == candidates
             p == position
             n == p + 1
             c == all[n]
             known == {i \in DOMAIN files : files[i].data = c.data}
             m == Len(files)
  <1>1. /\ p \in Nat /\ p < Len(all) /\ position' = n /\ candidates' = all
        /\ files' = IF Size[c.data] = 0 \/ Size[c.data] < MinPayloadSize THEN files
                    ELSE IF known = {} THEN Append(files, Analyzed(c))
                    ELSE [i \in DOMAIN files |-> IF i \in known THEN Merged(files[i], Analyzed(c)) ELSE files[i]]
    BY DEF AnalyzeNext
  <1>2. /\ Len(all) \in Nat /\ DOMAIN all = 1 .. Len(all)
        /\ m \in Nat /\ DOMAIN files = 1 .. m /\ files = [i \in 1 .. m |-> files[i]]
    BY SequenceIs DEF Formed
  <1>3. n \in DOMAIN all /\ (\A k \in 1 .. p : k \in DOMAIN all) /\ n \in 0 .. Len(all)
        /\ (\A k \in 1 .. n : k \in 1 .. p \/ k = n)
    BY <1>1, <1>2
  <1>4. IsObject(c) /\ \A k \in 1 .. p : IsObject(all[k])
    BY <1>3 DEF Formed, ToSet
  <1>5. Size[c.data] \in Nat /\ MinPayloadSize \in Nat
    BY <1>4, FtpAssumption, ExtractionAssumption DEF IsObject
  <1>6. LargeEnough(c.data) <=> ~ (Size[c.data] = 0 \/ Size[c.data] < MinPayloadSize)
    BY <1>5 DEF LargeEnough
  <1>7. Merging(all, p, files)
    BY Zenon DEF MergeInv, Merging
  <1>8. MergeInv' <=> Merging(all, n, files')
    <2>1. position' = n /\ candidates' = all
      BY <1>1, Zenon
    <2> QED
      BY <2>1 DEF MergeInv, Merging
  <1> HIDE DEF all, p, c, m
  <1>9. ASSUME NEW f \in ToSet(files), f.data # c.data PROVE FileIs(all, n, f)
    BY <1>1, <1>7, <1>9, FileOther, Zenon DEF Merging, c
  <1>10. ASSUME ~ LargeEnough(c.data) PROVE Merging(all, n, files') /\ IsSequence(files')
    <2>1. files' = files
      BY <1>1, <1>6, <1>10, Zenon
    <2>2. \A f \in ToSet(files) : f.data # c.data
      BY <1>7, <1>10, Zenon DEF Merging, FileIs
    <2>3. \A k \in 1 .. n : LargeEnough(all[k].data) => \E f \in ToSet(files) : f.data = all[k].data
      BY <1>3, <1>7, <1>10, Zenon DEF Merging, c
    <2>4. Merging(all, n, files)
      BY <1>7, <1>9, <2>2, <2>3, Zenon DEF Merging
    <2> QED
      BY <2>1, <2>4, Zenon
  <1>11. ASSUME LargeEnough(c.data), known = {} PROVE Merging(all, n, files') /\ IsSequence(files')
    <2> DEFINE f == Analyzed(c)
               new == Append(files, f)
    <2>1. files' = new
      BY <1>1, <1>6, <1>11, Zenon
    <2>2. /\ IsSequence(new) /\ ToSet(new) = ToSet(files) \union {f}
          /\ DOMAIN new = 1 .. m + 1 /\ new[m + 1] = f /\ \A i \in 1 .. m : new[i] = files[i]
      <3> HIDE DEF f, known
      <3> QED
        BY AppendedIs DEF IsSequence, m
    <2>3. \A i \in 1 .. m : files[i].data # c.data
      BY <1>2, <1>11
    <2>4. \A g \in ToSet(files) : g.data # c.data
      BY <1>2, <2>3 DEF ToSet
    <2>5. SameUpTo(all, p, c.data) = {}
      BY <1>7, <1>11, <2>4, Zenon DEF Merging, SameUpTo
    <2>6. FileIs(all, n, f)
      BY <1>1, <1>4, <1>11, <2>5, FileNew, Zenon DEF c
    <2>7. f.data = c.data
      BY AnalyzedIs
    <2> HIDE DEF f, new, known
    <2>8. \A k \in 1 .. n : LargeEnough(all[k].data) => \E g \in ToSet(new) : g.data = all[k].data
      <3> SUFFICES ASSUME NEW k \in 1 .. n, LargeEnough(all[k].data) PROVE \E g \in ToSet(new) : g.data = all[k].data
        OBVIOUS
      <3>1. CASE k \in 1 .. p
        <4>1. PICK g \in ToSet(files) : g.data = all[k].data
          BY <1>7, <3>1, Zenon DEF Merging
        <4> QED
          BY <2>2, <4>1
      <3>2. CASE k = n
        <4>1. all[k].data = f.data /\ f \in ToSet(new)
          BY <2>2, <2>7, <3>2 DEF c
        <4> QED
          BY <4>1
      <3> QED
        BY <1>3, <3>1, <3>2
    <2>9. \A i, j \in 1 .. m + 1 : new[i].data = new[j].data => i = j
      <3>1. \A i \in 1 .. m + 1 : i \in 1 .. m \/ i = m + 1
        BY <1>2
      <3>2. \A i, j \in 1 .. m : files[i].data = files[j].data => i = j
        BY <1>2, <1>7, Zenon DEF Merging
      <3>3. \A i \in 1 .. m + 1 : \/ i \in 1 .. m /\ new[i].data = files[i].data
                                  \/ i = m + 1 /\ new[i].data = c.data
        BY <2>2, <2>7, <3>1, Zenon
      <3> QED
        BY <2>3, <3>2, <3>3, Zenon
    <2>10. \A g \in ToSet(new) : FileIs(all, n, g)
      BY <1>9, <2>2, <2>4, <2>6
    <2>11. Merging(all, n, new)
      BY <2>2, <2>8, <2>9, <2>10, Zenon DEF Merging
    <2> QED
      BY <2>1, <2>2, <2>11, Zenon
  <1>12. ASSUME LargeEnough(c.data), known # {} PROVE Merging(all, n, files') /\ IsSequence(files')
    <2> DEFINE New(i) == IF i \in known THEN Merged(files[i], Analyzed(c)) ELSE files[i]
               new == [i \in 1 .. m |-> New(i)]
    <2>1. files' = new
      BY <1>1, <1>2, <1>6, <1>12, Zenon
    <2>2. \A i \in 1 .. m : files[i] \in ToSet(files) /\ (i \in known <=> files[i].data = c.data)
      BY <1>2 DEF ToSet
    <2> HIDE DEF known
    <2>3. ASSUME NEW i \in 1 .. m PROVE FileIs(all, n, New(i)) /\ New(i).data = files[i].data
      <3>1. CASE i \in known
        <4>1. FileIs(all, p, files[i]) /\ files[i].data = c.data
          BY <1>7, <2>2, <3>1, Zenon DEF Merging
        <4>2. FileIs(all, p + 1, Merged(files[i], Analyzed(c))) /\ Merged(files[i], Analyzed(c)).data = files[i].data
          <5>1. c = all[p + 1]
            BY DEF c
          <5> HIDE DEF New, new
          <5>2. p \in Nat /\ IsObject(c) /\ \A k \in 1 .. p : IsObject(all[k])
            BY <1>1, <1>4
          <5> QED
            BY <4>1, <5>1, <5>2, FileMerged
        <4> QED
          BY <3>1, <4>2, Zenon DEF New
      <3>2. CASE i \notin known
        BY <1>9, <2>2, <3>2, Zenon
      <3> QED
        BY <3>1, <3>2
    <2> HIDE DEF New
    <2>4. DOMAIN new = 1 .. m /\ new = [i \in 1 .. m |-> new[i]] /\ \A i \in 1 .. m : new[i] = New(i)
      OBVIOUS
    <2> HIDE DEF new
    <2>5. IsSequence(new)
      BY <1>2, <2>4, IndexedIs
    <2>6. \A i, j \in 1 .. m : new[i].data = new[j].data => i = j
      BY <1>2, <1>7, <2>3, <2>4, Zenon DEF Merging
    <2>7. \A g \in ToSet(new) : FileIs(all, n, g)
      BY <2>3, <2>4, Zenon DEF ToSet
    <2>8. \A g \in ToSet(files) : \E h \in ToSet(new) : h.data = g.data
      <3> SUFFICES ASSUME NEW g \in ToSet(files) PROVE \E h \in ToSet(new) : h.data = g.data
        OBVIOUS
      <3>1. PICK i \in 1 .. m : g = files[i]
        BY <1>2, Zenon DEF ToSet
      <3>2. new[i] \in ToSet(new)
        BY <2>4, Zenon DEF ToSet
      <3> QED
        BY <2>3, <2>4, <3>1, <3>2, Zenon
    <2>9. \E g \in ToSet(files) : g.data = c.data
      <3>1. PICK i \in 1 .. m : i \in known
        BY <1>2, <1>12 DEF known
      <3> QED
        BY <2>2, <3>1, Zenon
    <2>10. \A k \in 1 .. n : LargeEnough(all[k].data) => \E g \in ToSet(files) : g.data = all[k].data
      BY <1>3, <1>7, <2>9, Zenon DEF Merging, c
    <2>11. \A k \in 1 .. n : LargeEnough(all[k].data) => \E g \in ToSet(new) : g.data = all[k].data
      <3> SUFFICES ASSUME NEW k \in 1 .. n, LargeEnough(all[k].data) PROVE \E g \in ToSet(new) : g.data = all[k].data
        OBVIOUS
      <3>1. PICK g \in ToSet(files) : g.data = all[k].data
        BY <2>10
      <3>2. PICK h \in ToSet(new) : h.data = g.data
        BY <2>8
      <3> QED
        BY <3>1, <3>2
    <2>12. Merging(all, n, new)
      BY <2>4, <2>6, <2>7, <2>11, Zenon DEF Merging
    <2> QED
      BY <2>1, <2>5, <2>12, Zenon
  <1>13. Merging(all, n, files') /\ IsSequence(files')
    BY <1>10, <1>11, <1>12
  <1> QED
    BY <1>1, <1>3, <1>8, <1>13, Zenon DEF all

\* When all candidates are analyzed, the files are what the reference says.
LEMMA MaxOfScores ==
    ASSUME NEW S, \A x \in S : x \in Int, NEW m \in S, \A x \in S : x <= m
    PROVE  Max(S) = m
  <1>1. \A x \in S : m >= x
    OBVIOUS
  <1>2. Max(S) \in S /\ \A x \in S : Max(S) >= x
    BY <1>1, Zenon DEF Max
  <1>3. Max(S) \in Int /\ m \in Int /\ Max(S) >= m /\ Max(S) <= m
    BY <1>2
  <1> QED
    BY <1>3

LEMMA MergedMeans ==
    ASSUME Formed, IsSequence(files), MergeInv, position \in 0 .. Len(candidates)
    PROVE  MergedExactly
  <1> SUFFICES ASSUME position = Len(candidates) PROVE MergedExactly
    BY DEF MergedExactly
  <1> DEFINE n == Len(candidates)
  <1>1. n \in Nat /\ DOMAIN candidates = 1 .. n
    BY SequenceIs DEF Formed
  <1>2. Merging(candidates, n, files)
    BY Zenon DEF MergeInv, Merging
  <1> HIDE DEF n
  <1>3. \A content : Same(content) = SameUpTo(candidates, n, content)
    BY <1>1, Zenon DEF Same, SameUpTo
  <1>4. ASSUME NEW content PROVE ReferenceName(content) = NameUpTo(candidates, n, content)
    <2>1. Same(content) = SameUpTo(candidates, n, content)
      BY <1>3
    <2>2. {k \in Same(content) : NameOf(k).ext = Extension[content]} = FittingUpTo(candidates, n, content)
      BY <2>1, Zenon DEF FittingUpTo, NameOf
    <2> QED
      BY <2>1, <2>2, Zenon DEF ReferenceName, NameUpTo, NameOf
  <1>5. \A i, j \in DOMAIN files : files[i].data = files[j].data => i = j
    BY <1>2, Zenon DEF Merging
  <1>6. {f.data : f \in ToSet(files)} = {c.data : c \in {d \in ToSet(candidates) : LargeEnough(d.data)}}
    <2>1. ASSUME NEW f \in ToSet(files)
          PROVE  \E d \in ToSet(candidates) : LargeEnough(d.data) /\ d.data = f.data
      <3>1. LargeEnough(f.data) /\ SameUpTo(candidates, n, f.data) # {}
        BY <1>2, Zenon DEF Merging, FileIs
      <3>2. PICK k \in 1 .. n : candidates[k].data = f.data
        BY <3>1 DEF SameUpTo
      <3>3. candidates[k] \in ToSet(candidates)
        BY <1>1, Zenon DEF ToSet
      <3> QED
        BY <3>1, <3>2, <3>3
    <2>2. ASSUME NEW d \in ToSet(candidates), LargeEnough(d.data)
          PROVE  \E f \in ToSet(files) : f.data = d.data
      <3>1. PICK k \in 1 .. n : d = candidates[k]
        BY <1>1, Zenon DEF ToSet
      <3> QED
        BY <1>2, <2>2, <3>1, Zenon DEF Merging
    <2> QED
      BY <2>1, <2>2
  <1>7. ASSUME NEW f \in ToSet(files)
        PROVE  /\ f.score = Max({Score(candidates[k]) : k \in Same(f.data)})
               /\ f.level = Level(f.score)
               /\ f.indicators = UNION {Analyzed(candidates[k]).indicators : k \in Same(f.data)}
               /\ f.proto = candidates[Min(Same(f.data))].proto
               /\ f.src = candidates[Min(Same(f.data))].src
               /\ f.name = ReferenceName(f.data)
    <2>1. FileIs(candidates, n, f) /\ Same(f.data) = SameUpTo(candidates, n, f.data)
      BY <1>2, <1>3, Zenon DEF Merging
    <2>2. Scored(candidates, n, f)
      BY <2>1, Zenon DEF FileIs
    <2> DEFINE same == Same(f.data)
               scores == {Score(candidates[k]) : k \in same}
    <2>3. \A k \in same : Score(candidates[k]) \in Int
      <3>1. \A k \in same : k \in 1 .. n
        BY <2>1, Zenon DEF SameUpTo
      <3>2. \A k \in same : IsObject(candidates[k])
        BY <1>1, <3>1, Zenon DEF Formed, ToSet
      <3> QED
        BY <3>2, ScoreIs, Zenon
    <2>4. /\ \E k \in same : f.score = Score(candidates[k])
          /\ \A k \in same : Score(candidates[k]) <= f.score
      BY <2>1, <2>2, Zenon DEF Scored
    <2> HIDE DEF same
    <2>5. f.score \in scores /\ (\A x \in scores : x \in Int) /\ \A x \in scores : x <= f.score
      BY <2>3, <2>4
    <2> HIDE DEF scores
    <2>6. f.score = Max(scores)
      BY <2>5, MaxOfScores
    <2> QED
      BY <1>4, <2>1, <2>2, <2>6, Zenon DEF FileIs, Scored, scores, same
  <1> QED
    BY <1>5, <1>6, <1>7, Zenon DEF MergedExactly

\* Ranking keeps the files.
LEMMA RankStep ==
    ASSUME Formed, IsSequence(files), MergeInv, position \in 0 .. Len(candidates), Rank
    PROVE  MergeInv' /\ IsSequence(files') /\ Len(files') = Len(files)
  <1> DEFINE n == Len(files)
             p == position
  <1>1. n \in Nat /\ DOMAIN files = 1 .. n
    BY SequenceIs
  <1>2. Merging(candidates, p, files)
    BY Zenon DEF MergeInv, Merging
  <1>3. candidates' = candidates /\ position' = p
    BY DEF Rank
  <1>4. MergeInv' <=> Merging(candidates, p, files')
    BY <1>3, Zenon DEF MergeInv, Merging
  <1>5. ASSUME NEW f \in ToSet(files) PROVE f.score \in Int /\ Size[f.data] \in Int
    <2>1. FileIs(candidates, p, f)
      BY <1>2, Zenon DEF Merging
    <2>2. PICK k \in SameUpTo(candidates, p, f.data) : f.score = Score(candidates[k])
      BY <2>1, Zenon DEF FileIs, Scored
    <2>3. k \in 1 .. p /\ candidates[k].data = f.data
      BY <2>2, Zenon DEF SameUpTo
    <2>4. k \in DOMAIN candidates
      BY <2>3, SequenceIs DEF Formed
    <2>5. IsObject(candidates[k])
      BY <2>4, Zenon DEF Formed, ToSet
    <2>6. f.score \in Int
      BY <2>2, <2>5, ScoreIs
    <2>7. Size[f.data] \in Nat
      BY <2>3, <2>5, FtpAssumption DEF IsObject
    <2> QED
      BY <2>6, <2>7
  <1>6. /\ IsSequence(files') /\ Len(files') = n /\ ToSet(files') = ToSet(files)
        /\ \E order \in [1 .. n -> 1 .. n] :
             \A k \in 1 .. n : files'[k] = files[order[k]] /\ \A m \in 1 .. n : order[k] = order[m] => k = m
    BY <1>5, RankIs
  <1> HIDE DEF n, p
  <1>7. PICK order \in [1 .. n -> 1 .. n] :
          \A k \in 1 .. n : files'[k] = files[order[k]] /\ \A m \in 1 .. n : order[k] = order[m] => k = m
    BY <1>6
  <1>8. DOMAIN files' = 1 .. n
    <2>1. DOMAIN files' = 1 .. Len(files')
      BY <1>6 DEF IsSequence
    <2> QED
      BY <1>6, <2>1
  <1>9. \A i, j \in DOMAIN files' : files'[i].data = files'[j].data => i = j
    <2> SUFFICES ASSUME NEW i \in 1 .. n, NEW j \in 1 .. n, files'[i].data = files'[j].data PROVE i = j
      BY <1>8
    <2>1. files'[i] = files[order[i]] /\ files'[j] = files[order[j]] /\ order[i] \in 1 .. n /\ order[j] \in 1 .. n
      BY <1>7
    <2>2. order[i] = order[j]
      BY <1>1, <1>2, <2>1, Zenon DEF Merging
    <2> QED
      BY <1>7, <2>2
  <1>10. Merging(candidates, p, files')
    BY <1>2, <1>6, <1>9, Zenon DEF Merging
  <1> QED
    BY <1>4, <1>6, <1>10, Zenon DEF n

-----------------------------------------------------------------------------
\* What is owed is among the candidates.
Transferred(s, found) ==
    \E c \in found : c.proto = "FTP" /\ c.src = s.client /\ c.data = DataPayload(s)

In(found, data) == \E c \in found : c.data = data

Present(s, found) ==
    /\ \A o \in ToSet(s.messages) \union ToSet(s.shares) : In(found, o.data)
    /\ \A p \in {s.c2s, s.s2c} : Size[p] >= MinPayloadSize =>
         \A item \in ToSet(Carved[p]) : In(found, item.data)
    /\ (CarveRawStreams /\ ~ Transferred(s, found) /\ s.messages = << >> /\ s.shares = << >>) =>
         \A p \in {s.c2s, s.s2c} : Size[p] >= RawSize => In(found, p)

OwedInv == \A s \in ToSet(processed) : Present(s, ToSet(candidates))

LEMMA PresentStays ==
    ASSUME NEW s, NEW old, NEW new, old \subseteq new, Present(s, old)
    PROVE  Present(s, new)
  <1>1. \A data : In(old, data) => In(new, data)
    BY DEF In
  <1>2. Transferred(s, old) => Transferred(s, new)
    BY DEF Transferred
  <1> QED
    BY <1>1, <1>2, Zenon DEF Present

LEMMA OwedNext == OwedInv' <=> \A s \in ToSet(processed') : Present(s, ToSet(candidates'))
  BY Zenon DEF OwedInv, Present, In, Transferred, DataPayload

LEMMA OwedStep ==
    ASSUME Formed, OwedInv, NEW s \in Streams, HandOver(s)
    PROVE  OwedInv'
  <1> DEFINE old == ToSet(candidates)
             new == ToSet(candidates')
  <1>1. old \subseteq new /\ ToSet(Matched(s)) \subseteq new /\ ToSet(Copied(s)) \subseteq new
    BY HandOverIs
  <1>2. ToSet(processed') = ToSet(processed) \union {s}
    BY ProcessedGrows
  <1> HIDE DEF old, new
  <1>3. ASSUME NEW r \in ToSet(processed) PROVE Present(r, new)
    <2>1. Present(r, old)
      BY <1>3, Zenon DEF OwedInv, old
    <2> QED
      BY <1>1, <2>1, PresentStays
  <1>4. ASSUME CarveRawStreams, ~ Transferred(s, new), s.messages = << >>, s.shares = << >>
        PROVE  \A p \in {s.c2s, s.s2c} : Size[p] >= RawSize => In(new, p)
    <2>1. FtpObjects(s) = << >>
      <3> DEFINE o == [data |-> DataPayload(s), proto |-> "FTP", src |-> s.client, xor |-> FALSE,
                       name |-> IF KnownName(s) = NoName THEN UnknownTransfer ELSE KnownName(s)]
      <3>1. FtpObjects(s) = << >> \/ FtpObjects(s) = <<o>>
        BY Zenon DEF FtpObjects
      <3>2. o.proto = "FTP" /\ o.src = s.client /\ o.data = DataPayload(s)
        OBVIOUS
      <3> HIDE DEF o
      <3>3. ASSUME FtpObjects(s) = <<o>> PROVE FALSE
        <4>1. o \in ToSet(FtpObjects(s))
          BY <3>3, OneIs
        <4>2. ToSet(FtpObjects(s)) \subseteq ToSet(Matched(s))
          BY MatchedAre
        <4>3. o \in new
          BY <1>1, <4>1, <4>2
        <4> QED
          BY <1>4, <3>2, <4>3, Zenon DEF Transferred
      <3> QED
        BY <3>1, <3>3
    <2>2. Matched(s) = << >>
      <3>1. Matched(s) = << >> \o << >> \o << >>
        BY <1>4, <2>1, Zenon DEF Matched
      <3> QED
        BY <3>1
    <2> QED
      BY <1>1, <1>4, <2>2, CopiedAre DEF In
  <1>5. \A o \in ToSet(s.messages) \union ToSet(s.shares) : In(new, o.data)
    BY <1>1, MatchedAre DEF In
  <1>6. \A p \in {s.c2s, s.s2c} : Size[p] >= MinPayloadSize =>
          \A item \in ToSet(Carved[p]) : In(new, item.data)
    BY HandOverIs, Zenon DEF In, new
  <1>7. Present(s, new)
    BY <1>4, <1>5, <1>6, Zenon DEF Present
  <1>8. \A r \in ToSet(processed') : Present(r, new)
    BY <1>2, <1>3, <1>7
  <1> QED
    BY <1>8, OwedNext DEF new

LEMMA OwedMeans ==
    ASSUME Formed, Phases, MergeInv, OwedInv
    PROVE  EveryStreamSaved
  <1> SUFFICES ASSUME Exported, NEW s \in ToSet(processed), NEW content \in Owed(s), LargeEnough(content)
               PROVE  \E i \in DOMAIN saved : saved[i].file.data = content
    BY Zenon DEF EveryStreamSaved
  <1>1. Present(s, ToSet(candidates))
    BY Zenon DEF OwedInv
  <1>2. \/ \E o \in ToSet(s.messages) \union ToSet(s.shares) : content = o.data
        \/ \E p \in {s.c2s, s.s2c} : Size[p] >= MinPayloadSize /\ \E item \in ToSet(Carved[p]) : content = item.data
        \/ Transferred(s, ToSet(candidates)) /\ content = DataPayload(s)
        \/ /\ CarveRawStreams /\ ~ Transferred(s, ToSet(candidates))
           /\ {o.data : o \in ToSet(s.messages) \union ToSet(s.shares)} = {}
           /\ content \in {s.c2s, s.s2c} /\ Size[content] >= RawSize
    BY Zenon DEF Owed, IsTransferred, Transferred
  <1>3. {o.data : o \in ToSet(s.messages) \union ToSet(s.shares)} = {} =>
           s.messages = << >> /\ s.shares = << >>
    <2> DEFINE all == ToSet(s.messages) \union ToSet(s.shares)
    <2> SUFFICES ASSUME {o.data : o \in all} = {} PROVE s.messages = << >> /\ s.shares = << >>
      OBVIOUS
    <2>1. \A o \in all : FALSE
      OBVIOUS
    <2>2. ToSet(s.messages) = {} /\ ToSet(s.shares) = {}
      BY <2>1
    <2>3. IsSequence(s.messages) /\ IsSequence(s.shares)
      BY StreamIs DEF Formed
    <2> QED
      BY <2>2, <2>3 DEF IsSequence
  <1>4. \E c \in ToSet(candidates) : c.data = content
    BY <1>1, <1>2, <1>3, Zenon DEF Present, In, Transferred
  <1>5. PICK k \in DOMAIN candidates : candidates[k].data = content
    BY <1>4, Zenon DEF ToSet
  <1>6. k \in 1 .. position
    <2>1. position = Len(candidates)
      BY DEF Exported, Phases
    <2> QED
      BY <2>1, SequenceIs DEF Formed
  <1>7. LargeEnough(candidates[k].data)
    BY <1>5, Zenon DEF LargeEnough
  <1>8. PICK f \in ToSet(files) : f.data = content
    BY <1>5, <1>6, <1>7, Zenon DEF MergeInv
  <1>9. PICK i \in DOMAIN files : f = files[i]
    BY Zenon DEF ToSet
  <1>10. i \in DOMAIN saved
    BY SequenceIs DEF Exported, Phases
  <1>11. saved[i].file = files[i]
    BY <1>10, Zenon DEF Phases
  <1> QED
    BY <1>8, <1>9, <1>10, <1>11, Zenon

-----------------------------------------------------------------------------
\* All of it together.
ReportInv == Formed /\ Phases /\ MapInv /\ OwnName /\ MergeInv /\ OwedInv

LEMMA InitReport == Init => ReportInv
  <1> SUFFICES ASSUME Init PROVE ReportInv
    OBVIOUS
  <1>1. /\ candidates = << >> /\ files = << >> /\ saved = << >> /\ processed = << >>
        /\ data_port_map = << >> /\ position = 0 /\ phase = "streams"
    BY DEF Init, ExtractionInit, FtpInit, ExporterInit
  <1>2. DOMAIN << >> = {} /\ Len(<< >>) = 0 /\ 0 \in 0 .. 0 /\ 1 .. 0 = {}
    OBVIOUS
  <1>3. Formed
    BY <1>1, <1>2, EmptyIs DEF Formed
  <1>4. Phases
    BY <1>1, <1>2, EmptyIs DEF Phases
  <1>5. MapInv /\ OwnName
    BY <1>1, <1>2, EmptyIs, Zenon DEF MapInv, Mapped, OwnName, TransferNames, SessionNames
  <1>6. MergeInv /\ OwedInv
    BY <1>1, <1>2, EmptyIs, Zenon DEF MergeInv, OwedInv
  <1> QED
    BY <1>3, <1>4, <1>5, <1>6 DEF ReportInv

\* While streams are handed over, no file is there yet.
LEMMA HandOverReport ==
    ASSUME ReportInv, NEW s \in Streams, HandOver(s)
    PROVE  ReportInv'
  <1>1. Formed /\ MapInv /\ OwnName /\ OwedInv /\ Phases
    BY DEF ReportInv
  <1>2. /\ phase = "streams" /\ phase' = phase
        /\ UNCHANGED exporterVars /\ UNCHANGED <<position, files>>
    BY DEF HandOver, ProcessStream
  <1>3. /\ MapInv' /\ OwedInv'
        /\ \A e \in DOMAIN data_port_map' : IsName(data_port_map'[e]) /\ data_port_map'[e] # NoName
    BY <1>1, MapStep, OwedStep
  <1>10. OwnName'
    <2>1. TransferNames' /\ SessionNames'
      BY <1>1, TransferNamesStep, SessionNamesStep DEF OwnName
    <2> QED
      BY <2>1, Zenon DEF OwnName
  <1>4. IsSequence(candidates') /\ \A c \in ToSet(candidates') : IsObject(c)
    BY <1>1, HandOverIs
  <1>5. IsSequence(processed') /\ ToSet(processed') \subseteq Streams
    <2>1. IsSequence(processed') /\ ToSet(processed') = ToSet(processed) \union {s}
      BY <1>1, ProcessedGrows
    <2>2. ToSet(processed) \subseteq Streams
      BY <1>1 DEF Formed
    <2> QED
      BY <2>1, <2>2
  <1>6. Formed'
    BY <1>2, <1>3, <1>4, <1>5, Zenon DEF Formed
  <1>7. position' = 0 /\ files' = << >> /\ saved' = << >> /\ phase' = "streams"
    BY <1>1, <1>2 DEF Phases, exporterVars
  <1>8. Phases'
    <2>1. Len(candidates') \in Nat
      BY <1>4, SequenceIs
    <2>2. 0 \in 0 .. Len(candidates')
      BY <2>1
    <2>3. DOMAIN << >> = {} /\ Len(<< >>) <= Len(<< >>)
      OBVIOUS
    <2> QED
      BY <1>7, <2>2, <2>3, EmptyIs, Zenon DEF Phases
  <1>9. MergeInv'
    <2>1. DOMAIN << >> = {} /\ 1 .. 0 = {}
      OBVIOUS
    <2> QED
      BY <1>7, <2>1, EmptyIs, Zenon DEF MergeInv
  <1> QED
    BY <1>3, <1>6, <1>8, <1>9, <1>10 DEF ReportInv

LEMMA NextReport == ReportInv /\ [Next]_vars => ReportInv'
  <1> SUFFICES ASSUME ReportInv, [Next]_vars PROVE ReportInv'
    OBVIOUS
  <1> USE DEF ReportInv
  <1>1. ASSUME NEW s \in Streams, HandOver(s) PROVE ReportInv'
    <2> QED
      BY <1>1, HandOverReport
  <1>2. ASSUME UNCHANGED <<candidates, data_port_map, processed>>
        PROVE  MapInv' /\ OwnName' /\ OwedInv'
    <2>1. candidates' = candidates /\ data_port_map' = data_port_map /\ processed' = processed
      BY <1>2
    <2>2. MapInv' /\ OwnName'
      <3>1. MapInv'
        <4>1. Mapped(data_port_map, processed)
          BY DEF MapInv
        <4> QED
          BY <2>1, <4>1, MapNext, Zenon
      <3>2. TransferNames'
        <4>1. TransferNames' <=> \A i \in DOMAIN processed' : \A j \in 1 .. i - 1 :
                OnlyOne(processed', i, j) => FoundAs(processed'[i], processed'[j], ToSet(candidates'))
          BY Zenon DEF TransferNames, OnlyOne, FoundAs, Announced
        <4> QED
          BY <2>1, <4>1, TransferNamesIs, Zenon DEF OwnName
      <3>3. SessionNames'
        BY <2>1, SessionNamesNext, Zenon DEF OwnName, SessionNames
      <3> QED
        BY <3>1, <3>2, <3>3, Zenon DEF OwnName
    <2>3. OwedInv'
      BY <2>1, OwedNext, Zenon DEF OwedInv
    <2> QED
      BY <2>2, <2>3
  <1>3. ASSUME UNCHANGED <<candidates, data_port_map, processed>>,
               phase' \in {"streams", "analysis", "export"}
        PROVE  Formed'
    <2>1. candidates' = candidates /\ data_port_map' = data_port_map /\ processed' = processed
      BY <1>3
    <2> QED
      BY <1>3, <2>1, Zenon DEF Formed
  <1>4. CASE EndOfCapture
    <2>1. /\ UNCHANGED <<candidates, data_port_map, processed>> /\ UNCHANGED <<position, files, saved>>
          /\ phase = "streams" /\ phase' = "analysis"
      BY <1>4 DEF EndOfCapture, extractionVars, exporterVars
    <2>2. position' = position /\ files' = files /\ saved' = saved /\ candidates' = candidates
      BY <2>1
    <2>3. Phases'
      BY <2>1, <2>2, Zenon DEF Phases
    <2>4. MergeInv'
      BY <2>2, Zenon DEF MergeInv
    <2> QED
      BY <1>2, <1>3, <2>1, <2>3, <2>4
  <1>5. CASE Analyze
    <2>1. /\ phase = "analysis" /\ AnalyzeNext /\ UNCHANGED <<candidates, data_port_map, processed>>
          /\ phase' = "analysis" /\ saved' = saved
      BY <1>5 DEF Analyze, AnalyzeNext, exporterVars
    <2>2. MergeInv' /\ IsSequence(files') /\ position' \in 0 .. Len(candidates) /\ candidates' = candidates
      BY <2>1, AnalyzeStep DEF Phases
    <2>3. saved' = << >> /\ IsSequence(saved)
      BY <2>1 DEF Phases
    <2>4. Len(files') \in Nat /\ Len(<< >>) = 0 /\ DOMAIN << >> = {}
      BY <2>2, SequenceIs
    <2>5. Len(<< >>) <= Len(files')
      BY <2>4
    <2>6. Phases'
      BY <2>1, <2>2, <2>3, <2>4, <2>5, Zenon DEF Phases
    <2> QED
      BY <1>2, <1>3, <2>1, <2>2, <2>6
  <1>6. CASE RankAll
    <2>1. /\ phase = "analysis" /\ Rank /\ UNCHANGED <<candidates, data_port_map, processed>>
          /\ position' = position /\ position = Len(candidates) /\ phase' = "export" /\ saved' = saved
      BY <1>6 DEF RankAll, Rank, exporterVars
    <2>2. MergeInv' /\ IsSequence(files')
      BY <2>1, RankStep DEF Phases
    <2>3. saved' = << >> /\ IsSequence(saved) /\ candidates' = candidates
      BY <2>1 DEF Phases
    <2>4. Len(files') \in Nat /\ Len(<< >>) = 0 /\ DOMAIN << >> = {}
      BY <2>2, SequenceIs
    <2>5. Len(<< >>) <= Len(files')
      BY <2>4
    <2>6. position' \in 0 .. Len(candidates') /\ position' = Len(candidates')
      BY <2>1, <2>3 DEF Phases
    <2>7. Phases'
      BY <2>1, <2>2, <2>3, <2>4, <2>5, <2>6, Zenon DEF Phases
    <2> QED
      BY <1>2, <1>3, <2>1, <2>2, <2>7
  <1>7. CASE Export
    <2> DEFINE n == Len(saved)
               entry == [file |-> files[n + 1], name |-> Unique(Target(files[n + 1]))]
    <2>1. /\ phase = "export" /\ UNCHANGED <<candidates, data_port_map, processed>>
          /\ UNCHANGED <<position, files>> /\ phase' = "export"
          /\ n < Len(files) /\ saved' = Append(saved, entry)
      BY <1>7 DEF Export, ExportNext, extractionVars
    <2>2. position' = position /\ files' = files /\ candidates' = candidates
      BY <2>1
    <2>3. IsSequence(saved) /\ n \in Nat /\ DOMAIN saved = 1 .. n /\ Len(files) \in Nat
      BY SequenceIs DEF Phases
    <2>4. entry.file = files[n + 1]
      OBVIOUS
    <2> HIDE DEF entry
    <2>5. /\ IsSequence(saved') /\ Len(saved') = n + 1 /\ DOMAIN saved' = 1 .. n + 1
          /\ saved'[n + 1] = entry /\ \A i \in 1 .. n : saved'[i] = saved[i]
      BY <2>1, <2>3, AppendedIs DEF IsSequence
    <2>6. \A i \in 1 .. n + 1 : i \in 1 .. n \/ i = n + 1
      BY <2>3
    <2>7. Len(saved') <= Len(files')
      BY <2>1, <2>2, <2>3, <2>5
    <2>8. \A i \in DOMAIN saved : saved[i].file = files[i]
      BY DEF Phases
    <2> HIDE DEF n
    <2>9. \A i \in DOMAIN saved' : saved'[i].file = files'[i]
      BY <2>2, <2>3, <2>4, <2>5, <2>6, <2>8, Zenon
    <2>10. Phases'
      BY <2>1, <2>2, <2>5, <2>7, <2>9, Zenon DEF Phases
    <2>11. MergeInv'
      BY <2>2, Zenon DEF MergeInv
    <2> QED
      BY <1>2, <1>3, <2>1, <2>10, <2>11
  <1>8. CASE UNCHANGED vars
    <2>1. /\ candidates' = candidates /\ data_port_map' = data_port_map /\ processed' = processed
          /\ position' = position /\ files' = files /\ saved' = saved /\ phase' = phase
      BY <1>8 DEF vars, extractionVars, exporterVars
    <2>2. Phases' /\ MergeInv'
      BY <2>1, Zenon DEF Phases, MergeInv
    <2>3. Formed'
      BY <2>1, Zenon DEF Formed
    <2> QED
      BY <1>2, <2>1, <2>2, <2>3
  <1> QED
    BY <1>1, <1>4, <1>5, <1>6, <1>7, <1>8 DEF Next

THEOREM ReportInvariance == Spec => []ReportInv
  BY InitReport, NextReport, PTL DEF Spec

\* An FTP transfer has a name of the last session that announced its channel
\* before it, whatever else was announced before or since, and its own name
\* where that session has transfers of one mode only (ftp.py:17-61): OwnName.
THEOREM OwnNameHolds == Spec => []OwnName
  <1>1. ReportInv => OwnName
    BY DEF ReportInv
  <1> QED
    BY <1>1, ReportInvariance, PTL

\* Merging candidate by candidate, whatever their order, gives the files that
\* the reference takes from all candidates at once, and ranking keeps them.
THEOREM MergedExactlyHolds == Spec => []MergedExactly
  <1>1. ReportInv => MergedExactly
    BY MergedMeans DEF ReportInv, Phases
  <1> QED
    BY <1>1, ReportInvariance, PTL

\* What the decoders and the carver took from any stream, and the copies of
\* streams that none recognised, are in files on disk, if they are large enough
\* (engine.py:93-173): EveryStreamSaved.
THEOREM EveryStreamSavedHolds == Spec => []EveryStreamSaved
  <1>1. ReportInv => EveryStreamSaved
    BY OwedMeans DEF ReportInv
  <1> QED
    BY <1>1, ReportInvariance, PTL

-----------------------------------------------------------------------------
\* Names: the parts of one, sidecars, and numbers at the end.
LEMMA NameParts ==
    ASSUME NEW base, NEW ext, IsSequence(base)
    PROVE  IsName([base |-> base, ext |-> ext])
  BY DEF IsName

LEMMA NamesEqual ==
    ASSUME NEW a, NEW b, IsName(a), IsName(b), a.base = b.base, a.ext = b.ext
    PROVE  a = b
  BY Zenon DEF IsName

LEMMA Longer ==
    ASSUME NEW w, NEW s, NEW t, IsSequence(s), IsSequence(t), w = s \o t
    PROVE  /\ Len(w) = Len(s) + Len(t)
           /\ \A i \in 1 .. Len(s) : w[i] = s[i]
           /\ \A i \in 1 .. Len(t) : w[Len(s) + i] = t[i]
  <1> DEFINE U == ToSet(s) \union ToSet(t)
             m == Len(s)
             n == Len(t)
  <1>1. s \in Seq(U) /\ t \in Seq(U)
    <2>1. ToSet(s) \subseteq U /\ ToSet(t) \subseteq U
      OBVIOUS
    <2> HIDE DEF U
    <2> QED
      BY <2>1 DEF IsSequence
  <1>2. m \in Nat /\ n \in Nat
    BY SequenceIs
  <1> HIDE DEF U
  <1>3. /\ Len(w) = m + n
        /\ \A i \in 1 .. m : w[i] = s[i]
        /\ \A i \in m + 1 .. m + n : w[i] = t[i - m]
    BY <1>1, <1>2, ConcatProperties
  <1> HIDE DEF m, n
  <1>4. \A i \in 1 .. n : m + i \in m + 1 .. m + n /\ (m + i) - m = i
    BY <1>2
  <1>5. \A i \in 1 .. n : w[m + i] = t[i]
    BY <1>3, <1>4
  <1> QED
    BY <1>3, <1>5 DEF m, n

LEMMA SidecarsDiffer ==
    ASSUME NEW a, NEW b, IsName(a), IsName(b), Sidecar(a) = Sidecar(b)
    PROVE  a = b
  <1> DEFINE ta == <<".", a.ext, ".meta">>
             tb == <<".", b.ext, ".meta">>
             s == a.base
             t == b.base
             v == s \o ta
             w == t \o tb
             m == Len(s)
             n == Len(t)
  <1>1. v = w
    BY DEF Sidecar
  <1>2. /\ DOMAIN ta = 1 .. 3 /\ ta = [i \in 1 .. 3 |-> ta[i]] /\ ta[2] = a.ext
        /\ DOMAIN tb = 1 .. 3 /\ tb = [i \in 1 .. 3 |-> tb[i]] /\ tb[2] = b.ext
    OBVIOUS
  <1> HIDE DEF ta, tb
  <1>3. IsSequence(ta) /\ Len(ta) = 3 /\ IsSequence(tb) /\ Len(tb) = 3
    BY <1>2, IndexedIs
  <1>4. IsSequence(s) /\ v = s \o ta
    BY DEF IsName
  <1>5. IsSequence(t) /\ w = t \o tb
    BY DEF IsName
  <1> HIDE DEF s, t, v, w
  <1>6. /\ m \in Nat /\ DOMAIN s = 1 .. m /\ s = [i \in 1 .. m |-> s[i]]
        /\ n \in Nat /\ DOMAIN t = 1 .. n /\ t = [i \in 1 .. n |-> t[i]]
    BY <1>4, <1>5, SequenceIs
  <1>7. Len(v) = m + Len(ta) /\ (\A i \in 1 .. m : v[i] = s[i]) /\ \A i \in 1 .. Len(ta) : v[m + i] = ta[i]
    <2>1. IsSequence(s) /\ IsSequence(ta) /\ v = s \o ta
      BY <1>3, <1>4
    <2> HIDE DEF m
    <2> QED
      BY <2>1, Longer DEF m
  <1>8. Len(w) = n + Len(tb) /\ (\A i \in 1 .. n : w[i] = t[i]) /\ \A i \in 1 .. Len(tb) : w[n + i] = tb[i]
    <2>1. IsSequence(t) /\ IsSequence(tb) /\ w = t \o tb
      BY <1>3, <1>5
    <2> QED
      BY <2>1, Longer
  <1> HIDE DEF m, n
  <1>9. m = n
    BY <1>1, <1>3, <1>6, <1>7, <1>8
  <1>10. s = t
    <2>1. \A i \in 1 .. m : s[i] = t[i]
      BY <1>1, <1>7, <1>8, <1>9, Zenon
    <2> QED
      BY <1>6, <1>9, <2>1
  <1>11. a.ext = b.ext
    <2>1. v[m + 2] = ta[2] /\ w[n + 2] = tb[2]
      BY <1>3, <1>7, <1>8
    <2> QED
      BY <1>1, <1>2, <1>9, <2>1, Zenon
  <1> QED
    BY <1>10, <1>11, NamesEqual DEF s, t

LEMMA NumberedIs ==
    ASSUME NEW name, IsName(name), NEW k
    PROVE  /\ IsName(Numbered(name, k))
           /\ k # 0 => /\ Len(Numbered(name, k).base) = Len(name.base) + 1
                       /\ Numbered(name, k).base[Len(name.base) + 1] = Str[k]
  <1> DEFINE base == name.base
             ext == name.ext
             more == Append(base, Str[k])
  <1>1. name = [base |-> base, ext |-> ext] /\ IsSequence(base)
    BY Zenon DEF IsName
  <1>2. IsSequence(more) /\ Len(more) = Len(base) + 1 /\ more[Len(base) + 1] = Str[k]
    <2> HIDE DEF base
    <2> QED
      BY <1>1, AppendedIs DEF IsSequence
  <1>3. CASE k = 0
    BY <1>3 DEF Numbered
  <1>4. CASE k # 0
    <2>1. Numbered(name, k) = [name EXCEPT !.base = more]
      BY <1>4, Zenon DEF Numbered
    <2> HIDE DEF base, ext, more
    <2>2. Numbered(name, k) = [base |-> more, ext |-> ext]
      BY <1>1, <2>1
    <2>3. Numbered(name, k).base = more
      BY <2>2
    <2> QED
      BY <1>2, <2>2, <2>3, NameParts, Zenon DEF base
  <1> QED
    BY <1>3, <1>4

LEMMA NumbersDiffer ==
    ASSUME Nat \subseteq DOMAIN Str, NEW name, IsName(name), NEW j \in Nat, NEW k \in Nat,
           Numbered(name, j) = Numbered(name, k)
    PROVE  j = k
  <1> DEFINE n == Len(name.base)
  <1>1. n \in Nat
    BY SequenceIs DEF IsName
  <1>2. Numbered(name, 0) = name
    BY DEF Numbered
  <1>3. \A i : i # 0 => Len(Numbered(name, i).base) = n + 1 /\ Numbered(name, i).base[n + 1] = Str[i]
    BY NumberedIs
  <1> HIDE DEF n
  <1>4. ~ (n + 1 = n)
    BY <1>1
  <1>5. CASE j = 0
    BY <1>2, <1>3, <1>4, <1>5 DEF n
  <1>6. CASE k = 0
    BY <1>2, <1>3, <1>4, <1>6 DEF n
  <1>7. CASE j # 0 /\ k # 0
    <2>1. Str[j] = Str[k]
      BY <1>3, <1>7
    <2>2. j \in DOMAIN Str /\ k \in DOMAIN Str
      OBVIOUS
    <2> QED
      BY <2>1, <2>2, StrAssumption
  <1> QED
    BY <1>5, <1>6, <1>7

\* One of so many names is free.
LEMMA UniqueIs ==
    ASSUME Nat \subseteq DOMAIN Str, NEW name, IsName(name), IsFiniteSet(used_names)
    PROVE  IsName(Unique(name)) /\ Unique(name) \notin used_names
  <1> DEFINE c == Cardinality(used_names)
             K == 0 .. c
             free == {k \in K : Numbered(name, k) \notin used_names}
             call == [k \in K |-> Numbered(name, k)]
  <1>1. c \in Nat
    BY FS_CardinalityType
  <1>2. IsFiniteSet(K) /\ Cardinality(K) = c + 1
    <2> HIDE DEF c
    <2>1. 0 \in Int /\ c \in Int /\ ~ (0 > c) /\ c - 0 + 1 = c + 1
      BY <1>1
    <2> QED
      BY <2>1, FS_Interval
  <1> HIDE DEF c
  <1>3. \A k \in K : k \in Nat
    BY <1>1
  <1> HIDE DEF K
  <1>4. free # {}
    <2> SUFFICES ASSUME free = {} PROVE FALSE
      OBVIOUS
    <2>1. \A k \in K : Numbered(name, k) \in used_names
      OBVIOUS
    <2>2. call \in [K -> used_names]
      BY <2>1
    <2>3. \A j, k \in K : call[j] = call[k] => j = k
      BY <1>3, NumbersDiffer
    <2> HIDE DEF call, free
    <2>4. Cardinality(used_names) < Cardinality(K)
      BY <1>1, <1>2 DEF c
    <2>5. \E j, k \in K : j # k /\ call[j] = call[k]
      BY <1>2, <2>2, <2>4, FS_PigeonHole
    <2> QED
      BY <2>3, <2>5
  <1>5. Min(free) \in free
    <2>1. free \in SUBSET Nat
      BY <1>3
    <2> HIDE DEF free
    <2> QED
      BY <1>4, <2>1, MinIs
  <1>6. Unique(name) = Numbered(name, Min(free))
    BY Zenon DEF Unique, K, c
  <1>7. Numbered(name, Min(free)) \notin used_names
    BY <1>5
  <1> HIDE DEF free
  <1> QED
    BY <1>6, <1>7, NumberedIs

-----------------------------------------------------------------------------
\* What is exported has a proper name.
LEMMA DottedIs ==
    ASSUME NEW c, IsObject(c)
    PROVE  IsName(DottedName(c))
  <1>1. CASE c.name = NoName
    <2> DEFINE base == <<"extracted", c.data>>
    <2>1. DOMAIN base = 1 .. 2 /\ base = [i \in 1 .. 2 |-> base[i]]
      OBVIOUS
    <2>2. DottedName(c) = [base |-> base, ext |-> Extension[c.data]]
      BY <1>1, Zenon DEF DottedName
    <2> HIDE DEF base
    <2>3. IsSequence(base)
      BY <2>1, IndexedIs
    <2> QED
      BY <2>2, <2>3, NameParts, Zenon
  <1>2. CASE c.name # NoName
    <2> DEFINE base == c.name.base
               ext == c.name.ext
    <2>1. c.name = [base |-> base, ext |-> ext] /\ IsSequence(base)
      BY <1>2, Zenon DEF IsObject, IsName
    <2>2. DottedName(c) = c.name \/ DottedName(c) = [c.name EXCEPT !.ext = Extension[c.data]]
      BY <1>2, Zenon DEF DottedName
    <2> HIDE DEF base, ext
    <2>3. DottedName(c) = [base |-> base, ext |-> ext] \/ DottedName(c) = [base |-> base, ext |-> Extension[c.data]]
      BY <2>1, <2>2
    <2> QED
      BY <2>1, <2>3, NameParts, Zenon
  <1> QED
    BY <1>1, <1>2

LEMMA SanitizedIs ==
    ASSUME NEW name, IsName(name)
    PROVE  IsName(Sanitize(name))
  <1> DEFINE base == [i \in DOMAIN name.base |-> Clean(name.base[i])]
             plain == <<"extracted_payload">>
             n == Len(name.base)
  <1>1. n \in Nat /\ DOMAIN name.base = 1 .. n
    BY SequenceIs DEF IsName
  <1>2. DOMAIN base = 1 .. n /\ base = [i \in 1 .. n |-> base[i]]
    BY <1>1
  <1>3. \/ Sanitize(name) = [base |-> plain, ext |-> "bin"]
        \/ Sanitize(name) = [base |-> base, ext |-> IF name.ext = "." THEN "" ELSE name.ext]
    BY Zenon DEF Sanitize
  <1> HIDE DEF base, n
  <1>4. IsSequence(base)
    BY <1>1, <1>2, IndexedIs
  <1>5. IsSequence(plain)
    BY OneIs
  <1> QED
    BY <1>3, <1>4, <1>5, NameParts, Zenon

LEMMA TargetIs ==
    ASSUME NEW f, IsName(f.name)
    PROVE  IsName(Target(f))
  <1> DEFINE name == Sanitize(f.name)
             base == name.base
             ext == name.ext
             clean == CleanName(f)
             more == Prefix(f) \o clean.base
  <1>1. name = [base |-> base, ext |-> ext] /\ IsSequence(base)
    BY SanitizedIs, Zenon DEF IsName
  <1>2. clean = name \/ clean = [name EXCEPT !.ext = Extension[f.data]]
    BY Zenon DEF CleanName
  <1> HIDE DEF name, base, ext
  <1>3. clean = [base |-> base, ext |-> ext] \/ clean = [base |-> base, ext |-> Extension[f.data]]
    BY <1>1, <1>2
  <1> HIDE DEF clean
  <1>4. \E x : clean = [base |-> base, ext |-> x]
    BY <1>3
  <1>5. PICK x : clean = [base |-> base, ext |-> x]
    BY <1>4
  <1>6. IsSequence(Prefix(f))
    <2> DEFINE hash == <<f.data>>
               detailed == <<f.proto, f.src.host, Str[f.src.port]>>
    <2>1. \/ Prefix(f) = hash \/ Prefix(f) = detailed \/ Prefix(f) = << >>
      <3> HIDE DEF hash, detailed
      <3>1. Prefix(f) = CASE naming_scheme = "hash" -> hash
                          [] naming_scheme = "detailed" -> detailed
                          [] OTHER -> << >>
        BY DEF Prefix, hash, detailed
      <3> QED
        BY <3>1
    <2>2. IsSequence(hash)
      BY OneIs
    <2>3. DOMAIN detailed = 1 .. 3 /\ detailed = [i \in 1 .. 3 |-> detailed[i]]
      OBVIOUS
    <2> HIDE DEF hash, detailed
    <2>4. IsSequence(detailed)
      BY <2>3, IndexedIs
    <2> QED
      BY <2>1, <2>2, <2>4, EmptyIs, Zenon
  <1>7. clean.base = base
    BY <1>5
  <1>8. IsSequence(more)
    BY <1>1, <1>6, <1>7, JoinedIs
  <1>9. Target(f) = [clean EXCEPT !.base = more]
    BY Zenon DEF Target, clean
  <1> HIDE DEF more
  <1>10. Target(f) = [base |-> more, ext |-> x]
    BY <1>5, <1>9
  <1> QED
    BY <1>8, <1>10, NameParts, Zenon

LEMMA FileNamed ==
    ASSUME Formed, Phases, MergeInv, NEW f \in ToSet(files)
    PROVE  IsName(f.name)
  <1> DEFINE same == SameUpTo(candidates, position, f.data)
             fitting == FittingUpTo(candidates, position, f.data)
  <1>1. FileIs(candidates, position, f)
    BY Zenon DEF MergeInv
  <1>2. same # {} /\ f.name = NameUpTo(candidates, position, f.data)
    BY <1>1, Zenon DEF FileIs
  <1>3. position \in Nat
    BY SequenceIs DEF Phases, Formed
  <1>4. same \in SUBSET (1 .. position) /\ fitting \in SUBSET (1 .. position)
    BY <1>3, SameGrows
  <1>5. /\ Min(same) \in 1 .. position /\ Max(same) \in 1 .. position
        /\ fitting # {} => Min(fitting) \in 1 .. position
    <2> HIDE DEF same, fitting
    <2>1. Min(same) \in same /\ Max(same) \in same /\ (fitting # {} => Min(fitting) \in fitting)
      BY <1>2, <1>3, <1>4, MinGrows
    <2> QED
      BY <1>4, <2>1
  <1>6. \E k \in 1 .. position : f.name = DottedName(candidates[k])
    BY <1>2, <1>5, Zenon DEF NameUpTo
  <1>7. PICK k \in 1 .. position : f.name = DottedName(candidates[k])
    BY <1>6
  <1>8. k \in DOMAIN candidates
    BY SequenceIs DEF Formed, Phases
  <1>9. IsObject(candidates[k])
    BY <1>8, Zenon DEF Formed, ToSet
  <1> QED
    BY <1>7, <1>9, DottedIs

-----------------------------------------------------------------------------
\* The files on disk.
LEMMA WriteIs ==
    ASSUME NEW written, NEW path, NEW content, NEW now, now = Write(path, content, written)
    PROVE  /\ path \in DOMAIN now /\ now[path] = content
           /\ DOMAIN written \subseteq DOMAIN now
           /\ \A p \in DOMAIN written : p # path => now[p] = written[p]
  BY DEF Write

\* The names in use are those of what is saved, each once, and their files
\* are on disk.
SavedInv ==
    /\ IsFiniteSet(used_names)
    /\ \A i \in DOMAIN saved :
         /\ IsName(saved[i].name) /\ saved[i].name \in used_names
         /\ saved[i].name \in DOMAIN disk /\ Sidecar(saved[i].name) \in DOMAIN disk
    /\ SavedIntact

Intact(all, written, i) ==
    /\ (\A j \in DOMAIN all : j > i => Sidecar(all[j].name) # all[i].name) =>
         written[all[i].name] = [kind |-> "payload", of |-> all[i].file.data]
    /\ (\A j \in DOMAIN all : j > i => all[j].name # Sidecar(all[i].name)) =>
         written[Sidecar(all[i].name)] = [kind |-> "meta", of |-> all[i].file]

LEMMA SavedIntactIs == SavedIntact <=> \A i \in DOMAIN saved : Intact(saved, disk, i)
  BY Zenon DEF SavedIntact, Intact

LEMMA SavedIntactNext == SavedIntact' <=> \A i \in DOMAIN saved' : Intact(saved', disk', i)
  BY Zenon DEF SavedIntact, Intact, Sidecar

\* A sidecar is not called like its own payload.
LEMMA SidecarIsOther ==
    ASSUME NEW a, IsName(a)
    PROVE  Sidecar(a) # a
  <1> DEFINE t == <<".", a.ext, ".meta">>
  <1>1. DOMAIN t = 1 .. 3 /\ t = [i \in 1 .. 3 |-> t[i]]
    OBVIOUS
  <1>2. Sidecar(a).base = a.base \o t
    BY DEF Sidecar
  <1> HIDE DEF t
  <1>3. IsSequence(t) /\ Len(t) = 3 /\ IsSequence(a.base)
    BY <1>1, IndexedIs DEF IsName
  <1>4. Len(Sidecar(a).base) = Len(a.base) + Len(t)
    <2> DEFINE w == Sidecar(a).base
               b == a.base
    <2>1. IsSequence(b) /\ IsSequence(t) /\ w = b \o t
      BY <1>2, <1>3
    <2> HIDE DEF w, b
    <2>2. Len(w) = Len(b) + Len(t)
      BY <2>1, Longer
    <2> QED
      BY <2>2 DEF w, b
  <1>5. Len(a.base) \in Nat
    BY <1>3, SequenceIs
  <1>6. Len(Sidecar(a).base) # Len(a.base)
    BY <1>3, <1>4, <1>5
  <1> QED
    BY <1>6

LEMMA SavedStep ==
    ASSUME Nat \subseteq DOMAIN Str, Formed, Phases, MergeInv, SavedInv, ExportNext
    PROVE  SavedInv'
  <1> DEFINE n == Len(saved)
             f == files[n + 1]
             name == Unique(Target(f))
             side == Sidecar(name)
             entry == [file |-> f, name |-> name]
             payload == [kind |-> "payload", of |-> f.data]
             meta == [kind |-> "meta", of |-> f]
             once == Write(name, payload, disk)
             twice == Write(side, meta, once)
  <1>1. /\ n < Len(files) /\ used_names' = used_names \union {name} /\ disk' = twice /\ saved' = Append(saved, entry)
    BY Zenon DEF ExportNext
  <1>2. entry.file = f /\ entry.name = name
    OBVIOUS
  <1> HIDE DEF entry
  <1>3. /\ n \in Nat /\ DOMAIN saved = 1 .. n /\ DOMAIN saved' = 1 .. n + 1
        /\ saved'[n + 1] = entry /\ \A i \in 1 .. n : saved'[i] = saved[i]
    BY <1>1, AppendedIs DEF IsSequence, Phases
  <1>4. n + 1 \in DOMAIN files
    BY <1>1, <1>3, SequenceIs DEF Phases
  <1>5. IsName(f.name)
    <2>1. f \in ToSet(files)
      BY <1>4, Zenon DEF ToSet
    <2> HIDE DEF f
    <2> QED
      BY <2>1, FileNamed
  <1>6. IsName(name) /\ name \notin used_names
    <2> HIDE DEF f
    <2>1. IsName(Target(f))
      BY <1>5, TargetIs
    <2> QED
      BY <2>1, UniqueIs DEF SavedInv
  <1>7. /\ IsFiniteSet(used_names)
        /\ \A i \in 1 .. n : /\ IsName(saved[i].name) /\ saved[i].name \in used_names
                             /\ saved[i].name \in DOMAIN disk /\ Sidecar(saved[i].name) \in DOMAIN disk
                             /\ Intact(saved, disk, i)
    BY <1>3, SavedIntactIs, Zenon DEF SavedInv
  <1>8. \A i \in 1 .. n + 1 : i \in 1 .. n \/ i = n + 1
    BY <1>3
  <1>9. n + 1 \in 1 .. n + 1 /\ \A i \in 1 .. n : i \in 1 .. n + 1
    BY <1>3
  <1> HIDE DEF n, f, name, side, payload, meta, once
  <1>10. /\ name \in DOMAIN once /\ once[name] = payload /\ DOMAIN disk \subseteq DOMAIN once
         /\ \A p \in DOMAIN disk : p # name => once[p] = disk[p]
    <2>1. once = Write(name, payload, disk)
      BY DEF once
    <2> HIDE DEF twice
    <2> QED
      BY <2>1, WriteIs
  <1>11. /\ side \in DOMAIN twice /\ twice[side] = meta /\ DOMAIN once \subseteq DOMAIN twice
         /\ \A p \in DOMAIN once : p # side => twice[p] = once[p]
    <2>1. twice = Write(side, meta, once)
      OBVIOUS
    <2> HIDE DEF twice
    <2> QED
      BY <2>1, WriteIs
  <1> HIDE DEF twice
  <1>12. IsFiniteSet(used_names')
    BY <1>1, <1>7, FS_AddElement
  <1>13. ASSUME NEW i \in 1 .. n + 1
         PROVE  /\ IsName(saved'[i].name) /\ saved'[i].name \in used_names'
                /\ saved'[i].name \in DOMAIN twice /\ Sidecar(saved'[i].name) \in DOMAIN twice
    <2>1. CASE i \in 1 .. n
      <3>1. saved'[i] = saved[i]
        BY <1>3, <2>1
      <3>2. /\ IsName(saved[i].name) /\ saved[i].name \in used_names
            /\ saved[i].name \in DOMAIN disk /\ Sidecar(saved[i].name) \in DOMAIN disk
        BY <1>7, <2>1
      <3>3. used_names \subseteq used_names' /\ DOMAIN disk \subseteq DOMAIN twice
        BY <1>1, <1>10, <1>11
      <3> QED
        BY <3>1, <3>2, <3>3, Zenon
    <2>2. CASE i = n + 1
      <3>1. saved'[i].name = name /\ Sidecar(saved'[i].name) = side
        BY <1>2, <1>3, <2>2 DEF side
      <3>2. name \in used_names' /\ name \in DOMAIN twice
        BY <1>1, <1>10, <1>11
      <3> QED
        BY <1>6, <1>11, <3>1, <3>2, Zenon
    <2> QED
      BY <1>8, <2>1, <2>2
  <1>14. ASSUME NEW i \in 1 .. n + 1 PROVE Intact(saved', twice, i)
    <2>1. saved'[n + 1].name = name /\ saved'[n + 1].file = f /\ Sidecar(saved'[n + 1].name) = side
      BY <1>2, <1>3 DEF side
    <2>2. CASE i \in 1 .. n
      <3> DEFINE old == saved[i].name
      <3>1. saved'[i] = saved[i] /\ n + 1 > i
        BY <1>3, <2>2
      <3>2. /\ IsName(old) /\ old \in used_names
            /\ old \in DOMAIN disk /\ Sidecar(old) \in DOMAIN disk
            /\ Intact(saved, disk, i)
        BY <1>7, <2>2
      <3>3. old # name /\ Sidecar(old) # side
        <4>1. old # name
          BY <1>6, <3>2
        <4> QED
          BY <1>6, <3>2, <4>1, SidecarsDiffer DEF side
      <3> HIDE DEF old
      <3>4. ASSUME \A j \in DOMAIN saved' : j > i => Sidecar(saved'[j].name) # old
            PROVE  twice[old] = [kind |-> "payload", of |-> saved[i].file.data]
        <4>1. side # old
          BY <1>3, <1>9, <2>1, <3>1, <3>4, Zenon
        <4>2. \A j \in DOMAIN saved : j > i => Sidecar(saved[j].name) # old
          BY <1>3, <1>9, <3>4, Zenon
        <4>3. disk[old] = [kind |-> "payload", of |-> saved[i].file.data]
          BY <3>2, <4>2, Zenon DEF Intact, old
        <4>4. once[old] = disk[old] /\ old \in DOMAIN once
          BY <1>10, <3>2, <3>3
        <4>5. twice[old] = once[old]
          BY <1>11, <4>1, <4>4
        <4> QED
          BY <4>3, <4>4, <4>5
      <3>5. ASSUME \A j \in DOMAIN saved' : j > i => saved'[j].name # Sidecar(old)
            PROVE  twice[Sidecar(old)] = [kind |-> "meta", of |-> saved[i].file]
        <4>1. name # Sidecar(old)
          BY <1>3, <1>9, <2>1, <3>1, <3>5, Zenon
        <4>2. \A j \in DOMAIN saved : j > i => saved[j].name # Sidecar(old)
          BY <1>3, <1>9, <3>5, Zenon
        <4>3. disk[Sidecar(old)] = [kind |-> "meta", of |-> saved[i].file]
          BY <3>2, <4>2, Zenon DEF Intact, old
        <4>4. once[Sidecar(old)] = disk[Sidecar(old)] /\ Sidecar(old) \in DOMAIN once
          BY <1>10, <3>2, <4>1
        <4>5. twice[Sidecar(old)] = once[Sidecar(old)]
          BY <1>11, <3>3, <4>4
        <4> QED
          BY <4>3, <4>4, <4>5
      <3> QED
        BY <3>1, <3>4, <3>5, Zenon DEF Intact, old
    <2>3. CASE i = n + 1
      <3>1. side # name
        BY <1>6, SidecarIsOther DEF side
      <3>2. twice[name] = payload /\ twice[side] = meta
        BY <1>10, <1>11, <3>1
      <3> QED
        BY <2>1, <2>3, <3>2, Zenon DEF payload, meta, Intact
    <2> QED
      BY <1>8, <2>2, <2>3
  <1>15. SavedIntact'
    BY <1>1, <1>3, <1>14, SavedIntactNext, Zenon
  <1> QED
    BY <1>1, <1>3, <1>12, <1>13, <1>15, Zenon DEF SavedInv

LEMMA SavedStays ==
    ASSUME SavedInv, UNCHANGED <<used_names, disk, saved>>
    PROVE  SavedInv'
  <1>1. used_names' = used_names /\ disk' = disk /\ saved' = saved
    OBVIOUS
  <1>2. SavedIntact'
    <2>1. \A i \in DOMAIN saved : Intact(saved, disk, i)
      BY SavedIntactIs, Zenon DEF SavedInv
    <2> QED
      BY <1>1, <2>1, SavedIntactNext, Zenon
  <1> QED
    BY <1>1, <1>2, Zenon DEF SavedInv

\* A payload on disk is overwritten only by a later sidecar that is called like
\* it, and a sidecar only by such a later payload, never payload by payload or
\* sidecar by sidecar, as long as numbers can be told apart by their digits
\* (exporter.py:50-70): SavedIntact.
THEOREM SavedIntactHolds ==
    ASSUME Nat \subseteq DOMAIN Str
    PROVE  Spec => []SavedIntact
  <1>1. Init => SavedInv
    <2> SUFFICES ASSUME Init PROVE SavedInv
      OBVIOUS
    <2>1. used_names = {} /\ saved = << >>
      BY DEF Init, ExporterInit
    <2>2. DOMAIN << >> = {} /\ IsFiniteSet({})
      BY FS_EmptySet
    <2> QED
      BY <2>1, <2>2, Zenon DEF SavedInv, SavedIntact
  <1>2. ReportInv /\ SavedInv /\ [Next]_vars => SavedInv'
    <2> SUFFICES ASSUME ReportInv, SavedInv, [Next]_vars PROVE SavedInv'
      OBVIOUS
    <2>1. CASE UNCHANGED exporterVars
      BY <2>1, SavedStays DEF exporterVars
    <2>2. CASE Export
      BY <2>2, SavedStep DEF Export, ReportInv
    <2>3. UNCHANGED exporterVars \/ Export
      BY DEF Next, HandOver, EndOfCapture, Analyze, RankAll, vars
    <2> QED
      BY <2>1, <2>2, <2>3
  <1>3. SavedInv => SavedIntact
    BY DEF SavedInv
  <1> QED
    BY <1>1, <1>2, <1>3, ReportInvariance, PTL DEF Spec
=============================================================================
