# A TLA+ model of pcap-decode

pcap-decode reads a capture file, puts IP fragments, TCP streams and BACnet file transfers
together again, extracts the files that were transferred, scores them and writes a report.
It is sequential: one loop over the packets of the file, with state in a handful of decoder
objects. What is hard about it is not concurrency in the program but the *captures*: packets
of independent conversations interleaved in any way, out of order, repeated, cut differently
the second time, missing, or captured from the middle of a conversation on, and tables and
counters that reach their limits. The models are therefore built of a **component**,
translated from the source, and a **traffic** module, which produces the captures that real
senders can cause, with a history that the properties compare the component's state with.

## Inventory

The program's components, in the order of a packet's way through it. `src/` paths are
relative to `src/pcap_decode/`.

| Component | State | Operations | What makes it correct | Model |
|---|---|---|---|---|
| Reader, `pcap_reader.py` | position in the file, interface table of pcapng | `packets`, `_read_pcap`, `_read_pcapng`, `_decode_packet` | every packet yielded, of its own interface's link type; fields the later stages need are filled in | `CaptureReader`; a fragment's fields in `IpTraffic!DecodePacket` |
| Defragmenter, `ip_reassembly.py` | `fragments` by (src, dst, proto, id) | `process` | each datagram whole, as soon as covered, nothing left for the next one | `IpDefrag` |
| Flow keys, `models.py` | none | `normalized`, `reverse` | both directions of a conversation, and no others, share a key | `FlowKey` |
| TCP direction, `tcp_reassembly.py` | base, next expected number, buffer, held segments, closed | `add_segment`, `get_data` | the stream in order, no byte lost or twice | `TcpDirection` |
| TCP connections, `tcp_reassembly.py` | table of trackers | `process_packet`, `finalize` | one stream per conversation, the right way round, handed over when it ends | `TcpConnections` |
| Raw UDP gate, `protocols/raw.py` | flow counts, suppression counts | `parse_udp_packet`, `parse_stream` | budgets exact, suppression never silent | `RawUdp` |
| BACnet/IP, `protocols/bacnet.py` | pending reads, file buffers; devices, observations, counters | `process_packet`, `finalize`, `summary` | data goes to its own file and place, the cap keeps the first bytes | `BacnetFiles`, `BacnetDecoder` |
| FTP, `protocols/ftp.py` | data ports, file names | `register_control_stream`, `parse_stream` | a data stream gets the name of its own command | `FtpDecoder` |
| HTTP, `protocols/http.py` | an offset and what was found, within one stream | `parse_stream`, `_parse_http_messages` | the loop moves on, no byte is in two messages, responses meet their requests | `HttpMessages`, `HttpDecoder` |
| DNS, `protocols/dns.py` | suspicious domains | `process_packet`, `parse_dns_name` | names are what they were before compression; decompression ends | `DnsDecoder` |
| SMB, `protocols/smb.py` | files being joined, within one stream | `parse_stream` | the bytes of a file come together, of no other | `SmbDecoder` |
| Email, `protocols/email.py` | none between streams | `parse_stream` | every message once, whatever its text looks like | `EmailDecoder` |
| Carver and PE parser, `carver.py`, `pe_parser.py` | none | `carve_all`, `parse_pe` | files found where they begin, and of their own size | `FileCarver` |
| Engine, `engine.py` | the list of candidates | `decode_file`, `_process_stream`, `_analyze_and_deduplicate` | a claimed packet is not carved again; every candidate once, merged without loss | `PacketLoop`, `Extraction` |
| Analyzer, `analyzer.py` | none | `analyze_payload` | score and level | a part of `Extraction` |
| Exporter, `exporter.py` | names in use | `export` | no file overwrites another | `Exporter` |
| Live capture, command line, sample generator | none | process start, argument parsing, output | | not modelled: pure I/O |

Components interact by calls only. `PcapDecoderEngine.decode_file` passes each packet to the
defragmenter; a UDP packet goes to the decoders that claim it and otherwise to the raw gate;
a TCP packet goes to the reassembler, whose finished streams go to all stream decoders; at
the end of the file, `finalize` of the reassembler and of the BACnet decoder hand over what
is unfinished. Everything extracted becomes a *candidate*; candidates are deduplicated by
hash at the end.

`PROJECT.json` lists under `hazards` what is hard to test in this code, each at its line,
with the properties that watch it.

## Modules

**FlowKey** - `models.py`. Endpoints (address, port) are natural numbers, their ranks in the
order in which Python compares tuples, which is all that `normalized` reads.

**RawUdp** - `protocols/raw.py`. `udp_flow_counts`, `suppressed_udp_packets`, and the
candidates the engine collects; one action for each exit of `parse_udp_packet` and
`_suppression_reason`. Constants: the endpoints with a telemetry port, the smallest payload,
`MaxPerFlow` (max_packets_per_udp_flow) and `MaxFlows` (max_tracked_flows). `carvable` is a
history variable. **RawUdpHistory** adds the history of the packets, for the comparison with
a reference that sees the whole capture; it is part of `PacketLoop`, which feeds it.
**FirstComers** has the operators of such references, which `BacnetCapture` uses too: the
first keys of a sequence of packets and the first packets of each. **PacketLoopProofs** has the
theorems, **OperatorProofs** the lemmas on counting.

**CaptureReader** - `PcapReader`: the blocks of a pcapng file with its interface table, or the
records of a classic one, a file that is cut off, and the headers of a frame as a list of the
types they announce: VLAN tags, IPv6 extension headers, the bytes behind the packet. An ICMP
message over IPv4 is a packet with a payload and without ports. **DnsDecoder** - `DnsDecoder`:
a message is a sequence of symbols, each a label, a pointer, the end of a name or the data of a
record; `ParseName` follows the pointers as `parse_dns_name` does, with its limit of jumps and
its set of visited positions. **PacketLoop** composes both with the gate: the UDP side of
`decode_file`. It writes a file block by block and its packets reach the decoders as they are
read. **PacketLoopProofs** has the theorems.

**TcpDirection** - `DirectionalReassembler`, with `seq_diff` and the addition of sequence
numbers in a space of any even size (the program's has 2^32). The object is a record and each
method an operator, because a tracker holds two of them; `AddSegment` has every branch of
`add_segment`, the recursive call for a SYN with data included, and `ProcessOutOfOrder` the
loop over the held segments: `DrainPass` is one round of its `while`, and it takes as many
rounds as there are held segments, the later ones changing nothing. **TcpCapture** feeds it
with one sender's bytes: a byte is its position in the stream, and a segment any interval of
them; `with_syn` says whether the capture has the handshake or begins in the middle.
**InOrderReader** is the abstract specification: what has been delivered is the bytes before
the first missing one. **OperatorProofs** has the laws of sequence numbers and what the
operators return for any bytes, **TcpCaptureProofs** the theorems on one sender.

**TcpConnections** - `ConnectionTracker` and `TcpReassembler`: the table, the orientation of
a new tracker, closing, handing over, `finalize`. The variable `streams` is what the engine
was given. **TcpTraffic** produces conversations with SYN, data, FIN and RST from both
sides; a capture is `orderly`, each packet once and each side's in order, or any packets of
its conversations at all. **TcpTrafficProofs** has the theorems.

**IpDefrag** - `IpDefragmenter.process`: the fragments of a key, when they cover their
datagram, and `Rebuild`, which joins them in the order of their offsets, a recursive function
on sets of fragments. **IpTraffic** cuts datagrams into fragments; identifications are used
again. **IpTrafficProofs** has the theorems.

**BacnetFiles** - the file transfers of `BacnetDecoder`: `_remember_file_read`,
`_parse_complex_ack`, `_absorb_file_data` with Python's slice assignment,
`_flush_file_buffer`, `finalize`. **BacnetTransfers** is a client that reads and writes
files chunk by chunk; its requests may be repeated, refused, and several at a time.
**BacnetDecoder** extends `BacnetFiles` to the whole of `process_packet`: one action for
each way a packet can end, with the counters it increments (`Tally`), the observation it
makes (`_record_observation`, with its limits) and the device inventory (`_record_i_am`). A
packet is a record of what its bytes decode to. **BacnetCapture** feeds it with any packets
and keeps their history. **BacnetProofs** has the theorems on both.

**HttpMessages** - `_parse_http_messages`, one round of its loop for each way a round can
go: a block that is skipped, a message ended by its length, by a last chunk or by the next
message. A symbol is a header line, a line end, a chunk size or a piece of a body, so that a
body can hold everything the searches look for. A length is whatever `int()` takes: after a
negative one the offset goes back, and may lie before the data, which Python then counts from
their end (`Place`). Since the loop need not end, `MaxFound` bounds the messages of a
direction. **HttpDecoder** is what becomes of the
messages: the pairing of responses with requests, names, chunks, compression, multipart
bodies; `Returns` says whether the loop over chunks, whose sizes may be negative too, comes
to an end. **HttpTraffic** sends exchanges, cut off at the end. **HttpMessagesProofs** has the
theorems on the loop and on exchanges.

**SmbDecoder**, **EmailDecoder** and **FileCarver** are functions of a whole stream: what is
joined under which key; where messages begin and end; signatures, programs under XOR,
scripts and the sizes of PE, ELF, ZIP and PDF files. **StreamFiles** gives them streams of
SMB messages, mail sessions and files inside other data, item by item; each property looks
at every place where the capture may end.

**FtpDecoder**, **Extraction** and **Exporter** are the way from a finished TCP stream to
the files on disk: what `register_control_stream` and `parse_stream` do with the text of a
control stream; `_process_stream`, the analysis and the merging of candidates
(`_analyze_and_deduplicate`), and the ranking; names, payloads and sidecar files. A payload
is a symbol with a size, an extension, a score and what the carver finds in it, which are
constants; a name is a sequence of parts, those between the underscores, and an extension,
and `Str` gives the digits of a number in a name, of which only matters that different
numbers have different ones.
**Report** composes them: streams come in any order, which is the order in which connections
end, and FTP sessions have a record of what their channels really carry. **ReportProofs** has
the theorems.

Operators whose comment begins with "Fault:" are not part of the models. Each is a plausible
bug, and `PROJECT.json` ("mutants") names the definition it replaces and the property that
finds it.

What is left out everywhere: timestamps, frame numbers and metadata, which no decision
reads, and the byte-level parsing of headers. Type invariants are stated where a proof needs
them. Payloads are sequences of symbolic bytes, each of which says whose and which byte it
is; so a property can see where every byte went.

`FinalizeConnection` takes one connection at a time, in any order: `finalize` is a
generator, and the engine works on one stream before it asks for the next. `finalize` of the
BACnet decoder is one action.

## Runs

The module of the run is in parentheses. All deadlock checks are off because the captures
end.

| Run | What it shows | Bounds, and why they are enough |
|---|---|---|
| packet_loop (MCPacketLoop) | Packets are yielded as they were sent, with the link type of their own interface, ICMP over IPv4 with its payload and without ports, what else is neither TCP nor UDP without either (`DecodedAsCaptured`); exactly the unclaimed ones reach the gate (`ClaimedNeverCarved`); DNS texts have their own names (`DnsAsSent`). `CandidatesAreFirstOfEach` compares the gate with a reference: the candidates are exactly the first `MaxPerFlow` long-enough packets of the first `MaxFlows` conversations, in order. | 5 blocks. Classic files: 3 conversations, both directions of one, telemetry, short payloads, DNS, BACnet; a table of 2 and a budget of 2, so that every limit is reached and passed. pcapng files: two link types, packets before and after their interface, tags and extension headers, a second section, a cut block. DNS names with pointers to labels, to pointers and to themselves; the limit of jumps is 3, and of two names alike but for one jump, one is within it and the other is cut by it. |
| tcp_direction (MCTcpCapture) | With the SYN captured, the reassembler implements `InOrderReader` for any order, overlap and repetition; nothing captured is forgotten (`NothingForgotten`), held segments are beyond a gap, FIN and RST are never missed. Without it, what is delivered is in order and has no byte twice. In both, the segment log adds up to the buffer. | 5 bytes, a sequence space of 16, with an initial number whose stream wraps and one whose does not; SYN and 4 segments: two held segments and one that closes the gap, overlapping both. |
| tcp_fast_open (MCTcpCapture), violation | A SYN with data delivers the data reversed. | |
| tcp_connections (MCTcpTraffic) | Orderly captures, two interleaved conversations of one client, cut off anywhere: one whole stream for each, the right way round, exactly when both sides have finished. Disordered ones, any five packets, SYN, FIN, RST and repetitions included: every packet is counted in one stream, directions never mix, no byte put in a buffer is lost, and each is handed over in the end. | One server is the lower endpoint, the other the higher, so that the normalised key agrees with the orientation only once; numbers wrap. 5 packets of 2 bytes a side are enough to reset, reopen and close a connection. |
| tcp_after_close (MCTcpTraffic), violation | A retransmission, or the last ACK, after the stream was handed over becomes a second stream. | |
| http (MCHttpTraffic) | Messages whose end can be told are found as sent, no byte is in two messages, uploads and downloads have their contents and the names of their own exchange, every round moves on, as long as no length is negative. | Up to 3 of 13 exchanges, every framing, bodies that hold an empty line, a method, a status line or a last chunk; lengths and chunk sizes below zero, which lead back to a body, to the same header for ever, before the data, or to the same chunk for ever. 8 messages found in a direction, which only a loop that goes back reaches; up to 4 symbols missing at the end of a direction: the longest trailer and a part of the body before it. |
| stream_files (MCStreamFiles) | SMB transfers come together by session and file; the attachments of each mail once; files are carved with their size, inside each other and under XOR. | Up to 3 items of each kind of stream, every prefix of it: two transfers interleaved, a mail between two others, a file behind and in front of another. |
| ip_fragments (MCIpTraffic) | Datagrams of two keys, identifications used again, fragments in any order, overlapping and repeated: each is rebuilt whole when it is covered, nothing is left. | 5 fragments of datagrams with 3 units: three fragments and their repetitions, or two datagrams in turn. |
| ip_from_reader (MCIpTraffic), violation | Fragments as the reader hands them over are not defragmented. | |
| bacnet_files (MCBacnetTransfers) | Bytes come to their own file and place; sequential transfers are whole, or cut exactly at the cap and marked; nothing buffered is lost. | 5 packets; 3 files on 2 servers, lengths below, at and above the cap; 2 invoke IDs; a table of 3 reads, which overflows. |
| bacnet_report (MCBacnetCapture) | The observations are exactly those a reference takes from the whole capture: the first kinds of activity that fit, with all their packets and distinct details. Devices are at their last address, the originating one if forwarded, while the inventory has room. No file is extracted without its activity being flagged. | Any 4 of 21 packets, of every branch; room for 2 kinds of activity, 1 detail and 2 devices, each exceeded. |
| report (MCReport) | FTP data processed after its control stream has its own name (`TransferNames`), and any transfer one of the session that announced its port last (`SessionNames`); merging gives what a reference takes from all candidates at once; payloads and sidecars stay on disk, except where one is called like an earlier one of the other kind; of all that was decoded, carved or copied, nothing large enough is missing. | Any 4 of 8 streams in any order, 3 naming schemes: names that collide with each other, with numbered names and with sidecars; one program in clear, hidden and uploaded; ports used again, a listing, a transfer of which the server's packet is the first. |

### Fairness

Only `Spec` of `TcpTraffic` has fairness, for one liveness property: `WF(Read)` says that
the file ends - captures are finite, and the `for` loop over the reader ends with them - and
`WF(Finalize)` that the loop over `finalize` goes on until its generator is exhausted.
Nothing is assumed of the packets: weak fairness of `Read` does not keep any of them from
coming, it only ends the capture some time. That the loop over HTTP messages ends is stated
without fairness: each of its rounds moves the offset on, goes on to the next direction, or
takes a message with a negative length (`MovesOn`), and with such a message it may indeed
never end.

### What does not hold

Three runs show disagreements between the program and its README, and `PROJECT.json`
describes them under `findings`: a SYN with data is delivered in reverse; packets after the
end of a connection become a stream of their own; and fragments that the reader produces
pass the defragmenter one by one, because `ip_id` is never set.

More was met while the modules were written, and is listed under `hazards` with a note.
Without a SYN, an early segment that does not touch the first captured one is put directly
in front of it, and the bytes between them are dropped (`RunDelivered` does not hold there;
`OrderKept` does). A SYN repeated after data resets the expected number. With nothing but
held segments, `get_data` joins them with their repetitions. A fragment repeated after its
datagram was complete stays for the next one with its identification, since the timeout is
never read. A BACnet start position of -1 inserts before the last byte. A full device
inventory refuses even the devices it has (`IgnoredIAm`), and a device that was once
announced through a relay keeps it (`IAm`).

An FTP data connection ordinarily ends before its control connection does. Its stream is
then processed first, while its port is not in the table, and is not recognised as a
transfer, passive mode or not: it is copied as a raw stream, without its name (an active one
from port 20 gets the default name). A listing in a session, or a change of mode, shifts the
names of the transfers after it. `OwnName` therefore has two parts: `TransferNames` gives a
data stream processed after its control stream, the order in `tests/test_ftp.py`, the name of
its own command, if the session has transfers only and one mode; `SessionNames` speaks of all
transfers in the report, with listings and mixed modes, and promises a name of the session
that announced the port last. With `--naming original`, a payload called `x.meta.json` and the
sidecar of `x` are one file, and the later one overwrites the other: `SavedIntact` says that
nothing else is overwritten.

HTTP: `int()` takes a negative Content-Length (`http.py:290`), which moves the offset back
(`http.py:297-300`): messages are then found twice, and if the length is that of the header,
the loop finds the same one for ever. Chunk sizes may be negative too (`http.py:54`), and one
that leads back to its own chunk keeps `dechunk_http_body` in it for ever. `NoByteTwice` and
`MovesOn` say that nothing else does such things, and `FilesAsSent` is about messages on which
that loop returns (`Returns`). A body without a length is ended by the next method, of a list
without PATCH and TRACE, so that such a request becomes a part of the body before it; an
interim response (100) shifts the pairing of all later ones; data that contain a last chunk end
the message. `MessagesAsSent` and `FilesAsSent` name these conditions (`Delimited`,
`OneResponseEach`). So does a header that announces chunks with no body behind it, the answer
to a HEAD request: the loop looks for the last chunk in what comes next. The proof of
`MessagesAsSent` found that one; the small instance had no such message. A part of a multipart
body loses the white space at its end, which belongs to the file (`http.py:109`).

SMB reads of several files in one session become one file, and the offsets of writes are
ignored. IMAP sessions, named in `README.md:20` of the repository, give nothing, since their
literals are not parsed. Two ZIP or two PDF files in one stream are carved as one, up to the
last end mark, and the second once more. Of the formats that `README.md:32-33` names, BZIP2,
Tar, XZ, VBScript and Python are not looked for. A second section of a pcapng file goes on
with the interfaces of the first. The length in an IPv6 header is not used, so bytes behind
it in the frame join a TCP segment. A DNS text of a length that base64 can have is extracted
decoded, or dropped, although it may be plain; NULL records, named in `README.md:23`, are
not extracted; DNS over TCP never comes to the decoder. A name that takes ten jumps is
cut after the last one and reported as if it were whole (`dns.py:31`).

## Proofs

Each proof module has the theorems of one part of the system: `PacketLoopProofs` (the reader,
the loop over packets and the gate), `IpTrafficProofs`, `TcpCaptureProofs`,
`TcpTrafficProofs`, `HttpMessagesProofs`, `BacnetProofs` and `ReportProofs`. `OperatorProofs`
has what several of them rest on: sequence numbers, the operators of a TCP direction, sums,
and counting in sequences.

### The gate

`PacketLoopProofs` proves, for any endpoints, any telemetry ports, any sizes and any positive
limits, `TypeOK` and the four safety invariants of `RawUdp`: the budget of each
conversation, the exact account of suppressed packets, the bound of the table and of the
whole report. The bound of the table is proved only; no run repeats it. None of the middle
ones is inductive: the table alone does not know the report. The inductive invariant `IInv`
adds `CountsMatchReport`: each table entry *equals* the number of candidates of its
conversation and lies between 1 and the budget, and a conversation outside the table has
none. The lemmas `AppendCandidate` and `NewPosition` say what one more candidate does to
those sets; `CarveIInv` and `SuppressIInv` are the two kinds of steps. The bound of the
report maps the candidates into the pairs of a conversation in the table and a number up to
the budget, which `SlotsDistinct` shows to be injective.

`FirstComeFirstCarved` compares the gate with the
reference that sees the whole capture (`CandidatesAreFirstOfEach`), for any limits. Its
invariant `HInv` says that the table counts, for each conversation in it, the packets that
competed so far, up to the budget, and that it holds the first conversations. What that
rests on is counting: `OperatorProofs` has, once for all tables of this kind, what one
more packet does to the positions of a key, to the keys seen first (`Grows`, `HoldsFirst`)
and to a listing in order (`Ranked`, `Lists`).

### The reader and the loop over packets

`LoopInv` follows the file. The reader has written down the interfaces described so far, in
order (`InterfacesInv`), as long as the format is the one that has them; what was yielded of
an ordinary file is what its frames carry, in order (`PacketsInv`), and what reached the gate
is what nobody claims (`GateInv`). It is inductive for two reasons. The beginning of an
ordinary file is ordinary (`OrdinaryBefore`), so that a file that stops being so asks nothing
more of the invariant. And `Decodes` says that the walk through the headers of a frame - tags,
extension headers, one after the other - ends at the innermost of them, whatever number there
is. `OwnLink` is the step from the number of an interface in a block to the link type that
the frame was captured with. `DecodedAsCapturedHolds` and `ClaimedNeverCarvedHolds` follow.

`LoopImplementsGate` is a refinement: every run of the loop, with all that reader and
decoders do, is a run of the gate with its history, since each block offers the gate one
packet or leaves it as it is. So what is proved of the gate for any traffic holds of it in
its place (`GateInLoop`).

### IP fragments

`IpTrafficProofs` proves both properties of `ip_fragments`, for datagrams of any length, any
cuts, and any number of keys and of datagrams under one key. The invariant `DefragInv` says
that the fragments held for a key are cuts of its *current* datagram and cover exactly what is not
missing of it, and that the packets passed on for a key are its whole datagrams, in turn
(`InTurn`). So the table has no fragments of a datagram that is complete, and those of an
identification used again never meet those of the one before. That rests on `RebuildIs`:
fragments that cover a datagram, sorted and joined, are that datagram, however they overlap
and repeat. `Rebuild` is a recursive function on sets of fragments; that it exists is itself
proved, by induction on their number (`JoiningDefined`), with `WithoutLast` and `JoinsLast`
for one fragment more: the bytes of the one sorted last that the others do not have.

### Sequence numbers and segments

`OperatorProofs` proves of any even sequence space what every comparison in
`tcp_reassembly.py` relies on: the type of `seq_diff`; that it is zero for equal numbers
only; that it is antisymmetric, except between numbers half the space apart, which are
*each* before the other; and that moving on by less than half the space is measured exactly,
across the wrap too. `AddSegmentTakes` is what can be said of `add_segment` for any segment
on any state: it keeps the bytes of the buffer and takes none but the segment's.

### HTTP

`HttpMessagesProofs` proves of the loop over HTTP messages, for every stream, every table of
symbols and headers that say anything of the length, negative numbers included, and of the
chunks: its type, that bodies lie inside the data and no byte is in two messages unless the
loop took a negative length from the first of the two on (`NoByteTwice`), and that every round
moves on unless it takes one itself (`MovesOn`). `NoByteTwice` is not inductive: it does
not know where the next message may begin. `FoundBehind` adds that everything found in the
direction being parsed since the last negative length (`Behind`) lies behind the offset, and
that nothing is found of the responses while requests are parsed. `PlaceIs` says where an
offset before the data leads. `FieldsType` says that the last header line before the empty line
exists, by well-founded induction (`LargestBelow`); `HeaderInside` that an empty line that
is found lies in the data; `FoundKeepsApart` what one more message does. The loop there is
`MessagesSpec`, which takes any stream at all, and every exchange of `HttpTraffic` is a run
of it (`ExchangesRunLoop`).

`MessagesAsSentHolds` says that on such an exchange the loop finds exactly the messages that
were sent, with their bodies, for any headers, any contents and any number of messages. Its
invariant is `SentInv`: what is captured of a direction is the beginning of what was sent
(`StreamInv`), what is found are the *first* messages of it, and the offset is behind the
last of them, until no whole header is left (`InStep`). `WireIs` and `BytesUpTo` say where a
message lies among the bytes, `HeaderAt` and `BodyAt` what a search from its first byte
meets; then each of the three ways a body ends has a lemma of its own: by a length
(`DelimitedAsSent`), by the last chunk (`ChunkedAsSent`), and by the next message
(`UntilNextAsSent`), the last of which is where the conditions of `Delimited` are needed.
`RoundInStep` puts them together.

`FilesAsSentHolds` goes on from there. What a single message says when it is read whole, its
chunks, compression and parts, is a matter of `CarriedAssumption`, which TLC evaluates for each
exchange of the instance; the theorem is about connections: any number of exchanges, each file
from its own message and under the name of its own exchange, wherever the responses
are cut off. Every message found but the last one was captured whole, and none behind it was
(`WholeOrLast`), whole ones give what they carry (`RequestGives`, `ResponseGives`), and a
last one that is cut off gives one file more or none (`ResponsesGive`). The lemmas on
`FlattenSeq` are inductions: empty ones at the end add nothing, and directions can be put on
files before or after they are joined.

### TCP

`TcpCaptureProofs` proves all six properties of `tcp_direction`, for every even sequence
space, every initial number, every stream shorter than half the space and segments in any
order, overlapping and repeated, without a bound on their number. `IInv` says that the
direction is empty, or that there are positions b and k such that it is `InStream(b, k)`:
the buffer and the segment log hold the bytes from b to k, `next_expected_seq` is the number
of k + 1, every held segment is a piece of the stream that begins beyond k + 1, and, with
the handshake, b is 1 and nothing captured is missing (`Complete`). None of the properties
is inductive: what is delivered next is decided by sequence numbers, which say where a byte
belongs only with the base and the length of the stream. The main lemmas follow the code:
`AddResult` and `PrependResult` are the two ways in, `Drained` and `Keeps` say what a pass
over held segments takes up and leaves, and `ProcessResult` that as many passes as there are
segments are enough - a pass that takes up nothing leaves a gap, any other has one segment
less. The refinement is `InOrderPrefixHolds`: each step of a capture is a delivery of the
abstract reader (`Delivers`) or a stutter.

`TcpTrafficProofs` proves five of the seven properties of `tcp_connections`, for any number of
conversations of any length below half the sequence space. Three of them are about every
capture, in any order, repeated or missing, with resets and connections opened again: `Typed`
says that a tracker is in the table under the key of its flow and that its directions, like
those of the streams, have bytes of their own side only. It follows from `AddSegmentTakes` by
`TrackType`, for whichever side sent the packet and whichever opened the connection;
`DirectionsNeverMix` is its consequence, and `NoBufferedByteLost` what each step keeps besides
(`NothingLost`). `PacketsAccounted` has the invariant `CountInv`: the table and the streams can
be counted, and their sum is the number of packets received. The lemmas on sums say that any
summand can be taken first (`SumsTake`) and what one more summand does (`TotalWith`), so that
closing a tracker moves its count from the table to the streams and opening the next one adds
nothing. The other two, `WholeStreams` and `ReportedWhenFinished`, are about orderly captures,
which end with the second FIN or before it, and need the exact state, `OrderlyState`: a
conversation that has begun is either in the table, with its client's flow, the buffers and
numbers of all that was sent and its directions closed by those who have finished (`Tracks`),
or in the streams, and never both (`Placed`); each stream is whole; while the capture is read
it is there just if both sides have finished and sent a byte (`InTime`); and no side finishes
before both have sent SYN (`InTurn`). `SynOpens` and `DataFollows` are the two things that
`add_segment` does then, `SendState` and `FinalizeState` the two ways a stream comes about. An
orderly capture has no two conversations between the same endpoints and none of an endpoint
with itself (`ConversationsAssumption`); a port used again for a second conversation would fall
under `tcp_after_close`. The three theorems on every capture do not use that assumption.

### BACnet

`BacnetProofs` proves the three properties of `bacnet_files`, for any files of any
lengths, any cap and any chunks. `Overlaid` is Python's slice assignment to a buffer that
was extended with zeros first, `Laid` the same for bytes of one file; `Going` and `Stopped`
are the two states of the loop over the chunks of an APDU, so that `ApduReceived` says of
one chunk, of two and of none what is `Received`. `TransfersInv` makes `BytesInPlace`
inductive: every buffer and candidate has its transfer's key and bytes at their places, and
a pending read under the invoke ID of a request is that request - the data of an
acknowledgement has no name of its own. `WholeFiles` needs more (`WholeInv`): in an orderly
capture the buffer of a read is what the bytes before the request leave, `Partial(f, m)`,
with the cap applied; that of a write may also be whole without an end-of-file mark, and the
bytes that come again (after a refusal, or as a second write) fall on themselves
(`ReceivedOnPartial`). Each candidate is whole, at the end of the capture part of its file.

It also proves the three properties of `bacnet_report`, for any traffic and
any limits. `ObservationsInv` is the exact account: the table holds the first kinds of
activity, each with the number of its packets and with its details (`Exact`,
`ListsDetails`), on the lemmas of `OperatorProofs`. `InventoryLatest` is nearly inductive
as it stands (`InventoryInv`): the inventory only grows, so that one with room never refused
a device. `TransfersInv` says that every buffer, every candidate and every pending read is
of an activity in the table; without the pending reads it would not be inductive, since the
data of a read comes later than its request. This proof found a condition that the small
instance had hidden: a file is named in the details of its activity only while their list
has room, so that `FlaggedTransfer` has that alternative.

### The report

`ReportProofs` proves all four properties of `report`, for any streams in any number and
order, any payloads, names, scores and carvings. `ReportInv` has one part for each phase.
`Formed` and `Phases` say that what is found has a name or none, and that no phase begins the
work of a later one.

- `MapInv`: every entry of the FTP table was announced by a control stream that was
  processed, the last one that announced its port, which gave it its name, and everything
  announced is in the table. `OwnName` is about the past of a candidate and inductive with it:
  `EntryIs` says that the entry which a data stream meets is the name of its own command, for
  `TransferNames`; `TableIs` that what it meets or misses is as the last session left it, for
  `SessionNames`.
- `MergeInv`: after `p` candidates, there is one file for each content large enough among
  them, and each file is what a reference takes from the first `p` at once (`FileIs`): the
  best of the equal ones, the first of these, the score and the notes of all. `FileNew`,
  `FileMerged` and `FileOther` are what one candidate more does to a file. The sort then
  loses and repeats nothing: `Ahead` is a linear order (`OrderIsLinear`), so that the places
  are counted without a gap (`PlacesTaken`) and the ranking is a permutation (`RankIs`).
- `OwedInv`: of every stream processed, all that the decoders and the carver took is among the
  candidates, and, if nothing was decoded and raw streams are copied, both directions that are
  long enough. With `MergeInv` this is `EveryStreamSaved`.

`SavedIntactHolds` needs `SavedInv` besides: the names in use are those of the files saved,
each on disk with its sidecar unless a later file was written over one of them. `Unique` takes
the least number that gives an unused name, and there is one: the numbered names are all
different (`NumbersDiffer`) and those in use are finite in number (`UniqueIs`).
`SidecarsDiffer` says that sidecars collide only if their files do, `SidecarIsOther` that no
file is called like its own. The theorem has the hypothesis that every natural number has
digits, `Nat \subseteq DOMAIN Str`, as `str` in Python does; TLC cannot enumerate such a
function, so the instance it checks has the digits of the numbers that occur in it.

### Assumptions

The assumptions are those that the modules name, which TLC evaluates on every run:
`EndpointAssumption`; `RawUdpAssumption` on the limits of the gate; `LoopAssumption`: blocks
with packets have frames with headers in the order in which protocols nest them;
`IpTrafficAssumption`: datagrams are not empty, headers lie inside them; `SeqSpaceAssumption`,
`CaptureAssumption` and `TrafficAssumption`: a stream is shorter than
half the sequence space, which is where the comparisons of `tcp_reassembly.py` end to mean
anything; `ConversationsAssumption`, which only the theorems on orderly captures use;
`BacnetFilesAssumption`, `BacnetDecoderAssumption` and `BacnetTransfersAssumption`: limits
and lengths are natural numbers, and there is room for one pending read;
`ExchangesAssumption`: what is sent are messages, and the rest of a header begins none;
`CarriedAssumption`: an exchange carries what its messages, each read whole, say;
`FtpAssumption`, `ExtractionAssumption` and `StreamsAssumption`: sizes and scores are natural
numbers, names are names, streams carry payloads that have them, and no other decoder calls
what it finds "FTP"; `NoNameAssumption`: having no name is not a name; `StrAssumption`:
different numbers have different digits; and `MessagesAssumption`: a length is an integer, of
either sign, or none.

### Only model-checked

- Liveness (`EveryBufferedByteDelivered`), which is out of the prover's reach.
- `OneStreamEach`, which holds of captures that end with the second FIN. The last ACK of a
  connection makes a second stream, which `tcp_after_close` shows, so that a proof for all
  parameters would say no more of the program than the run does.
- `DnsAsSent` and the three properties of `stream_files`: what the decoders
  of DNS, SMB, mail and the carver find is computed by operators
  over a whole message or stream, with no steps between that an invariant could follow, so
  that a proof would be an induction over data. For the same reason nothing is proved of what
  `Dechunk` and `Parts` compute for every body.

The loops of `TcpDirection`, `BacnetFiles`, `IpDefrag`, `CaptureReader` and `HttpMessages`
are recursive functions or steps, and what is proved of them is proved round by round.

## Comparison with the program

`AddSegment`, `ProcessPacket`, `Rebuild` and `Assemble` were compared with the Python
methods on several thousand random sequences of calls, half-space distances, wraps and
negative positions included. They agree.

## Not modelled

- Live capture (`capture.py`), the command line (`cli.py`) and the sample generator: process
  start, argument parsing, printing and a script, without state of their own.
- What the analyzer scores for contents (entropy, strings, imports): heuristics on bytes,
  constants in `Extraction`.
- The names that SMB CREATE requests leave in `file_names`: they are written and never read.
- MIME, compression and hashes, which are the standard library's.
- Byte order and timestamps of capture files.

## Plan

What is left is of two kinds. `DnsAsSent` needs an induction over the pointers of a name, for
which `ParseName` would be stated step by step. The three properties of `stream_files` would
need a scanner with a position, as `HttpMessages` has, in the place of the operators on a
whole stream; the code has such loops in the mail decoder and the carver.
