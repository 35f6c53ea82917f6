---------------------------- MODULE HttpDecoder -----------------------------
(***************************************************************************)
(* HttpDecoder.parse_stream (pcap_decode/protocols/http.py): the files in  *)
(* the messages of a stream.  Besides what HttpMessages reads, header      *)
(* fields have the name of a Content-Disposition, or NoName, with which    *)
(* a file gets a default name; whether the body is compressed; and the     *)
(* multipart boundary, or NoSymbol.                                        *)
(***************************************************************************)
EXTENDS HttpMessages, SequencesExt, FiniteSetsExt

CONSTANTS
    NoName, NoSymbol,
    UriName,    \* line of a request -> the file name in its URI, or NoName
    ChunkSize,  \* line of a chunk -> its size
    Plain,      \* compressed data -> what it decompresses to
    Blank,      \* symbols that are white space, CRLF among them
    LargeBody   \* the size above which the body of any request is a file

Slice(data, i, j) == SubSeq(data, i, Min({j, Len(data)}))

EndOfLine(data, i) == {j \in i .. Len(data) : data[j] = CRLF}

\* dechunk_http_body: the data of the chunks from position i on, and whether
\* it returns.  A chunk of negative size takes it back, and where it has been
\* before it will be again.
Dechunk(data) ==
    LET chunks[i \in Int, seen \in SUBSET Nat] ==
            LET at == Place(data, i)
                size == ChunkSize[data[at]]
                rest == chunks[at + 3 + size, seen \union {at}]
                To(end) == Slice(data, at + 2, Place(data, end + 1) - 1)
            IN
            IF i > Len(data) THEN [data |-> << >>, returns |-> TRUE]
            ELSE IF at \in seen THEN [data |-> << >>, returns |-> FALSE]
            ELSE IF at + 1 \notin EndOfLine(data, at) \/ data[at] \notin DOMAIN ChunkSize
                 THEN [data |-> Slice(data, at, Len(data)), returns |-> TRUE]
            ELSE IF size = 0 THEN [data |-> << >>, returns |-> TRUE]
            ELSE [rest EXCEPT !.data = To(at + 1 + size) \o @]
    IN  chunks[1, {}]

\* decompress_payload gives up on what it cannot decompress.
Decompressed(data) == IF data \in DOMAIN Plain THEN Plain[data] ELSE data

Decoded(header, body) ==
    LET raw == IF header.chunked THEN Dechunk(body).data ELSE body
    IN  IF header.compressed THEN Decompressed(raw) ELSE raw

Body(d, m) == SubSeq(stream[d], m.first, m.last)

\* Python's strip.
Strip(data) ==
    LET ink == {i \in DOMAIN data : data[i] \notin Blank}
    IN  IF ink = {} THEN << >> ELSE SubSeq(data, Min(ink), Max(ink))

\* What lies between the boundaries, and before the first and after the last.
Split(data, boundary) ==
    LET Put(pieces, s) == IF s = boundary THEN Append(pieces, << >>)
                          ELSE [pieces EXCEPT ![Len(pieces)] = Append(@, s)]
    IN  FoldLeft(Put, << << >> >>, data)

Object(d, data, name) == << [direction |-> d, data |-> data, name |-> name] >>

\* parse_multipart_body for one part: its header's name and its data.
Part(raw) ==
    LET part == Strip(raw)
        ends == {i \in 1 .. Len(part) - 1 : part[i] = CRLF /\ part[i + 1] = CRLF}
        named == {i \in 1 .. Min(ends) : part[i] \in DOMAIN Header}
    IN  IF ends = {} THEN << >>
        ELSE Object("request", SubSeq(part, Min(ends) + 2, Len(part)),
                    IF named = {} THEN NoName ELSE Header[part[Max(named)]].name)

Parts(data, boundary) ==
    LET pieces == Split(data, boundary)
    IN  SelectSeq(FlattenSeq([k \in DOMAIN pieces |-> Part(pieces[k])]), LAMBDA part : part.data # << >>)

\* extract_filename_from_headers.
NameFrom(header, uri) == IF header.name # NoName THEN header.name ELSE uri

UriOf(line) == IF line \in DOMAIN UriName THEN UriName[line] ELSE NoName

\* The files in a request, and in a response to the request for a URI.
RequestFiles(line, header, body) ==
    LET data == Decoded(header, body)
        Large == Len(data) > LargeBody \/ Opening[line] \in {"POST", "PUT"}
    IN  IF header.boundary # NoSymbol THEN Parts(data, header.boundary)
        ELSE IF data # << >> /\ Large THEN Object("request", data, NameFrom(header, UriOf(line)))
        ELSE << >>

ResponseFiles(uri, header, body) ==
    LET data == Decoded(header, body)
    IN  IF data # << >> THEN Object("response", data, NameFrom(header, uri)) ELSE << >>

RequestObjects(m) == RequestFiles(m.line, m.header, Body("request", m))

\* Fault: the URI of the last request, whichever the response.
ResponseObjectsOfLast(i) ==
    LET m == messages["response"][i]
        request == messages["request"]
        uri == IF request # << >> THEN UriOf(Last(request).line) ELSE NoName
    IN  ResponseFiles(uri, m.header, Body("response", m))

\* The i-th response belongs to the i-th request.
ResponseObjects(i) ==
    LET m == messages["response"][i]
        request == messages["request"]
        uri == IF i \in DOMAIN request THEN UriOf(request[i].line) ELSE NoName
    IN  ResponseFiles(uri, m.header, Body("response", m))

\* parse_stream returns: it gets to the end of every chunked body.
Returns ==
    \A d \in Direction : \A i \in DOMAIN messages[d] :
        messages[d][i].header.chunked => Dechunk(Body(d, messages[d][i])).returns

\* What it returns then.
Objects ==
    LET requests == messages["request"]
    IN  FlattenSeq([i \in DOMAIN requests |-> RequestObjects(requests[i])])
            \o FlattenSeq([i \in DOMAIN messages["response"] |-> ResponseObjects(i)])
=============================================================================
