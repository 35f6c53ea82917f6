---------------------------- MODULE HttpTraffic -----------------------------
(***************************************************************************)
(* HttpDecoder given a connection on which a client and its server made    *)
(* some exchanges, one after the other, and of which the end may be        *)
(* missing.  A message is sent as a line, the rest of its header, an empty *)
(* line and its body; an exchange has a request and its responses, and     *)
(* what files they carry:                                                  *)
(*   uploads, download   sequences of [data, name]                         *)
(***************************************************************************)
EXTENDS HttpDecoder

CONSTANTS
    Exchanges,    \* what may happen on a connection
    MaxExchanges, \* bound on how much of it does
    MaxCut,       \* bound on the symbols missing at the end of a direction
    Rest          \* the rest of a header

\* A message that begins with one of the words, and whose lines are no line
\* ends.
Sendable(words) ==
    [line : {s \in Symbol \ {CRLF} : /\ s \in DOMAIN Header
                                     /\ s \in DOMAIN Opening /\ Opening[s] \in words},
     body : Seq(Symbol)]

IsSeq(s) == s \in Seq(Range(s))

ASSUME ExchangesAssumption ==
    /\ Rest \in Symbol \ {CRLF} /\ Rest \notin DOMAIN Header
    /\ \A e \in Exchanges : e.request \in Sendable(Valid) /\ e.responses \in Seq(Sendable({"HTTP/"}))
    /\ MaxExchanges \in Nat /\ MaxCut \in Nat

Transferred(d, files) == [k \in DOMAIN files |-> [direction |-> d] @@ files[k]]

\* What an exchange is said to carry is what its messages, each for itself,
\* say when they are read whole.
ASSUME CarriedAssumption ==
    \A e \in Exchanges :
        LET line == e.request.line
            response == e.responses[1]
        IN  /\ IsSeq(e.uploads) /\ IsSeq(e.download)
            /\ Len(e.responses) = 1 =>
                 /\ RequestFiles(line, Header[line], e.request.body) = Transferred("request", e.uploads)
                 /\ ResponseFiles(UriOf(line), Header[response.line], response.body)
                      = Transferred("response", e.download)

VARIABLES exchanges, cut

vars == <<messageVars, exchanges, cut>>

Wire(m) == <<m.line, Rest, CRLF, CRLF>> \o m.body

Sent(d) == FlattenSeq([i \in DOMAIN exchanges |->
               IF d = "request" THEN <<exchanges[i].request>> ELSE exchanges[i].responses])

Bytes(ms) == FlattenSeq([i \in DOMAIN ms |-> Wire(ms[i])])

Init ==
    /\ exchanges \in SeqOf(Exchanges, MaxExchanges)
    /\ cut \in {[request |-> n, response |-> 0] : n \in 0 .. MaxCut}
               \union {[request |-> 0, response |-> n] : n \in 0 .. MaxCut}
    /\ \A d \in Direction : cut[d] <= Len(Bytes(Sent(d)))
    /\ stream = [d \in Direction |-> SubSeq(Bytes(Sent(d)), 1, Len(Bytes(Sent(d))) - cut[d])]
    /\ LoopInit

Next == Round /\ UNCHANGED <<exchanges, cut>>

Spec == Init /\ [][Next]_vars

-----------------------------------------------------------------------------
\* Where the header and the body of the i-th message end.
HeaderEnd(d, i) == Len(Bytes(SubSeq(Sent(d), 1, i - 1))) + 4
BodyEnd(d, i) == Len(Bytes(SubSeq(Sent(d), 1, i)))

\* A message whose end the code can tell: by its length; by a last chunk,
\* unless its data look like one; or by the next message, if its body does
\* not look like one and it does not begin with PATCH or TRACE.
Delimited(d, i) ==
    LET m == Sent(d)[i]
        fields == Header[m.line]
        LooksLast(k) == /\ m.body[k] \in ZeroEnd /\ k + 2 <= Len(m.body)
                        /\ m.body[k + 1] = CRLF /\ m.body[k + 2] = CRLF
    IN  \/ fields.length = Len(m.body)
        \/ /\ fields.length = NoLength /\ fields.chunked /\ Len(m.body) > 2
           /\ \A k \in DOMAIN m.body : LooksLast(k) <=> k + 2 = Len(m.body)
        \/ /\ fields.length = NoLength /\ ~fields.chunked
           /\ i < Len(Sent(d)) => Opening[Sent(d)[i + 1].line] \in Searched \union {"HTTP/"}
           /\ \A k \in DOMAIN m.body :
                m.body[k] \in DOMAIN Opening => (Opening[m.body[k]] = "HTTP/") = (d = "request")

Framed(d) == \A i \in DOMAIN Sent(d) : Delimited(d, i)

\* Messages whose ends can be told are found as they were sent, each with its
\* own header and body, whatever the bodies contain, and one that the capture
\* cuts off has as much of its body as there is (README.md:19).
MessagesAsSent ==
    parsing = "done" => \A d \in Direction : Framed(d) =>
        LET whole == {i \in DOMAIN Sent(d) : HeaderEnd(d, i) <= Len(stream[d])}
        IN  messages[d] = [i \in 1 .. Cardinality(whole) |->
                [line |-> Sent(d)[i].line, header |-> Header[Sent(d)[i].line],
                 begin |-> HeaderEnd(d, i) - 3, first |-> HeaderEnd(d, i) + 1, last |-> Min({BodyEnd(d, i), Len(stream[d])})]]

OneResponseEach == \A i \in DOMAIN exchanges : Len(exchanges[i].responses) = 1

\* What was transferred is extracted, if parse_stream returns: all uploads,
\* and all downloads that were captured whole, each with exactly its own
\* contents, dechunked and decompressed, under the name of its own exchange
\* (README.md:19).
FilesAsSent ==
    parsing = "done" /\ Framed("request") /\ Framed("response") /\ OneResponseEach /\ cut.request = 0 /\ Returns =>
        LET uploads == FlattenSeq([i \in DOMAIN exchanges |-> exchanges[i].uploads])
            Arrived(i) == BodyEnd("response", i) <= Len(stream["response"])
            downloads == FlattenSeq([i \in DOMAIN exchanges |->
                            IF Arrived(i) THEN exchanges[i].download ELSE << >>])
            files == Transferred("request", uploads) \o Transferred("response", downloads)
        IN  \/ Objects = files
            \/ cut.response > 0 /\ \E partial \in Range(Objects) : Objects = Append(files, partial)
=============================================================================
