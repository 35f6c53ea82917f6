---------------------------- MODULE HttpMessages ----------------------------
(***************************************************************************)
(* HttpDecoder._parse_http_messages (pcap_decode/protocols/http.py): the   *)
(* loop that cuts a direction of a stream into messages, for the requests  *)
(* first and for the responses then.  A direction is a sequence of         *)
(* symbols, each of which stands for a few bytes: a line end, the line     *)
(* that begins a message, the rest of its header, a chunk size, a piece of *)
(* a body.  Lengths and offsets count symbols.                             *)
(***************************************************************************)
EXTENDS Integers, Sequences

CONSTANTS
    Symbol,
    CRLF,
    Opening,  \* symbol -> the word it begins with: a method or "HTTP/"
    Header,   \* symbol -> the fields of the header that it is a part of:
              \*   length (or NoLength), chunked, and what HttpDecoder reads;
              \*   a length is whatever int() takes, negative numbers too
    NoLength,
    NoFields, \* what a block without a header line says
    ZeroEnd,  \* symbols whose last byte is the digit 0
    MaxFound  \* bound on the messages found in a direction: the loop may never end

Direction == {"request", "response"}

ASSUME MessagesAssumption ==
    /\ CRLF \in Symbol
    /\ NoLength \notin Int
    /\ \A s \in DOMAIN Header : Header[s].length \in Int \union {NoLength}
    /\ NoFields.length = NoLength
    /\ MaxFound \in Nat

VARIABLES
    stream,   \* direction -> what was sent in it
    parsing,  \* the direction the loop is in, or "done"
    offset,   \* where its next round begins
    messages  \* direction -> what was found: [line, header, begin, first, last],
              \* with the positions where it begins and of its body

messageVars == <<stream, parsing, offset, messages>>

Data == stream[parsing]

\* Python counts an offset that lies before the data from their end.
Place(data, i) ==
    IF i > 0 THEN i
    ELSE IF Len(data) + i > 0 THEN Len(data) + i ELSE 1

\* Where the loop is in the data.
At == Place(Data, offset)

First(i, S) == i \in S /\ \A j \in S : i <= j

\* Where data.find finds the empty line that ends a header.
HeaderEnds == {i \in At .. Len(Data) - 1 : Data[i] = CRLF /\ Data[i + 1] = CRLF}

\* Fault: the size of a last chunk is left out of the search.
LastEmptyLines(start) ==
    {i \in start .. Len(Data) - 2 : Data[i + 1] = CRLF /\ Data[i + 2] = CRLF}

\* Where data.find finds "0\r\n\r\n".
LastChunks(start) ==
    {i \in start .. Len(Data) - 2 : Data[i] \in ZeroEnd /\ Data[i + 1] = CRLF /\ Data[i + 2] = CRLF}

Searched == {"GET", "POST", "PUT", "DELETE", "HEAD", "OPTIONS", "CONNECT"}
Valid == Searched \union {"TRACE", "PATCH"}

Opens(i, words) ==
    /\ Data[i] \in DOMAIN Opening
    /\ Opening[Data[i]] \in IF parsing = "request" THEN words ELSE {"HTTP/"}

\* Where the next message may begin if this one does not say how long it is.
NextOpenings(start) == {i \in start .. Len(Data) : Opens(i, Searched)}

\* The fields of the header lines between here and the empty line at h.
\* A later line replaces an earlier one.
Fields(h) ==
    LET lines == {i \in At .. h - 1 : Data[i] \in DOMAIN Header}
    IN  IF lines = {} THEN NoFields ELSE Header[Data[CHOOSE i \in lines : \A j \in lines : j <= i]]

-----------------------------------------------------------------------------
LoopInit ==
    /\ parsing = "request"
    /\ offset = 1
    /\ messages = [d \in Direction |-> << >>]

FinishDirection ==
    /\ parsing' = IF parsing = "request" THEN "response" ELSE "done"
    /\ offset' = 1

Found(h, last) ==
    messages' = [messages EXCEPT ![parsing] =
        Append(@, [line |-> Data[At], header |-> Fields(h), begin |-> At, first |-> h + 2, last |-> last])]

\* A message whose end is known; the next round begins behind it.
FoundUpTo(h, last) ==
    /\ Found(h, Place(Data, last + 1) - 1)
    /\ offset' = last + 1
    /\ UNCHANGED parsing

\* A message that takes all the rest.
FoundLast(h) == Found(h, Len(Data)) /\ FinishDirection

\* No more empty line, or an empty one where a message should begin.
Stop ==
    /\ HeaderEnds # {} => Data[At] = CRLF
    /\ FinishDirection
    /\ UNCHANGED messages

\* What does not begin like a message is skipped up to the next empty line.
SkipBlock(h) ==
    /\ ~Opens(At, Valid)
    /\ offset' = h + 2
    /\ UNCHANGED <<parsing, messages>>

\* Fault: the end of the data is not looked at.
ReadPastEnd(h) ==
    LET length == Fields(h).length IN
    /\ Opens(At, Valid)
    /\ length # NoLength
    /\ FoundUpTo(h, h + 1 + length)

\* With a negative length the message ends before its body begins.
ReadDelimited(h) ==
    LET length == Fields(h).length IN
    /\ Opens(At, Valid)
    /\ length # NoLength
    /\ FoundUpTo(h, IF h + 1 + length < Len(Data) THEN h + 1 + length ELSE Len(Data))

ReadChunked(h) ==
    /\ Opens(At, Valid)
    /\ Fields(h).length = NoLength /\ Fields(h).chunked
    /\ \/ \E t \in LastChunks(h + 2) : First(t, LastChunks(h + 2)) /\ FoundUpTo(h, t + 2)
       \/ LastChunks(h + 2) = {} /\ FoundLast(h)

\* Fault: the next message is looked for from where this one begins.
ReadUntilItself(h) ==
    /\ Opens(At, Valid)
    /\ Fields(h).length = NoLength /\ ~Fields(h).chunked
    /\ \/ \E n \in NextOpenings(At) : First(n, NextOpenings(At)) /\ FoundUpTo(h, n - 1)
       \/ NextOpenings(At) = {} /\ FoundLast(h)

ReadUntilNext(h) ==
    /\ Opens(At, Valid)
    /\ Fields(h).length = NoLength /\ ~Fields(h).chunked
    /\ \/ \E n \in NextOpenings(h + 2) : First(n, NextOpenings(h + 2)) /\ FoundUpTo(h, n - 1)
       \/ NextOpenings(h + 2) = {} /\ FoundLast(h)

\* One round of the loop.
Round ==
    /\ parsing # "done" /\ Len(messages[parsing]) < MaxFound
    /\ \/ Stop
       \/ \E h \in HeaderEnds :
            /\ First(h, HeaderEnds)
            /\ Data[At] # CRLF
            /\ SkipBlock(h) \/ ReadDelimited(h) \/ ReadChunked(h) \/ ReadUntilNext(h)
    /\ UNCHANGED stream

\* The loop on its own, given any stream.
MessagesSpec ==
    /\ stream \in [Direction -> Seq(Symbol)] /\ LoopInit
    /\ [][Round]_messageVars

-----------------------------------------------------------------------------
\* A message with a negative length.
GoesBack(m) == m.header.length \in Int \ Nat

\* No byte of a stream is in two messages, whatever else the lengths and the
\* markers in it say, unless the loop took a message with a negative length
\* from the first of the two on, and went back; and bodies lie inside the
\* data always (http.py:288-331).
NoByteTwice ==
    \A d \in Direction : \A j \in DOMAIN messages[d] :
        /\ messages[d][j].last <= Len(stream[d])
        /\ \A i \in 1 .. j - 1 :
             (\A k \in i .. j - 1 : ~GoesBack(messages[d][k])) => messages[d][i].last < messages[d][j].begin

Latest == messages[parsing][Len(messages[parsing])]

\* Every round of the loop moves on in its direction or ends it, except one
\* that takes a message with a negative length: nothing else keeps the loop
\* from ending, on any data (lines 267, 297-300).
MovesOn ==
    [][parsing' = parsing => At' > At \/ (messages' # messages /\ GoesBack(Latest'))]_messageVars
=============================================================================
