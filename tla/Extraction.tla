----------------------------- MODULE Extraction -----------------------------
(***************************************************************************)
(* What the engine (pcap_decode/engine.py) makes of a finished TCP stream, *)
(* and of all the candidates at the end of the capture: it analyzes them   *)
(* one by one (pcap_decode/analyzer.py), merges those with the same        *)
(* content, and ranks what there is.                                       *)
(*                                                                         *)
(* The objects other decoders find in a stream are its fields messages     *)
(* (HTTP, email) and shares (SMB).  That a name ends with the letters of an *)
(* extension means here that it has that extension.                        *)
(***************************************************************************)
EXTENDS FtpDecoder

CONSTANTS
    Str,             \* number -> its digits, as they are put in names
    Extension,       \* payload -> the extension detect_file_type suggests
    BaseScore,       \* payload -> score of the content alone
    Indicators,      \* payload -> indicators of the content alone
    Carved,          \* payload -> what carve_all finds in it: sequence of [data, name, xor, method]
    MinPayloadSize,  \* min_payload_size
    CarveRawStreams  \* carve_raw_streams

\* An object that a decoder finds.
IsObject(o) == o.data \in DOMAIN Size /\ (o.name = NoName \/ IsName(o.name))

ASSUME ExtractionAssumption ==
    /\ MinPayloadSize \in Nat
    /\ \A p \in DOMAIN Size :
         /\ BaseScore[p] \in Nat
         /\ IsSequence(Carved[p])
         /\ \A item \in ToSet(Carved[p]) : IsObject(item) /\ item.method # "FTP"

ASSUME StrAssumption == \A j, k \in DOMAIN Str : Str[j] = Str[k] => j = k

VARIABLES
    candidates,  \* raw_candidates
    position,    \* how many of them are analyzed
    files        \* seen_hashes, in order of insertion; then ranked

extractionVars == <<data_port_map, candidates, position, files>>

RawSize == 16  \* the least a direction has to have to be copied

-----------------------------------------------------------------------------
\* RawStreamDecoder.parse_stream
RawObject(payload, from, to) ==
    IF Size[payload] < RawSize THEN << >>
    ELSE << [data |-> payload, proto |-> "RAW_TCP", src |-> from, xor |-> FALSE,
             name |-> [base |-> <<"raw_tcp", from.host, Str[from.port], "to", Str[to.port]>>, ext |-> "bin"]] >>

RawObjects(stream) ==
    RawObject(stream.c2s, stream.client, stream.server) \o RawObject(stream.s2c, stream.server, stream.client)

CarvedFrom(payload, from) ==
    IF Size[payload] < MinPayloadSize THEN << >>
    ELSE [i \in DOMAIN Carved[payload] |->
            LET item == Carved[payload][i] IN
            [data |-> item.data, proto |-> item.method, src |-> from, xor |-> item.xor, name |-> item.name]]

Matched(stream) == stream.messages \o FtpObjects(stream) \o stream.shares

\* Fault: what has been carved from is not copied.
CopiedUnlessCarved(stream) ==
    LET found == Matched(stream) \o CarvedFrom(stream.c2s, stream.client) \o CarvedFrom(stream.s2c, stream.server)
    IN  IF CarveRawStreams /\ found = << >> THEN RawObjects(stream) ELSE << >>

\* The raw copies of a stream that no decoder recognises; carving is no decoder.
Copied(stream) == IF CarveRawStreams /\ Matched(stream) = << >> THEN RawObjects(stream) ELSE << >>

\* _process_stream
ProcessStream(stream) ==
    /\ candidates' = candidates \o Matched(stream)
                       \o CarvedFrom(stream.c2s, stream.client) \o CarvedFrom(stream.s2c, stream.server)
                       \o Copied(stream)
    /\ FtpParse(stream)
    /\ UNCHANGED <<position, files>>

-----------------------------------------------------------------------------
\* The name analyze_payload gives: one with a dot.  The extension "." is that
\* of a name whose only dot is at its end.
DottedName(c) ==
    IF c.name = NoName THEN [base |-> <<"extracted", c.data>>, ext |-> Extension[c.data]]
    ELSE IF c.name.ext = "" THEN [c.name EXCEPT !.ext = Extension[c.data]]
    ELSE c.name

Level(score) ==
    CASE score >= 70 -> "CRITICAL"
      [] score \in 45 .. 69 -> "HIGH"
      [] score \in 25 .. 44 -> "MEDIUM"
      [] score \in 10 .. 24 -> "LOW"
      [] OTHER -> "INFO"

Score(c) == Min({100, BaseScore[c.data] + IF c.xor THEN 40 ELSE 0})

Analyzed(c) ==
    [data |-> c.data, name |-> DottedName(c), proto |-> c.proto, src |-> c.src,
     score |-> Score(c), level |-> Level(Score(c)),
     indicators |-> Indicators[c.data] \union IF c.xor THEN {"xor"} ELSE {}]

\* Fault: the score of the last candidate, whatever it is.
MergedLast(old, new) ==
    [old EXCEPT !.score = new.score, !.level = new.level, !.indicators = @ \union new.indicators]

\* A file found again: the higher score with its level, all indicators, and
\* another name if the one so far does not fit the content.
Merged(old, new) ==
    LET extension == Extension[new.data] IN
    [old EXCEPT
       !.score = IF new.score > @ THEN new.score ELSE @,
       !.level = IF new.score > old.score THEN new.level ELSE @,
       !.indicators = @ \union new.indicators,
       !.name = IF @.ext # extension /\ extension # "bin" THEN new.name ELSE @]

\* One round of _analyze_and_deduplicate's loop.
AnalyzeNext ==
    LET c == candidates[position + 1]
        known == {i \in DOMAIN files : files[i].data = c.data}
    IN  /\ position < Len(candidates)
        /\ position' = position + 1
        /\ files' = IF Size[c.data] = 0 \/ Size[c.data] < MinPayloadSize THEN files
                    ELSE IF known = {} THEN Append(files, Analyzed(c))
                    ELSE [i \in DOMAIN files |-> IF i \in known THEN Merged(files[i], Analyzed(c)) ELSE files[i]]
        /\ UNCHANGED <<data_port_map, candidates>>

\* The most suspicious and then the largest first; sort is stable.
Before(f, g) == \/ f.score > g.score
                \/ f.score = g.score /\ Size[f.data] > Size[g.data]

\* The sort of the results, which keeps the order of equals.
Rank ==
    LET Ahead(j, i) == \/ Before(files[j], files[i])
                       \/ ~Before(files[i], files[j]) /\ j <= i
        Place(i) == Cardinality({j \in DOMAIN files : Ahead(j, i)})
    IN  /\ position = Len(candidates)
        /\ files' = [k \in DOMAIN files |-> files[CHOOSE i \in DOMAIN files : Place(i) = k]]
        /\ UNCHANGED <<data_port_map, candidates, position>>

ExtractionInit == FtpInit /\ candidates = << >> /\ position = 0 /\ files = << >>
=============================================================================
