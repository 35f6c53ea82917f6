------------------------------- MODULE Report -------------------------------
(***************************************************************************)
(* From finished TCP streams to files on disk: the engine processes the    *)
(* streams in the order in which their connections end, which need not be  *)
(* the order in which they began; then it merges and ranks what it found,  *)
(* and the exporter saves it.  A control stream has, besides what          *)
(* FtpDecoder reads, what its channels really carry:                       *)
(*   carries   set of [channel, name], with NoName for a listing           *)
(***************************************************************************)
EXTENDS Exporter

CONSTANTS
    Streams,    \* the streams a capture may hold
    MaxStreams  \* bound on how many of them it does

\* A session of transfers only, all passive or all active.
Plain(control) ==
    /\ \A t \in control.carries : t.name # NoName
    /\ control.passive = << >> \/ control.active = << >>

\* In a session of transfers only, the commands come in the order of the
\* channels.  What other decoders find is not called FTP.
ASSUME StreamsAssumption ==
    \A s \in Streams :
        LET channels == s.passive \o s.active
        IN  /\ s.c2s \in DOMAIN Size /\ s.s2c \in DOMAIN Size
            /\ IsSequence(s.messages) /\ \A o \in ToSet(s.messages) : IsObject(o) /\ o.proto # "FTP"
            /\ IsSequence(s.shares) /\ \A o \in ToSet(s.shares) : IsObject(o) /\ o.proto # "FTP"
            /\ IsSequence(channels)
            /\ IsSequence(s.names) /\ \A n \in ToSet(s.names) : IsName(n) /\ n # NoName
            /\ IsControl(s) => ToSet(channels) = {t.channel : t \in s.carries}
            /\ IsControl(s) /\ Plain(s) =>
                 /\ Len(channels) <= Len(s.names)
                 /\ \A i \in DOMAIN channels :
                      [channel |-> channels[i], name |-> s.names[i]] \in s.carries

VARIABLES
    phase,     \* "streams", "analysis", "export"
    processed  \* the streams the engine was given, in order

vars == <<extractionVars, exporterVars, phase, processed>>

Init == ExtractionInit /\ ExporterInit /\ phase = "streams" /\ processed = << >>

HandOver(stream) ==
    /\ phase = "streams" /\ Len(processed) < MaxStreams /\ stream \notin ToSet(processed)
    /\ ProcessStream(stream)
    /\ processed' = Append(processed, stream)
    /\ UNCHANGED <<exporterVars, phase>>

EndOfCapture ==
    /\ phase = "streams"
    /\ phase' = "analysis"
    /\ UNCHANGED <<extractionVars, exporterVars, processed>>

Analyze == phase = "analysis" /\ AnalyzeNext /\ UNCHANGED <<exporterVars, phase, processed>>

RankAll == phase = "analysis" /\ Rank /\ phase' = "export" /\ UNCHANGED <<exporterVars, processed>>

Export == phase = "export" /\ ExportNext /\ UNCHANGED <<extractionVars, phase, processed>>

Next == (\E s \in Streams : HandOver(s)) \/ EndOfCapture \/ Analyze \/ RankAll \/ Export

Spec == Init /\ [][Next]_vars

-----------------------------------------------------------------------------
Exported == phase = "export" /\ Len(saved) = Len(files)

\* The control streams processed before the i-th stream that announced channel
\* e, and a name that the last of them gave.
Announcing(all, e, i) == {k \in 1 .. i - 1 : IsControl(all[k]) /\ \E t \in all[k].carries : t.channel = e}

NamedByLast(all, e, i, name) ==
    \E k \in Announcing(all, e, i) :
        /\ \A m \in Announcing(all, e, i) : m <= k
        /\ name \in ToSet(all[k].names) \union {DefaultName}

\* Candidate c is the transfer of the i-th stream.
TransferOf(all, i, c) ==
    LET data == all[i]
    IN  /\ ~IsControl(data) /\ c.src = data.client /\ c.data = DataPayload(data)
        /\ IF Announcing(all, data.server, i) # {} THEN NamedByLast(all, data.server, i, c.name)
           ELSE IF Announcing(all, data.client, i) # {} THEN NamedByLast(all, data.client, i, c.name)
           ELSE c.name = UnknownTransfer

\* Every FTP transfer in the report has a name of the last session that had
\* announced its server's end, or else its client's, whatever the sessions
\* (listings and both modes included) and however often ports are used again,
\* and the name of an unknown one only if none had.
SessionNames ==
    \A c \in ToSet(candidates) : c.proto = "FTP" =>
        \E i \in DOMAIN processed : TransferOf(processed, i, c)

\* A stream that is processed after the control stream that announced its
\* channel, and before the channel is announced again, is extracted under the
\* very name of its own transfer, if that session has transfers only, of one
\* mode: with a listing or with both modes the code may shift names.
TransferNames ==
    \A i \in DOMAIN processed : \A j \in 1 .. i - 1 :
        LET data == processed[i]
            control == processed[j]
            channels == {data.server, data.client}
            Announces(k) == \E t \in processed[k].carries : t.channel \in channels
        IN  (/\ ~IsControl(data) /\ Size[DataPayload(data)] > 0
             /\ IsControl(control) /\ Plain(control) /\ Announces(j)
             /\ \A k \in 1 .. i - 1 : Announces(k) => k = j) =>
                \E c \in ToSet(candidates), t \in control.carries :
                    /\ t.channel \in channels
                    /\ c.proto = "FTP" /\ c.src = data.client
                    /\ c.data = DataPayload(data) /\ c.name = t.name

\* FTP transfers that follow their control stream have their own names, and no
\* transfer has one of another session (README.md:21, ftp.py:17-61).
OwnName == TransferNames /\ SessionNames

\* The candidates with the same content, and what the reference takes from
\* them.
Same(content) == {k \in DOMAIN candidates : candidates[k].data = content}

NameOf(k) == DottedName(candidates[k])

ReferenceName(content) ==
    LET same == Same(content)
        fitting == {k \in same : NameOf(k).ext = Extension[content]}
    IN  IF Extension[content] = "bin" THEN NameOf(Min(same))
        ELSE IF fitting # {} THEN NameOf(Min(fitting))
        ELSE NameOf(Max(same))

LargeEnough(content) == Size[content] >= MinPayloadSize /\ Size[content] > 0

\* Merging candidate by candidate gives one file for each content that is
\* large enough, with the highest of all scores and its level, the indicators
\* of all, the origin of the first, and the first name that fits the content,
\* if any does (engine.py:139-173).
MergedExactly ==
    position = Len(candidates) /\ phase # "streams" =>
        /\ \A i, j \in DOMAIN files : files[i].data = files[j].data => i = j
        /\ {f.data : f \in ToSet(files)} = {c.data : c \in {d \in ToSet(candidates) : LargeEnough(d.data)}}
        /\ \A f \in ToSet(files) :
             LET same == Same(f.data)
                 first == candidates[Min(same)]
             IN  /\ f.score = Max({Score(candidates[k]) : k \in same})
                 /\ f.level = Level(f.score)
                 /\ f.indicators = UNION {Analyzed(candidates[k]).indicators : k \in same}
                 /\ f.proto = first.proto /\ f.src = first.src
                 /\ f.name = ReferenceName(f.data)

\* Every payload of the report is on disk under a name of its own, and so is
\* its sidecar, whatever the names (README.md:50-51), as long as no later
\* sidecar is called like the payload, and no later payload like the sidecar:
\* the code keeps names apart among payloads only.
SavedIntact ==
    \A i \in DOMAIN saved :
        LET f == saved[i].file
            name == saved[i].name
            later == {j \in DOMAIN saved : j > i}
        IN  /\ (\A j \in later : Sidecar(saved[j].name) # name) =>
                 disk[name] = [kind |-> "payload", of |-> f.data]
            /\ (\A j \in later : saved[j].name # Sidecar(name)) =>
                 disk[Sidecar(name)] = [kind |-> "meta", of |-> f]

\* What the report owes of a stream: what HTTP, email and SMB found in it and
\* what was carved from it; besides, the data of an FTP transfer or, of a
\* stream that no decoder recognised, both directions, if they are to be copied.
IsTransferred(s) ==
    \E c \in ToSet(candidates) : c.proto = "FTP" /\ c.src = s.client /\ c.data = DataPayload(s)

Owed(s) ==
    LET directions == {s.c2s, s.s2c}
        decoded == {o.data : o \in ToSet(s.messages) \union ToSet(s.shares)}
        carved == UNION {{item.data : item \in ToSet(Carved[p])} : p \in {q \in directions : Size[q] >= MinPayloadSize}}
        copied == IF CarveRawStreams /\ decoded = {} THEN {p \in directions : Size[p] >= RawSize} ELSE {}
    IN  decoded \union carved \union IF IsTransferred(s) THEN {DataPayload(s)} ELSE copied

\* None of it is missing on disk in the end if it is large enough, even where
\* it was found several times or something was carved from a stream that is
\* copied (engine.py:93-137, 139-173).
EveryStreamSaved ==
    Exported => \A s \in ToSet(processed) : \A content \in Owed(s) :
        LargeEnough(content) => \E i \in DOMAIN saved : saved[i].file.data = content
=============================================================================
