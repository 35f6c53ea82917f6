--------------------------- MODULE MCHttpTraffic ----------------------------
(***************************************************************************)
(* Exchanges of every kind of framing, with bodies that hold what the      *)
(* decoder looks for: an empty line, the beginning of another message, a   *)
(* last chunk.  Negative lengths lead back to the header they are in, to   *)
(* the body before it and, from the first message of a direction, before   *)
(* its data; negative chunk sizes to the chunk itself and past its size.   *)
(***************************************************************************)
EXTENDS HttpTraffic, TLC

Line(word, length, chunked) ==
    [word |-> word, uri |-> "none", length |-> length, chunked |-> chunked,
     name |-> "none", compressed |-> FALSE, boundary |-> "none"]

\* The lines of messages and of parts, with what the rest of their headers says.
Lines ==
    ("get" :> [Line("GET", NoLength, FALSE) EXCEPT !.uri = "page"])
    @@ ("get2" :> [Line("GET", NoLength, FALSE) EXCEPT !.uri = "song"])
    @@ ("head" :> [Line("HEAD", NoLength, FALSE) EXCEPT !.uri = "page"])
    @@ ("patch" :> [Line("PATCH", 1, FALSE) EXCEPT !.uri = "page"])
    @@ ("post" :> [Line("POST", 2, FALSE) EXCEPT !.uri = "form"])
    @@ ("upload" :> [Line("POST", 13, FALSE) EXCEPT !.boundary = "--B"])
    @@ ("stream" :> [Line("PUT", NoLength, TRUE) EXCEPT !.name = "film"])
    @@ ("part" :> [Line("none", NoLength, FALSE) EXCEPT !.name = "photo"])
    @@ ("continue" :> Line("HTTP/", NoLength, FALSE))
    @@ ("empty" :> Line("HTTP/", NoLength, FALSE))
    @@ ("ok4" :> Line("HTTP/", 4, FALSE))
    @@ ("packed" :> [Line("HTTP/", 1, FALSE) EXCEPT !.compressed = TRUE, !.name = "archive"])
    @@ ("chunked" :> Line("HTTP/", NoLength, TRUE))
    @@ ("again" :> Line("HTTP/", -4, FALSE))
    @@ ("back" :> Line("HTTP/", -5, FALSE))
    @@ ("rewind" :> Line("POST", -6, FALSE))

MCCrlf == "\r\n"
MCBodySymbols == {"GET ", "HTTP/", "x", "y", "z", "3", "10", "0", "-1", "-3", "--B", "--"}
MCSymbol == DOMAIN Lines \union MCBodySymbols \union {MCCrlf, "rest"}
MCOpening == [s \in {l \in DOMAIN Lines : Lines[l].word # "none"} \union {"GET ", "HTTP/"} |->
                IF s = "GET " THEN "GET" ELSE IF s = "HTTP/" THEN "HTTP/" ELSE Lines[s].word]
FieldsOf(l) == [length |-> l.length, chunked |-> l.chunked, name |-> l.name,
                compressed |-> l.compressed, boundary |-> l.boundary]
MCHeader == [s \in DOMAIN Lines |-> FieldsOf(Lines[s])]
MCNoFields == FieldsOf(Line("none", NoLength, FALSE))
MCUriName == [s \in {l \in DOMAIN Lines : Lines[l].uri # "none"} |-> Lines[s].uri]
MCChunkSize == ("3" :> 3) @@ ("10" :> 10) @@ ("0" :> 0) @@ ("-1" :> -1) @@ ("-3" :> -3)
MCZeroEnd == {"10", "0"}
MCPlain == (<<"z">> :> <<"x", "y">>)
MCBlank == {MCCrlf}

N == MCCrlf
Msg(line, body) == [line |-> line, body |-> body]
Exchange(request, response) ==
    [request |-> request, responses |-> <<response>>, uploads |-> << >>, download |-> << >>]
File(name, data) == <<[data |-> data, name |-> name]>>

Three == <<"x", N, N>>
Chunked3 == <<"3", N>> \o Three \o <<N, "0", N, N>>
Fake == <<"3", N, "0", N, N, N, "3", N>> \o Three \o <<N, "0", N, N>>
Backward == <<"-1", N>> \o Chunked3
Endless == <<"-3", N, "x", N, "0", N, N>>
Marked == <<"HTTP/", N, N, "GET ">>
Form == <<"--B", N, "part", N, N, "x", N, N, "y", N, "--B", "--", N>>

MCExchanges ==
    {[Exchange(Msg("get", << >>), Msg("ok4", Marked)) EXCEPT !.download = File("page", Marked)],
     [Exchange(Msg("get2", << >>), Msg("chunked", Chunked3)) EXCEPT !.download = File("song", Three)],
     [Exchange(Msg("get2", << >>), Msg("chunked", Fake)) EXCEPT !.download = File("song", <<"0", N, N>> \o Three)],
     [Exchange(Msg("post", <<"GET ", N>>), Msg("empty", << >>)) EXCEPT !.uploads = File("form", <<"GET ", N>>)],
     [Exchange(Msg("upload", Form), Msg("packed", <<"z">>)) EXCEPT
        !.uploads = File("photo", <<"x", N, N, "y">>), !.download = File("archive", <<"x", "y">>)],
     [Exchange(Msg("stream", Chunked3), Msg("empty", <<"x">>)) EXCEPT
        !.uploads = File("film", Three), !.download = File("none", <<"x">>)],
     [Exchange(Msg("get2", << >>), Msg("chunked", Backward)) EXCEPT !.download = File("song", Three)],
     [Exchange(Msg("get2", << >>), Msg("chunked", Endless)) EXCEPT !.download = File("song", <<"x", N, "0", N>>)],
     Exchange(Msg("head", << >>), Msg("ok4", << >>)),
     Exchange(Msg("head", << >>), Msg("again", << >>)),
     Exchange(Msg("rewind", << >>), Msg("back", << >>)),
     Exchange(Msg("patch", <<"x">>), Msg("empty", << >>)),
     [Exchange(Msg("post", <<"x", "y">>), Msg("empty", << >>)) EXCEPT
        !.responses = <<Msg("continue", << >>), Msg("ok4", Marked)>>]}
=============================================================================
