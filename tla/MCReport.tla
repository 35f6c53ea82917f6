------------------------------ MODULE MCReport ------------------------------
(***************************************************************************)
(* Sessions of a client c with a server s: two passive transfers, one      *)
(* after a listing, one active, and one on a port used before; and streams *)
(* that hold the same program again, in clear or hidden behind a key.  Of  *)
(* one transfer the first packet captured is the server's.                 *)
(***************************************************************************)
EXTENDS Report

At(host, port) == [host |-> host, port |-> port]
Named(base, ext) == [base |-> base, ext |-> ext]

\* The ports below, and as many counters as there may be files.
MCStr == [n \in 0 .. 21 \union {80} \union 1000 .. 1002 \union 2000 .. 2001 \union 3000 .. 3001 \union {5000, 5001, 6000} |-> ToString(n)]

MCSize == [none |-> 0, short |-> 12, text |-> 80, list |-> 40, program |-> 60, hidden |-> 80, blob |-> 60, other |-> 60]
MCExtension == [none |-> "bin", short |-> "txt", text |-> "txt", list |-> "txt",
                program |-> "exe", hidden |-> "bin", blob |-> "bin", other |-> "bin"]
MCBaseScore == [p \in DOMAIN MCSize |-> IF p = "program" THEN 65 ELSE 0]
MCIndicators == [p \in DOMAIN MCSize |-> IF p = "program" THEN {"executable"} ELSE {}]

Carve(data, base, ext, method, xor) ==
    << [data |-> data, name |-> Named(base, ext), method |-> method, xor |-> xor] >>

MCCarved == [p \in DOMAIN MCSize |->
    CASE p = "program" -> Carve("program", <<"carved_pe", "0">>, "exe", "CARVED_SIG", FALSE)
      [] p = "hidden" -> Carve("program", <<"deobfuscated_xor", "0">>, "exe", "CARVED_XOR", TRUE)
      [] OTHER -> << >>]

MCSanitized == ("a/b" :> "a_b") @@ ("a:b" :> "a_b")

Stream(client, server, c2s, s2c) ==
    [client |-> client, server |-> server, c2s |-> c2s, s2c |-> s2c,
     passive |-> << >>, names |-> << >>, active |-> << >>, carries |-> {},
     messages |-> << >>, shares |-> << >>]

Session(port, passive, active, names, carries) ==
    [Stream(At("c", port), At("s", 21), "text", "list") EXCEPT
        !.passive = passive, !.active = active, !.names = names, !.carries = carries]

Carries(channel, name) == [channel |-> channel, name |-> name]

Setup == Named(<<"a/b">>, "exe")
Second == Named(<<"a:b">>, "exe")
Numbered1 == Named(<<"a_b", "1">>, "exe")
LikeSidecar == Named(<<"a_b", ".", "exe", ".meta">>, "json")

Transfers == Session(1000, <<At("s", 5000), At("s", 5001)>>, << >>, <<Setup, Second>>,
                     {Carries(At("s", 5000), Setup), Carries(At("s", 5001), Second)})
Listing == Session(1001, <<At("s", 5000), At("s", 5001)>>, << >>, <<Second>>,
                   {Carries(At("s", 5000), NoName), Carries(At("s", 5001), Second)})
Active == Session(1002, << >>, <<At("c", 6000)>>, <<LikeSidecar>>, {Carries(At("c", 6000), LikeSidecar)})

Post(data, name) == [data |-> data, proto |-> "HTTP", src |-> At("c", 3000), xor |-> FALSE, name |-> name]

MCStreams ==
    {Transfers, Listing, Active,
     Stream(At("c", 2000), At("s", 5000), "none", "program"),
     Stream(At("s", 5001), At("c", 2001), "none", "blob"),
     Stream(At("s", 20), At("c", 6000), "text", "none"),
     Stream(At("c", 3001), At("t", 80), "hidden", "short"),
     [Stream(At("c", 3000), At("t", 80), "text", "text") EXCEPT
        !.messages = <<Post("program", Named(<<"index">>, "")), Post("other", Numbered1), Post("text", NoName),
                       Post("list", Named(<< >>, "."))>>]}
=============================================================================
