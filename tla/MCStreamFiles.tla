--------------------------- MODULE MCStreamFiles ----------------------------
(***************************************************************************)
(* Two SMB sessions with two files each; mails whose texts look like       *)
(* commands and replies; files inside files.                               *)
(***************************************************************************)
EXTENDS StreamFiles, TLC

Message(from, command, session, file, pos) ==
    [from |-> from, command |-> command, session |-> session, file |-> file, pos |-> pos,
     data |-> Bytes(<<session, file>>, pos, pos)]

SmbItems ==
    {Message("client", "write", s, f, p) : s \in {1, 2}, f \in {"a", "b"}, p \in {1, 2}}
    \union {Message("server", "read", s, f, p) : s \in {1, 2}, f \in {"a", "b"}, p \in {1, 2}}
    \union {[Message("client", "read", 1, "a", 1) EXCEPT !.data = << >>],
            [Message("server", "write", 1, "a", 1) EXCEPT !.data = << >>]}

Mail(lines, carries) == [lines |-> lines, carries |-> carries]

SmtpItems ==
    {Mail(<<"MAIL", "DATA", "From", "text", "part1", "part2", ".">>, <<"file1", "file2">>),
     Mail(<<"MAIL", "DATA", "From", "text", "DATA", "part1", ".">>, <<"file1">>),
     Mail(<<"MAIL", "DATA", ".">>, << >>),
     Mail(<<"MAIL", "DATA", "From", "+OK", ".">>, << >>),
     Mail(<<"NOOP">>, << >>)}

Pop3Items ==
    {Mail(<<"+OK", "From", "text", "part1", "part2", ".">>, <<"file1", "file2">>),
     Mail(<<"+OK", "From", "text", "+OK", "part1", ".">>, <<"file1">>),
     Mail(<<"+OK", "1 120", ".">>, << >>),
     Mail(<<"+OK", ".">>, << >>),
     Mail(<<"+OK">>, << >>),
     Mail(<<"+OK", "From", "DATA", ".">>, << >>)}

MCGreeting == [smtp |-> <<"EHLO">>, pop3 |-> <<"+OK">>]
MCAttachment == ("part1" :> "file1") @@ ("part2" :> "file2")

Clear(symbols) == [i \in DOMAIN symbols |-> [key |-> 0, symbol |-> symbols[i]]]
Hidden(key, symbols) == [i \in DOMAIN symbols |-> [key |-> key, symbol |-> symbols[i]]]
File(format, key, from, to) == [format |-> format, key |-> key, from |-> from, to |-> to]
Item(symbols, files) == [symbols |-> symbols, files |-> files]

\* A program with two sections, the first of which ends later, and its
\* certificate behind them; a program without sections; a table that ends an
\* ELF file.
Program == <<"MZ", "stub", "PE", "opt", "dir", "sec", "sec", "b", "c", "d">>
Signed == <<"MZs", "PE", "opt", "dir", "sec", "b", "cert">>
MCPeHeader ==
    ("MZ" :> [lfanew |-> 3, optional |-> 2, directory |-> 2, certificate |-> 0,
              sections |-> <<[end |-> 10], [end |-> 9]>>])
    @@ ("MZs" :> [lfanew |-> 2, optional |-> 2, directory |-> 2, certificate |-> 7,
                  sections |-> <<[end |-> 6]>>])
MCElfTables == ("ELF" :> {3, 5})
MCEndRecord == ("PK56" :> 1) @@ ("PK56+2" :> 3)
MCSignature == [s \in {"MZ", "MZs"} |-> "pe"] @@ ("ELF" :> "elf") @@ ("PK34" :> "zip") @@ ("%PDF" :> "pdf")
                 @@ ("GZ" :> "gzip") @@ ("OLE" :> "ole")
MCMinLength ==
    [pe |-> 7, elf |-> 2, zip |-> 2, pdf |-> 2, gzip |-> 0, ole |-> 0, any |-> 2, xor |-> 4, script |-> 3]

DataItems ==
    {Item(Clear(<<"x">> \o Program), {File("pe", 0, 2, 11)}),
     Item(Clear(Signed \o <<"overlay">>), {File("pe", 0, 1, 7)}),
     Item(Clear(<<"MZ", "x", "x">>), {}),
     Item(Hidden(1, Program), {File("pe", 1, 1, 10)}),
     Item(Hidden(2, Signed) \o Clear(<<"ELF", "ph", "ph", "sh", "sh">>),
          {File("pe", 2, 1, 7), File("elf", 0, 8, 12)}),
     Item(Clear(<<"PK34", "PK34", "y", "PK56", "z", "z", "PK56+2", "z", "z", "z">>),
          {File("zip", 0, 1, 10), File("zip", 0, 2, 5)}),
     Item(Clear(<<"%PDF", "MZs", "PE", "opt", "dir", "sec", "b", "cert", "%%EOF", "lf">>),
          {File("pdf", 0, 1, 10), File("pe", 0, 2, 8)}),
     Item(Clear(<<"GZ", "x">>), {File("gzip", 0, 1, 2)}),
     Item(Clear(<<"#!", "setlocal">>), {}),
     Item(Clear(<<"OLE", "iex">>), {File("ole", 0, 1, 2)})}

MCItems == [smb |-> SmbItems, smtp |-> SmtpItems, pop3 |-> Pop3Items, data |-> DataItems]
=============================================================================
