----------------------------- MODULE FileCarver -----------------------------
(***************************************************************************)
(* FileCarver.carve_all (pcap_decode/carver.py) and the size of a PE file  *)
(* (pcap_decode/pe_parser.py).  Data are a sequence of symbols, each with  *)
(* the key it is hidden under by XOR, 0 if it is in the clear.  Lengths    *)
(* and offsets count symbols.                                              *)
(***************************************************************************)
EXTENDS Integers, SequencesExt, FiniteSetsExt

CONSTANTS
    XorKeys,
    Signature,   \* symbol -> the format of the files that begin with it
    PeHeader,    \* symbol of a DOS header -> where the PE header is, and what it
                 \*   says: [lfanew, optional, directory, sections, certificate]
    ElfTables,   \* symbol of an ELF header -> the ends of its tables
    EndRecord,   \* symbol that ends an archive -> the length of its comment
    Blank,
    MinLength,   \* format, and kind of search -> the least data it takes
    PowerShell, Shebang, EchoOff, SetLocal

\* The data as they look after XOR with a key.
Unhidden(data, key) == [i \in DOMAIN data |-> IF data[i].key = key THEN data[i].symbol ELSE "noise"]

\* parse_pe finds both of its signatures.
IsPe(file) ==
    /\ file[1] \in DOMAIN PeHeader
    /\ PeHeader[file[1]].lfanew \in DOMAIN file
    /\ file[PeHeader[file[1]].lfanew] = "PE"

\* Fault: the last section is taken for the end.
PeEndOfLast(file) ==
    LET h == PeHeader[file[1]]
    IN  IF h.sections = << >> THEN h.lfanew + h.optional ELSE Last(h.sections).end

\* The end of the last byte that the headers which are there speak of.
PeEnd(file) ==
    LET h == PeHeader[file[1]]
        table == h.lfanew + h.optional
    IN  Max({table}
            \union {h.sections[k].end : k \in {n \in DOMAIN h.sections : table + n <= Len(file)}}
            \union {h.certificate : n \in {h.lfanew + h.directory} \cap DOMAIN file})

\* calculate_zip_size: the last end record counts, not the first.
ZipEnd(file) ==
    LET ends == {i \in DOMAIN file : file[i] \in DOMAIN EndRecord}
    IN  IF ends = {} THEN Len(file) ELSE Max(ends) + EndRecord[file[Max(ends)]]

\* calculate_pdf_size, with the white space behind the last mark.
PdfEnd(file) ==
    LET ends == {i \in DOMAIN file : file[i] = "%%EOF"}
    IN  IF ends = {} THEN Len(file)
        ELSE Max({i \in Max(ends) .. Len(file) : \A j \in Max(ends) + 1 .. i : file[j] \in Blank})

End(format, file) ==
    CASE format = "pe" -> PeEnd(file)
      [] format = "elf" -> Max(ElfTables[file[1]] \union {MinLength["elf"]})
      [] format = "zip" -> ZipEnd(file)
      [] format = "pdf" -> PdfEnd(file)
      [] OTHER -> Len(file)

From(data, i) == SubSeq(data, i, Len(data))

\* What is carved where the file begins with a signature, key by key.
Carved(file, format, at, key) ==
    [format |-> format, at |-> at, key |-> key,
     data |-> SubSeq(file, 1, Min({End(format, file), Len(file)}))]

\* _carve_signatures. The test for a gzip signature inside another
\* (carver.py:197) compares three bytes with four and never holds.
CarveSignatures(clear) ==
    {c \in {Carved(From(clear, i), Signature[clear[i]], i, 0) :
              i \in {n \in DOMAIN clear : /\ clear[n] \in DOMAIN Signature
                                          /\ Signature[clear[n]] = "pe" => IsPe(From(clear, n))}} :
       Len(c.data) >= MinLength[c.format]}

\* _carve_xor_pe: the first of each key.
CarveXorPe(data) ==
    {Carved(From(Unhidden(data, key), i), "pe", i, key) :
        <<key, i>> \in {p \in XorKeys \X DOMAIN data :
            LET Found(n) == IsPe(From(Unhidden(data, p[1]), n))
            IN  Found(p[2]) /\ \A n \in 1 .. p[2] - 1 : ~Found(n)}}

Script(format, data) == [format |-> format, at |-> 1, key |-> 0, data |-> data]

\* _carve_scripts.
CarveScripts(clear) ==
    LET symbols == ToSet(clear) IN
    {Script(format, clear) : format \in
        {f \in {"ps1"} : symbols \cap PowerShell # {}}
        \union {f \in {"sh"} : clear[1] \in Shebang}
        \union {f \in {"bat"} : clear[1] \in EchoOff \/ symbols \cap SetLocal # {}}}

CarveAll(data) ==
    LET clear == Unhidden(data, 0)
        LongEnough(search, found) == IF Len(data) >= MinLength[search] THEN found ELSE {}
    IN  LongEnough("any", CarveSignatures(clear)
                            \union LongEnough("xor", CarveXorPe(data))
                            \union LongEnough("script", CarveScripts(clear)))
=============================================================================
