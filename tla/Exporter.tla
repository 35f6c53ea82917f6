------------------------------ MODULE Exporter ------------------------------
(***************************************************************************)
(* Exporter (pcap_decode/exporter.py): each file of the report is saved    *)
(* under a name of its own, with a sidecar file of its metadata next to    *)
(* it.  It works on the ranked files of the engine.                        *)
(***************************************************************************)
EXTENDS Extraction

CONSTANT Sanitized  \* part of a name -> what is left of it, for the unsafe parts

VARIABLES
    naming_scheme,  \* "detailed", "hash" or "original"
    used_names,
    disk,           \* path in files_dir -> what was written there last
    saved           \* the entries of the report: [file, name]

exporterVars == <<naming_scheme, used_names, disk, saved>>

Clean(part) == IF part \in DOMAIN Sanitized THEN Sanitized[part] ELSE part

\* sanitize_filename: unsafe characters are replaced, dots at the end removed.
Sanitize(name) ==
    LET base == [i \in DOMAIN name.base |-> Clean(name.base[i])]
    IN  IF base = << >> THEN [base |-> <<"extracted_payload">>, ext |-> "bin"]
        ELSE [base |-> base, ext |-> IF name.ext = "." THEN "" ELSE name.ext]

\* The name that the file's contents deserve: one with an extension.
CleanName(f) ==
    LET name == Sanitize(f.name)
    IN  IF name.ext = "" THEN [name EXCEPT !.ext = Extension[f.data]] ELSE name

Prefix(f) ==
    CASE naming_scheme = "hash" -> <<f.data>>
      [] naming_scheme = "detailed" -> <<f.proto, f.src.host, Str[f.src.port]>>
      [] OTHER -> << >>

Target(f) == [CleanName(f) EXCEPT !.base = Prefix(f) \o @]

Numbered(name, k) == IF k = 0 THEN name ELSE [name EXCEPT !.base = Append(@, Str[k])]

\* Fault: only the first number is tried.
UniqueOnce(name) == IF name \in used_names THEN Numbered(name, 1) ELSE name

\* The first of name, name_1, name_2 and so on that is not in use.
Unique(name) ==
    LET free == {k \in 0 .. Cardinality(used_names) : Numbered(name, k) \notin used_names}
    IN  Numbered(name, Min(free))

Sidecar(name) == [base |-> name.base \o <<".", name.ext, ".meta">>, ext |-> "json"]

ExporterInit ==
    /\ naming_scheme \in {"detailed", "hash", "original"}
    /\ used_names = {}
    /\ disk = << >>
    /\ saved = << >>

Write(path, content, written) ==
    [p \in DOMAIN written \union {path} |-> IF p = path THEN content ELSE written[p]]

\* One round of export's loop, for the next file.
ExportNext ==
    LET f == files[Len(saved) + 1]
        name == Unique(Target(f))
    IN  /\ Len(saved) < Len(files)
        /\ used_names' = used_names \union {name}
        /\ disk' = Write(Sidecar(name), [kind |-> "meta", of |-> f], Write(name, [kind |-> "payload", of |-> f.data], disk))
        /\ saved' = Append(saved, [file |-> f, name |-> name])
        /\ UNCHANGED naming_scheme
=============================================================================
