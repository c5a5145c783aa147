----------------------------- MODULE InitFiles -----------------------------
(***************************************************************************)
(* The files Limine loaded (initfs.c) and the parser of the init file      *)
(* (parse_init.c), one file or line per step.  Text is a sequence of cells *)
(* with one cell for a run of digits (its value), for "CORES " and for any *)
(* other character (negative); a pointer is the number of a cell.          *)
(***************************************************************************)
EXTENDS Cells, Sequences, SequencesExt

CONSTANTS
    MaxFiles,   \* MAX_FILES_IN_INITRD, 32 in the code
    NameSize,   \* MAX_FILENAME_SIZE, 128 in the code
    MaxCore,    \* MAX_CORE, 32 in the code
    Modules,    \* sequences of names of Limine's modules, as strings of letters
    Docs        \* init files: the number of cores and the lines

InitFilesAssumption ==
    /\ MaxFiles \in Nat /\ NameSize \in Nat \ {0} /\ MaxCore \in Nat \ {0}
    /\ Modules \subseteq Seq(Seq(Int))
    /\ \A d \in Docs :
        /\ d.cores \in Nat \cup {None}
        /\ d.lines \in Seq([index : Nat \cup {None}, sep : Seq(Int), name : Seq(Int)])

\* The text of a line and of a file; a line is a number, the cell behind it if
\* any, and a name.  A blank line has no number.
LineText(l) == (IF l.index = None THEN <<>> ELSE <<l.index>> \o l.sep) \o l.name \o <<Newline>>
Text(d) ==
    (IF d.cores = None THEN <<Letter(1)>> ELSE <<CORES, d.cores>>) \o <<Newline>>
        \o FlattenSeq([i \in 1 .. Len(d.lines) |-> LineText(d.lines[i])])

VARIABLES
    doc,        \* the init file as it was written
    mods,       \* the modules of the boot protocol, in order
    files,      \* initrd_files: name and module number
    text,       \* the bytes of the init file
    ptr, pc,    \* the parser
    required,   \* to_return.required_cores
    programs,   \* to_return.programs: pointers into text, 0 for NULL
    past        \* whether a byte behind the file or the array was written

vars == <<doc, mods, files, text, ptr, pc, required, programs, past>>

Init ==
    /\ doc \in Docs
    /\ mods \in Modules
    /\ files = <<>>
    /\ text = Text(doc)
    /\ ptr = 1
    /\ pc = "register"
    /\ required = 0
    /\ programs = [i \in 0 .. MaxCore - 1 |-> 0]
    /\ past = FALSE

-----------------------------------------------------------------------------
(* initfs.c                                                                *)

\* A mutant: the whole array is filled and the 0 goes behind it.
StrncpyWhole(name) == name

\* my_strncpy into a name of NameSize bytes.
my_strncpy(name) == SubSeq(name, 1, IF Len(name) < NameSize THEN Len(name) ELSE NameSize - 1)

\* A mutant: the last file with this name.
GetFileLast(name) ==
    LET found == {i \in 1 .. Len(files) : files[i].name = name}
    IN  IF found = {} THEN 0 ELSE CHOOSE i \in found : \A j \in found : j <= i

\* get_file: the first file with this name, 0 for NULL.
get_file(name) ==
    LET found == {i \in 1 .. Len(files) : files[i].name = name}
    IN  IF found = {} THEN 0 ELSE CHOOSE i \in found : \A j \in found : i <= j

\* The loop of bootstrap_arch over the modules; register_new_file.
register_new_file ==
    /\ pc = "register"
    /\ Len(files) < Len(mods)
    /\ IF Len(files) >= MaxFiles
       THEN pc' = "panic" /\ UNCHANGED files
       ELSE /\ files' = Append(files, [name |-> my_strncpy(mods[Len(files) + 1]),
                                       module |-> Len(files) + 1])
            /\ UNCHANGED pc
    /\ UNCHANGED <<doc, mods, text, ptr, required, programs, past>>

-----------------------------------------------------------------------------
(* parse_init.c                                                            *)

Inside(p) == p \in 1 .. Len(text)

\* get_next_line: behind the next 0, or NULL.
get_next_line(t, p) ==
    LET ends == {i \in p .. Len(t) : t[i] = Nul}
    IN  IF ends = {} THEN 0 ELSE (CHOOSE i \in ends : \A j \in ends : i <= j) + 1

\* atou: 0 when there is no digit.
atou(t, p) == IF t[p] >= 0 THEN t[p] ELSE 0

\* parse_init up to the second line: the file, its newlines, the CORES line.
ParseHead ==
    /\ pc = "register"
    /\ Len(files) = Len(mods)
    /\ IF get_file(InitName) = 0 \/ text[1] # CORES
       THEN pc' = "panic" /\ UNCHANGED <<text, ptr, required>>
       ELSE LET t == [i \in DOMAIN text |-> IF text[i] = Newline THEN Nul ELSE text[i]]
            IN  /\ text' = t
                /\ required' = atou(t, 2)
                /\ ptr' = get_next_line(t, 2)
                /\ pc' = "lines"
    /\ UNCHANGED <<doc, mods, files, programs, past>>

\* A 0 at the start of a line.
ParseBlank ==
    /\ pc = "lines" /\ Inside(ptr) /\ text[ptr] = Nul
    /\ ptr' = get_next_line(text, ptr)
    /\ UNCHANGED <<doc, mods, files, text, pc, required, programs, past>>

\* A mutant: the name is searched for the next line from its first byte on.
ParseLineStays ==
    /\ pc = "lines" /\ Inside(ptr) /\ text[ptr] # Nul
    /\ LET digits == text[ptr] >= 0
           index == atou(text, ptr)
           p == IF digits THEN ptr + 1 ELSE ptr
           t == IF Inside(p) THEN [text EXCEPT ![p] = Nul] ELSE text
       IN  /\ programs' = IF index < MaxCore THEN [programs EXCEPT ![index] = p + 1] ELSE programs
           /\ past' = (past \/ index >= MaxCore \/ ~Inside(p))
           /\ text' = t
           /\ ptr' = get_next_line(t, p)
    /\ UNCHANGED <<doc, mods, files, pc, required>>

\* A line: atou, the pointer behind the cell after the number, which becomes 0,
\* and the next line.  The index is not compared with MAX_CORE.
ParseLine ==
    /\ pc = "lines" /\ Inside(ptr) /\ text[ptr] # Nul
    /\ LET digits == text[ptr] >= 0
           index == atou(text, ptr)
           p == IF digits THEN ptr + 1 ELSE ptr
           t == IF Inside(p) THEN [text EXCEPT ![p] = Nul] ELSE text
       IN  /\ programs' = IF index < MaxCore THEN [programs EXCEPT ![index] = p + 1] ELSE programs
           /\ past' = (past \/ index >= MaxCore \/ ~Inside(p))
           /\ text' = t
           /\ ptr' = get_next_line(t, p + 1)
    /\ UNCHANGED <<doc, mods, files, pc, required>>

ParseEnd ==
    /\ pc = "lines" /\ ~Inside(ptr)
    /\ pc' = "done"
    /\ UNCHANGED <<doc, mods, files, text, ptr, required, programs, past>>

\* parse_init has returned, or a PANIC has stopped the core.
Stopped == pc \in {"done", "panic"} /\ UNCHANGED vars

Next == register_new_file \/ ParseHead \/ ParseBlank \/ ParseLine \/ ParseEnd \/ Stopped
Spec == Init /\ [][Next]_vars /\ WF_vars(Next)

-----------------------------------------------------------------------------
(* Properties.                                                             *)

\* The copies of the names fit struct file and the pointers stay in the file or
\* one byte behind it.
TypeOK ==
    /\ Len(files) <= MaxFiles
    /\ \A i \in 1 .. Len(files) : Len(files[i].name) < NameSize
    /\ ptr \in 0 .. Len(text) + 1
    /\ pc \in {"register", "lines", "done", "panic"}
    /\ required \in Nat /\ past \in BOOLEAN
    /\ \A i \in DOMAIN programs : programs[i] \in 0 .. Len(text) + 2

\* Once the modules are registered, a lookup finds the first module with that
\* name, and nothing else: truncation never makes one name answer for another,
\* as long as no module has a name too long for struct file.
LookupExact ==
    pc \in {"lines", "done"} /\ (\A i \in 1 .. Len(mods) : Len(mods[i]) < NameSize) =>
        \A name \in {mods[i] : i \in 1 .. Len(mods)} :
            \E i \in 1 .. Len(mods) :
                /\ get_file(name) = i /\ files[i].module = i /\ mods[i] = name
                /\ \A j \in 1 .. i - 1 : mods[j] # name

\* The string a program pointer stands for, once the file is parsed.
String(p) ==
    LET ends == {i \in p .. Len(text) : text[i] = Nul}
    IN  SubSeq(text, p, (CHOOSE i \in ends : \A j \in ends : i <= j) - 1)

WellFormed(d) ==
    /\ d.cores # None
    /\ \A i \in 1 .. Len(d.lines) :
        LET l == d.lines[i] IN
        \/ /\ l.index \in 0 .. MaxCore - 1 /\ Len(l.sep) = 1
           /\ \A j \in 1 .. Len(l.name) : l.name[j] \notin {Newline, Nul}
        \/ l.index = None /\ l.name = <<>>

\* The lines that name core i.
LinesOf(i) == {k \in 1 .. Len(doc.lines) : doc.lines[k].index = i}

\* What parse_init returns for a well formed file is what the file says: the
\* number of cores, and for each core the name on its last line, or NULL.  The
\* parser cuts the text it reads into strings while it is reading it.
ParsesMeaning ==
    pc = "done" /\ WellFormed(doc) =>
        /\ required = doc.cores /\ ~past
        /\ \A i \in DOMAIN programs :
            IF LinesOf(i) = {} THEN programs[i] = 0
            ELSE String(programs[i]) =
                    doc.lines[CHOOSE k \in LinesOf(i) : \A j \in LinesOf(i) : j <= k].name

\* Every input is parsed or refused: get_next_line always moves on.
ParseEnds == <>(pc \in {"done", "panic"})
-----------------------------------------------------------------------------
(* What LookupExact and TypeOK rest on.                                    *)

\* The files are the modules registered so far, in their order.
FilesInv ==
    /\ mods \in Modules /\ files \in Seq([name : Seq(Int), module : Nat])
    /\ Len(files) <= Len(mods)
    /\ \A k \in 1 .. Len(files) : files[k] = [name |-> my_strncpy(mods[k]), module |-> k]
    /\ pc \in {"lines", "done"} => Len(files) = Len(mods)

\* The text is one of cells, and one that begins with CORES goes on.
TextInv ==
    /\ text \in Seq(Int) /\ Len(text) > 0
    /\ pc = "register" => (text[1] = CORES => Len(text) > 1)
    /\ DOMAIN programs = 0 .. MaxCore - 1
=============================================================================
