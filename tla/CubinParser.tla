----------------------------- MODULE CubinParser -----------------------------
(***************************************************************************)
(* The cubin parser (src/src/lifter/src/elf.rs): from the bytes of a file  *)
(* to the bytes of its instructions.  A file is abstracted to what the     *)
(* parser reads of it: its length, whether the magic is there, the fields  *)
(* of the ELF header, name, offset and size of each section header, and    *)
(* what the string table holds.  The fields are independent of each other  *)
(* as if no header overlapped another, which admits more files than exist. *)
(***************************************************************************)
EXTENDS Integers, Sequences, FiniteSets

CONSTANTS
    Files,              \* the files, see FilesAssumption
    WordMax,            \* the largest usize
    MaxSections         \* MAX_SECTIONS

Words == 0..WordMax

\* What the parser reads of a file.
IsFile(f) ==
    /\ f.len \in Words
    /\ f.elf \in BOOLEAN                      \* the four bytes of the magic
    /\ f.ident \in BOOLEAN                    \* class, data and version supported
    /\ f.shoff \in Words /\ f.shentsize \in Words
    /\ f.shnum \in Words /\ f.shstrndx \in Words
    /\ f.sections \in [0..MaxSections -> [name : Words, offset : Words, size : Words]]
    /\ f.nul_prefixed \in BOOLEAN             \* strtab[0] = 0
    /\ f.unreadable \subseteq Words           \* strtab indices: no NUL follows, or no UTF-8
    /\ f.texts \subseteq Words                \* strtab indices of names in .text*
    /\ f.utf8 \in BOOLEAN
    /\ f.tokens \in Seq(BOOLEAN)              \* words of the text: is it hexadecimal?

ASSUME FilesAssumption ==
    /\ WordMax \in Nat /\ WordMax >= 64 /\ MaxSections \in Nat
    /\ \A f \in Files : IsFile(f)

VARIABLES
    pc,         \* the next step of the parser
    file,       \* the file, fixed
    i,          \* the section header the loop has reached
    strtab,     \* the string table, [from, to) in the file
    data,       \* the bytes of the instructions, [from, to) in the file
    touched,    \* the ranges of bytes the last step indexed without a check of its own
    result      \* <<>>, or the outcome: an error or a number of instructions

vars == <<pc, file, i, strtab, data, touched, result>>

Err == [ok |-> FALSE, count |-> 0]
Ok(n) == [ok |-> TRUE, count |-> n]

\* Mutant: the sum wraps.
InFileWrapping(base, n) == (base + n) % (WordMax + 1) <= file.len

\* checked_add and checked_range; an overflow of usize is an error too.
InFile(base, n) == base + n <= WordMax /\ base + n <= file.len

Entry(k) == file.shoff + k * file.shentsize

\* The fields of a section header: sh_name, sh_offset, sh_size.
EntryFields(k) ==
    {<<Entry(k), 4>>, <<Entry(k) + 24, 8>>, <<Entry(k) + 32, 8>>}

Bytes(fields) == {<<f[1], f[1] + f[2]>> : f \in fields}

-----------------------------------------------------------------------------
Init ==
    /\ file \in Files
    /\ pc = "start"
    /\ i = 0
    /\ strtab = <<0, 0>>
    /\ data = <<0, file.len>>
    /\ touched = {}
    /\ result = <<>>

Fail ==
    /\ pc' = "done"
    /\ result' = <<Err>>
    /\ touched' = {}
    /\ UNCHANGED <<file, i, strtab, data>>

Continue(where) == pc' = where /\ UNCHANGED <<file, result>>

\* The magic decides between a cubin and raw instructions.
Start ==
    /\ pc = "start"
    /\ Continue(IF file.len >= 4 /\ file.elf THEN "header" ELSE "raw")
    /\ touched' = IF file.len >= 4 THEN {<<0, 4>>} ELSE {}
    /\ UNCHANGED <<i, strtab, data>>

\* The bytes of the identification and of the header are indexed once the file
\* is known to have 64 of them.
HeaderFields == {<<4, 3>>, <<40, 8>>, <<58, 2>>, <<60, 2>>, <<62, 2>>}

HeaderFits == file.len >= 64

HeaderOk ==
    /\ file.ident
    /\ file.shentsize >= 64
    /\ file.shnum # 0 /\ file.shnum <= MaxSections
    /\ file.shstrndx < file.shnum

ReadHeader ==
    /\ pc = "header"
    /\ IF HeaderFits /\ HeaderOk
       THEN /\ Continue("table")
            /\ touched' = Bytes(HeaderFields)
            /\ UNCHANGED <<i, strtab, data>>
       ELSE Fail

\* Mutant: the last entry is left out of the length.
TableAlmostFits == InFile(file.shoff, (file.shnum - 1) * file.shentsize)

\* The section header table fits in the file.
TableFits == InFile(file.shoff, file.shnum * file.shentsize)

StringTable == file.sections[file.shstrndx]

CheckTable ==
    /\ pc = "table"
    /\ IF TableFits /\ InFile(StringTable.offset, StringTable.size)
                    /\ StringTable.size > 0 /\ file.nul_prefixed
       THEN /\ Continue("sections")
            /\ strtab' = <<StringTable.offset, StringTable.offset + StringTable.size>>
            /\ touched' = Bytes(EntryFields(file.shstrndx)) \cup {strtab'}
            /\ UNCHANGED <<i, data>>
       ELSE Fail

Section == file.sections[i]

\* The name is in the string table, ends there, and is UTF-8.
NameInTable == Section.name < strtab[2] - strtab[1]

NameReadable == Section.name \notin file.unreadable

\* Mutant: an empty text section is taken too.
IsTextOrEmpty == Section.name \in file.texts

IsText == Section.name \in file.texts /\ Section.size > 0

TextRange == <<Section.offset, Section.offset + Section.size>>

TextFits == InFile(Section.offset, Section.size) /\ Section.size % 16 = 0

ReadSection ==
    /\ pc = "sections"
    /\ i < file.shnum
    /\ IF ~NameInTable \/ ~NameReadable \/ (IsText /\ ~TextFits)
       THEN Fail
       ELSE /\ touched' = Bytes(EntryFields(i)) \cup {<<strtab[1] + Section.name, strtab[2]>>}
                          \cup (IF IsText THEN {TextRange} ELSE {})
            /\ IF IsText
               THEN /\ Continue("raw")
                    /\ data' = TextRange
                    /\ UNCHANGED <<i, strtab>>
               ELSE /\ Continue("sections")
                    /\ i' = i + 1
                    /\ UNCHANGED <<strtab, data>>

NoText ==
    /\ pc = "sections"
    /\ i = file.shnum
    /\ Fail

-----------------------------------------------------------------------------
\* parse_raw_instructions.
Size == data[2] - data[1]

Finish(outcome) ==
    /\ pc' = "done"
    /\ result' = <<outcome>>
    /\ touched' = {data}
    /\ UNCHANGED <<file, i, strtab, data>>

ParseBinary ==
    /\ pc = "raw"
    /\ Size % 16 = 0
    /\ Finish(Ok(Size \div 16))

\* The hexadecimal words of the text; a word that does not parse is dropped.
HexWords == Cardinality({k \in DOMAIN file.tokens : file.tokens[k]})

ParseText ==
    /\ pc = "raw"
    /\ Size % 16 # 0
    /\ Finish(IF file.utf8 /\ HexWords % 4 = 0 /\ HexWords # 0
              THEN Ok(HexWords \div 4) ELSE Err)

Next == Start \/ ReadHeader \/ CheckTable \/ ReadSection \/ NoText \/ ParseBinary \/ ParseText

Spec == Init /\ [][Next]_vars

-----------------------------------------------------------------------------
TypeOK ==
    /\ IsFile(file)
    /\ pc \in {"start", "header", "table", "sections", "raw", "done"}
    /\ i \in Nat
    /\ strtab[1] \in Words /\ strtab[2] \in Words
    /\ data[1] \in Words /\ data[2] \in Words
    /\ result = <<>> <=> pc # "done"

\* elf.rs:4-6: malformed input never panics.  Every range of bytes a step indexes
\* (the header, a section header, the string table from a name on, the text) lies
\* in the file, whatever its fields say.
NeverOutOfBounds ==
    \A r \in touched : r[1] <= r[2] /\ r[2] <= file.len

\* elf.rs:150: the check of the table proves every entry in range, so the reads in
\* the loop cannot fail.
EntriesInRange ==
    pc = "sections" =>
        \A k \in 0..(file.shnum - 1) : \A f \in EntryFields(k) : InFile(f[1], f[2])

\* What a cubin's instructions are, said without the loop: the first non-empty text
\* section, when every section before it has a readable name.
NameOk(k) ==
    /\ file.sections[k].name < StringTable.size
    /\ file.sections[k].name \notin file.unreadable

IsTextSection(k) ==
    NameOk(k) /\ file.sections[k].name \in file.texts /\ file.sections[k].size > 0

Selected(k) == IsTextSection(k) /\ \A j \in 0..(k - 1) : NameOk(j) /\ ~IsTextSection(j)

\* A cubin that is accepted yields the whole instructions of that section and of no
\* other; one that has such a section in range is accepted.
SelectsFirstText ==
    pc = "done" /\ file.elf /\ file.len >= 4 =>
        /\ result[1].ok =>
             \E k \in 0..(file.shnum - 1) :
                /\ Selected(k)
                /\ data = <<file.sections[k].offset, file.sections[k].offset + file.sections[k].size>>
                /\ result[1].count * 16 = file.sections[k].size
        /\ HeaderFits /\ HeaderOk /\ TableFits /\ InFile(StringTable.offset, StringTable.size)
           /\ StringTable.size > 0 /\ file.nul_prefixed
           /\ (\E k \in 0..(file.shnum - 1) : Selected(k) /\ file.sections[k].size % 16 = 0
                   /\ InFile(file.sections[k].offset, file.sections[k].size))
           => result[1].ok
=============================================================================
