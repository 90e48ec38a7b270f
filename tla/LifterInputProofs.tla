-------------------------- MODULE LifterInputProofs --------------------------
(***************************************************************************)
(* What is proved of the two readers of the lifter's input: the cubin      *)
(* parser (CubinParser), for files, word widths and section limits of      *)
(* every size, and the decoder with the lowering (SassRoundTrip), for      *)
(* every instruction an assembler can write.                               *)
(*                                                                         *)
(* The parser never indexes outside the file.  NeverOutOfBounds is not     *)
(* inductive: the ranges the loop touches are safe because of checks made  *)
(* two steps before it.  The invariant Safe carries the outcome of those   *)
(* checks along: ReadHeader leaves HeaderOk behind, CheckTable leaves      *)
(* TableFits and a string table inside the file.  SelectsFirstText is      *)
(* about the outcome only; Selecting adds what is known on the way: no     *)
(* section the loop has passed is a text section.                          *)
(*                                                                         *)
(* Of the decoder the argument is about numbers and their bits.  Both the  *)
(* field an assembler writes and the number a decoder reads are recursive  *)
(* functions; each is shown equal to one function, the halves of the       *)
(* number (Halves), by induction over a set (DataInduction).  From there:  *)
(* a field wide enough for its number gives it back, a field is read as it *)
(* was written because no two fields of an encoding share a position, and  *)
(* the tables of the lowering are compared name by name.                   *)
(***************************************************************************)
EXTENDS CubinParser, SassRoundTrip, DataInduction


\* A range of bytes of the file.
Inside(r) == r[1] \in Nat /\ r[2] \in Nat /\ r[1] <= r[2] /\ r[2] <= file.len

Labels == {"start", "header", "table", "sections", "raw", "done"}

\* What the checks made so far have shown.
Checked ==
    /\ pc \in {"header", "table", "sections"} => file.len >= 4
    /\ pc \in {"start", "header", "table"} => i = 0
    /\ pc = "table" => HeaderFits /\ HeaderOk
    /\ pc = "sections" => HeaderOk /\ TableFits /\ i \in 0..file.shnum

Safe ==
    /\ IsFile(file) /\ pc \in Labels /\ i \in Nat
    /\ Inside(strtab) /\ Inside(data)
    /\ \A r \in touched : Inside(r)
    /\ Checked

-----------------------------------------------------------------------------
\* The fields of a file that arithmetic is done on are numbers (the width of usize).
LEMMA Numbers ==
    ASSUME NEW f, IsFile(f)
    PROVE  /\ f.len \in Nat /\ f.shoff \in Nat /\ f.shentsize \in Nat
           /\ f.shnum \in Nat /\ f.shstrndx \in Nat
           /\ f.len <= WordMax
<1>1. WordMax \in Nat
  BY FilesAssumption
<1> QED
  BY <1>1 DEF IsFile, Words

\* So are the offset, size and name of a section header.
LEMMA SectionNumbers ==
    ASSUME NEW f, IsFile(f), NEW k \in 0..MaxSections
    PROVE  /\ f.sections[k].name \in Nat
           /\ f.sections[k].offset \in Nat
           /\ f.sections[k].size \in Nat
<1>1. WordMax \in Nat
  BY FilesAssumption
<1>2. f.sections[k] \in [name : Words, offset : Words, size : Words]
  BY DEF IsFile
<1> QED
  BY <1>1, <1>2 DEF Words

\* Row k of a table of n rows of e bytes ends inside the table.
LEMMA RowEnds ==
    ASSUME NEW k \in Nat, NEW n \in Nat, NEW e \in Nat, k < n
    PROVE  k * e \in Nat /\ k * e + e <= n * e
<1> DEFINE d == n - k - 1
<1>1. d \in Nat /\ n = k + 1 + d
  OBVIOUS
<1>2. n * e = k * e + e + d * e
  BY <1>1
<1>3. d * e \in Nat /\ k * e \in Nat
  BY <1>1
<1> HIDE DEF d
<1> QED
  BY <1>2, <1>3

\* The check of the table (elf.rs:107-112) puts every field of every section header inside
\* the file.
LEMMA FieldsFit ==
    ASSUME IsFile(file), HeaderOk, TableFits, NEW k \in Nat, k < file.shnum,
           NEW f \in EntryFields(k)
    PROVE  f[1] \in Nat /\ f[2] \in Nat /\ InFile(f[1], f[2])
<1> DEFINE e == file.shentsize
           n == file.shnum
           start == file.shoff
           rows == k * e
           all == n * e
<1>1. e \in Nat /\ n \in Nat /\ start \in Nat /\ file.len \in Nat /\ WordMax \in Nat
  BY Numbers, FilesAssumption
<1>2. e >= 64
  BY DEF HeaderOk
<1>3. rows \in Nat /\ rows + e <= all
  BY <1>1, RowEnds
<1>4. all \in Nat
  BY <1>1
<1>5. start + all <= WordMax /\ start + all <= file.len
  BY DEF TableFits, InFile
<1>6. \/ f[1] = start + rows /\ f[2] = 4
      \/ f[1] = start + rows + 24 /\ f[2] = 8
      \/ f[1] = start + rows + 32 /\ f[2] = 8
  BY DEF EntryFields, Entry
<1> HIDE DEF rows, all, e, n, start
<1>7. f[1] \in Nat /\ f[2] \in Nat
  BY <1>1, <1>3, <1>6
<1>8. f[1] + f[2] <= start + all
  BY <1>1, <1>2, <1>3, <1>4, <1>6
<1>9. f[1] + f[2] <= WordMax /\ f[1] + f[2] <= file.len
  BY <1>1, <1>4, <1>5, <1>7, <1>8
<1> QED
  BY <1>7, <1>9 DEF InFile

\* What is read of a section header lies in the file.
LEMMA EntryInside ==
    ASSUME IsFile(file), HeaderOk, TableFits, NEW k \in Nat, k < file.shnum,
           NEW r \in Bytes(EntryFields(k))
    PROVE  Inside(r)
<1>1. PICK f \in EntryFields(k) : r = <<f[1], f[1] + f[2]>>
  BY DEF Bytes
<1>2. f[1] \in Nat /\ f[2] \in Nat /\ InFile(f[1], f[2])
  BY FieldsFit
<1>3. file.len \in Nat
  BY Numbers
<1> QED
  BY <1>1, <1>2, <1>3 DEF Inside, InFile

-----------------------------------------------------------------------------
\* The invariant holds before the first step.
LEMMA InitSafe == Init => Safe
<1> SUFFICES ASSUME Init PROVE Safe
  OBVIOUS
<1>1. IsFile(file)
  BY FilesAssumption DEF Init
<1>2. file.len \in Nat
  BY <1>1, Numbers
<1> QED
  BY <1>1, <1>2 DEF Init, Safe, Inside, Checked, Labels

\* Giving up touches nothing.
LEMMA FailSafe ==
    ASSUME Safe, Fail
    PROVE  Safe'
<1>1. file' = file /\ i' = i /\ strtab' = strtab /\ data' = data /\ touched' = {} /\ pc' = "done"
  BY DEF Fail
<1> QED
  BY <1>1 DEF Safe, Inside, Checked, Labels

\* Nor does any step touch a byte outside the file.
LEMMA StepSafe ==
    ASSUME Safe, [Next]_vars
    PROVE  Safe'
<1>0. /\ IsFile(file) /\ file.len \in Nat /\ file.shnum \in Nat /\ file.shstrndx \in Nat
      /\ file.len <= WordMax
      /\ i \in Nat /\ Inside(strtab) /\ Inside(data) /\ Checked
  BY Numbers DEF Safe
<1>1. CASE Start
  <2>1. /\ pc = "start" /\ file' = file /\ i' = i /\ strtab' = strtab /\ data' = data
        /\ pc' = IF file.len >= 4 /\ file.elf THEN "header" ELSE "raw"
        /\ touched' = IF file.len >= 4 THEN {<<0, 4>>} ELSE {}
    BY <1>1 DEF Start, Continue
  <2>2. pc' \in {"header", "raw"} /\ (pc' = "header" => file.len >= 4)
    BY <2>1
  <2>3. \A r \in touched' : Inside(r)
    BY <1>0, <2>1 DEF Inside
  <2> QED
    BY <1>0, <2>1, <2>2, <2>3 DEF Safe, Inside, Checked, Labels
<1>2. CASE ReadHeader
  <2>1. CASE HeaderFits /\ HeaderOk
    <3>1. /\ pc = "header" /\ file' = file /\ i' = i /\ strtab' = strtab /\ data' = data
          /\ pc' = "table" /\ touched' = Bytes(HeaderFields)
      BY <1>2, <2>1 DEF ReadHeader, Continue
    <3>2. \A r \in touched' : Inside(r)
      BY <1>0, <2>1, <3>1 DEF Bytes, HeaderFields, HeaderFits, Inside
    <3>3. HeaderFits' /\ HeaderOk' /\ file.len >= 4
      BY <1>0, <2>1, <3>1 DEF HeaderFits, HeaderOk
    <3> QED
      BY <1>0, <3>1, <3>2, <3>3 DEF Safe, Inside, Checked, Labels
  <2>2. CASE ~(HeaderFits /\ HeaderOk)
    <3>1. Fail
      BY <1>2, <2>2 DEF ReadHeader
    <3> QED
      BY <3>1, FailSafe
  <2> QED
    BY <2>1, <2>2
<1>3. CASE CheckTable
  <2> DEFINE Good == /\ TableFits /\ InFile(StringTable.offset, StringTable.size)
                     /\ StringTable.size > 0 /\ file.nul_prefixed
  <2>1. CASE Good
    <3>1. /\ file' = file /\ i' = i /\ data' = data /\ pc' = "sections"
          /\ strtab' = <<StringTable.offset, StringTable.offset + StringTable.size>>
          /\ touched' = Bytes(EntryFields(file.shstrndx)) \cup {strtab'}
      BY <1>3, <2>1 DEF CheckTable, Continue
    <3>2. HeaderOk /\ file.len >= 4 /\ i = 0
      BY <1>0, <1>3 DEF CheckTable, Checked
    <3>3. file.shstrndx < file.shnum /\ file.shstrndx \in 0..MaxSections
      BY <1>0, <3>2, FilesAssumption DEF HeaderOk
    <3>4. StringTable.offset \in Nat /\ StringTable.size \in Nat
      BY <1>0, <3>3, SectionNumbers DEF StringTable
    <3>5. Inside(strtab')
      BY <1>0, <2>1, <3>1, <3>4 DEF Inside, InFile
    <3>6. \A r \in touched' : Inside(r)
      BY <1>0, <2>1, <3>1, <3>2, <3>3, <3>5, EntryInside
    <3>7. HeaderOk' /\ TableFits'
      BY <2>1, <3>1, <3>2 DEF HeaderOk, TableFits, InFile
    <3> QED
      BY <1>0, <3>1, <3>2, <3>5, <3>6, <3>7 DEF Safe, Inside, Checked, Labels
  <2>2. CASE ~Good
    <3>1. Fail
      BY <1>3, <2>2 DEF CheckTable
    <3> QED
      BY <3>1, FailSafe
  <2> QED
    BY <2>1, <2>2
<1>4. CASE ReadSection
  <2> DEFINE Bad == ~NameInTable \/ ~NameReadable \/ (IsText /\ ~TextFits)
             read == Bytes(EntryFields(i)) \cup {<<strtab[1] + Section.name, strtab[2]>>}
  <2>1. CASE ~Bad
    <3>1. /\ file' = file /\ strtab' = strtab
          /\ touched' = read \cup (IF IsText THEN {TextRange} ELSE {})
          /\ \/ IsText /\ pc' = "raw" /\ data' = TextRange /\ i' = i
             \/ ~IsText /\ pc' = "sections" /\ i' = i + 1 /\ data' = data
      BY <1>4, <2>1 DEF ReadSection, Continue
    <3>2. HeaderOk /\ TableFits /\ file.len >= 4 /\ i < file.shnum
      BY <1>0, <1>4 DEF ReadSection, Checked
    <3>3. i \in 0..MaxSections
      BY <1>0, <3>2, FilesAssumption DEF HeaderOk
    <3>4. Section.name \in Nat /\ Section.offset \in Nat /\ Section.size \in Nat
      BY <1>0, <3>3, SectionNumbers DEF Section
    <3>5. Inside(<<strtab[1] + Section.name, strtab[2]>>)
      BY <1>0, <2>1, <3>4 DEF NameInTable, Inside
    <3>6. IsText => Inside(TextRange)
      <4>1. IsText => InFile(Section.offset, Section.size)
        BY <2>1 DEF TextFits
      <4> QED
        BY <1>0, <3>4, <4>1 DEF TextRange, Inside, InFile
    <3>7. \A r \in read : Inside(r)
      BY <1>0, <3>2, <3>5, EntryInside
    <3>8. \A r \in touched' : Inside(r)
      BY <3>1, <3>6, <3>7
    <3>9. Inside(data')
      BY <1>0, <3>1, <3>6
    <3>10. HeaderOk' /\ TableFits' /\ i' \in 0..file.shnum
      BY <1>0, <3>1, <3>2 DEF HeaderOk, TableFits, InFile
    <3> QED
      BY <1>0, <3>1, <3>2, <3>8, <3>9, <3>10 DEF Safe, Inside, Checked, Labels
  <2>2. CASE Bad
    <3>1. Fail
      BY <1>4, <2>2 DEF ReadSection
    <3> QED
      BY <3>1, FailSafe
  <2> QED
    BY <2>1, <2>2
<1>5. CASE NoText
  BY <1>5, FailSafe DEF NoText
<1>6. CASE ParseBinary \/ ParseText
  <2>1. /\ file' = file /\ i' = i /\ strtab' = strtab /\ data' = data
        /\ pc' = "done" /\ touched' = {data}
    BY <1>6 DEF ParseBinary, ParseText, Finish
  <2> QED
    BY <1>0, <2>1 DEF Safe, Inside, Checked, Labels
<1>7. CASE UNCHANGED vars
  BY <1>7 DEF vars, Safe, Inside, Checked, HeaderFits, HeaderOk, TableFits, InFile
<1> QED
  BY <1>1, <1>2, <1>3, <1>4, <1>5, <1>6, <1>7 DEF Next

\* elf.rs:4-6, "never panics", as far as indexing goes: in every behaviour each range of
\* bytes the parser indexes lies in the file.
THEOREM NothingOutOfBounds == Spec => []NeverOutOfBounds
<1>1. Safe => NeverOutOfBounds
  BY DEF Safe, Inside, NeverOutOfBounds
<1> QED
  BY <1>1, InitSafe, StepSafe, PTL DEF Spec

\* elf.rs:150: while the loop runs, every field of every section header is in the file.
THEOREM EveryEntryInRange == Spec => []EntriesInRange
<1>1. Safe => EntriesInRange
  <2> SUFFICES ASSUME Safe, pc = "sections", NEW k \in 0..(file.shnum - 1),
                      NEW f \in EntryFields(k)
               PROVE  InFile(f[1], f[2])
    BY DEF EntriesInRange
  <2>1. IsFile(file) /\ HeaderOk /\ TableFits
    BY DEF Safe, Checked
  <2>2. k \in Nat /\ k < file.shnum
    BY <2>1, Numbers
  <2> QED
    BY <2>1, <2>2, FieldsFit
<1> QED
  BY <1>1, InitSafe, StepSafe, PTL DEF Spec

\* Every variable keeps its type: every offset the parser holds is a usize.
THEOREM TypeCorrect == Spec => []TypeOK
<1> DEFINE Concluding == result = <<>> <=> pc # "done"
<1>1. Init => Concluding
  BY DEF Init
<1>2. Concluding /\ [Next]_vars => Concluding'
  <2> SUFFICES ASSUME Concluding, [Next]_vars PROVE Concluding'
    OBVIOUS
  <2>1. ASSUME Fail PROVE Concluding'
    BY <2>1 DEF Fail
  <2>2. ASSUME NEW o, Finish(o) PROVE Concluding'
    BY <2>2 DEF Finish
  <2>3. ASSUME NEW where \in {"header", "table", "sections", "raw"}, Continue(where), pc # "done"
        PROVE  Concluding'
    BY <2>3 DEF Continue
  <2>4. CASE UNCHANGED vars
    BY <2>4 DEF vars
  <2> HIDE DEF Concluding
  <2>5. CASE Start
    BY <2>3, <2>5 DEF Start
  <2>6. CASE ReadHeader \/ CheckTable \/ ReadSection \/ NoText
    BY <2>1, <2>3, <2>6 DEF ReadHeader, CheckTable, ReadSection, NoText
  <2>7. CASE ParseBinary \/ ParseText
    BY <2>2, <2>7 DEF ParseBinary, ParseText
  <2> QED
    BY <2>4, <2>5, <2>6, <2>7 DEF Next
<1>3. Safe /\ Concluding => TypeOK
  <2> SUFFICES ASSUME Safe, Concluding PROVE TypeOK
    OBVIOUS
  <2>1. file.len \in Nat /\ file.len <= WordMax /\ WordMax \in Nat
    BY Numbers, FilesAssumption DEF Safe
  <2>2. \A r : Inside(r) => r[1] \in Words /\ r[2] \in Words
    BY <2>1 DEF Inside, Words
  <2> QED
    BY <2>2 DEF Safe, Labels, TypeOK
<1> QED
  BY <1>1, <1>2, <1>3, InitSafe, StepSafe, PTL DEF Spec

-----------------------------------------------------------------------------
\* The file starts with the magic of a cubin.
Cubin == file.elf /\ file.len >= 4

\* Section k is the first text section, and it is what data names.
Chosen(k) ==
    /\ k \in 0..(file.shnum - 1) /\ Selected(k)
    /\ data = <<file.sections[k].offset, file.sections[k].offset + file.sections[k].size>>
    /\ file.sections[k].size % 16 = 0

\* The tables are in order.
TablesOk ==
    /\ HeaderFits /\ HeaderOk /\ TableFits /\ InFile(StringTable.offset, StringTable.size)
    /\ StringTable.size > 0 /\ file.nul_prefixed

\* There is a first text section, whole and in the file.
HasText ==
    \E k \in 0..(file.shnum - 1) :
        /\ Selected(k) /\ file.sections[k].size % 16 = 0
        /\ InFile(file.sections[k].offset, file.sections[k].size)

Accepted(r) == \E k \in 0..(file.shnum - 1) : Chosen(k) /\ r.count * 16 = file.sections[k].size

Outcome(r) == (r.ok => Accepted(r)) /\ (TablesOk /\ HasText => r.ok)

\* The sections before n have readable names and none is a text section.
Passed(n) == \A j \in 0..(n - 1) : NameOk(j) /\ ~IsTextSection(j)

Selecting ==
    Cubin =>
        /\ pc = "sections" => TablesOk /\ strtab[2] - strtab[1] = StringTable.size /\ Passed(i)
        /\ pc = "raw" => TablesOk /\ \E k \in 0..(file.shnum - 1) : Chosen(k)
        /\ pc = "done" => Outcome(result[1])

\* Only the file, which no step changes, decides these.
LEMMA SameFile ==
    ASSUME file' = file
    PROVE  /\ Cubin' = Cubin /\ TablesOk' = TablesOk /\ HasText' = HasText
           /\ \A n : Passed(n)' = Passed(n)
           /\ data' = data => \A k : Chosen(k)' = Chosen(k)
<1>1. StringTable' = StringTable
  BY DEF StringTable
<1>2. \A k : NameOk(k)' = NameOk(k) /\ IsTextSection(k)' = IsTextSection(k)
  BY <1>1 DEF NameOk, IsTextSection
<1>3. \A k : Selected(k)' = Selected(k)
  BY <1>2 DEF Selected
<1>4. Cubin' = Cubin
  BY DEF Cubin
<1>5. TablesOk' = TablesOk
  BY <1>1 DEF TablesOk, HeaderFits, HeaderOk, TableFits, InFile
<1>6. HasText' = HasText
  BY <1>3 DEF HasText, InFile
<1>7. \A n : Passed(n)' = Passed(n)
  BY <1>2 DEF Passed
<1>8. data' = data => \A k : Chosen(k)' = Chosen(k)
  BY <1>3 DEF Chosen
<1> QED
  BY <1>4, <1>5, <1>6, <1>7, <1>8

\* A step that gives up is right to.
LEMMA FailSelecting ==
    ASSUME Safe, Fail, Cubin => ~(TablesOk /\ HasText)
    PROVE  Selecting'
<1>1. file' = file /\ pc' = "done" /\ result' = <<Err>>
  BY DEF Fail
<1>2. ~result'[1].ok
  BY <1>1 DEF Err
<1>3. Cubin' = Cubin /\ TablesOk' = TablesOk /\ HasText' = HasText
  BY <1>1, SameFile
<1>4. Cubin' => Outcome(result[1])'
  BY <1>2, <1>3 DEF Outcome
<1> QED
  BY <1>1, <1>4 DEF Selecting

\* What the loop finds at section i is what it looks for.
LEMMA SectionRead ==
    ASSUME Safe, pc = "sections", i < file.shnum, strtab[2] - strtab[1] = StringTable.size
    PROVE  /\ i \in 0..(file.shnum - 1)
           /\ NameOk(i) <=> NameInTable /\ NameReadable
           /\ IsTextSection(i) <=> NameOk(i) /\ IsText
           /\ file.sections[i] = Section
           /\ Section.offset \in Nat /\ Section.size \in Nat
<1>1. /\ IsFile(file) /\ i \in Nat /\ HeaderOk
  BY DEF Safe, Checked
<1>2. file.shnum \in Nat
  BY <1>1, Numbers
<1>3. i \in 0..MaxSections
  BY <1>1, <1>2, FilesAssumption DEF HeaderOk
<1>4. Section.offset \in Nat /\ Section.size \in Nat
  BY <1>1, <1>3, SectionNumbers DEF Section
<1>5. i \in 0..(file.shnum - 1)
  BY <1>1, <1>2
<1> QED
  BY <1>4, <1>5 DEF NameOk, IsTextSection, IsText, NameInTable, NameReadable, Section

\* The loop passes a section only when it must.
LEMMA ReadSelecting ==
    ASSUME Safe, Selecting, ReadSection
    PROVE  Selecting'
<1> DEFINE Bad == ~NameInTable \/ ~NameReadable \/ (IsText /\ ~TextFits)
<1>0. pc = "sections" /\ i < file.shnum /\ file.shnum \in Nat /\ i \in Nat
  BY Numbers DEF ReadSection, Safe
<1>1. Cubin => /\ TablesOk /\ strtab[2] - strtab[1] = StringTable.size /\ Passed(i)
               /\ i \in 0..(file.shnum - 1)
               /\ NameOk(i) <=> NameInTable /\ NameReadable
               /\ IsTextSection(i) <=> NameOk(i) /\ IsText
               /\ file.sections[i] = Section
               /\ Section.offset \in Nat /\ Section.size \in Nat
  BY <1>0, SectionRead DEF Selecting
<1>2. CASE Bad
  <2>1. Fail
    BY <1>2 DEF ReadSection
  <2>2. ASSUME Cubin, HasText PROVE FALSE
    <3>1. PICK k \in 0..(file.shnum - 1) :
              /\ Selected(k) /\ file.sections[k].size % 16 = 0
              /\ InFile(file.sections[k].offset, file.sections[k].size)
      BY <2>2 DEF HasText
    <3>2. IsTextSection(k) /\ \A j \in 0..(k - 1) : NameOk(j) /\ ~IsTextSection(j)
      BY <3>1 DEF Selected
    <3>3. ~(k < i)
      BY <1>0, <1>1, <2>2, <3>2 DEF Passed
    <3>4. CASE k = i
      BY <1>1, <1>2, <2>2, <3>1, <3>2, <3>4 DEF TextFits
    <3>5. CASE k > i
      <4>1. i \in 0..(k - 1)
        BY <1>0, <3>1, <3>5
      <4> QED
        BY <1>1, <1>2, <2>2, <3>2, <4>1
    <3> QED
      BY <1>0, <3>1, <3>3, <3>4, <3>5
  <2> QED
    BY <2>1, <2>2, FailSelecting
<1>3. CASE ~Bad /\ IsText
  <2>1. file' = file /\ pc' = "raw" /\ data' = TextRange
    BY <1>3 DEF ReadSection, Continue
  <2>2. ASSUME Cubin PROVE Chosen(i)'
    <3>1. IsTextSection(i)
      BY <1>1, <1>3, <2>2
    <3>2. Selected(i)
      BY <1>1, <2>2, <3>1 DEF Selected, Passed
    <3>3. Selected(i)' /\ i' = i
      <4>1. i' = i
        BY <1>3 DEF ReadSection, Continue
      <4> QED
        BY <2>1, <3>2, <4>1 DEF Selected, NameOk, IsTextSection, StringTable
    <3>4. data' = <<file.sections[i].offset, file.sections[i].offset + file.sections[i].size>>
      BY <1>1, <2>1, <2>2 DEF TextRange
    <3>5. file.sections[i].size % 16 = 0
      BY <1>1, <1>3, <2>2 DEF TextFits
    <3> QED
      BY <1>1, <2>1, <2>2, <3>3, <3>4, <3>5 DEF Chosen
  <2>3. Cubin' = Cubin /\ TablesOk' = TablesOk /\ i' = i
    BY <1>3, <2>1, SameFile DEF ReadSection, Continue
  <2>4. Cubin => \E k \in 0..(file.shnum - 1) : Chosen(k)'
    BY <1>1, <2>2, <2>3
  <2> QED
    BY <1>1, <2>1, <2>3, <2>4 DEF Selecting
<1>4. CASE ~Bad /\ ~IsText
  <2>1. file' = file /\ pc' = "sections" /\ i' = i + 1 /\ strtab' = strtab /\ data' = data
    BY <1>4 DEF ReadSection, Continue
  <2>2. Cubin' = Cubin /\ TablesOk' = TablesOk /\ \A n : Passed(n)' = Passed(n)
    BY <2>1, SameFile
  <2>3. Cubin => NameOk(i) /\ ~IsTextSection(i)
    BY <1>1, <1>4
  <2>4. Cubin => Passed(i + 1)
    <3>1. \A j \in 0..((i + 1) - 1) : j \in 0..(i - 1) \/ j = i
      BY <1>0
    <3> QED
      BY <1>1, <2>3, <3>1 DEF Passed
  <2>5. Cubin => Passed(i)'
    BY <2>1, <2>4 DEF Passed, NameOk, IsTextSection, StringTable
  <2>6. StringTable' = StringTable
    BY <2>1 DEF StringTable
  <2> QED
    BY <1>1, <2>1, <2>2, <2>5, <2>6 DEF Selecting
<1> QED
  BY <1>2, <1>3, <1>4

\* What becomes of a cubin's section is its number of instructions.
LEMMA ParseSelecting ==
    ASSUME Safe, Selecting, ParseBinary \/ ParseText
    PROVE  Selecting'
<1>1. file' = file /\ data' = data /\ pc = "raw" /\ pc' = "done"
  BY DEF ParseBinary, ParseText, Finish
<1>2. IsFile(file) /\ Checked /\ file.shnum \in Nat
  BY Numbers DEF Safe
<1>3. SUFFICES ASSUME Cubin PROVE Outcome(result[1])'
  BY <1>1, SameFile DEF Selecting
<1>4. PICK k \in 0..(file.shnum - 1) : Chosen(k)
  BY <1>1, <1>3 DEF Selecting
<1>5. Size = file.sections[k].size /\ Size \in Nat
  <2>1. k \in 0..MaxSections
    BY <1>1, <1>2, <1>3, FilesAssumption DEF Selecting, TablesOk, HeaderOk
  <2>2. file.sections[k].offset \in Nat /\ file.sections[k].size \in Nat
    BY <1>2, <2>1, SectionNumbers
  <2> QED
    BY <1>4, <2>2 DEF Chosen, Size
<1>6. Size % 16 = 0
  BY <1>4, <1>5 DEF Chosen
<1>7. result' = <<Ok(Size \div 16)>>
  BY <1>6 DEF ParseBinary, ParseText, Finish
<1>8. result'[1].ok /\ result'[1].count = Size \div 16
  BY <1>7 DEF Ok
<1>9. (Size \div 16) * 16 = Size
  BY <1>5, <1>6
<1>10. Chosen(k)'
  BY <1>1, <1>4, SameFile
<1>11. Accepted(result[1])'
  BY <1>1, <1>4, <1>5, <1>8, <1>9, <1>10 DEF Accepted
<1> QED
  BY <1>8, <1>11 DEF Outcome

\* Every step keeps to the choice.
LEMMA StepSelecting ==
    ASSUME Safe, Selecting, [Next]_vars
    PROVE  Selecting'
<1>1. CASE Start
  <2>1. file' = file /\ pc' = IF Cubin THEN "header" ELSE "raw"
    BY <1>1 DEF Start, Continue, Cubin
  <2> QED
    BY <2>1, SameFile DEF Selecting
<1>2. CASE ReadHeader
  <2>1. CASE HeaderFits /\ HeaderOk
    <3>1. pc' = "table"
      BY <1>2, <2>1 DEF ReadHeader, Continue
    <3> QED
      BY <3>1 DEF Selecting
  <2>2. CASE ~(HeaderFits /\ HeaderOk)
    BY <1>2, <2>2, FailSelecting DEF ReadHeader, TablesOk
  <2> QED
    BY <2>1, <2>2
<1>3. CASE CheckTable
  <2> DEFINE Good == /\ TableFits /\ InFile(StringTable.offset, StringTable.size)
                     /\ StringTable.size > 0 /\ file.nul_prefixed
  <2>0. /\ IsFile(file) /\ file.shnum \in Nat /\ file.shstrndx \in Nat
        /\ HeaderFits /\ HeaderOk /\ i = 0
    BY <1>3, Numbers DEF CheckTable, Safe, Checked
  <2>1. CASE Good
    <3>1. /\ file' = file /\ pc' = "sections" /\ i' = i
          /\ strtab' = <<StringTable.offset, StringTable.offset + StringTable.size>>
      BY <1>3, <2>1 DEF CheckTable, Continue
    <3>2. file.shstrndx \in 0..MaxSections
      BY <2>0, FilesAssumption DEF HeaderOk
    <3>3. StringTable.offset \in Nat /\ StringTable.size \in Nat
      BY <2>0, <3>2, SectionNumbers DEF StringTable
    <3>4. StringTable' = StringTable
      BY <3>1 DEF StringTable
    <3>5. strtab'[2] - strtab'[1] = StringTable'.size
      BY <3>1, <3>3, <3>4
    <3>6. TablesOk'
      BY <2>0, <2>1, <3>1, SameFile DEF TablesOk
    <3>7. Passed(i)'
      BY <2>0, <3>1 DEF Passed
    <3> QED
      BY <3>1, <3>5, <3>6, <3>7 DEF Selecting
  <2>2. CASE ~Good
    <3>1. Fail
      BY <1>3, <2>2 DEF CheckTable
    <3> QED
      BY <2>2, <3>1, FailSelecting DEF TablesOk
  <2> QED
    BY <2>1, <2>2
<1>4. CASE ReadSection
  BY <1>4, ReadSelecting
<1>5. CASE NoText
  <2>1. Fail /\ pc = "sections" /\ i = file.shnum
    BY <1>5 DEF NoText
  <2>2. ASSUME Cubin, HasText PROVE FALSE
    <3>1. Passed(i)
      BY <2>1, <2>2 DEF Selecting
    <3>2. PICK k \in 0..(file.shnum - 1) : IsTextSection(k)
      BY <2>2 DEF HasText, Selected
    <3> QED
      BY <2>1, <3>1, <3>2 DEF Passed
  <2> QED
    BY <2>1, <2>2, FailSelecting
<1>6. CASE ParseBinary \/ ParseText
  BY <1>6, ParseSelecting
<1>7. CASE UNCHANGED vars
  <2>1. file' = file /\ data' = data /\ pc' = pc /\ i' = i /\ strtab' = strtab /\ result' = result
    BY <1>7 DEF vars
  <2>2. /\ Cubin' = Cubin /\ TablesOk' = TablesOk /\ HasText' = HasText
        /\ (\A n : Passed(n)' = Passed(n)) /\ (\A k : Chosen(k)' = Chosen(k))
    BY <2>1, SameFile
  <2>3. Passed(i)' = Passed(i)
    BY <2>1, <2>2 DEF Passed, NameOk, IsTextSection, StringTable
  <2>4. StringTable' = StringTable
    BY <2>1 DEF StringTable
  <2>5. Outcome(result[1])' = Outcome(result[1])
    BY <2>1, <2>2 DEF Outcome, Accepted
  <2> QED
    BY <2>1, <2>2, <2>3, <2>4, <2>5 DEF Selecting
<1> QED
  BY <1>1, <1>2, <1>3, <1>4, <1>5, <1>6, <1>7 DEF Next

\* elf.rs:143-198: a cubin is accepted with the whole instructions of its first non-empty
\* text section, and it is accepted when that section and the tables are in order.
THEOREM FirstTextSelected == Spec => []SelectsFirstText
<1>1. Init => Safe /\ Selecting
  BY InitSafe DEF Init, Selecting
<1>2. Safe /\ Selecting => SelectsFirstText
  BY DEF Safe, Selecting, SelectsFirstText, Outcome, Accepted, Chosen, HasText, TablesOk, Cubin
<1> QED
  BY <1>1, <1>2, StepSafe, StepSelecting, PTL DEF Spec

-----------------------------------------------------------------------------
\* The decoder.

\* h[b] is n without its b lowest bits.
Halves(h, n, width) ==
    /\ h \in [0..width -> Int]
    /\ h[0] = n
    /\ \A b \in 1..width : h[b] = h[b - 1] \div 2

\* Halving as often as is wanted defines a function.
LEMMA HalvesExist ==
    ASSUME NEW n \in Int, NEW width \in Nat
    PROVE  \E h : Halves(h, n, width)
<1> DEFINE step == [x \in Nat \X Int |-> x[2] \div 2]
<1>1. step \in [Nat \X Int -> Int]
    OBVIOUS
<1>2. \A k \in Nat, m \in Int : step[<<k, m>>] = m \div 2
    OBVIOUS
<1> HIDE DEF step
<1>3. PICK h : Recurses(h, Int, n, step, width)
    BY <1>1, PrimitiveRecursion
<1>4. h \in [0..width -> Int] /\ h[0] = n
    BY <1>3 DEF Recurses
<1>5. ASSUME NEW b \in 1..width
      PROVE  h[b] = h[b - 1] \div 2
    <2>1. b \in Nat /\ h[b - 1] \in Int
        BY <1>4
    <2>2. h[b] = step[<<b, h[b - 1]>>]
        BY <1>3 DEF Recurses
    <2> QED
        BY <2>1, <2>2, <1>2
<1> QED
    BY <1>4, <1>5 DEF Halves

\* The field of a number holds the bits that halving it gives.
LEMMA PlacedBits ==
    ASSUME NEW n \in Int, NEW start \in Nat, NEW width \in Nat, NEW h, Halves(h, n, width)
    PROVE  Placed(n, start, width) = {start + b : b \in {c \in 0..(width - 1) : h[c] % 2 = 1}}
<1> DEFINE Is(g) == g = [b \in 0..width |-> IF b = 0 THEN n ELSE g[b - 1] \div 2]
           rest == CHOOSE g : Is(g)
<1>1. Placed(n, start, width) = {start + b : b \in {c \in 0..(width - 1) : rest[c] % 2 = 1}}
    BY Zenon DEF Placed
<1>2. h \in [0..width -> Int] /\ h[0] = n /\ \A b \in 1..width : h[b] = h[b - 1] \div 2
    BY DEF Halves
<1>3. \A b \in 0..width : h[b] = IF b = 0 THEN n ELSE h[b - 1] \div 2
    BY <1>2
<1>4. Is(h)
    BY <1>2, <1>3
<1>5. Is(rest)
    <2> HIDE DEF Is
    <2> QED
        BY <1>4
<1> HIDE DEF rest
<1>6. \A b \in 0..width : rest[b] = IF b = 0 THEN n ELSE rest[b - 1] \div 2
    BY <1>5, Zenon
<1> DEFINE T == {m \in Nat : m \in 0..width => rest[m] = h[m]}
<1>7. 0 \in T
    BY <1>2, <1>6
<1>8. ASSUME NEW m \in 0..width - 1, m \in T
      PROVE  m + 1 \in T
    <2>1. m + 1 \in 0..width /\ m + 1 # 0 /\ (m + 1) - 1 = m /\ m \in 0..width /\ m + 1 \in 1..width
        OBVIOUS
    <2>2. rest[m + 1] = rest[m] \div 2 /\ h[m + 1] = h[m] \div 2
        BY <1>2, <1>6, <2>1
    <2>3. rest[m] = h[m]
        BY <1>8, <2>1
    <2>4. rest[m + 1] = h[m + 1]
        BY <2>2, <2>3
    <2> QED
        BY <2>1, <2>4
<1>9. \A m \in 0..width : m \in T
    <2> HIDE DEF T
    <2> QED
        BY <1>7, <1>8, BoundedInduction
<1>10. \A m \in 0..width : rest[m] = h[m]
    BY <1>9
<1> QED
    BY <1>1, <1>10

\* The sum of the bits is what a function that doubles and adds comes to.
LEMMA NumeralSum ==
    ASSUME NEW bits, NEW a \in [0..32 -> Int], a[0] = 0,
           \A k \in 1..32 : a[k] = 2 * a[k - 1] + (IF 32 - k \in bits THEN 1 ELSE 0)
    PROVE  Numeral(bits) = a[32]
<1> DEFINE Is(g) == g = [k \in 0..32 |-> IF k = 0 THEN 0
                                         ELSE 2 * g[k - 1] + (IF 32 - k \in bits THEN 1 ELSE 0)]
           above == CHOOSE g : Is(g)
<1>1. Numeral(bits) = above[32]
    BY Zenon DEF Numeral
<1>2. \A k \in 0..32 : a[k] = IF k = 0 THEN 0 ELSE 2 * a[k - 1] + (IF 32 - k \in bits THEN 1 ELSE 0)
    OBVIOUS
<1>3. Is(a)
    BY <1>2
<1>4. Is(above)
    <2> HIDE DEF Is
    <2> QED
        BY <1>3
<1> HIDE DEF above
<1>5. \A k \in 0..32 : above[k] = IF k = 0 THEN 0
                                  ELSE 2 * above[k - 1] + (IF 32 - k \in bits THEN 1 ELSE 0)
    BY <1>4, Zenon
<1> DEFINE T == {m \in Nat : m \in 0..32 => above[m] = a[m]}
<1>6. 0 \in T
    BY <1>5
<1>7. ASSUME NEW m \in 0..32 - 1, m \in T
      PROVE  m + 1 \in T
    <2>1. m + 1 \in 0..32 /\ m + 1 # 0 /\ (m + 1) - 1 = m /\ m \in 0..32 /\ m + 1 \in 1..32
        OBVIOUS
    <2>2. /\ above[m + 1] = 2 * above[m] + (IF 32 - (m + 1) \in bits THEN 1 ELSE 0)
          /\ a[m + 1] = 2 * a[m] + (IF 32 - (m + 1) \in bits THEN 1 ELSE 0)
        BY <1>5, <2>1
    <2>3. above[m] = a[m]
        BY <1>7, <2>1
    <2>4. above[m + 1] = a[m + 1]
        BY <2>2, <2>3
    <2> QED
        BY <2>1, <2>4
<1>8. \A m \in 0..32 : m \in T
    <2>1. 32 \in Nat
        OBVIOUS
    <2> HIDE DEF T
    <2> QED
        BY <1>6, <1>7, <2>1, BoundedInduction
<1> QED
    BY <1>1, <1>8

\* A number is the sum of its bits.
LEMMA NumeralOfBits ==
    ASSUME NEW n \in Nat, NEW h, Halves(h, n, 32), h[32] = 0, NEW bits,
           \A c \in 0..31 : c \in bits <=> h[c] % 2 = 1
    PROVE  Numeral(bits) = n
<1>1. h \in [0..32 -> Int] /\ h[0] = n /\ \A b \in 1..32 : h[b] = h[b - 1] \div 2
    BY DEF Halves
<1> DEFINE a == [k \in 0..32 |-> h[32 - k]]
<1>2. a \in [0..32 -> Int] /\ a[0] = 0 /\ a[32] = n
    BY <1>1
<1>3. ASSUME NEW k \in 1..32
      PROVE  a[k] = 2 * a[k - 1] + (IF 32 - k \in bits THEN 1 ELSE 0)
    <2>1. 32 - k \in 0..31 /\ (32 - k) + 1 \in 1..32 /\ ((32 - k) + 1) - 1 = 32 - k
          /\ 32 - (k - 1) = (32 - k) + 1
        OBVIOUS
    <2>2. a[k] = h[32 - k] /\ a[k - 1] = h[(32 - k) + 1] /\ h[32 - k] \in Int
        BY <1>1, <2>1
    <2>3. h[(32 - k) + 1] = h[32 - k] \div 2
        BY <1>1, <2>1
    <2>4. 32 - k \in bits <=> h[32 - k] % 2 = 1
        BY <2>1
    <2>5. \A x \in Int : x = 2 * (x \div 2) + (IF x % 2 = 1 THEN 1 ELSE 0)
        OBVIOUS
    <2> HIDE DEF a
    <2> QED
        BY <2>2, <2>3, <2>4, <2>5
<1> HIDE DEF a
<1> QED
    BY <1>2, <1>3, NumeralSum

-----------------------------------------------------------------------------
\* Eight halvings divide by 256.
LEMMA HalvesDown ==
    ASSUME NEW n \in Int, NEW h, Halves(h, n, 32), NEW b \in 0..24, NEW m \in Nat,
           h[b] \in Nat, h[b] < 256 * m
    PROVE  h[b + 8] \in Nat /\ h[b + 8] < m
<1>1. h \in [0..32 -> Int] /\ \A c \in 1..32 : h[c] = h[c - 1] \div 2
    BY DEF Halves
<1>2. \A c \in 0..31 : h[c + 1] = h[c] \div 2 /\ h[c] \in Int
    <2> SUFFICES ASSUME NEW c \in 0..31
                 PROVE  h[c + 1] = h[c] \div 2 /\ h[c] \in Int
        OBVIOUS
    <2>1. c + 1 \in 1..32 /\ (c + 1) - 1 = c
        OBVIOUS
    <2> QED
        BY <1>1, <2>1
<1>3. \A x \in Nat, y \in Nat : x < 2 * y => x \div 2 \in Nat /\ x \div 2 < y
    OBVIOUS
<1>4. h[b + 1] \in Nat /\ h[b + 1] < 128 * m
    BY <1>2, <1>3
<1>5. h[b + 2] \in Nat /\ h[b + 2] < 64 * m
    BY <1>2, <1>3, <1>4
<1>6. h[b + 3] \in Nat /\ h[b + 3] < 32 * m
    BY <1>2, <1>3, <1>5
<1>7. h[b + 4] \in Nat /\ h[b + 4] < 16 * m
    BY <1>2, <1>3, <1>6, SMTT(30)
<1>8. h[b + 5] \in Nat /\ h[b + 5] < 8 * m
    BY <1>2, <1>3, <1>7
<1>9. h[b + 6] \in Nat /\ h[b + 6] < 4 * m
    BY <1>2, <1>3, <1>8
<1>10. h[b + 7] \in Nat /\ h[b + 7] < 2 * m
    BY <1>2, <1>3, <1>9
<1> QED
    BY <1>2, <1>3, <1>10, SMTT(30)

\* Nothing is left of zero.
LEMMA HalvesEnd ==
    ASSUME NEW n \in Int, NEW h, Halves(h, n, 32), NEW b \in 0..32, h[b] = 0
    PROVE  \A c \in b..32 : h[c] = 0
<1>1. h \in [0..32 -> Int] /\ \A c \in 1..32 : h[c] = h[c - 1] \div 2
    BY DEF Halves
<1> DEFINE T == {m \in Nat : b + m <= 32 => h[b + m] = 0}
<1>2. 0 \in T
    OBVIOUS
<1>3. ASSUME NEW m \in Nat, m \in T
      PROVE  m + 1 \in T
    <2> SUFFICES ASSUME b + (m + 1) <= 32
                 PROVE  h[b + (m + 1)] = 0
        OBVIOUS
    <2>1. b + (m + 1) \in 1..32 /\ (b + (m + 1)) - 1 = b + m /\ b + m <= 32
        OBVIOUS
    <2>2. h[b + m] = 0
        BY <1>3, <2>1
    <2>3. h[b + (m + 1)] = h[b + m] \div 2
        BY <1>1, <2>1
    <2> QED
        BY <2>2, <2>3
<1>4. \A m \in Nat : m \in T
    <2> HIDE DEF T
    <2> QED
        BY <1>2, <1>3, NaturalInduction
<1> QED
    <2> SUFFICES ASSUME NEW c \in b..32
                 PROVE  h[c] = 0
        OBVIOUS
    <2>1. c - b \in Nat /\ b + (c - b) = c
        OBVIOUS
    <2>2. c - b \in T
        BY <2>1, <1>4
    <2> QED
        BY <2>1, <2>2

\* A number of w bits, in the cases of the encoding, has no others.
LEMMA HalvesOfByte ==
    ASSUME NEW n \in 0..255, NEW h, Halves(h, n, 32)
    PROVE  \A c \in 8..32 : h[c] = 0
<1>1. h[0] = n
    BY DEF Halves
<1>2. h[0 + 8] \in Nat /\ h[0 + 8] < 1
    <2>1. h[0] \in Nat /\ h[0] < 256 * 1 /\ 0 \in 0..24 /\ 1 \in Nat /\ n \in Int
        BY <1>1
    <2> QED
        BY <2>1, HalvesDown
<1>3. h[8] = 0 /\ 8 \in 0..32 /\ n \in Int
    BY <1>2
<1> QED
    BY <1>3, HalvesEnd

LEMMA HalvesOfWord ==
    ASSUME NEW n \in Nat, NEW h, Halves(h, n, 32), NEW k \in Nat, n < 65536 * (256 * k)
    PROVE  h[24] \in Nat /\ h[24] < k
<1>1. h[0] = n
    BY DEF Halves
<1>2. h[0 + 8] \in Nat /\ h[0 + 8] < 65536 * k
    <2>1. h[0] \in Nat /\ h[0] < 256 * (65536 * k) /\ 0 \in 0..24 /\ 65536 * k \in Nat /\ n \in Int
        BY <1>1
    <2> QED
        BY <2>1, HalvesDown
<1>3. h[8 + 8] \in Nat /\ h[8 + 8] < 256 * k
    <2>1. h[8] \in Nat /\ h[8] < 256 * (256 * k) /\ 8 \in 0..24 /\ 256 * k \in Nat /\ n \in Int
        BY <1>2
    <2> QED
        BY <2>1, HalvesDown
<1>4. h[16 + 8] \in Nat /\ h[16 + 8] < k
    <2>1. h[16] \in Nat /\ h[16] < 256 * k /\ 16 \in 0..24 /\ n \in Int
        BY <1>3
    <2> QED
        BY <2>1, HalvesDown
<1> QED
    BY <1>4

-----------------------------------------------------------------------------
\* A field is the bits of its number, moved.
LEMMA PlacedMoved ==
    ASSUME NEW n \in Int, NEW start \in Nat, NEW width \in Nat
    PROVE  /\ Placed(n, start, width) = {start + b : b \in Placed(n, 0, width)}
           /\ Placed(n, 0, width) \subseteq 0..(width - 1)
           /\ Placed(n, start, width) \subseteq start..(start + width - 1)
<1>1. PICK h : Halves(h, n, width)
    BY HalvesExist
<1>2. Placed(n, 0, width) = {0 + b : b \in {c \in 0..(width - 1) : h[c] % 2 = 1}}
    BY <1>1, PlacedBits
<1>3. Placed(n, start, width) = {start + b : b \in {c \in 0..(width - 1) : h[c] % 2 = 1}}
    BY <1>1, PlacedBits
<1> DEFINE S == {c \in 0..(width - 1) : h[c] % 2 = 1}
<1>4. S \subseteq 0..(width - 1) /\ \A c \in S : c \in Int /\ 0 + c = c
    OBVIOUS
<1>5. Placed(n, 0, width) = {0 + b : b \in S} /\ Placed(n, start, width) = {start + b : b \in S}
    BY <1>2, <1>3
<1> HIDE DEF S
<1>6. Placed(n, 0, width) = S
    BY <1>4, <1>5
<1> QED
    BY <1>4, <1>5, <1>6

\* Of the positions start..start+width-1, bits has those of the number n.
Shows(bits, n, start, width) ==
    \A x \in start..(start + width - 1) : x \in bits <=> x \in Placed(n, start, width)

\* What the decoder reads where a field was written is what was written.
LEMMA ReadBack ==
    ASSUME NEW n \in Int, NEW start \in Nat, NEW width \in Nat, NEW bits,
           Shows(bits, n, start, width)
    PROVE  GetBits(bits, start, start + width) = Placed(n, 0, width)
<1> DEFINE S == Placed(n, 0, width)
<1>1. Placed(n, start, width) = {start + b : b \in S} /\ S \subseteq 0..(width - 1)
      /\ Placed(n, start, width) \subseteq start..(start + width - 1)
    BY PlacedMoved
<1> HIDE DEF S
<1>2. bits \cap (start..(start + width - 1)) = {start + b : b \in S}
    BY <1>1 DEF Shows
<1>3. GetBits(bits, start, start + width) = {x - start : x \in {start + b : b \in S}}
    BY <1>2 DEF GetBits
<1>4. \A b \in S : b \in Int /\ (start + b) - start = b
    BY <1>1
<1>5. {x - start : x \in {start + b : b \in S}} = S
    BY <1>4
<1> QED
    BY <1>3, <1>5 DEF S

\* The number a field holds, when the field is wide enough.
LEMMA NumeralOfPlaced ==
    ASSUME NEW n \in Nat, NEW width \in 0..32, NEW h, Halves(h, n, 32), h[width] = 0
    PROVE  Numeral(Placed(n, 0, width)) = n
<1>1. h \in [0..32 -> Int] /\ h[0] = n /\ \A b \in 1..32 : h[b] = h[b - 1] \div 2
    BY DEF Halves
<1> DEFINE g == [b \in 0..width |-> h[b]]
<1>2. Halves(g, n, width)
    <2>1. g \in [0..width -> Int] /\ g[0] = n
        <3>1. 0 \in 0..width /\ \A b \in 0..width : b \in 0..32
            OBVIOUS
        <3> QED
            BY <1>1, <3>1
    <2>2. ASSUME NEW b \in 1..width
          PROVE  g[b] = g[b - 1] \div 2
        <3>1. b \in 1..32 /\ b \in 0..width /\ b - 1 \in 0..width
            OBVIOUS
        <3> QED
            BY <1>1, <3>1
    <2> HIDE DEF g
    <2> QED
        BY <2>1, <2>2 DEF Halves
<1>3. Placed(n, 0, width) = {0 + b : b \in {c \in 0..(width - 1) : g[c] % 2 = 1}}
    <2> HIDE DEF g
    <2>1. n \in Int /\ width \in Nat /\ 0 \in Nat
        OBVIOUS
    <2> QED
        BY <1>2, <2>1, PlacedBits
<1>4. \A c \in width..32 : h[c] = 0
    <2>1. n \in Int
        OBVIOUS
    <2> QED
        BY <2>1, HalvesEnd
<1>5. ASSUME NEW c \in 0..31
      PROVE  c \in Placed(n, 0, width) <=> h[c] % 2 = 1
    <2>1. CASE c < width
        <3>1. c \in 0..(width - 1) /\ g[c] = h[c]
            BY <2>1
        <3> HIDE DEF g
        <3>2. \A b \in Int : 0 + b = b
            OBVIOUS
        <3> QED
            BY <1>3, <3>1, <3>2
    <2>2. CASE ~(c < width)
        <3>1. c \in width..32
            BY <2>2
        <3>2. h[c] = 0 /\ 0 % 2 = 0
            BY <1>4, <3>1
        <3>3. Placed(n, 0, width) \subseteq 0..(width - 1)
            BY PlacedMoved
        <3>4. c \notin 0..(width - 1)
            BY <2>2
        <3> QED
            BY <3>2, <3>3, <3>4
    <2> QED
        BY <2>1, <2>2
<1>6. h[32] = 0
    BY <1>4
<1> QED
    BY <1>5, <1>6, NumeralOfBits

\* The widths of the fields.
LEMMA NumeralOfByte ==
    ASSUME NEW n \in 0..255
    PROVE  Numeral(Placed(n, 0, 8)) = n
<1>1. PICK h : Halves(h, n, 32)
    BY HalvesExist, SMTT(30)
<1>2. \A c \in 8..32 : h[c] = 0
    BY <1>1, HalvesOfByte, ZenonT(60)
<1>3. 8 \in 8..32
    OBVIOUS
<1>4. h[8] = 0
    BY <1>2, <1>3
<1> QED
    BY <1>1, <1>4, NumeralOfPlaced

LEMMA NumeralOfGuard ==
    ASSUME NEW n \in 0..7
    PROVE  Numeral(Placed(n, 0, 3)) = n
<1>1. PICK h : Halves(h, n, 32)
    BY HalvesExist
<1>2. h[0] = n /\ h[1] = h[1 - 1] \div 2 /\ h[2] = h[2 - 1] \div 2 /\ h[3] = h[3 - 1] \div 2
    BY <1>1 DEF Halves
<1>3. h[3] = 0
    BY <1>2
<1> QED
    BY <1>1, <1>3, NumeralOfPlaced

LEMMA NumeralOfCode ==
    ASSUME NEW n \in Nat, n < 4096
    PROVE  Numeral(Placed(n, 0, 12)) = n
<1>1. PICK h : Halves(h, n, 32)
    BY HalvesExist
<1>2. h[0] = n /\ \A b \in 1..32 : h[b] = h[b - 1] \div 2
    BY <1>1 DEF Halves
<1>3. h[0 + 8] \in Nat /\ h[0 + 8] < 16
    <2>1. h[0] \in Nat /\ h[0] < 256 * 16 /\ 0 \in 0..24 /\ 16 \in Nat /\ n \in Int
        BY <1>2
    <2> QED
        BY <1>1, <2>1, HalvesDown
<1>4. h[9] = h[8] \div 2 /\ h[10] = h[9] \div 2 /\ h[11] = h[10] \div 2 /\ h[12] = h[11] \div 2
    <2>1. \A b \in {9, 10, 11, 12} : b \in 1..32
        OBVIOUS
    <2> QED
        BY <1>2, <2>1
<1>5. h[12] = 0
    BY <1>3, <1>4
<1> QED
    BY <1>1, <1>5, NumeralOfPlaced

LEMMA NumeralOfOffset ==
    ASSUME NEW n \in Nat, n < 16777216
    PROVE  Numeral(Placed(n, 0, 24)) = n
<1>1. PICK h : Halves(h, n, 32)
    BY HalvesExist
<1>2. n < 65536 * (256 * 1) /\ 1 \in Nat
    OBVIOUS
<1>3. h[24] \in Nat /\ h[24] < 1
    BY <1>1, <1>2, HalvesOfWord
<1>4. h[24] = 0
    BY <1>3
<1> QED
    BY <1>1, <1>4, NumeralOfPlaced

LEMMA NumeralOfTarget ==
    ASSUME NEW n \in Nat, n < 536870912
    PROVE  Numeral(Placed(n, 0, 30)) = n
<1>1. PICK h : Halves(h, n, 32)
    BY HalvesExist
<1>2. n < 65536 * (256 * 64) /\ 64 \in Nat
    OBVIOUS
<1>3. h[24] \in Nat /\ h[24] < 64
    BY <1>1, <1>2, HalvesOfWord
<1>4. /\ h[25] = h[24] \div 2 /\ h[26] = h[25] \div 2 /\ h[27] = h[26] \div 2
      /\ h[28] = h[27] \div 2 /\ h[29] = h[28] \div 2 /\ h[30] = h[29] \div 2
    <2>1. \A b \in {25, 26, 27, 28, 29, 30} : b \in 1..32
        BY SMTT(30)
    <2> QED
        BY <1>1, <2>1 DEF Halves
<1>5. h[30] = 0
    BY <1>3, <1>4
<1> QED
    BY <1>1, <1>5, NumeralOfPlaced

LEMMA NumeralOfImmediate ==
    ASSUME NEW n \in Nat, n \div 65536 < 65536
    PROVE  Numeral(Placed(n, 0, 32)) = n
<1>1. PICK h : Halves(h, n, 32)
    BY HalvesExist
<1>2. n < 65536 * (256 * 256) /\ 256 \in Nat
    OBVIOUS
<1>3. h[24] \in Nat /\ h[24] < 256 * 1 /\ 24 \in 0..24 /\ n \in Int /\ 1 \in Nat
    BY <1>1, <1>2, HalvesOfWord
<1>4. h[24 + 8] \in Nat /\ h[24 + 8] < 1
    BY <1>1, <1>3, HalvesDown
<1>5. h[32] = 0
    BY <1>4
<1> QED
    BY <1>1, <1>5, NumeralOfPlaced

\* Two numbers an even distance apart have the same lowest bit, and half the distance
\* is left between their halves.
LEMMA HalvesApart ==
    ASSUME NEW x \in Int, NEW y \in Int, NEW k \in Int, x = 2 * k + y
    PROVE  x \div 2 = k + (y \div 2) /\ x % 2 = y % 2
OBVIOUS

\* The nine lowest bits are the remainder by 512.
LEMMA NumeralOfLowCode ==
    ASSUME NEW n \in Nat, n < 4096
    PROVE  Numeral(Placed(n, 0, 9)) = n % 512
<1>1. PICK q \in Int : n = 512 * q + (n % 512) /\ n % 512 \in 0..511
    <2>1. n = 512 * (n \div 512) + (n % 512) /\ n % 512 \in 0..511 /\ n \div 512 \in Int
        OBVIOUS
    <2> QED
        BY <2>1
<1> DEFINE r == n % 512
<1>0. r \in 0..511 /\ n = 512 * q + r
    BY <1>1
<1> HIDE DEF r
<1>2. PICK h : Halves(h, n, 32)
    BY HalvesExist
<1>3. PICK g : Halves(g, r, 32)
    BY <1>0, HalvesExist
<1>4. /\ h \in [0..32 -> Int] /\ h[0] = n /\ \A b \in 1..32 : h[b] = h[b - 1] \div 2
      /\ g \in [0..32 -> Int] /\ g[0] = r /\ \A b \in 1..32 : g[b] = g[b - 1] \div 2
    BY <1>2, <1>3 DEF Halves
<1>5. \A c \in 0..8 : /\ h[c + 1] = h[c] \div 2 /\ g[c + 1] = g[c] \div 2
                      /\ h[c] \in Int /\ g[c] \in Int
    <2> SUFFICES ASSUME NEW c \in 0..8
                 PROVE  /\ h[c + 1] = h[c] \div 2 /\ g[c + 1] = g[c] \div 2
                        /\ h[c] \in Int /\ g[c] \in Int
        OBVIOUS
    <2>1. c + 1 \in 1..32 /\ (c + 1) - 1 = c /\ c \in 0..32
        OBVIOUS
    <2> QED
        BY <1>4, <2>1
<1>10. h[0] = 2 * (256 * q) + g[0]
    BY <1>0, <1>4
<1>11. h[1] = 2 * (128 * q) + g[1] /\ h[0] % 2 = g[0] % 2
    <2> DEFINE x == h[0]
           y == g[0]
           k == 256 * q
    <2>1. x \in Int /\ y \in Int /\ k \in Int /\ x = 2 * k + y
        BY <1>0, <1>4, <1>10
    <2>2. h[1] = x \div 2 /\ g[1] = y \div 2
        BY <1>4
    <2> HIDE DEF x, y, k
    <2>3. x \div 2 = k + (y \div 2) /\ x % 2 = y % 2
        BY <2>1, HalvesApart
    <2> QED
        BY <2>2, <2>3 DEF x, y, k
<1>12. h[2] = 2 * (64 * q) + g[2] /\ h[1] % 2 = g[1] % 2
    <2> DEFINE x == h[1]
           y == g[1]
           k == 128 * q
    <2>1. x \in Int /\ y \in Int /\ k \in Int /\ x = 2 * k + y
        BY <1>0, <1>4, <1>11
    <2>2. h[2] = x \div 2 /\ g[2] = y \div 2
        BY <1>4
    <2> HIDE DEF x, y, k
    <2>3. x \div 2 = k + (y \div 2) /\ x % 2 = y % 2
        BY <2>1, HalvesApart
    <2> QED
        BY <2>2, <2>3 DEF x, y, k
<1>13. h[3] = 2 * (32 * q) + g[3] /\ h[2] % 2 = g[2] % 2
    <2> DEFINE x == h[2]
           y == g[2]
           k == 64 * q
    <2>1. x \in Int /\ y \in Int /\ k \in Int /\ x = 2 * k + y
        BY <1>0, <1>4, <1>12
    <2>2. h[3] = x \div 2 /\ g[3] = y \div 2
        BY <1>4
    <2> HIDE DEF x, y, k
    <2>3. x \div 2 = k + (y \div 2) /\ x % 2 = y % 2
        BY <2>1, HalvesApart
    <2> QED
        BY <2>2, <2>3 DEF x, y, k
<1>14. h[4] = 2 * (16 * q) + g[4] /\ h[3] % 2 = g[3] % 2
    <2> DEFINE x == h[3]
           y == g[3]
           k == 32 * q
    <2>1. x \in Int /\ y \in Int /\ k \in Int /\ x = 2 * k + y
        BY <1>0, <1>4, <1>13
    <2>2. h[4] = x \div 2 /\ g[4] = y \div 2
        BY <1>4
    <2> HIDE DEF x, y, k
    <2>3. x \div 2 = k + (y \div 2) /\ x % 2 = y % 2
        BY <2>1, HalvesApart
    <2> QED
        BY <2>2, <2>3 DEF x, y, k
<1>15. h[5] = 2 * (8 * q) + g[5] /\ h[4] % 2 = g[4] % 2
    <2> DEFINE x == h[4]
           y == g[4]
           k == 16 * q
    <2>1. x \in Int /\ y \in Int /\ k \in Int /\ x = 2 * k + y
        BY <1>0, <1>4, <1>14
    <2>2. h[5] = x \div 2 /\ g[5] = y \div 2
        BY <1>4
    <2> HIDE DEF x, y, k
    <2>3. x \div 2 = k + (y \div 2) /\ x % 2 = y % 2
        BY <2>1, HalvesApart
    <2> QED
        BY <2>2, <2>3 DEF x, y, k
<1>16. h[6] = 2 * (4 * q) + g[6] /\ h[5] % 2 = g[5] % 2
    <2> DEFINE x == h[5]
           y == g[5]
           k == 8 * q
    <2>1. x \in Int /\ y \in Int /\ k \in Int /\ x = 2 * k + y
        BY <1>0, <1>4, <1>15
    <2>2. h[6] = x \div 2 /\ g[6] = y \div 2
        BY <1>4
    <2> HIDE DEF x, y, k
    <2>3. x \div 2 = k + (y \div 2) /\ x % 2 = y % 2
        BY <2>1, HalvesApart
    <2> QED
        BY <2>2, <2>3 DEF x, y, k
<1>17. h[7] = 2 * (2 * q) + g[7] /\ h[6] % 2 = g[6] % 2
    <2> DEFINE x == h[6]
           y == g[6]
           k == 4 * q
    <2>1. x \in Int /\ y \in Int /\ k \in Int /\ x = 2 * k + y
        BY <1>0, <1>4, <1>16
    <2>2. h[7] = x \div 2 /\ g[7] = y \div 2
        BY <1>4
    <2> HIDE DEF x, y, k
    <2>3. x \div 2 = k + (y \div 2) /\ x % 2 = y % 2
        BY <2>1, HalvesApart
    <2> QED
        BY <2>2, <2>3 DEF x, y, k
<1>18. h[8] = 2 * q + g[8] /\ h[7] % 2 = g[7] % 2
    <2> DEFINE x == h[7]
           y == g[7]
           k == 2 * q
    <2>1. x \in Int /\ y \in Int /\ k \in Int /\ x = 2 * k + y
        BY <1>0, <1>4, <1>17
    <2>2. h[8] = x \div 2 /\ g[8] = y \div 2
        BY <1>4
    <2> HIDE DEF x, y, k
    <2>3. x \div 2 = k + (y \div 2) /\ x % 2 = y % 2
        BY <2>1, HalvesApart
    <2> QED
        BY <2>2, <2>3 DEF x, y, k
<1>19. h[8] % 2 = g[8] % 2
    <2> DEFINE x == h[8]
           y == g[8]
           k == q
    <2>1. x \in Int /\ y \in Int /\ k \in Int /\ x = 2 * k + y
        BY <1>0, <1>4, <1>18
    <2>2. h[9] = x \div 2 /\ g[9] = y \div 2
        BY <1>4
    <2> HIDE DEF x, y, k
    <2>3. x \div 2 = k + (y \div 2) /\ x % 2 = y % 2
        BY <2>1, HalvesApart
    <2> QED
        BY <2>2, <2>3 DEF x, y, k
<1>20. \A c \in 0..8 : h[c] % 2 = g[c] % 2
    <2>1. \A c \in 0..8 : c \in {0, 1, 2, 3, 4, 5, 6, 7, 8}
        OBVIOUS
    <2> QED
        BY <2>1, <1>11, <1>12, <1>13, <1>14, <1>15, <1>16, <1>17, <1>18, <1>19
<1>21. Placed(n, 0, 9) = Placed(r, 0, 9)
    <2> DEFINE h9 == [b \in 0..9 |-> h[b]]
               g9 == [b \in 0..9 |-> g[b]]
    <2>1. Halves(h9, n, 9) /\ Halves(g9, r, 9)
        <3>1. h9 \in [0..9 -> Int] /\ h9[0] = n /\ g9 \in [0..9 -> Int] /\ g9[0] = r
            BY <1>4
        <3>2. ASSUME NEW b \in 1..9
              PROVE  h9[b] = h9[b - 1] \div 2 /\ g9[b] = g9[b - 1] \div 2
            <4>1. b \in 1..32 /\ b \in 0..9 /\ b - 1 \in 0..9
                OBVIOUS
            <4> QED
                BY <1>4, <4>1
        <3> HIDE DEF h9, g9
        <3> QED
            BY <3>1, <3>2 DEF Halves
    <2>2. \A c \in 0..8 : h9[c] % 2 = g9[c] % 2
        BY <1>20
    <2> HIDE DEF h9, g9
    <2>3. /\ Placed(n, 0, 9) = {0 + b : b \in {c \in 0..(9 - 1) : h9[c] % 2 = 1}}
          /\ Placed(r, 0, 9) = {0 + b : b \in {c \in 0..(9 - 1) : g9[c] % 2 = 1}}
        <3>1. n \in Int /\ r \in Int /\ 0 \in Nat /\ 9 \in Nat
            BY <1>0
        <3> QED
            BY <2>1, <3>1, PlacedBits
    <2>4. {c \in 0..(9 - 1) : h9[c] % 2 = 1} = {c \in 0..(9 - 1) : g9[c] % 2 = 1}
        BY <2>2
    <2> QED
        BY <2>3, <2>4
<1>22. g[9] = 0
    <2>1. g[0] \in Nat /\ g[0] < 256 * 2 /\ 0 \in 0..24 /\ 2 \in Nat /\ r \in Int
        BY <1>0, <1>4
    <2>2. g[0 + 8] \in Nat /\ g[0 + 8] < 2
        BY <1>3, <2>1, HalvesDown
    <2>3. g[8 + 1] = g[8] \div 2
        BY <1>5
    <2> QED
        BY <2>2, <2>3
<1>23. Numeral(Placed(r, 0, 9)) = r
    BY <1>0, <1>3, <1>22, NumeralOfPlaced
<1> QED
    BY <1>21, <1>23 DEF r

-----------------------------------------------------------------------------
\* The second field and what it leaves lie behind the first 32 bits.
LEMMA SecondFieldIs ==
    ASSUME NEW a, IsAssembled(a)
    PROVE  LET f == SecondField(a)
           IN  /\ a.second = "reg" => f.start = 32 /\ f.width = 8
               /\ a.second = "imm" => f.start = 32 /\ f.width = 32
               /\ a.second = "offset" => f.start = 40 /\ f.width = 24
               /\ a.second = "target" => f.start = 34 /\ f.width = 30
               /\ f.start \in 32..40 /\ f.width \in Nat /\ f.start + f.width <= 64
               /\ a.value \in Int
BY SMTT(30) DEF SecondField, IsAssembled

\* A bit of an encoded instruction is a bit of one of its fields, or noise.
LEMMA EncodedBits ==
    ASSUME NEW a, NEW x
    PROVE  x \in Encode(a) <=>
               LET f == SecondField(a)
               IN  \/ x \in Placed(a.code, 0, 12) \/ x \in Placed(a.guard, 12, 3)
                   \/ a.inv /\ x = 15
                   \/ x \in Placed(a.dst, 16, 8) \/ x \in Placed(a.src0, 24, 8)
                   \/ x \in Placed(a.value, f.start, f.width)
                   \/ x \in Placed(a.src2, 64, 8) \/ x \in Placed(a.sr, 72, 8)
                   \/ a.noise /\ x \in Unused(a)
<1> DEFINE f == SecondField(a)
           p1 == Placed(a.code, 0, 12)
           p2 == Placed(a.guard, 12, 3)
           p3 == IF a.inv THEN {15} ELSE {}
           p4 == Placed(a.dst, 16, 8)
           p5 == Placed(a.src0, 24, 8)
           p6 == Placed(a.value, f.start, f.width)
           p7 == Placed(a.src2, 64, 8)
           p8 == Placed(a.sr, 72, 8)
           p9 == IF a.noise THEN Unused(a) ELSE {}
<1>1. Encode(a) = UNION {p1, p2, p3, p4, p5, p6, p7, p8, p9}
    BY Zenon DEF Encode
<1>2. (x \in p3 <=> a.inv /\ x = 15) /\ (x \in p9 <=> a.noise /\ x \in Unused(a))
    BY Zenon
<1> HIDE DEF p1, p2, p3, p4, p5, p6, p7, p8, p9
<1>3. x \in Encode(a) <=> \/ x \in p1 \/ x \in p2 \/ x \in p3 \/ x \in p4 \/ x \in p5
                          \/ x \in p6 \/ x \in p7 \/ x \in p8 \/ x \in p9
    BY <1>1
<1> QED
    BY <1>2, <1>3 DEF p1, p2, p4, p5, p6, p7, p8

\* Where each field may have bits.
LEMMA FieldRanges ==
    ASSUME NEW a, IsAssembled(a)
    PROVE  /\ Placed(a.code, 0, 12) \subseteq 0..11
           /\ Placed(a.guard, 12, 3) \subseteq 12..14
           /\ Placed(a.dst, 16, 8) \subseteq 16..23
           /\ Placed(a.src0, 24, 8) \subseteq 24..31
           /\ Placed(a.value, SecondField(a).start, SecondField(a).width) \subseteq 32..63
           /\ Placed(a.src2, 64, 8) \subseteq 64..71
           /\ Placed(a.sr, 72, 8) \subseteq 72..79
           /\ Unused(a) \cap (0..31 \cup 64..79) = {}
           /\ Unused(a) \cap (SecondField(a).start..(SecondField(a).start + SecondField(a).width - 1)) = {}
<1>1. /\ a.code \in Int /\ a.guard \in Int /\ a.dst \in Int /\ a.src0 \in Int /\ a.src2 \in Int
      /\ a.sr \in Int
    BY SMTT(30) DEF IsAssembled
<1>2. /\ Placed(a.code, 0, 12) \subseteq 0..(0 + 12 - 1)
      /\ Placed(a.guard, 12, 3) \subseteq 12..(12 + 3 - 1)
      /\ Placed(a.dst, 16, 8) \subseteq 16..(16 + 8 - 1)
      /\ Placed(a.src0, 24, 8) \subseteq 24..(24 + 8 - 1)
      /\ Placed(a.src2, 64, 8) \subseteq 64..(64 + 8 - 1)
      /\ Placed(a.sr, 72, 8) \subseteq 72..(72 + 8 - 1)
    <2>1. \A k \in {0, 12, 16, 24, 64, 72, 3, 8} : k \in Nat
        OBVIOUS
    <2> QED
        BY <1>1, <2>1, PlacedMoved, ZenonT(60)
<1> DEFINE s == SecondField(a).start
           w == SecondField(a).width
<1>3. s \in 32..40 /\ w \in Nat /\ s + w <= 64 /\ a.value \in Int
    BY SecondFieldIs
<1>4. Unused(a) = Bits \ (0..31 \cup s..(s + w - 1) \cup 64..79)
    BY DEF Unused
<1> HIDE DEF s, w
<1>5. Placed(a.value, s, w) \subseteq s..(s + w - 1)
    BY <1>3, PlacedMoved
<1>6. Placed(a.value, s, w) \subseteq 32..63
    BY <1>3, <1>5
<1>7. /\ 0 + 12 - 1 = 11 /\ 12 + 3 - 1 = 14 /\ 16 + 8 - 1 = 23 /\ 24 + 8 - 1 = 31
      /\ 64 + 8 - 1 = 71 /\ 72 + 8 - 1 = 79
    OBVIOUS
<1>8. Unused(a) \cap (0..31 \cup 64..79) = {} /\ Unused(a) \cap (s..(s + w - 1)) = {}
    BY <1>4
<1> QED
    BY <1>2, <1>6, <1>7, <1>8 DEF s, w

\* The decoder reads each field as it was written.
LEMMA FieldsReadBack ==
    ASSUME NEW a, IsAssembled(a)
    PROVE  /\ GetBits(Encode(a), 0, 12) = Placed(a.code, 0, 12)
           /\ GetBits(Encode(a), 0, 9) = Placed(a.code, 0, 9)
           /\ GetBits(Encode(a), 12, 15) = Placed(a.guard, 0, 3)
           /\ GetBits(Encode(a), 15, 16) # {} <=> a.inv
           /\ GetBits(Encode(a), 16, 24) = Placed(a.dst, 0, 8)
           /\ GetBits(Encode(a), 24, 32) = Placed(a.src0, 0, 8)
           /\ GetBits(Encode(a), 64, 72) = Placed(a.src2, 0, 8)
           /\ GetBits(Encode(a), 72, 80) = Placed(a.sr, 0, 8)
<1> DEFINE e == Encode(a)
           s == SecondField(a).start
           w == SecondField(a).width
           p1 == Placed(a.code, 0, 12)
           p2 == Placed(a.guard, 12, 3)
           p4 == Placed(a.dst, 16, 8)
           p5 == Placed(a.src0, 24, 8)
           p6 == Placed(a.value, s, w)
           p7 == Placed(a.src2, 64, 8)
           p8 == Placed(a.sr, 72, 8)
           p9 == Unused(a)
<1>0. /\ a.code \in Int /\ a.guard \in Int /\ a.dst \in Int /\ a.src0 \in Int /\ a.src2 \in Int
      /\ a.sr \in Int
    BY DEF IsAssembled
<1>1. \A x : x \in e <=> \/ x \in p1 \/ x \in p2 \/ (a.inv /\ x = 15) \/ x \in p4 \/ x \in p5
                         \/ x \in p6 \/ x \in p7 \/ x \in p8 \/ (a.noise /\ x \in p9)
    BY EncodedBits, Zenon
<1>2. /\ p1 \subseteq 0..11 /\ p2 \subseteq 12..14 /\ p4 \subseteq 16..23 /\ p5 \subseteq 24..31
      /\ p6 \subseteq 32..63 /\ p7 \subseteq 64..71 /\ p8 \subseteq 72..79
      /\ p9 \cap (0..31 \cup 64..79) = {}
    <2>1. p1 \subseteq 0..11
        BY FieldRanges
    <2>2. p2 \subseteq 12..14
        BY FieldRanges
    <2>3. p4 \subseteq 16..23
        BY FieldRanges, ZenonT(60)
    <2>4. p5 \subseteq 24..31
        BY FieldRanges
    <2>5. p6 \subseteq 32..63
        BY FieldRanges
    <2>6. p7 \subseteq 64..71
        BY FieldRanges
    <2>7. p8 \subseteq 72..79
        BY FieldRanges
    <2>8. p9 \cap (0..31 \cup 64..79) = {}
        BY FieldRanges
    <2> QED
        BY <2>1, <2>2, <2>3, <2>4, <2>5, <2>6, <2>7, <2>8
<1> HIDE DEF e, s, w, p1, p2, p4, p5, p6, p7, p8, p9
<1>3. Shows(e, a.code, 0, 12) /\ Shows(e, a.guard, 12, 3) /\ (15 \in e <=> a.inv)
    BY <1>1, <1>2 DEF Shows, p1, p2
<1>4. Shows(e, a.dst, 16, 8) /\ Shows(e, a.src0, 24, 8)
    BY <1>1, <1>2 DEF Shows, p4, p5
<1>5. Shows(e, a.src2, 64, 8) /\ Shows(e, a.sr, 72, 8)
    BY <1>1, <1>2 DEF Shows, p7, p8
<1>6. /\ 0 \in Nat /\ 3 \in Nat /\ 8 \in Nat /\ 9 \in Nat /\ 12 \in Nat
      /\ 16 \in Nat /\ 24 \in Nat /\ 64 \in Nat /\ 72 \in Nat
    OBVIOUS
<1>7. GetBits(e, 0, 0 + 12) = Placed(a.code, 0, 12)
    BY <1>0, <1>3, <1>6, ReadBack
<1>8. GetBits(e, 12, 12 + 3) = Placed(a.guard, 0, 3)
    BY <1>0, <1>3, <1>6, ReadBack
<1>9. GetBits(e, 16, 16 + 8) = Placed(a.dst, 0, 8)
    BY <1>0, <1>4, <1>6, ReadBack
<1>10. GetBits(e, 24, 24 + 8) = Placed(a.src0, 0, 8)
    BY <1>0, <1>4, <1>6, ReadBack
<1>11. GetBits(e, 64, 64 + 8) = Placed(a.src2, 0, 8)
    BY <1>0, <1>5, <1>6, ReadBack
<1>12. GetBits(e, 72, 72 + 8) = Placed(a.sr, 0, 8)
    BY <1>0, <1>5, <1>6, ReadBack
<1>13. GetBits(e, 15, 16) # {} <=> a.inv
    <2>1. e \cap (15..(16 - 1)) # {} <=> a.inv
        BY <1>3
    <2>2. GetBits(e, 15, 16) = {x - 15 : x \in e \cap (15..(16 - 1))}
        BY DEF GetBits
    <2> QED
        BY <2>1, <2>2
<1>14. GetBits(e, 0, 0 + 9) = Placed(a.code, 0, 9)
    <2>1. \A x \in 0..(0 + 9 - 1) : x \in p1 <=> x \in Placed(a.code, 0, 9)
        <3>1. PICK h : Halves(h, a.code, 12)
            BY <1>0, <1>6, HalvesExist
        <3> DEFINE g == [b \in 0..9 |-> h[b]]
        <3>2. Halves(g, a.code, 9)
            <4>1. /\ h \in [0..12 -> Int] /\ h[0] = a.code
                  /\ \A b \in 1..12 : h[b] = h[b - 1] \div 2
                BY <3>1 DEF Halves
            <4>2. g \in [0..9 -> Int] /\ g[0] = a.code
                BY <4>1
            <4>3. ASSUME NEW b \in 1..9
                  PROVE  g[b] = g[b - 1] \div 2
                <5>1. b \in 1..12 /\ b \in 0..9 /\ b - 1 \in 0..9
                    OBVIOUS
                <5> QED
                    BY <4>1, <5>1
            <4> HIDE DEF g
            <4> QED
                BY <4>2, <4>3 DEF Halves
        <3>3. \A b \in 0..8 : g[b] = h[b]
            OBVIOUS
        <3> HIDE DEF g
        <3>4. p1 = {0 + b : b \in {c \in 0..(12 - 1) : h[c] % 2 = 1}}
            BY <1>0, <1>6, <3>1, PlacedBits DEF p1
        <3>5. Placed(a.code, 0, 9) = {0 + b : b \in {c \in 0..(9 - 1) : g[c] % 2 = 1}}
            BY <1>0, <1>6, <3>2, PlacedBits
        <3> QED
            BY <3>3, <3>4, <3>5
    <2>2. Shows(e, a.code, 0, 9)
        BY <1>3, <2>1 DEF Shows, p1
    <2> QED
        BY <1>0, <1>6, <2>2, ReadBack
<1>15. /\ 0 + 12 = 12 /\ 12 + 3 = 15 /\ 16 + 8 = 24 /\ 24 + 8 = 32 /\ 64 + 8 = 72 /\ 72 + 8 = 80
       /\ 0 + 9 = 9
    OBVIOUS
<1> QED
    BY <1>7, <1>8, <1>9, <1>10, <1>11, <1>12, <1>13, <1>14, <1>15 DEF e

\* The second field is read as it was written, by the reading that fits it.
LEMMA SecondReadBack ==
    ASSUME NEW a, IsAssembled(a)
    PROVE  /\ a.second = "reg" => GetBits(Encode(a), 32, 40) = Placed(a.value, 0, 8)
           /\ a.second = "imm" => GetBits(Encode(a), 32, 64) = Placed(a.value, 0, 32)
           /\ a.second = "offset" => GetBits(Encode(a), 40, 64) = Placed(a.value, 0, 24)
           /\ a.second = "target" => GetBits(Encode(a), 34, 64) = Placed(a.value, 0, 30)
<1> DEFINE e == Encode(a)
           s == SecondField(a).start
           w == SecondField(a).width
           p1 == Placed(a.code, 0, 12)
           p2 == Placed(a.guard, 12, 3)
           p4 == Placed(a.dst, 16, 8)
           p5 == Placed(a.src0, 24, 8)
           p6 == Placed(a.value, s, w)
           p7 == Placed(a.src2, 64, 8)
           p8 == Placed(a.sr, 72, 8)
           p9 == Unused(a)
<1>1. \A x : x \in e <=> \/ x \in p1 \/ x \in p2 \/ (a.inv /\ x = 15) \/ x \in p4 \/ x \in p5
                         \/ x \in p6 \/ x \in p7 \/ x \in p8 \/ (a.noise /\ x \in p9)
    BY EncodedBits, Zenon
<1>2. /\ p1 \subseteq 0..11 /\ p2 \subseteq 12..14 /\ p4 \subseteq 16..23 /\ p5 \subseteq 24..31
      /\ p7 \subseteq 64..71 /\ p8 \subseteq 72..79 /\ p9 \cap (s..(s + w - 1)) = {}
    <2>1. p1 \subseteq 0..11
        BY FieldRanges
    <2>2. p2 \subseteq 12..14
        BY FieldRanges
    <2>3. p4 \subseteq 16..23
        BY FieldRanges
    <2>4. p5 \subseteq 24..31
        BY FieldRanges
    <2>5. p7 \subseteq 64..71
        BY FieldRanges
    <2>6. p8 \subseteq 72..79
        BY FieldRanges
    <2>7. p9 \cap (s..(s + w - 1)) = {}
        BY FieldRanges
    <2> QED
        BY <2>1, <2>2, <2>3, <2>4, <2>5, <2>6, <2>7
<1>3. /\ a.second = "reg" => s = 32 /\ w = 8
      /\ a.second = "imm" => s = 32 /\ w = 32
      /\ a.second = "offset" => s = 40 /\ w = 24
      /\ a.second = "target" => s = 34 /\ w = 30
      /\ s \in 32..40 /\ w \in Nat /\ s + w <= 64 /\ a.value \in Int
    BY SecondFieldIs
<1> HIDE DEF e, s, w, p1, p2, p4, p5, p6, p7, p8, p9
<1>4. Shows(e, a.value, s, w)
    <2> SUFFICES ASSUME NEW x \in s..(s + w - 1)
                 PROVE  x \in e <=> x \in p6
        BY DEF Shows, p6
    <2>1. x \in 32..63 /\ x \notin p9
        BY <1>2, <1>3
    <2>2. /\ x \notin p1 /\ x \notin p2 /\ x # 15 /\ x \notin p4 /\ x \notin p5
          /\ x \notin p7 /\ x \notin p8
        BY <1>2, <2>1
    <2> QED
        BY <1>1, <2>1, <2>2
<1>5. s \in Nat
    BY <1>3
<1>6. GetBits(e, s, s + w) = Placed(a.value, 0, w)
    BY <1>3, <1>4, <1>5, ReadBack
<1>7. 32 + 8 = 40 /\ 32 + 32 = 64 /\ 40 + 24 = 64 /\ 34 + 30 = 64
    OBVIOUS
<1> QED
    BY <1>3, <1>6, <1>7 DEF e

\* What the decoder makes of an encoded instruction.
LEMMA Decoded ==
    ASSUME NEW a, IsAssembled(a)
    PROVE  LET d == DecodeInstruction(Encode(a))
           IN  /\ d.opcode = Op(a)
               /\ d.pred_reg = a.guard /\ d.pred_inv = a.inv
               /\ d.dst = a.dst /\ d.src0 = a.src0 /\ d.src2 = a.src2
               /\ d.special_reg = SpecialReg(a.sr)
               /\ a.second = "reg" => d.src1 = a.value
               /\ a.second = "imm" => Numeral(d.imm32) = a.value /\ (a.value # 0 => d.imm32 # {})
               /\ a.second = "offset" => d.offset = a.value
               /\ a.second = "target" /\ a.value >= 0 => d.target_offset = a.value
<1> DEFINE e == Encode(a)
           d == DecodeInstruction(e)
<1>1. /\ d.opcode = OpcodeOf(Numeral(GetBits(e, 0, 12)), Numeral(GetBits(e, 0, 9)))
      /\ d.pred_reg = Numeral(GetBits(e, 12, 15))
      /\ d.pred_inv = (GetBits(e, 15, 16) # {})
      /\ d.dst = Numeral(GetBits(e, 16, 24))
      /\ d.src0 = Numeral(GetBits(e, 24, 32))
      /\ d.src1 = Numeral(GetBits(e, 32, 40))
      /\ d.src2 = Numeral(GetBits(e, 64, 72))
      /\ d.imm32 = GetBits(e, 32, 64)
      /\ d.offset = Numeral(GetBits(e, 40, 64))
      /\ d.target_offset = Numeral(GetBits(e, 34, 64))
      /\ d.special_reg = SpecialReg(Numeral(GetBits(e, 72, 80)))
    BY DEF DecodeInstruction, Field, PredReg, TargetOffset
<1> HIDE DEF d
<1>2. /\ GetBits(e, 0, 12) = Placed(a.code, 0, 12)
      /\ GetBits(e, 0, 9) = Placed(a.code, 0, 9)
      /\ GetBits(e, 12, 15) = Placed(a.guard, 0, 3)
      /\ GetBits(e, 15, 16) # {} <=> a.inv
      /\ GetBits(e, 16, 24) = Placed(a.dst, 0, 8)
      /\ GetBits(e, 24, 32) = Placed(a.src0, 0, 8)
      /\ GetBits(e, 64, 72) = Placed(a.src2, 0, 8)
      /\ GetBits(e, 72, 80) = Placed(a.sr, 0, 8)
    BY FieldsReadBack
<1>3. /\ a.second = "reg" => GetBits(e, 32, 40) = Placed(a.value, 0, 8)
      /\ a.second = "imm" => GetBits(e, 32, 64) = Placed(a.value, 0, 32)
      /\ a.second = "offset" => GetBits(e, 40, 64) = Placed(a.value, 0, 24)
      /\ a.second = "target" => GetBits(e, 34, 64) = Placed(a.value, 0, 30)
    BY SecondReadBack
<1> HIDE DEF e
<1>4. /\ a.code \in Nat /\ a.code < 4096 /\ a.guard \in 0..7 /\ a.inv \in BOOLEAN
      /\ a.dst \in 0..255 /\ a.src0 \in 0..255 /\ a.src2 \in 0..255 /\ a.sr \in 0..255
    BY DEF IsAssembled
<1>5. /\ a.second = "reg" => a.value \in 0..255
      /\ a.second = "imm" => a.value \in Nat /\ a.value \div 65536 < 65536
      /\ a.second = "offset" => a.value \in Nat /\ a.value < 16777216
      /\ a.second = "target" /\ a.value >= 0 => a.value \in Nat /\ a.value < 536870912
    BY DEF IsAssembled
<1>6. d.opcode = Op(a)
    BY <1>1, <1>2, <1>4, NumeralOfCode, NumeralOfLowCode DEF Op
<1>7. d.pred_reg = a.guard
    BY <1>1, <1>2, <1>4, NumeralOfGuard
<1>8. d.pred_inv = a.inv
    BY <1>1, <1>2, <1>4
<1>9. d.dst = a.dst /\ d.src0 = a.src0 /\ d.src2 = a.src2 /\ d.special_reg = SpecialReg(a.sr)
    BY <1>1, <1>2, <1>4, NumeralOfByte, SMTT(30)
<1>10. a.second = "reg" => d.src1 = a.value
    BY <1>1, <1>3, <1>5, NumeralOfByte
<1>11. a.second = "offset" => d.offset = a.value
    BY <1>1, <1>3, <1>5, NumeralOfOffset
<1>12. a.second = "target" /\ a.value >= 0 => d.target_offset = a.value
    BY <1>1, <1>3, <1>5, NumeralOfTarget
<1>13. a.second = "imm" => Numeral(d.imm32) = a.value
    BY <1>1, <1>3, <1>5, NumeralOfImmediate
<1>14. Numeral({}) = 0
    <2> DEFINE z == [k \in 0..32 |-> 0]
    <2>1. z \in [0..32 -> Int] /\ z[0] = 0 /\ z[32] = 0
          /\ \A k \in 1..32 : z[k] = 2 * z[k - 1] + (IF 32 - k \in {} THEN 1 ELSE 0)
        OBVIOUS
    <2> HIDE DEF z
    <2> QED
        BY <2>1, NumeralSum
<1>15. a.second = "imm" /\ a.value # 0 => d.imm32 # {}
    BY <1>13, <1>14
<1> QED
    BY <1>6, <1>7, <1>8, <1>9, <1>10, <1>11, <1>12, <1>13, <1>15 DEF d, e

-----------------------------------------------------------------------------
\* The table of the lowering, name by name.
LEMMA LoweredOpsAre ==
    /\ DOMAIN LoweredOps =
         {"MOV", "IADD3", "IMAD", "IMAD64", "ISETP", "FADD", "FMUL", "FFMA", "LDC", "LDG",
          "STG", "LDS", "STS", "BRA", "EXIT", "Nop", "BSSY", "BSYNC", "BarSync", "S2R"}
    /\ LoweredOps["MOV"] = "Mov" /\ LoweredOps["IADD3"] = "IAdd3"
    /\ LoweredOps["IMAD"] = "IMad" /\ LoweredOps["IMAD64"] = "IMad"
    /\ LoweredOps["ISETP"] = "ISetP" /\ LoweredOps["FADD"] = "FAdd"
    /\ LoweredOps["FMUL"] = "FMul" /\ LoweredOps["FFMA"] = "FFma"
    /\ LoweredOps["LDC"] = "Ldc" /\ LoweredOps["LDG"] = "Ldg"
    /\ LoweredOps["STG"] = "Stg" /\ LoweredOps["LDS"] = "Lds"
    /\ LoweredOps["STS"] = "Sts" /\ LoweredOps["BRA"] = "Bra"
    /\ LoweredOps["EXIT"] = "Exit" /\ LoweredOps["Nop"] = "Nop"
    /\ LoweredOps["BSSY"] = "Barrier" /\ LoweredOps["BSYNC"] = "Barrier"
    /\ LoweredOps["BarSync"] = "Barrier" /\ LoweredOps["S2R"] = "S2R"
BY DEF LoweredOps

\* A supported operation is lowered to the one of the table.
LEMMA SupportedIs ==
    ASSUME NEW d, LoweredOp(d) # "Unsupported"
    PROVE  d.opcode \in DOMAIN LoweredOps /\ LoweredOp(d) = LoweredOps[d.opcode]
BY DEF LoweredOp

\* The operands the lowering reads are those the assembler named.
LEMMA SourcesAreNamed ==
    ASSUME NEW a, NEW d, d.opcode = Op(a), LoweredOp(d) # "Unsupported", ReadsSecond(a),
           d.src0 = a.src0, d.src1 = a.value, d.src2 = a.src2
    PROVE  SourcesOf(LoweredOp(d), d) = NamedSources(a)
<1>1. Op(a) \in DOMAIN LoweredOps /\ LoweredOp(d) = LoweredOps[Op(a)] /\ Op(a) # "MOV"
    BY SupportedIs DEF ReadsSecond
<1>2. CASE Op(a) \in {"IADD3", "IMAD", "IMAD64", "FFMA"}
    <2>1. LoweredOp(d) \in {"IAdd3", "IMad", "FFma"}
        BY <1>1, <1>2, LoweredOpsAre
    <2>2. SourcesOf(LoweredOp(d), d) = <<d.src0, d.src1, d.src2>>
        BY <2>1 DEF SourcesOf
    <2>3. NamedSources(a) = <<a.src0, a.value, a.src2>>
        BY <1>2 DEF NamedSources
    <2> QED
        BY <2>2, <2>3
<1>3. CASE Op(a) \in {"ISETP", "FADD", "FMUL", "STG", "STS"}
    <2>1. LoweredOp(d) \in {"ISetP", "FAdd", "FMul", "Stg", "Sts"}
        BY <1>1, <1>3, LoweredOpsAre
    <2>2. SourcesOf(LoweredOp(d), d) = <<d.src0, d.src1>>
        BY <2>1 DEF SourcesOf
    <2>3. NamedSources(a) = <<a.src0, a.value>>
        BY <1>3 DEF NamedSources
    <2> QED
        BY <2>2, <2>3
<1>4. CASE Op(a) \in {"LDG", "LDS"}
    <2>1. LoweredOp(d) \in {"Ldg", "Lds"}
        BY <1>1, <1>4, LoweredOpsAre
    <2>2. SourcesOf(LoweredOp(d), d) = <<d.src0>>
        BY <2>1 DEF SourcesOf
    <2>3. NamedSources(a) = <<a.src0>>
        BY <1>4 DEF NamedSources
    <2> QED
        BY <2>2, <2>3
<1>5. CASE Op(a) \in {"LDC", "BRA", "EXIT", "Nop", "BSSY", "BSYNC", "BarSync", "S2R"}
    <2>1. LoweredOp(d) \in {"Ldc", "Bra", "Exit", "Nop", "Barrier", "S2R"}
        BY <1>1, <1>5, LoweredOpsAre
    <2>2. SourcesOf(LoweredOp(d), d) = <<>>
        BY <2>1 DEF SourcesOf
    <2>3. NamedSources(a) = <<>>
        BY <1>5 DEF NamedSources
    <2> QED
        BY <2>2, <2>3
<1>6. Op(a) \in {"MOV", "IADD3", "IMAD", "IMAD64", "ISETP", "FADD", "FMUL", "FFMA", "LDC",
                 "LDG", "STG", "LDS", "STS", "BRA", "EXIT", "Nop", "BSSY", "BSYNC",
                 "BarSync", "S2R"}
    BY <1>1, LoweredOpsAre
<1> QED
    BY <1>1, <1>2, <1>3, <1>4, <1>5, <1>6

-----------------------------------------------------------------------------
\* What has been decoded and lowered so far is what the two functions answer.
RoundTripInv ==
    /\ asm \in Assembled
    /\ inst = Encode(asm)
    /\ instr # None => instr[1] = DecodeInstruction(inst)
    /\ lowered # None => instr # None /\ lowered[1] = LowerToIr(instr[1], Address)

LEMMA RoundTripInvHolds == RoundTripSpec => []RoundTripInv
<1>1. RoundTripInit => RoundTripInv
    BY DEF RoundTripInit, RoundTripInv
<1>2. RoundTripInv /\ [RoundTripNext]_roundTripVars => RoundTripInv'
    <2> SUFFICES ASSUME RoundTripInv, [RoundTripNext]_roundTripVars
                 PROVE  RoundTripInv'
        OBVIOUS
    <2>1. CASE Decode
        <3>1. asm' = asm /\ inst' = inst /\ lowered' = lowered /\ lowered = None
            BY <2>1 DEF Decode, RoundTripInv
        <3>2. instr' = <<DecodeInstruction(inst)>>
            BY <2>1 DEF Decode, Some
        <3>3. instr'[1] = DecodeInstruction(inst)
            BY <3>2
        <3> QED
            BY <3>1, <3>3 DEF RoundTripInv, None
    <2>2. CASE Lower
        <3>1. asm' = asm /\ inst' = inst /\ instr' = instr /\ instr # None
            BY <2>2 DEF Lower
        <3>2. lowered' = <<LowerToIr(instr[1], Address)>>
            BY <2>2 DEF Lower, Some
        <3>3. lowered'[1] = LowerToIr(instr[1], Address)
            BY <3>2
        <3> QED
            BY <3>1, <3>3 DEF RoundTripInv, None
    <2>3. CASE UNCHANGED roundTripVars
        BY <2>3 DEF RoundTripInv, roundTripVars, None
    <2> QED
        BY <2>1, <2>2, <2>3 DEF RoundTripNext
<1> QED
    BY <1>1, <1>2, PTL DEF RoundTripSpec

\* What passes the IR check passes validate: the two checks of try_lift
\* (lifter.rs:267-284) can be made in either order.
THEOREM ChecksAgreeHolds == RoundTripSpec => []ChecksAgree
<1>1. RoundTripInv => ChecksAgree
    <2> SUFFICES ASSUME RoundTripInv, lowered # None, lowered[1].op # "Unsupported"
                 PROVE  Valid(instr[1])
        BY DEF ChecksAgree
    <2> DEFINE d == DecodeInstruction(Encode(asm))
    <2>1. IsAssembled(asm) /\ instr[1] = d /\ lowered[1] = LowerToIr(d, Address)
        BY AssembledAssumption DEF RoundTripInv
    <2>2. d.opcode = Op(asm) /\ d.pred_reg = asm.guard
        BY <2>1, Decoded
    <2> HIDE DEF d
    <2>3. LoweredOp(d) # "Unsupported"
        BY <2>1 DEF LowerToIr
    <2>4. d.opcode # "Unknown"
        BY <2>3, SupportedIs, LoweredOpsAre
    <2>5. asm.guard <= 7
        BY <2>1 DEF IsAssembled
    <2> QED
        BY <2>1, <2>2, <2>4, <2>5 DEF Valid
<1> QED
    BY <1>1, RoundTripInvHolds, PTL

\* Every operand an assembler wrote survives decoding and lowering, whatever the bits
\* of no field hold: the bit ranges of decode_instruction and the arms of lower_to_ir
\* read what docs/architecture.md:56-58 says is written.
THEOREM OperandsKeptHolds == RoundTripSpec => []OperandsKept
<1>1. RoundTripInv => OperandsKept
    <2> SUFFICES ASSUME RoundTripInv, lowered # None, lowered[1].op # "Unsupported"
                 PROVE  /\ lowered[1].guard = asm.guard /\ lowered[1].inv = asm.inv
                        /\ lowered[1].dst = IF Op(asm) = "ISETP" THEN PredDst(asm.dst) ELSE asm.dst
                        /\ ReadsSecond(asm) => lowered[1].srcs = NamedSources(asm)
                        /\ asm.second = "offset" => lowered[1].offset = asm.value
                        /\ Op(asm) = "MOV" /\ asm.second = "imm" /\ asm.value # 0 =>
                             lowered[1].imm # None /\ Numeral(lowered[1].imm[1]) = asm.value
                        /\ Op(asm) = "S2R" => lowered[1].sr = SpecialReg(asm.sr)
                        /\ Op(asm) = "BRA" /\ asm.second = "target" /\ asm.value >= 0 =>
                             lowered[1].target = ResolveBranchTarget(Address, asm.value)
        BY DEF OperandsKept
    <2> DEFINE d == DecodeInstruction(Encode(asm))
    <2>1. IsAssembled(asm) /\ lowered[1] = LowerToIr(d, Address)
        BY AssembledAssumption DEF RoundTripInv
    <2>2. /\ d.opcode = Op(asm)
          /\ d.pred_reg = asm.guard /\ d.pred_inv = asm.inv
          /\ d.dst = asm.dst /\ d.src0 = asm.src0 /\ d.src2 = asm.src2
          /\ d.special_reg = SpecialReg(asm.sr)
          /\ asm.second = "reg" => d.src1 = asm.value
          /\ asm.second = "imm" => Numeral(d.imm32) = asm.value /\ (asm.value # 0 => d.imm32 # {})
          /\ asm.second = "offset" => d.offset = asm.value
          /\ asm.second = "target" /\ asm.value >= 0 => d.target_offset = asm.value
        BY <2>1, Decoded, Zenon
    <2> HIDE DEF d
    <2> DEFINE op == LoweredOp(d)
    <2>3. /\ lowered[1].op = op
          /\ lowered[1].dst = IF op = "ISetP" THEN PredDst(d.dst) ELSE d.dst
          /\ lowered[1].srcs = SourcesOf(op, d)
          /\ lowered[1].imm = IF op = "Mov" /\ d.imm32 # {} THEN <<d.imm32>> ELSE <<>>
          /\ lowered[1].sr = d.special_reg
          /\ lowered[1].offset = d.offset
          /\ lowered[1].target = IF op = "Bra" THEN ResolveBranchTarget(Address, d.target_offset)
                                 ELSE None
          /\ lowered[1].guard = d.pred_reg
          /\ lowered[1].inv = d.pred_inv
        BY <2>1 DEF LowerToIr, Some, None
    <2>4. op # "Unsupported" /\ Op(asm) \in DOMAIN LoweredOps /\ op = LoweredOps[Op(asm)]
        BY <2>2, <2>3, SupportedIs
    <2>5. /\ op = "ISetP" <=> Op(asm) = "ISETP"
          /\ Op(asm) = "MOV" => op = "Mov"
          /\ Op(asm) = "BRA" => op = "Bra"
        BY <2>4, LoweredOpsAre
    <2>6. lowered[1].guard = asm.guard /\ lowered[1].inv = asm.inv
        BY <2>2, <2>3
    <2>7. lowered[1].dst = IF Op(asm) = "ISETP" THEN PredDst(asm.dst) ELSE asm.dst
        BY <2>2, <2>3, <2>5
    <2>8. ReadsSecond(asm) => lowered[1].srcs = NamedSources(asm)
        <3> SUFFICES ASSUME ReadsSecond(asm)
                     PROVE  lowered[1].srcs = NamedSources(asm)
            OBVIOUS
        <3>1. d.src1 = asm.value
            BY <2>2 DEF ReadsSecond
        <3> QED
            BY <3>1, <2>2, <2>3, <2>4, SourcesAreNamed
    <2>9. asm.second = "offset" => lowered[1].offset = asm.value
        BY <2>2, <2>3
    <2>10. Op(asm) = "MOV" /\ asm.second = "imm" /\ asm.value # 0 =>
             lowered[1].imm # None /\ Numeral(lowered[1].imm[1]) = asm.value
        <3> SUFFICES ASSUME Op(asm) = "MOV", asm.second = "imm", asm.value # 0
                     PROVE  lowered[1].imm # None /\ Numeral(lowered[1].imm[1]) = asm.value
            OBVIOUS
        <3>1. lowered[1].imm = <<d.imm32>> /\ Numeral(d.imm32) = asm.value
            BY <2>2, <2>3, <2>5
        <3>2. lowered[1].imm[1] = d.imm32 /\ lowered[1].imm # <<>>
            BY <3>1
        <3> QED
            BY <3>1, <3>2 DEF None
    <2>11. Op(asm) = "S2R" => lowered[1].sr = SpecialReg(asm.sr)
        BY <2>2, <2>3
    <2>12. Op(asm) = "BRA" /\ asm.second = "target" /\ asm.value >= 0 =>
             lowered[1].target = ResolveBranchTarget(Address, asm.value)
        BY <2>2, <2>3, <2>5
    <2> QED
        BY <2>6, <2>7, <2>8, <2>9, <2>10, <2>11, <2>12
<1> QED
    BY <1>1, RoundTripInvHolds, PTL
=============================================================================
