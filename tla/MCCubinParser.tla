---------------------------- MODULE MCCubinParser ----------------------------
EXTENDS CubinParser, TLC

\* Files of FileLen bytes with two sections; WordMax is close enough for sums to wrap.
CONSTANT FileLen

Cubin == [len |-> FileLen, elf |-> TRUE, ident |-> TRUE, shoff |-> 64, shentsize |-> 64,
          shnum |-> 2, shstrndx |-> 1, nul_prefixed |-> TRUE,
          unreadable |-> {2}, texts |-> {1},
          sections |-> [k \in 0..MaxSections |-> [name |-> 0, offset |-> 0, size |-> 0]],
          utf8 |-> FALSE, tokens |-> <<>>]

Table(first, second) == [k \in 0..MaxSections |-> IF k = 0 THEN first ELSE second]

Sections(names, offsets, sizes) == [name : names, offset : offsets, size : sizes]

\* The header and the place of the section header table.
BadHeaders ==
    {[Cubin EXCEPT !.len = l, !.elf = e, !.ident = d, !.shentsize = z, !.shnum = n, !.shstrndx = x] :
        l \in {3, 4, 63, FileLen}, e \in BOOLEAN, d \in BOOLEAN, z \in {63, 64, 70},
        n \in {0, 1, 2, MaxSections + 1}, x \in {0, 1, 2}}

Tables ==
    {[Cubin EXCEPT !.shoff = o, !.shentsize = z, !.nul_prefixed = p,
                   !.sections = Table([name |-> 1, offset |-> 0, size |-> 16], t)] :
        o \in {0, 64, FileLen - 128, FileLen - 127, FileLen - 64, FileLen, WordMax - 63, WordMax},
        z \in {64, 65}, p \in BOOLEAN,
        t \in Sections({0}, {0, FileLen - 4, FileLen, WordMax}, {0, 4, 5, WordMax})}

\* The two sections; the second is the string table.
SectionTables ==
    {[Cubin EXCEPT !.sections = Table(s, t)] :
        s \in Sections({0, 1, 2, 4, WordMax}, {0, FileLen - 16, FileLen - 8, WordMax - 7},
                       {0, 8, 16, 32, WordMax}),
        t \in Sections({0, 1}, {0, FileLen - 4}, {4})}

\* The text comes second and the string table first.
Swapped ==
    {[Cubin EXCEPT !.shstrndx = 0, !.sections = Table(t, s)] :
        s \in Sections({0, 1, 4}, {0, FileLen - 16}, {0, 16, 32}),
        t \in Sections({0, 1, 2}, {0, FileLen - 32}, {2, 32})}

\* Raw instructions and texts: n words separated by blanks take 2n - 1 bytes or more.
RawFiles ==
    {f \in {[Cubin EXCEPT !.elf = FALSE, !.len = l, !.utf8 = u, !.tokens = t] :
                l \in {0, 7, 9, 15, 16, 32, 43}, u \in BOOLEAN,
                t \in UNION {[1..n -> BOOLEAN] : n \in 0..5}} :
        f.len >= 2 * Len(f.tokens) - 1}

MCFiles == UNION {BadHeaders, Tables, SectionTables, Swapped, RawFiles}
=============================================================================
