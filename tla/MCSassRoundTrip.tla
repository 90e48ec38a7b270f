-------------------------- MODULE MCSassRoundTrip --------------------------
EXTENDS SassRoundTrip

\* A code of each row of the decoder's tables.
NamedCodes == UNION {Codes12[op] : op \in DOMAIN Codes12} \cup UNION {Codes9[op] : op \in DOMAIN Codes9}

Base == [code |-> 0, guard |-> PT, inv |-> FALSE, dst |-> 1, src0 |-> 2, second |-> "reg",
         value |-> 3, src2 |-> 4, sr |-> \h21, noise |-> FALSE]

\* Every 12-bit code, with the unused bits zero and with them one.
AllCodes == {[Base EXCEPT !.code = c, !.noise = n] : c \in 0..4095, n \in BOOLEAN}

\* Every named code with the operands at their boundaries.
Operands ==
    {[Base EXCEPT !.code = c, !.guard = g, !.inv = i, !.dst = d, !.src0 = s, !.value = 255 - s,
                  !.src2 = d, !.sr = 255 - d, !.noise = i] :
        c \in NamedCodes, g \in {0, 6, 7}, i \in BOOLEAN, d \in {0, 7, 8, 255}, s \in {0, 128, 255}}

SpecialRegReads ==
    {[Base EXCEPT !.code = \h919, !.sr = r] : r \in 0..255}

Immediates ==
    {[Base EXCEPT !.code = c, !.second = "imm", !.value = v] : c \in {\h002, \h802}, v \in {0, 1, 255, 256, 2 ^ 29, 2147483647}}

Offsets ==
    {[Base EXCEPT !.code = c, !.second = "offset", !.value = v, !.noise = n] :
        c \in Codes12.LDC \cup Codes12.LDG \cup Codes12.STG, v \in {0, 24, 2 ^ 24 - 1}, n \in BOOLEAN}

Branches ==
    {[Base EXCEPT !.code = c, !.second = "target", !.value = v, !.noise = n] :
        c \in Codes12.BRA, v \in {-48, -16, 0, 2, 16, 62, 2 ^ 20}, n \in BOOLEAN}

MCAssembled == UNION {AllCodes, Operands, SpecialRegReads, Immediates, Offsets, Branches}
=============================================================================
