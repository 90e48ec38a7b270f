----------------------------- MODULE MCSassLift -----------------------------
EXTENDS SassLift

\* An instruction is built from its fields, as an assembler does, and decoded.
Code(op, form) ==
    IF op \in DOMAIN Codes9 THEN (CHOOSE c \in Codes9[op] : TRUE) + 512 * form
    ELSE IF op \in DOMAIN Codes12 THEN CHOOSE c \in Codes12[op] : TRUE
    ELSE \hfff

Ins(op, form, guard, dst, src0, src2, fields) ==
    DecodeInstruction(
        UNION {Placed(Code(op, form), 0, 12), Placed(guard[1], 12, 3), IF guard[2] THEN {15} ELSE {},
               Placed(dst, 16, 8), Placed(src0, 24, 8), Placed(src2, 64, 8), fields})

Always == <<PT, FALSE>>
Never  == <<PT, TRUE>>

\* The fields from bit 32 on, and the others an operation has.
Source1(r)  == Placed(r, 32, 8)
Immediate(v) == Placed(v, 32, 32)
Offset(n)   == Placed(n, 40, 24)
Target(n)   == Placed(n, 34, 30)
SpecialField(n) == Placed(n, 72, 8)

\* ISETP compares for these relations, into a predicate; the second one and the one to
\* combine with are PT.
Compare(relations, pred) == {76 + r : r \in relations} \cup Placed(pred, 81, 3) \cup (84..89)

NotEqual == {0, 2}

\* No bit that negates a source, sign, carry or combine, for the operations that have them.
MCUnmodified(d) ==
    d.opcode \in {"IADD3", "IMAD", "IMAD64", "ISETP"} => d.raw \cap {62, 63, 72, 73, 74, 75} = {}

Three(op, guard, dst, src) == Ins(op, 1, guard, dst, src[1], src[3], Source1(src[2]))

Isetp(guard, relations, pred, src) ==
    Ins("ISETP", 1, guard, pred, src[1], 0, Source1(src[2]) \cup Compare(relations, pred))

MovImmediate(guard, dst, v) == Ins("MOV", 4, guard, dst, 0, 0, Immediate(v))
MovR0(guard, dst) == Ins("MOV", 1, guard, dst, 0, 0, {})
S2R(guard, dst, sr) == Ins("S2R", 0, guard, dst, 0, 0, SpecialField(sr))
Ldc(dst, offset) == Ins("LDC", 0, Always, dst, 0, 0, Offset(offset))
Jump(op, guard, target) == Ins(op, 0, guard, 0, 0, 0, Target(target))

AllOps == DOMAIN LoweredOps \cup {"SHFL", "Unknown"}

\* One instruction of every kind, on registers that alias or not, under every guard.
Singles ==
    {Ins(op, 1, g, d, s[1], s[3], Source1(s[2])) :
        op \in AllOps \ {"ISETP", "S2R"}, g \in {Always, <<6, TRUE>>, Never}, d \in {1, 3},
        s \in {<<0, 3, 2>>, <<1, 1, 1>>}}
    \cup {Isetp(g, NotEqual, d, s) : g \in {Always, <<6, TRUE>>, Never}, d \in {1, 7}, s \in {<<0, 3>>, <<1, 1>>}}
    \cup {S2R(g, d, \h21) : g \in {Always, <<6, TRUE>>, Never}, d \in {1, 3}}
    \cup {Ins(op, 4, Always, 0, 1, 0, Offset(o)) : op \in {"LDC", "STG"}, o \in {0, 24}}
    \cup {MovImmediate(Always, 0, v) : v \in {0, 3}} \cup {Jump("BRA", Always, t) : t \in {0, 2}}

SpecialReads ==
    {S2R(Always, 1, r) : r \in UNION {SpecialRegs[name] : name \in DOMAIN SpecialRegs} \cup {\hff}}

\* Programs of a few instructions that depend on each other.
Steps ==
    {MovR0(g, 1) : g \in {Always, <<0, FALSE>>, <<0, TRUE>>}}
    \cup {MovImmediate(Always, 3, 9), MovImmediate(<<0, TRUE>>, 0, 5),
          Three("IADD3", Always, 1, <<0, 1, 3>>), Three("IADD3", <<0, FALSE>>, 0, <<0, 0, 3>>),
          Three("IMAD", Always, 3, <<0, 3, 1>>),
          Isetp(Always, NotEqual, 0, <<0, 3>>), Isetp(<<0, TRUE>>, NotEqual, 0, <<1, 0>>),
          S2R(<<0, FALSE>>, 2, \h39), Ldc(2, 24),
          Ins("LDG", 0, Always, 2, 0, 0, Offset(3)),
          Three("FADD", <<0, FALSE>>, 1, <<0, 3, 0>>), Ins("BSYNC", 0, Always, 0, 0, 0, {})}

Transferring ==
    {Jump("EXIT", g, 0) : g \in {Always, <<0, FALSE>>}} \cup {Jump("BRA", Always, 32)}

\* For the graph: branches to every instruction of a short stream, to its end, past it and
\* between instructions, and exits, under several guards.  STS makes try_lift answer with
\* the precompiled module.
Every ==
    {Jump("STS", Always, 0)}
    \cup {Jump("EXIT", g, 0) : g \in {Always, <<0, FALSE>>, Never}}
    \cup {Jump("BRA", g, o) : g \in {Always, <<0, FALSE>>, Never}, o \in {0, 2, 16, 32, 48}}

Few ==
    {Jump(op, Always, 0) : op \in {"STS", "EXIT"}}
    \cup {Jump("BRA", <<g, FALSE>>, o) : g \in {PT, 0}, o \in {16, 48}}

Streams ==
    [1..2 -> Every]
    \cup {p \in [1..3 -> Every] \cup [1..4 -> Few] : \E k \in DOMAIN p : p[k].opcode = "STS"}

\* A branch or an exit before an instruction.
Skipping == {<<t, s>> : t \in Transferring, s \in Steps}

\* Programs of one and two instructions, the streams, and programs of three of Steps.
MCPrograms ==
    UNION {{<<>>}, {<<x>> : x \in Singles \cup SpecialReads}, [1..2 -> Steps], Skipping, Streams,
           {<<Isetp(Always, NotEqual, 0, <<0, 3>>), a, b>> : a \in Steps, b \in Steps}}

\* What else HonestTranslation fails of: give Programs one of these for Skipping.
Comparing == {<<Isetp(Always, {1}, 0, <<0, 3>>)>>}
Widening  == {<<Three("IMAD64", Always, 1, <<0, 3, 1>>)>>}
ReadingRZ == {<<Three("IADD3", Always, 1, <<0, 3, RZ>>)>>}
NeverRun  == {<<MovImmediate(Never, 1, 5)>>}
CountLost == {<<MovImmediate(Always, 3, 5), Ldc(1, 24)>>}
MovingR3  == {<<Ins("MOV", 1, Always, 1, 0, 0, Source1(3))>>}
MovingZero == {<<MovImmediate(Always, 3, 0)>>}

Launch(gid, n) == [gid |-> gid, n |-> n, tid |-> (0 :> gid @@ 1 :> 2 @@ 2 :> 1),
                   cta |-> (0 :> 4 @@ 1 :> 5 @@ 2 :> 6)]

\* An invocation inside the bound and one past it.
MCLaunches == {Launch(1, 2), Launch(3, 3)}

MCBuffers == <<100, 200, 300>>

\* Floats with three bits of significand, rounded to the nearest, ties to the even one.
MCRounded(n) ==
    LET step == CHOOSE s \in {2 ^ k : k \in 0..16} : n < 8 * s /\ (s = 1 \/ 4 * s <= n)
        down == n - (n % step)
        even == (down \div step) % 2 = 0
    IN  IF 2 * (n - down) < step \/ (2 * (n - down) = step /\ even) THEN down ELSE down + step
=============================================================================
