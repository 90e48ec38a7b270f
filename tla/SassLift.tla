------------------------------ MODULE SassLift ------------------------------
(***************************************************************************)
(* What the lifter's output must be: a valid SPIR-V module, and one that,  *)
(* run by one invocation, does to the registers what the SASS program      *)
(* would and to global memory what the ABI epilogue promises.              *)
(***************************************************************************)
EXTENDS SassEmit, SpirvMachine

CONSTANTS
    Launches,       \* invocations: [gid, tid, cta (each by component), n]
    Seeds,          \* choices of what uninitialised variables hold
    Buffers,        \* <<A, B, C>>: the addresses in the push constants
    Unmodified(_)   \* of a decoded instruction: see Described

ASSUME LaunchesAssumption ==
    /\ \A l \in Launches : l.gid \in Uint /\ l.n \in Uint /\ l.tid \in [0..2 -> Uint] /\ l.cta \in [0..2 -> Uint]
    /\ Seeds \subseteq Nat
    /\ Buffers \in [1..3 -> Nat]

\* The immediate of MOV is a field of 32 bits.
ASSUME ImmediatesAssumption ==
    \A p \in Programs : \A k \in DOMAIN p : p[k].opcode = "MOV" => Numeral(p[k].imm32) \in Uint

\* What the buffers hold at element g.
A(g) == g + 3
B(g) == 3 * g + 2

\* What the ABI gives an invocation: the builtins, the push constants, the elements of
\* the first two buffers.
Input(l, p) ==
    CASE p[1] = G.var_global_id    -> l.gid
      [] p[1] = G.var_local_id     -> l.tid[p[2]]
      [] p[1] = G.var_workgroup_id -> l.cta[p[2]]
      [] p[1] = G.var_push_params  -> IF p[2] = 3 THEN l.n ELSE Buffers[p[2] + 1]

ElementOf(k, g) == <<0, Buffers[k] + 4 * g>>

Memory(l) ==
    [p \in ({G.var_global_id} \X {0}) \cup ({G.var_local_id, G.var_workgroup_id} \X (0..2))
            \cup ({G.var_push_params} \X (0..3)) \cup {ElementOf(1, l.gid), ElementOf(2, l.gid)} |->
        IF p = ElementOf(1, l.gid) THEN A(l.gid)
        ELSE IF p = ElementOf(2, l.gid) THEN B(l.gid)
        ELSE Input(l, p)]

Translated == outcome = "module"

-----------------------------------------------------------------------------
(***************************************************************************)
(* What SASS means by an instruction, whatever the lifter takes it to      *)
(* mean: the encoding is that of Mesa NAK's sm70_encode.rs, which          *)
(* docs/architecture.md:52-54 names.  d is what the decoder read; what it  *)
(* does not read is taken from the bits, d.raw.                            *)
(***************************************************************************)
Form(d) == Field(d.raw, 9, 12)          \* the second source: 1 a register, 4 an immediate
Comparison(d) == GetBits(d.raw, 76, 79) \* the relations (0 <, 1 =, 2 >) for which ISETP gives true
PredicateTo(d) == Field(d.raw, 81, 84)  \* the destination of ISETP

RZ == NumRegs - 1                       \* the register that reads as 0 and is not written

Registers == 0..(NumRegs - 1)

\* The program: registers r, predicates p, the registers that hold a value the program or
\* its ABI gave them (known), and the address control goes to next (skip).
Reg(s, k) == IF k = RZ THEN 0 ELSE s.r[k]
Pair(s, k) == IF k = RZ THEN 0 ELSE s.r[k] + UintSize * Reg(s, k + 1)
Second(s, d) == IF Form(d) = 4 THEN Numeral(d.imm32) ELSE Reg(s, d.src1)

Special(l, sr) ==
    CASE sr = "TidX" -> l.tid[0] [] sr = "TidY" -> l.tid[1] [] sr = "TidZ" -> l.tid[2]
      [] sr = "CtaIdX" -> l.cta[0] [] sr = "CtaIdY" -> l.cta[1] [] sr = "CtaIdZ" -> l.cta[2]

ResultOf(s, l, d) ==
    CASE d.opcode = "MOV"    -> Second(s, d)
      [] d.opcode = "IADD3"  -> Reg(s, d.src0) + Second(s, d) + Reg(s, d.src2)
      [] d.opcode = "IMAD"   -> Reg(s, d.src0) * Second(s, d) + Reg(s, d.src2)
      [] d.opcode = "IMAD64" -> Reg(s, d.src0) * Second(s, d) + Pair(s, d.src2)
      [] d.opcode = "S2R"    -> Special(l, d.special_reg)
      [] d.opcode = "LDC"    -> l.n

WritesRegister == {"MOV", "IADD3", "IMAD", "IMAD64", "S2R", "LDC"}

\* The registers an instruction writes: IMAD64 a pair, low word first.
Destinations(d) ==
    IF d.opcode \notin WritesRegister THEN {}
    ELSE ((IF d.opcode = "IMAD64" THEN {d.dst, d.dst + 1} ELSE {d.dst}) \cap Registers) \ {RZ}

WordOf(n, d, k) == IF k = d.dst THEN n % UintSize ELSE (n \div UintSize) % UintSize

Relation(x, y) == IF x < y THEN 0 ELSE IF x = y THEN 1 ELSE 2

GuardHolds(s, d) == (IF d.pred_reg = PT THEN TRUE ELSE s.p[d.pred_reg]) # d.pred_inv

CopiesUnknown(s, d) ==
    d.opcode = "MOV" /\ Form(d) # 4 /\ d.src1 # RZ /\ d.src1 \notin s.known

PastEnd == 16 * N           \* past the last instruction

\* The instruction at an address.
SassStep(s, l, d, address) ==
    IF address < s.skip \/ ~GuardHolds(s, d) THEN s
    ELSE IF d.opcode = "EXIT" THEN [s EXCEPT !.skip = PastEnd]
    ELSE IF d.opcode = "BRA" THEN [s EXCEPT !.skip = address + d.target_offset]
    ELSE IF d.opcode = "ISETP"
    THEN [s EXCEPT !.p = [q \in 0..7 |->
              IF q = PredicateTo(d) /\ q # PT
              THEN Relation(Reg(s, d.src0), Second(s, d)) \in Comparison(d) ELSE s.p[q]]]
    ELSE IF d.opcode \in WritesRegister
    THEN [s EXCEPT !.r = [k \in Registers |->
                              IF k \in Destinations(d) THEN WordOf(ResultOf(s, l, d), d, k) ELSE s.r[k]],
                   !.known = IF CopiesUnknown(s, d) THEN @ \ Destinations(d) ELSE @ \cup Destinations(d)]
    ELSE s

\* At the start the ABI gives R0 and R3 a value and the others hold anything.
SassStart(l, seed) ==
    [r |-> [k \in Registers |-> IF k = 0 THEN l.gid % UintSize ELSE IF k = 3 THEN l.n % UintSize
                                ELSE Undefined(seed, <<U(k), 0>>)],
     p |-> [k \in 0..7 |-> BoolUndefined(seed, <<P(k), 0>>) = 1],
     known |-> {0, 3},
     skip |-> 0]

SassRun(l, seed) ==
    LET after[k \in 0..N] ==
            IF k = 0 THEN SassStart(l, seed) ELSE SassStep(after[k - 1], l, decoded[k], 16 * (k - 1))
    IN  after[N]

\* The registers and predicates the shader leaves are those the program leaves.
SameRegisters ==
    \A l \in Launches, seed \in Seeds :
        LET m    == Run(Module, Memory(l), seed)
            sass == SassRun(l, seed)
        IN  /\ \A k \in Registers \ {RZ} : Read(m, seed, G.type_uint, <<U(k), 0>>) = sass.r[k]
            /\ \A k \in 0..(PT - 1) : (Read(m, seed, G.type_bool, <<P(k), 0>>) = 1) = sass.p[k]

-----------------------------------------------------------------------------
\* The instructions whose meaning is given above, in their plain variant: no negated or
\* inverted operand, carry, signed comparison or second predicate (Unmodified), sources in
\* registers or an immediate, the special registers of the builtins, the constant the ABI
\* keeps the count at, branches ahead.
Described(d) ==
    /\ Unmodified(d)
    /\ d.opcode \in WritesRegister \cup {"ISETP", "Nop", "BSSY", "BSYNC", "EXIT", "BRA"}
    /\ d.opcode \in {"MOV", "IADD3", "IMAD", "IMAD64", "ISETP"} => Form(d) \in {1, 4}
    /\ d.opcode = "S2R" => d.special_reg \in {"TidX", "TidY", "TidZ", "CtaIdX", "CtaIdY", "CtaIdZ"}
    /\ d.opcode = "LDC" => d.offset = 24
    /\ d.opcode = "BRA" => 0 < d.target_offset /\ d.target_offset < 2 ^ 29

\* Those the lifter keeps the meaning of.
Kept(d) ==
    /\ Described(d)
    /\ d.opcode # "IMAD64"
    /\ d.opcode = "MOV" =>
         IF Form(d) = 4 THEN d.imm32 # {} ELSE d.imm32 = {} /\ d.src1 = d.src0 /\ d.src0 # RZ
    /\ d.opcode \in {"IADD3", "IMAD", "ISETP"} => Form(d) = 1 /\ RZ \notin {d.src0, d.src1}
    /\ d.opcode \in {"IADD3", "IMAD"} => d.src2 # RZ
    /\ d.opcode = "ISETP" => Comparison(d) = {0, 2} /\ PredicateTo(d) = PredDst(d.dst)

\* The conditions under which the emitter keeps the meaning of a program.
Modelled == \A k \in DOMAIN decoded : Kept(decoded[k])

StraightLine == \A k \in Indices : Transfers(k) => k = N - 1

NoNeverGuard == \A k \in Indices : MayRun(k)

CountIntact ==
    \A k \in DOMAIN decoded : decoded[k].opcode = "LDC" =>
        \A j \in DOMAIN decoded : j < k => 3 \notin Destinations(decoded[j])

\* lifter.rs:470-475: order, dependencies and predicates are preserved: after a
\* straight-line integer program every register and predicate holds what SASS gives it,
\* whatever the variables held before and whichever of its guards @P0..@!P6 were false.
\* The conditions leave out what the lifter translates otherwise: the instructions that are
\* not Kept (IMAD64, comparisons other than "not equal", an immediate or RZ as a source,
\* the register form of MOV but for R0), control transfer before the end, the guard @!PT
\* (NoNeverGuard) and LDC after R3 was written (CountIntact).
SemanticsPreserved ==
    Translated /\ Modelled /\ StraightLine /\ NoNeverGuard /\ CountIntact => SameRegisters


\* In a register that holds a value the float view is the uint view, rounded, and the ulong
\* view is the same number.
ViewsAgree ==
    \A l \in Launches, seed \in Seeds :
        LET m == Run(Module, Memory(l), seed)
        IN  \A k \in SassRun(l, seed).known :
                LET u == Read(m, seed, G.type_uint, <<U(k), 0>>)
                IN  /\ Read(m, seed, G.type_float, <<F(k), 0>>) = Rounded(u)
                    /\ Read(m, seed, G.type_ulong, <<Q(k), 0>>) = u

\* lifter.rs:472-473: the aliases are kept coherent via conversions: every integer operation
\* leaves the three views of its destination coherent, the float view as exact as a float
\* can be, also when a guard skips it half way through a program.  Under the conditions of
\* SemanticsPreserved, and without LDC, which leaves the ulong view out (lifter.rs:782-799).
IntegerViewsCoherent ==
    Translated /\ Modelled /\ StraightLine /\ NoNeverGuard
        /\ (\A k \in DOMAIN decoded : decoded[k].opcode # "LDC") => ViewsAgree

-----------------------------------------------------------------------------
EmitTypeOK ==
    /\ TypeOK
    /\ stage \in {"build", "prologue", "body", "done"}
    /\ at \in 0..N
    /\ next_id \in Nat
    /\ \A v \in DOMAIN imm_consts : imm_consts[v] < next_id
    /\ outcome = "none" <=> stage # "done"
    /\ outcome = "module" => at = N

\* docs/architecture.md:75-77, test lifter.rs:1119-1140: the layout is legal, no
\* constant is declared in the function, its control flow is structured, and the entry
\* point lists the variables it uses: only streams without shared memory are translated,
\* so the list may leave var_shared out.
WellFormed == Translated => InLayout(Module) /\ InBlocks(Module) /\ InterfaceComplete(Module)

\* lifter.rs:755-757: no undefined id is consumed: every id is defined once, below the
\* bound of the header, whichever arms the program takes, and what a guarded instruction
\* computes is used in its own block only.
NoUndefinedId ==
    Translated =>
        /\ DefinedOnce(Module) /\ \A x \in ResultIds(Module) : x < next_id
        /\ DefsDominateUses(Module)

\* Every operand has the type its instruction demands, across the three views.
TypesAgree == Translated => WellTyped(Module)

\* lifter.rs:805-814 and 893-962, docs/architecture.md:88-92: global memory is touched by the
\* epilogue only, and the epilogue sees the invocation and the count the ABI gave,
\* whatever the program did to R0 and R3.
EpilogueUndisturbed ==
    Translated =>
        \A l \in Launches, seed \in Seeds :
            LET global(mem) == [p \in {q \in DOMAIN mem : q[1] = 0} |-> mem[p]]
                before == global(Memory(l))
                sum == Rounded(before[ElementOf(1, l.gid)] + before[ElementOf(2, l.gid)])
            IN  global(Run(Module, Memory(l), seed)) =
                    IF l.gid < l.n THEN Written(before, ElementOf(3, l.gid), sum) ELSE before
=============================================================================
