----------------------------- MODULE SassDecode -----------------------------
(***************************************************************************)
(* The SASS decoder (src/src/lifter/src/decoder.rs) and the lowering of    *)
(* one decoded instruction (src/src/lifter/src/ir.rs).                     *)
(*                                                                         *)
(* A 128-bit instruction is the SET of the positions of its one bits, and  *)
(* so is a field too wide for an integer of TLC (imm32); the narrow fields *)
(* are numbers.  A Rust Option is a sequence of at most one element.       *)
(***************************************************************************)
EXTENDS Integers, Sequences, FiniteSetsExt, TLC

Bits == 0..127

\* Mutant: a field read one bit short.
GetBitsShort(inst, start, end) ==
    {bit - start : bit \in inst \cap (start..(end - 2))}

\* A field: the one bits of inst in start..end, renumbered from 0.
GetBits(inst, start, end) == {bit - start : bit \in inst \cap (start..(end - 1))}

\* The number with these one bits: above[k] is that of the k highest of 32.
Numeral(bits) ==
    LET above[k \in 0..32] ==
            IF k = 0 THEN 0 ELSE 2 * above[k - 1] + (IF 32 - k \in bits THEN 1 ELSE 0)
    IN  above[32]

Field(inst, start, end) == Numeral(GetBits(inst, start, end))

\* n as the bits start..start+width-1, in two's complement when n is negative: how an
\* assembler writes a field.
Placed(n, start, width) ==
    LET rest[b \in 0..width] == IF b = 0 THEN n ELSE rest[b - 1] \div 2
    IN  {start + b : b \in {c \in 0..(width - 1) : rest[c] % 2 = 1}}

PT == 7        \* the predicate register that always holds

-----------------------------------------------------------------------------
\* The 12-bit codes of the match on raw_op12, then the 9-bit ones of alu_op9.
Codes12 ==
    [S2R  |-> {\h919, \h9c3}, LDG   |-> {\h981, \h381}, STG  |-> {\h986, \h386},
     LDS  |-> {\h984},        STS   |-> {\h988, \h388}, LDC  |-> {\h9c0, \h3c0},
     BRA  |-> {\h947, \h547}, BSSY  |-> {\h945},        BSYNC |-> {\h941},
     EXIT |-> {\h94d},        BarSync |-> {\hb1d},      HMMA |-> {\h23c},
     LDSM |-> {\h83b},        SHFL  |-> {\h389, \h589, \h989}]

Codes9 ==
    [MOV   |-> {\h002},        IADD3 |-> {\h010},        IMAD |-> {\h024, \h0a4},
     IMAD64 |-> {\h025, \h0a5}, ISETP |-> {\h00c, \h08c}, FADD |-> {\h021, \h054},
     FMUL  |-> {\h020, \h056}, FFMA  |-> {\h023, \h055}, Nop  |-> {\h118}]

Named(table, code) == {op \in DOMAIN table : code \in table[op]}

OpcodeOf(op12, op9) ==
    LET by12 == Named(Codes12, op12)
        by9  == Named(Codes9, op9)
    IN  IF by12 # {} THEN CHOOSE op \in by12 : TRUE
        ELSE IF by9 # {} THEN CHOOSE op \in by9 : TRUE
        ELSE "Unknown"

SpecialRegs ==
    [LaneId     |-> {\h00},
     TidX       |-> {\h21}, TidY       |-> {\h22}, TidZ       |-> {\h23},
     CtaIdX     |-> {\h25}, CtaIdY     |-> {\h26}, CtaIdZ     |-> {\h27},
     LaneMaskEq |-> {\h38}, LaneMaskLt |-> {\h39}, LaneMaskLe |-> {\h3a},
     LaneMaskGt |-> {\h3b}, LaneMaskGe |-> {\h3c},
     ClockLo    |-> {\h50}, ClockHi    |-> {\h51}]

SpecialReg(val) ==
    LET names == Named(SpecialRegs, val)
    IN  IF names # {} THEN CHOOSE name \in names : TRUE ELSE "Unknown"

\* The predicate field is three bits wide; the mutant reads the inversion bit too.
PredRegWide(inst) == Field(inst, 12, 16)

PredReg(inst) == Field(inst, 12, 15)

-----------------------------------------------------------------------------
\* The bits of a branch target, 34 to 63, cast to i32: no bit of the field is
\* the sign of the i32, and the decoder does not extend it.
TargetOffset(inst) == Field(inst, 34, 64)

DecodeInstruction(inst) ==
    [opcode        |-> OpcodeOf(Field(inst, 0, 12), Field(inst, 0, 9)),
     pred_reg      |-> PredReg(inst),
     pred_inv      |-> GetBits(inst, 15, 16) # {},
     dst           |-> Field(inst, 16, 24),
     src0          |-> Field(inst, 24, 32),
     src1          |-> Field(inst, 32, 40),
     src2          |-> Field(inst, 64, 72),
     imm32         |-> GetBits(inst, 32, 64),
     offset        |-> Field(inst, 40, 64),
     target_offset |-> TargetOffset(inst),
     special_reg   |-> SpecialReg(Field(inst, 72, 80)),
     raw           |-> inst]

\* DecodedInstruction: every instruction the decoder can answer with is one of these.
DecodedInstruction ==
    [opcode : DOMAIN Codes12 \cup DOMAIN Codes9 \cup {"Unknown"}, pred_reg : 0..7,
     pred_inv : BOOLEAN, dst : 0..255, src0 : 0..255, src1 : 0..255, src2 : 0..255,
     imm32 : SUBSET (0..31), offset : 0..(2 ^ 24 - 1), target_offset : 0..(2 ^ 30 - 1),
     special_reg : STRING, raw : SUBSET Bits]

\* DecodedInstruction::validate, the hook try_lift calls after lowering.
Valid(d) == d.pred_reg <= 7 /\ d.opcode # "Unknown"

-----------------------------------------------------------------------------
None == <<>>
Some(x) == <<x>>

CONSTANT U32Max      \* the largest u32

ASSUME U32MaxAssumption == U32Max \in Nat /\ U32Max % 16 = 15

\* The byte address a branch at pc goes to, or None.
ResolveBranchTarget(pc, target_offset) ==
    LET target == pc + target_offset
    IN  IF target < 0 \/ target % 16 # 0 \/ target > U32Max THEN None ELSE Some(target)

\* The operations with modelled semantics, by the IR operation they become.
LoweredOps ==
    [MOV |-> "Mov",      IADD3 |-> "IAdd3",   IMAD |-> "IMad",       IMAD64 |-> "IMad",
     ISETP |-> "ISetP",  FADD |-> "FAdd",     FMUL |-> "FMul",       FFMA |-> "FFma",
     LDC |-> "Ldc",      LDG |-> "Ldg",       STG |-> "Stg",         LDS |-> "Lds",
     STS |-> "Sts",      BRA |-> "Bra",       EXIT |-> "Exit",       Nop |-> "Nop",
     BSSY |-> "Barrier", BSYNC |-> "Barrier", BarSync |-> "Barrier", S2R |-> "S2R"]

LoweredOp(d) ==
    IF d.opcode \notin DOMAIN LoweredOps \/ (d.opcode = "S2R" /\ d.special_reg = "Unknown")
    THEN "Unsupported" ELSE LoweredOps[d.opcode]

\* The register operands an operation reads, in order.
SourcesOf(op, d) ==
    CASE op \in {"IAdd3", "IMad", "FFma"}       -> <<d.src0, d.src1, d.src2>>
      [] op \in {"ISetP", "FAdd", "FMul", "Stg", "Sts"} -> <<d.src0, d.src1>>
      [] op \in {"Mov", "Ldg", "Lds"}           -> <<d.src0>>
      [] OTHER                                  -> <<>>

\* The destination of ISETP is a predicate: the u8 is cut down to 0..7.
PredDst(n) == IF n < 7 THEN n ELSE 7

LowerToIr(d, address) ==
    LET op == LoweredOp(d)
    IN  [op      |-> op,
         dst     |-> IF op = "ISetP" THEN PredDst(d.dst) ELSE d.dst,
         srcs    |-> SourcesOf(op, d),
         imm     |-> IF op = "Mov" /\ d.imm32 # {} THEN Some(d.imm32) ELSE None,
         sr      |-> d.special_reg,
         offset  |-> d.offset,
         target  |-> IF op = "Bra" THEN ResolveBranchTarget(address, d.target_offset) ELSE None,
         guard   |-> d.pred_reg,
         inv     |-> d.pred_inv,
         address |-> address]

\* The stream in order, 16 bytes an instruction; the address saturates.
LowerStream(decoded) ==
    [i \in DOMAIN decoded |->
        LowerToIr(decoded[i], IF (i - 1) * 16 > U32Max THEN U32Max ELSE (i - 1) * 16)]
=============================================================================
