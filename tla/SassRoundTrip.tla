--------------------------- MODULE SassRoundTrip ---------------------------
(***************************************************************************)
(* One instruction on its way from the assembler to the IR: an assembler   *)
(* writes the fields docs/architecture.md gives, the lifter's decoder and  *)
(* its lowering read them back.  The bits of no field of the instruction   *)
(* are noise: all zero or all one.                                         *)
(***************************************************************************)
EXTENDS SassDecode

CONSTANTS
    Assembled,      \* the assembler's instructions: records, see IsAssembled
    Address         \* the address of the instruction in its function

\* What an assembler can be asked for.  "second" is what the bits from 32 hold:
\* a register, a 32-bit immediate, the offset of a constant or a branch offset.
IsAssembled(a) ==
    /\ a.code \in Nat /\ a.code < 4096 /\ a.guard \in 0..7 /\ a.inv \in BOOLEAN
    /\ {a.dst, a.src0, a.src2, a.sr} \subseteq 0..255
    /\ a.noise \in BOOLEAN
    /\ \/ a.second = "reg" /\ a.value \in 0..255
       \/ a.second = "imm" /\ a.value \in Nat /\ a.value \div 65536 < 65536
       \/ a.second = "offset" /\ a.value \in Nat /\ a.value < 16777216
       \/ a.second = "target" /\ a.value \in Int /\ -536870912 <= a.value /\ a.value < 536870912

ASSUME AssembledAssumption == \A a \in Assembled : IsAssembled(a)

VARIABLES
    asm,            \* the instruction the assembler wrote
    inst,           \* its 128 bits
    instr,          \* DecodedInstruction, an Option
    lowered         \* IrInstruction, an Option

roundTripVars == <<asm, inst, instr, lowered>>

SecondField(a) ==
    CASE a.second = "reg"    -> [start |-> 32, width |-> 8]
      [] a.second = "imm"    -> [start |-> 32, width |-> 32]
      [] a.second = "offset" -> [start |-> 40, width |-> 24]
      [] a.second = "target" -> [start |-> 34, width |-> 30]

\* The positions no field of the instruction uses.
Unused(a) ==
    LET f == SecondField(a)
    IN  Bits \ (0..31 \cup f.start..(f.start + f.width - 1) \cup 64..79)

Encode(a) ==
    LET f == SecondField(a)
    IN  UNION {Placed(a.code, 0, 12), Placed(a.guard, 12, 3),
               IF a.inv THEN {15} ELSE {}, Placed(a.dst, 16, 8),
               Placed(a.src0, 24, 8), Placed(a.value, f.start, f.width),
               Placed(a.src2, 64, 8), Placed(a.sr, 72, 8),
               IF a.noise THEN Unused(a) ELSE {}}

-----------------------------------------------------------------------------
RoundTripInit ==
    /\ asm \in Assembled
    /\ inst = Encode(asm)
    /\ instr = None
    /\ lowered = None

Decode ==
    /\ instr = None
    /\ instr' = Some(DecodeInstruction(inst))
    /\ UNCHANGED <<asm, inst, lowered>>

Lower ==
    /\ instr # None
    /\ lowered = None
    /\ lowered' = Some(LowerToIr(instr[1], Address))
    /\ UNCHANGED <<asm, inst, instr>>

RoundTripNext == Decode \/ Lower

RoundTripSpec == RoundTripInit /\ [][RoundTripNext]_roundTripVars

-----------------------------------------------------------------------------
Op(a) == OpcodeOf(a.code, a.code % 512)

\* The instruction is one whose second field is a register.
ReadsSecond(a) == a.second = "reg" /\ Op(a) # "MOV"

\* The registers the assembler named, in the order the operation reads them.
NamedSources(a) ==
    CASE Op(a) \in {"IADD3", "IMAD", "IMAD64", "FFMA"} -> <<a.src0, a.value, a.src2>>
      [] Op(a) \in {"ISETP", "FADD", "FMUL", "STG", "STS"} -> <<a.src0, a.value>>
      [] Op(a) \in {"MOV", "LDG", "LDS"} -> <<a.src0>>
      [] OTHER -> <<>>

\* The operands of an instruction that survive decoding and lowering, whatever the unused
\* bits hold: guard, destination register (or the predicate the code takes it for), source
\* registers of the operations whose second field is a register, constant and memory
\* offset, the nonzero immediate of MOV, special register, branch target ahead; the code
\* behaviour: the bit ranges of decode_instruction and the arms of lower_to_ir agree with
\* the encoding docs/architecture.md:56-58 describes.  Left out, because the code drops or
\* changes them: a negative branch offset, read as one far ahead (decoder.rs:148), the
\* immediate 0 and the register form of MOV (ir.rs:136), the immediate of any other
\* operation, and the comparison and destination predicate of ISETP, in bits no field here
\* covers.
OperandsKept ==
    lowered # None /\ lowered[1].op # "Unsupported" =>
        /\ lowered[1].guard = asm.guard /\ lowered[1].inv = asm.inv
        /\ lowered[1].dst = IF Op(asm) = "ISETP" THEN PredDst(asm.dst) ELSE asm.dst
        /\ ReadsSecond(asm) => lowered[1].srcs = NamedSources(asm)
        /\ asm.second = "offset" => lowered[1].offset = asm.value
        /\ Op(asm) = "MOV" /\ asm.second = "imm" /\ asm.value # 0 =>
             lowered[1].imm # None /\ Numeral(lowered[1].imm[1]) = asm.value
        /\ Op(asm) = "S2R" => lowered[1].sr = SpecialReg(asm.sr)
        /\ Op(asm) = "BRA" /\ asm.second = "target" /\ asm.value >= 0 =>
             lowered[1].target = ResolveBranchTarget(Address, asm.value)

\* What passes the IR check passes validate too, so the order in which try_lift
\* makes the two (lifter.rs:267-284) decides nothing but the wording of the error,
\* and every guard is one of the eight predicate variables of the emitter.
ChecksAgree ==
    lowered # None /\ lowered[1].op # "Unsupported" => Valid(instr[1])
=============================================================================
