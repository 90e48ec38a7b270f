------------------------------ MODULE SassEmit ------------------------------
(***************************************************************************)
(* try_lift (src/src/lifter/src/lifter.rs): a decoded stream is lowered,   *)
(* its blocks are built (SassCfg), and it is refused, replaced by the      *)
(* precompiled reduction kernel, or translated instruction by instruction  *)
(* into a SPIR-V function between a fixed prologue and a fixed epilogue.   *)
(***************************************************************************)
EXTENDS SassCfg, SpirvRules

CONSTANT NumRegs        \* registers of each file, 256

\* An 8-bit register, the destination of an operation or one it reads, passes the checks
\* reg < 256 of the code; the destination of ISETP is a predicate.
ASSUME NumRegsAssumption ==
    /\ NumRegs \in Nat /\ NumRegs > 4
    /\ \A p \in Programs : \A k \in DOMAIN p :
            LET srcs == SourcesOf(LoweredOp(p[k]), p[k])
            IN  /\ LoweredOp(p[k]) # "ISetP" => p[k].dst \in 0..(NumRegs - 1)
                /\ \A j \in DOMAIN srcs : srcs[j] \in 0..(NumRegs - 1)

VARIABLES
    decoded,            \* the input stream
    stage,              \* where try_lift is
    at,                 \* the index of the next IR instruction to translate
    next_id,            \* SpirvModule::next_id
    words,              \* what follows the header
    imm_consts,         \* value -> id of its constant
    frame,              \* the ids the prologue gives to the rest: see Prologue
    outcome             \* "none", "error", "reduction" or "module"

emitVars == <<decoded, stage, at, next_id, words, imm_consts, frame, outcome>>

Module == Header \o words

\* One float, one uint and one ulong variable per register, then the predicates;
\* reg0 is the id of the first.
U(r) == frame.reg0 + 3 * r
F(r) == frame.reg0 + 3 * r + 1
Q(r) == frame.reg0 + 3 * r + 2
P(p) == frame.reg0 + 3 * NumRegs + p

-----------------------------------------------------------------------------
EmitInit ==
    /\ \E d \in Programs : decoded = d /\ BuildCfg(d)
    /\ stage = "build"
    /\ at = 0
    /\ next_id = FirstId
    /\ words = <<>>
    /\ imm_consts = <<>>
    /\ frame = <<>>
    /\ outcome = "none"

BuildBlocks ==
    /\ stage = "build"
    /\ Scan \/ EndScan \/ Cut \/ EndCut
    /\ UNCHANGED emitVars

Finish(result) ==
    /\ stage' = "done"
    /\ outcome' = result
    /\ UNCHANGED <<decoded, at, next_id, words, imm_consts, frame>>
    /\ UNCHANGED vars

Refusable ==
    \/ \E k \in Indices : Instr(k).op = "Unsupported" \/ (Instr(k).op = "Bra" /\ Instr(k).target = None)
    \/ \E k \in DOMAIN decoded : ~Valid(decoded[k])

Refuse ==
    /\ stage = "build" /\ pc = "done"
    /\ Refusable
    /\ Finish("error")

HasSharedMemory == \E k \in DOMAIN decoded : decoded[k].opcode \in {"STS", "LDS", "BarSync"}

FastPath ==
    /\ stage = "build" /\ pc = "done"
    /\ ~Refusable /\ HasSharedMemory
    /\ Finish("reduction")

\* The immediates of the stream, each of which becomes a constant of the module.
Needed ==
    {Numeral(Instr(k).imm[1]) : k \in {j \in Indices : Instr(j).imm # None}}
    \cup {Instr(k).offset : k \in {j \in Indices : Instr(j).op \in {"Ldg", "Stg"}}}

Prepass ==
    /\ stage = "build" /\ pc = "done"
    /\ ~Refusable /\ ~HasSharedMemory
    /\ LET rank(v) == Cardinality({w \in Needed : w < v})
           nth(k)  == CHOOSE v \in Needed : rank(v) = k
       IN  /\ words' = [k \in 1..Cardinality(Needed) |->
                            Constant(G.type_uint, next_id + k - 1, nth(k - 1))]
           /\ imm_consts' = [v \in Needed |-> next_id + rank(v)]
           /\ next_id' = next_id + Cardinality(Needed)
    /\ stage' = "prologue"
    /\ UNCHANGED <<decoded, at, frame, outcome>>
    /\ UNCHANGED vars

-----------------------------------------------------------------------------
Store(pointer, value) == Plain("Store", <<pointer, value>>, <<>>)
Load(type, id, pointer) == Val("Load", type, id, <<pointer>>)
Label(l) == Def("Label", l, <<>>, <<>>)
Branch(l) == Plain("Branch", <<>>, <<l>>)
Chain(type, id, base, index) == Val("AccessChain", type, id, <<base, index>>)

\* Mutant: the merge instruction is left out.
SelectionUnmerged(cond, then, merge) ==
    <<Plain("BranchConditional", <<cond>>, <<then, merge>>), Label(then)>>

\* A selection on cond: to the block "then", or past it to "merge".
Selection(cond, then, merge) ==
    <<Plain("SelectionMerge", <<>>, <<merge>>),
      Plain("BranchConditional", <<cond>>, <<then, merge>>),
      Label(then)>>

\* Mutant: the ulong view is forgotten.
StoreViewsShort(u, v, b) ==
    <<Store(u, v), Val("ConvertUToF", G.type_float, b, <<v>>), Store(u + 1, b)>>

\* The uint value v to the register whose uint view is u, in its three views; takes
\* the ids b and b + 1.
StoreViews(u, v, b) ==
    <<Store(u, v),
      Val("ConvertUToF", G.type_float, b, <<v>>), Store(u + 1, b),
      Val("UConvert", G.type_ulong, b + 1, <<v>>), Store(u + 2, b + 1)>>

FunctionWord ==
    [op |-> "Function", type |-> G.type_void, id |-> G.func_main, args |-> <<G.type_func>>, lits |-> <<>>]

Opened(entry) == <<FunctionWord, Label(entry)>>

\* The n variables from the id "first" on, by their types.
VariableRow(first, n, type) == [k \in 1..n |-> Variable(type[k], first + k - 1, "Function")]

RegisterTypes ==
    [k \in 1..(3 * NumRegs) |-> <<G.ptr_fn_uint, G.ptr_fn_float, G.ptr_fn_ulong>>[1 + ((k - 1) % 3)]]

PredicateTypes == [k \in 1..8 |-> G.ptr_fn_bool]

\* What the ABI gives an invocation; b is the first id of the prologue's code.
GidLoad(b) ==
    <<Chain(G.ptr_input_uint, b, G.var_global_id, G.const_uint_0), Load(G.type_uint, b + 1, b)>>

CountLoad(b) ==
    <<Chain(G.ptr_push_uint, b + 4, G.var_push_params, G.const_uint_3), Load(G.type_uint, b + 5, b + 4)>>

BufferId(b, k) == b + 9 + 2 * k

BufferLoads(b) ==
    [k \in 1..3 |->
        <<Chain(G.ptr_push_ulong, BufferId(b, k - 1) - 1, G.var_push_params,
                <<G.const_uint_0, G.const_uint_1, G.const_uint_2>>[k]),
          Load(G.type_ulong, BufferId(b, k - 1), BufferId(b, k - 1) - 1)>>]

Prologue ==
    /\ stage = "prologue"
    /\ LET entry == next_id
           reg0  == entry + 1
           body  == reg0 + 3 * NumRegs + 8 + 1       \* after an unused id
           blks  == IF blocks = <<>> THEN 1 ELSE Len(blocks)
           b     == body + 2 + blks
       IN  /\ frame' = [reg0 |-> reg0, body |-> body, exit |-> body + 1, gid |-> b + 1, n |-> b + 5,
                        p |-> [k \in 0..2 |-> BufferId(b, k)]]
           /\ next_id' = b + 14
           /\ words' = words
                \o Opened(entry)
                \o VariableRow(reg0, 3 * NumRegs, RegisterTypes)
                \o VariableRow(reg0 + 3 * NumRegs, 8, PredicateTypes)
                \o GidLoad(b) \o StoreViews(reg0, b + 1, b + 2)
                \o CountLoad(b) \o StoreViews(reg0 + 9, b + 5, b + 6)
                \o FlattenSeq(BufferLoads(b))
    /\ stage' = "body"
    /\ UNCHANGED <<decoded, at, imm_consts, outcome>>
    /\ UNCHANGED vars

-----------------------------------------------------------------------------
\* What an operation emits, its ids counted from b; "ids" is how many it takes.
Emitted(ids, code) == [ids |-> ids, code |-> code]

\* Loads of registers into b, b + 1, ...
LoadsU(b, srcs) == [k \in DOMAIN srcs |-> Load(G.type_uint, b + k - 1, U(srcs[k]))]
LoadsF(b, srcs) == [k \in DOMAIN srcs |-> Load(G.type_float, b + k - 1, F(srcs[k]))]

EmitMov(ins, b) ==
    LET s == ins.srcs[1] IN
    Emitted(3,
        IF ins.imm # None
        THEN StoreViews(U(ins.dst), imm_consts[Numeral(ins.imm[1])], b + 1)
        ELSE <<Load(G.type_uint, b, U(s)),      Store(U(ins.dst), b),
               Load(G.type_float, b + 1, F(s)), Store(F(ins.dst), b + 1),
               Load(G.type_ulong, b + 2, Q(s)), Store(Q(ins.dst), b + 2)>>)

\* (src0 op src1) + src2 on the uint views.
EmitInteger(op, ins, b) ==
    Emitted(7,
        LoadsU(b, ins.srcs)
        \o <<Val(op, G.type_uint, b + 3, <<b, b + 1>>),
             Val("IAdd", G.type_uint, b + 4, <<b + 3, b + 2>>)>>
        \o StoreViews(U(ins.dst), b + 4, b + 5))

EmitISetP(ins, b) ==
    Emitted(3,
        LoadsU(b, ins.srcs)
        \o <<Val("INotEqual", G.type_bool, b + 2, <<b, b + 1>>), Store(P(ins.dst), b + 2)>>)

\* Mutant: the uint view gets the float as it is.
StoreFloatRaw(d, r) == <<Store(F(d), r), Store(U(d), r)>>

\* A float result r goes to the float and the uint view.
StoreFloat(d, r) ==
    <<Store(F(d), r), Val("ConvertFToU", G.type_uint, r + 1, <<r>>), Store(U(d), r + 1)>>

EmitFloat(op, ins, b) ==
    Emitted(4,
        LoadsF(b, ins.srcs)
        \o <<Val(op, G.type_float, b + 2, <<b, b + 1>>)>>
        \o StoreFloat(ins.dst, b + 2))

EmitFFma(ins, b) ==
    Emitted(6,
        LoadsF(b, ins.srcs)
        \o <<Val("FMul", G.type_float, b + 3, <<b, b + 1>>),
             Val("FAdd", G.type_float, b + 4, <<b + 3, b + 2>>)>>
        \o StoreFloat(ins.dst, b + 4))

\* The builtin and the component a special register is read from.
Builtin ==
    [TidX   |-> <<G.var_local_id, G.const_uint_0>>,
     TidY   |-> <<G.var_local_id, G.const_uint_1>>,
     TidZ   |-> <<G.var_local_id, G.const_uint_2>>,
     CtaIdX |-> <<G.var_workgroup_id, G.const_uint_0>>,
     CtaIdY |-> <<G.var_workgroup_id, G.const_uint_1>>,
     CtaIdZ |-> <<G.var_workgroup_id, G.const_uint_2>>,
     LaneId |-> <<G.var_local_id, G.const_uint_0>>]

\* Mutant: the other special registers run the shared tail on v, which nothing defines.
EmitS2RTail(ins, b) ==
    IF ins.sr \in DOMAIN Builtin
    THEN Emitted(4, <<Chain(G.ptr_input_uint, b + 1, Builtin[ins.sr][1], Builtin[ins.sr][2]),
                      Load(G.type_uint, b, b + 1)>> \o StoreViews(U(ins.dst), b, b + 2))
    ELSE Emitted(3, StoreViews(U(ins.dst), b, b + 1))

EmitS2R(ins, b) ==
    IF ins.sr \in DOMAIN Builtin
    THEN Emitted(4, <<Chain(G.ptr_input_uint, b + 1, Builtin[ins.sr][1], Builtin[ins.sr][2]),
                      Load(G.type_uint, b, b + 1)>> \o StoreViews(U(ins.dst), b, b + 2))
    ELSE Emitted(3, StoreViews(U(ins.dst), G.const_uint_0, b + 1))

\* The element count is taken from R3, where the prologue put it; other offsets are zero.
EmitLdc(ins, b) ==
    LET v == IF ins.offset = 24 THEN b ELSE G.const_uint_0
        f == IF ins.offset = 24 THEN b + 1 ELSE b
    IN  Emitted(f - b + 1,
            (IF ins.offset = 24 THEN <<Load(G.type_uint, b, U(3))>> ELSE <<>>)
            \o <<Store(U(ins.dst), v), Val("ConvertUToF", G.type_float, f, <<v>>), Store(F(ins.dst), f)>>)

\* A pointer (b + 3) into the shared array from the address in register a.
SharedPointer(a, b) ==
    <<Load(G.type_ulong, b, Q(a)), Val("UConvert", G.type_uint, b + 1, <<b>>),
      Val("UMod", G.type_uint, b + 2, <<b + 1, G.const_uint_1024>>),
      Chain(G.ptr_workgroup_float, b + 3, G.var_shared, b + 2)>>

EmitLds(ins, b) ==
    Emitted(5, SharedPointer(ins.srcs[1], b)
               \o <<Load(G.type_float, b + 4, b + 3), Store(F(ins.dst), b + 4)>>)

EmitSts(ins, b) ==
    Emitted(5, SharedPointer(ins.srcs[1], b)
               \o <<Load(G.type_float, b + 4, F(ins.srcs[2])), Store(b + 3, b + 4)>>)

EmitBarrier ==
    Emitted(0, <<Plain("ControlBarrier", <<G.const_uint_2, G.const_uint_2, G.const_uint_264>>, <<>>)>>)

EmitNop == Emitted(0, <<Plain("Nop", <<>>, <<>>)>>)

EmitOp(ins, b) ==
    CASE ins.op = "Mov"     -> EmitMov(ins, b)
      [] ins.op = "IAdd3"   -> EmitInteger("IAdd", ins, b)
      [] ins.op = "IMad"    -> EmitInteger("IMul", ins, b)
      [] ins.op = "ISetP"   -> EmitISetP(ins, b)
      [] ins.op = "FAdd"    -> EmitFloat("FAdd", ins, b)
      [] ins.op = "FMul"    -> EmitFloat("FMul", ins, b)
      [] ins.op = "FFma"    -> EmitFFma(ins, b)
      [] ins.op = "S2R"     -> EmitS2R(ins, b)
      [] ins.op = "Ldc"     -> EmitLdc(ins, b)
      [] ins.op = "Lds"     -> EmitLds(ins, b)
      [] ins.op = "Sts"     -> EmitSts(ins, b)
      [] ins.op = "Barrier" -> EmitBarrier
      [] ins.op \in {"Ldg", "Stg", "Bra", "Exit", "Nop"} -> EmitNop

\* An instruction under a guard: its code in a block of its own.
Guarded(ins, b) ==
    LET cond  == IF ins.inv THEN b + 1 ELSE b
        then  == cond + 1
        merge == cond + 2
        inner == EmitOp(ins, merge + 1)
    IN  Emitted(merge + 1 - b + inner.ids,
            <<Load(G.type_bool, b, P(ins.guard))>>
            \o (IF ins.inv THEN <<Val("LogicalNot", G.type_bool, cond, <<b>>)>> ELSE <<>>)
            \o Selection(cond, then, merge)
            \o inner.code
            \o <<Branch(merge), Label(merge)>>)

\* Mutant: the inversion of the guard is lost.
LowerUninverted(ins, b) ==
    IF ins.guard # PT THEN Guarded([ins EXCEPT !.inv = FALSE], b) ELSE EmitOp(ins, b)

LowerInstr(ins, b) == IF ins.guard # PT THEN Guarded(ins, b) ELSE EmitOp(ins, b)

Translate ==
    /\ stage = "body"
    /\ at < N
    /\ LET e == LowerInstr(Instr(at), next_id)
       IN  /\ words' = words \o e.code
           /\ next_id' = next_id + e.ids
    /\ at' = at + 1
    /\ UNCHANGED <<decoded, stage, imm_consts, frame, outcome>>
    /\ UNCHANGED vars

-----------------------------------------------------------------------------
\* Mutant: the bounds guard compares what R0 holds after the body.
BoundsGuardFromR0(b) ==
    <<Load(G.type_uint, b + 12, U(0)), Val("ULessThan", G.type_bool, b, <<b + 12, frame.n>>)>>

BoundsGuard(b) == <<Val("ULessThan", G.type_bool, b, <<frame.gid, frame.n>>)>>

\* C[gid] = A[gid] + B[gid] when gid < N; takes twelve ids.
EpilogueCode(b) ==
    LET offset == b + 2
        address(id, k) == Val("IAdd", G.type_ulong, id, <<frame.p[k], offset>>)
        pointer(id) == Val("ConvertUToPtr", G.ptr_psb_float, id, <<id - 1>>)
    IN  BoundsGuard(b)
        \o Selection(b, frame.body, frame.exit)
        \o <<Val("UConvert", G.type_ulong, b + 1, <<frame.gid>>),
             Val("IMul", G.type_ulong, offset, <<b + 1, G.const_ulong_4>>),
             address(b + 3, 0), pointer(b + 4), Load(G.type_float, b + 5, b + 4),
             address(b + 6, 1), pointer(b + 7), Load(G.type_float, b + 8, b + 7),
             Val("FAdd", G.type_float, b + 9, <<b + 5, b + 8>>),
             address(b + 10, 2), pointer(b + 11), Store(b + 11, b + 9),
             Branch(frame.exit), Label(frame.exit),
             Plain("Return", <<>>, <<>>), Plain("FunctionEnd", <<>>, <<>>)>>

\* Mutant: the last instruction is left out.
AllButLast == at + 1 >= N

AllTranslated == at = N

Epilogue ==
    /\ stage = "body"
    /\ AllTranslated
    /\ words' = words \o EpilogueCode(next_id)
    /\ next_id' = next_id + 12
    /\ stage' = "done"
    /\ outcome' = "module"
    /\ UNCHANGED <<decoded, at, imm_consts, frame>>
    /\ UNCHANGED vars

EmitNext == BuildBlocks \/ Refuse \/ FastPath \/ Prepass \/ Prologue \/ Translate \/ Epilogue

EmitSpec == EmitInit /\ [][EmitNext]_<<vars, emitVars>>
=============================================================================
