------------------------------- MODULE SassCfg -------------------------------
(***************************************************************************)
(* build_cfg (src/src/lifter/src/ir.rs): the basic blocks of a lowered     *)
(* stream.  Indices are the code's, from 0; a block is [start, end).       *)
(***************************************************************************)
EXTENDS SassDecode

CONSTANT Programs       \* decoded streams

ASSUME ProgramsAssumption == Programs \subseteq Seq(DecodedInstruction)

VARIABLES
    pc,                 \* "scan" the stream for leaders, "cut" the blocks, "done"
    ir,                 \* the lowered stream
    i,                  \* the index the scan has reached
    leaders,            \* indices that start a block
    start,              \* the leader of the block to cut next
    blocks              \* the blocks cut so far

vars == <<pc, ir, i, leaders, start, blocks>>

N == Len(ir)
Instr(k) == ir[k + 1]
Indices == 0..(N - 1)

\* The instruction at an address: addr_to_idx is keyed by byte address.
IndexAt(address) == {k \in Indices : Instr(k).address = address}

\* The instruction a branch goes to, when its target is in the function.
TargetIndex(k) ==
    IF Instr(k).target = None THEN {} ELSE IndexAt(Instr(k).target[1])

IsConditional(k) == Instr(k).guard # PT \/ Instr(k).inv

Transfers(k) == Instr(k).op \in {"Bra", "Exit"}

\* The first instruction starts a block; the mutant forgets it.
NoFirstLeader == {}
FirstLeader == {0}

-----------------------------------------------------------------------------
BuildCfg(decoded) ==
    /\ ir = LowerStream(decoded)
    /\ pc = IF ir = <<>> THEN "done" ELSE "scan"
    /\ i = 0
    /\ leaders = FirstLeader
    /\ start = 0
    /\ blocks = <<>>

Init == \E decoded \in Programs : BuildCfg(decoded)

\* Mutant: the target starts no block.
LeadersNoTarget(k) == {k + 1} \cap Indices

\* The leaders a branch or an exit makes.
LeadersFrom(k) == (TargetIndex(k) \cup {k + 1}) \cap Indices

Scan ==
    /\ pc = "scan"
    /\ i < N
    /\ leaders' = leaders \cup (IF Transfers(i) THEN LeadersFrom(i) ELSE {})
    /\ i' = i + 1
    /\ UNCHANGED <<pc, ir, start, blocks>>

\* Where the block that starts at s ends: the next leader, or the end of the stream
\* (EndOf(-1) is the first leader).
EndOf(s) ==
    CHOOSE e \in leaders \cup {N} : e > s /\ \A l \in leaders \cup {N} : l > s => e <= l

EndScan ==
    /\ pc = "scan"
    /\ i = N
    /\ pc' = "cut"
    /\ start' = EndOf(-1)
    /\ UNCHANGED <<ir, i, leaders, blocks>>

\* A block's id is its rank among the leaders.
BlockId(s) == Cardinality({l \in leaders : l < s})

FallThrough(s) == IF EndOf(s) < N THEN <<BlockId(EndOf(s))>> ELSE <<>>

Taken(k) == [x \in 1..Cardinality(TargetIndex(k)) |-> BlockId(CHOOSE t \in TargetIndex(k) : TRUE)]

\* Mutant: every branch is taken for an unconditional one.
BranchSuccessorsTaken(s, k) == Taken(k)

BranchSuccessors(s, k) == Taken(k) \o (IF IsConditional(k) THEN FallThrough(s) ELSE <<>>)

Successors(s) ==
    LET last == EndOf(s) - 1
    IN  CASE Instr(last).op = "Exit" -> <<>>
          [] Instr(last).op = "Bra"  -> BranchSuccessors(s, last)
          [] OTHER                   -> FallThrough(s)

Cut ==
    /\ pc = "cut"
    /\ start < N
    /\ blocks' = Append(blocks,
            [id |-> Len(blocks), start |-> start, end |-> EndOf(start),
             start_address |-> Instr(start).address, successors |-> Successors(start)])
    /\ start' = EndOf(start)
    /\ UNCHANGED <<pc, ir, i, leaders>>

EndCut ==
    /\ pc = "cut"
    /\ start = N
    /\ pc' = "done"
    /\ UNCHANGED <<ir, i, leaders, start, blocks>>

Next == Scan \/ EndScan \/ Cut \/ EndCut

Spec == Init /\ [][Next]_vars

-----------------------------------------------------------------------------
TypeOK ==
    /\ pc \in {"scan", "cut", "done"}
    /\ i \in 0..N
    /\ leaders \subseteq Indices \cup {0}
    /\ start \in leaders \cup {N}
    /\ \A b \in DOMAIN blocks :
         blocks[b].start \in Indices /\ blocks[b].end \in 1..N

\* The blocks cut so far cover the stream up to "start" without gap or overlap,
\* in order: every instruction ends up in exactly one block.
BlocksTile ==
    /\ blocks # <<>> => blocks[1].start = 0 /\ blocks[Len(blocks)].end = start
    /\ \A b \in DOMAIN blocks :
         /\ blocks[b].start < blocks[b].end
         /\ b > 1 => blocks[b].start = blocks[b - 1].end
    /\ pc = "done" => start = N

\* ir.rs:116: a block is straight-line with one entry point.  No branch lands
\* inside a block and no instruction but the last one transfers control.
OneEntryOneExit ==
    \A b \in DOMAIN blocks : \A k \in blocks[b].start..(blocks[b].end - 1) :
        /\ k < blocks[b].end - 1 => ~Transfers(k)
        /\ k > blocks[b].start =>
             \A j \in Indices : Instr(j).op = "Bra" => k \notin TargetIndex(j)

\* Where the machine may go after instruction k (a set of indices).  The guard
\* PT inverted never holds.
MayRun(k)  == ~(Instr(k).guard = PT /\ Instr(k).inv)
MaySkip(k) == IsConditional(k)

Flow(k) ==
    (IF Instr(k).op = "Bra" /\ MayRun(k) THEN TargetIndex(k) ELSE {})
    \cup (IF ~Transfers(k) \/ MaySkip(k) THEN {k + 1} \cap Indices ELSE {})

StartsOf(successors) == {blocks[s + 1].start : s \in {successors[x] : x \in DOMAIN successors}}

\* The successors of a block are exactly the blocks control may reach from its
\* last instruction: none is missing, none is made up, and no id dangles.
\* Left out: a guarded EXIT, whose block gets no successor although control may go on
\* (ir.rs:320-322), and a branch under @!PT, which the code takes for a conditional one.
SuccessorsExact ==
    pc = "done" => \A b \in DOMAIN blocks :
        LET last == blocks[b].end - 1
        IN  /\ \A x \in DOMAIN blocks[b].successors : blocks[b].successors[x] + 1 \in DOMAIN blocks
            /\ ~(Instr(last).op = "Exit" /\ IsConditional(last)) /\ MayRun(last) =>
                 StartsOf(blocks[b].successors) = Flow(last)
=============================================================================
