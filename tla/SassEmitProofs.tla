-------------------------- MODULE SassEmitProofs ---------------------------
(***************************************************************************)
(* What is proved of the control-flow graph (SassCfg), on its own and      *)
(* inside the emitter (SassEmit), and the invariant of the emitter: what   *)
(* it writes is legal at every stage. All of it for every program.         *)
(***************************************************************************)
EXTENDS SassLift, DataInduction, FiniteSetTheorems

-----------------------------------------------------------------------------
\* The stream.

\* A branch has at most one target in the function.
OneTarget == \A k \in Indices : TargetIndex(k) = {} \/ \E t \in Indices : TargetIndex(k) = {t}

Streamed == N \in Nat /\ OneTarget /\ \A k \in Indices : Instr(k).address \in Nat

\* A target is a multiple of 16, so the address it names is one instruction's, the
\* saturated addresses included: U32Max is no multiple of 16.
LEMMA AddressesDiffer ==
    ASSUME NEW j \in Nat, NEW k \in Nat, NEW t \in Nat, t % 16 = 0,
           t = IF j * 16 > U32Max THEN U32Max ELSE j * 16,
           t = IF k * 16 > U32Max THEN U32Max ELSE k * 16
    PROVE  j = k
<1>1. t # U32Max
    BY U32MaxAssumption
<1> QED
    BY <1>1

\* The lowering gives every instruction its address and a branch at most one target.
LEMMA LoweredStream ==
    ASSUME NEW d \in Programs, ir = LowerStream(d)
    PROVE  Streamed
<1>1. d \in Seq(DecodedInstruction)
    BY ProgramsAssumption
<1>2. DOMAIN d = 1..Len(d) /\ Len(d) \in Nat
    BY <1>1
<1>3. DOMAIN ir = 1..Len(d)
    BY <1>2 DEF LowerStream
<1>4. Len(ir) = Len(d)
    <2> DEFINE S == {ir[x] : x \in 1..Len(d)}
               n == Len(d)
    <2>1. ir \in [1..n -> S]
        BY <1>2, <1>3 DEF LowerStream
    <2>2. n \in Nat
        BY <1>2
    <2> HIDE DEF S, n
    <2>3. ir \in Seq(S) /\ Len(ir) = n
        BY <2>1, <2>2
    <2> QED
        BY <2>3 DEF n
<1>5. N \in Nat /\ N = Len(d)
    BY <1>2, <1>4 DEF N
<1>6. \A k \in Indices :
        Instr(k) = LowerToIr(d[k + 1], IF k * 16 > U32Max THEN U32Max ELSE k * 16)
    <2> SUFFICES ASSUME NEW k \in Indices
                 PROVE  Instr(k) = LowerToIr(d[k + 1], IF k * 16 > U32Max THEN U32Max ELSE k * 16)
        OBVIOUS
    <2>1. k \in Nat /\ k + 1 \in DOMAIN d /\ (k + 1) - 1 = k
        BY <1>2, <1>5 DEF Indices
    <2>2. Instr(k) = LowerToIr(d[k + 1], IF ((k + 1) - 1) * 16 > U32Max THEN U32Max ELSE ((k + 1) - 1) * 16)
        BY <2>1 DEF Instr, LowerStream
    <2> QED
        BY <2>1, <2>2
<1>7. ASSUME NEW k \in Indices
      PROVE  /\ Instr(k).address = IF k * 16 > U32Max THEN U32Max ELSE k * 16
             /\ \/ Instr(k).target = None
                \/ \E t \in Nat : t % 16 = 0 /\ Instr(k).target = Some(t)
    <2> DEFINE a == IF k * 16 > U32Max THEN U32Max ELSE k * 16
               e == d[k + 1]
    <2>1. e \in DecodedInstruction
        <3>1. k + 1 \in 1..Len(d)
            BY <1>2, <1>5 DEF Indices
        <3>2. \A S : \A q \in Seq(S) : \A x \in 1..Len(q) : q[x] \in S
            BY ElementOfSeq
        <3> QED
            BY <1>1, <3>1, <3>2
    <2>2. e.target_offset \in Nat
        <3>1. e.target_offset \in 0..(2 ^ 30 - 1)
            BY <2>1 DEF DecodedInstruction
        <3> QED
            BY <3>1
    <2>3. a \in Nat
        BY U32MaxAssumption DEF Indices
    <2>4. Instr(k) = LowerToIr(e, a)
        BY <1>6
    <2> HIDE DEF a, e
    <2>5. Instr(k).address = a
        BY <2>4 DEF LowerToIr
    <2>6. Instr(k).target = None \/ Instr(k).target = ResolveBranchTarget(a, e.target_offset)
        BY <2>4 DEF LowerToIr
    <2> DEFINE t == a + e.target_offset
    <2>7. \/ ResolveBranchTarget(a, e.target_offset) = None
          \/ t % 16 = 0 /\ ResolveBranchTarget(a, e.target_offset) = Some(t)
        BY DEF ResolveBranchTarget
    <2>8. t \in Nat
        BY <2>2, <2>3
    <2> HIDE DEF t
    <2>9. \/ Instr(k).target = None
          \/ \E x \in Nat : x % 16 = 0 /\ Instr(k).target = Some(x)
        BY <2>6, <2>7, <2>8
    <2> QED
        BY <2>5, <2>9 DEF a
<1>9. \A k \in Indices : Instr(k).address \in Nat
    BY <1>7, U32MaxAssumption DEF Indices
<1>8. ASSUME NEW k \in Indices
      PROVE  TargetIndex(k) = {} \/ \E t \in Indices : TargetIndex(k) = {t}
    <2>1. CASE Instr(k).target = None
        BY <2>1 DEF TargetIndex
    <2>2. CASE Instr(k).target # None
        <3>1. PICK t \in Nat : t % 16 = 0 /\ Instr(k).target = Some(t)
            BY <1>7, <2>2
        <3>2. TargetIndex(k) = {j \in Indices : Instr(j).address = t}
            BY <2>2, <3>1 DEF TargetIndex, IndexAt, Some
        <3>3. \A j, h \in TargetIndex(k) : j = h
            <4> SUFFICES ASSUME NEW j \in Indices, NEW h \in Indices,
                                Instr(j).address = t, Instr(h).address = t
                         PROVE  j = h
                BY <3>2
            <4>1. j \in Nat /\ h \in Nat
                BY DEF Indices
            <4>2. /\ t = IF j * 16 > U32Max THEN U32Max ELSE j * 16
                  /\ t = IF h * 16 > U32Max THEN U32Max ELSE h * 16
                BY <1>7
            <4> QED
                BY <3>1, <4>1, <4>2, AddressesDiffer
        <3> QED
            BY <3>2, <3>3
    <2> QED
        BY <2>1, <2>2
<1> QED
    BY <1>5, <1>8, <1>9 DEF Streamed, OneTarget

-----------------------------------------------------------------------------
\* The leaders.

\* The block that starts at s ends at e.
IsEnd(s, e) ==
    /\ e \in leaders \cup {N} /\ s < e
    /\ \A l \in leaders : s < l => e <= l

\* What the scan keeps: the leaders of the instructions read so far are there.
Scanned ==
    /\ pc \in {"scan", "cut", "done"}
    /\ i \in 0..N
    /\ leaders \subseteq Indices \cup {0} /\ 0 \in leaders
    /\ \A k \in 0..(i - 1) : Transfers(k) => LeadersFrom(k) \subseteq leaders
    /\ pc # "scan" => i = N
    /\ pc = "scan" => blocks = <<>> /\ start = 0
    /\ pc # "done" => N > 0

\* What EndOf chooses exists: the end of the stream is behind every leader.
LEMMA EndOfBlock ==
    ASSUME Streamed, leaders \subseteq Indices \cup {0}, NEW s \in Int, -1 <= s, s < N
    PROVE  EndOf(s) \in Nat /\ EndOf(s) <= N /\ IsEnd(s, EndOf(s))
<1> DEFINE T == {e \in leaders \cup {N} : e > s}
<1>1. N \in Nat /\ leaders \subseteq 0..N
    BY DEF Streamed, Indices
<1>10. \A x \in leaders \cup {N} : x \in Nat /\ x <= N
    BY <1>1
<1>2. T \in SUBSET Nat /\ N \in T
    <2>1. T \subseteq leaders \cup {N}
        OBVIOUS
    <2>2. N > s /\ N \in leaders \cup {N}
        BY <1>1
    <2>3. N \in T
        BY <2>2
    <2> HIDE DEF T
    <2> QED
        BY <1>10, <2>1, <2>3
<1>3. PICK e \in T : \A y \in T : e <= y
    <2> HIDE DEF T
    <2> QED
        BY <1>2, LeastNatural
<1>4. e \in leaders \cup {N} /\ e > s /\ \A l \in leaders \cup {N} : l > s => e <= l
    BY <1>3
<1>5. /\ EndOf(s) \in leaders \cup {N} /\ EndOf(s) > s
      /\ \A l \in leaders \cup {N} : l > s => EndOf(s) <= l
    BY <1>4, Zenon DEF EndOf
<1>6. EndOf(s) \in Nat /\ EndOf(s) <= N
    BY <1>10, <1>5
<1> HIDE DEF T
<1>7. IsEnd(s, EndOf(s))
    BY <1>1, <1>5, <1>6 DEF IsEnd
<1> QED
    BY <1>6, <1>7

\* From one leader to the next the rank grows by one.
LEMMA NextRank ==
    ASSUME NEW L, NEW n \in Nat, L \subseteq 0..n, NEW s \in L, NEW e \in Nat, s < e,
           \A l \in L : s < l => e <= l
    PROVE  /\ Cardinality({l \in L : l < s}) \in Nat
           /\ Cardinality({l \in L : l < e}) = Cardinality({l \in L : l < s}) + 1
<1> DEFINE Below == {l \in L : l < s}
<1>1. IsFiniteSet(0..n)
    BY FS_Interval
<1>2. Below \in SUBSET (0..n)
    OBVIOUS
<1>3. IsFiniteSet(Below)
    BY <1>1, <1>2, FS_Subset
<1>4. {l \in L : l < e} = Below \cup {s} /\ s \notin Below
    <2>1. \A l \in L : l \in Nat
        OBVIOUS
    <2>2. \A l \in L : l < e <=> l < s \/ l = s
        BY <2>1
    <2>3. ~(s < s)
        BY <2>1
    <2> QED
        BY <2>2, <2>3
<1> HIDE DEF Below
<1>5. Cardinality(Below \cup {s}) = Cardinality(Below) + 1 /\ Cardinality(Below) \in Nat
    BY <1>3, <1>4, FS_AddElement, FS_CardinalityType
<1> QED
    BY <1>4, <1>5 DEF Below

\* A block's id is a number.
LEMMA BlockIdType ==
    ASSUME Streamed, leaders \subseteq Indices \cup {0}, NEW s
    PROVE  BlockId(s) \in Nat
<1>1. IsFiniteSet(0..N) /\ leaders \subseteq 0..N
    BY FS_Interval DEF Streamed, Indices
<1>2. {l \in leaders : l < s} \in SUBSET (0..N)
    BY <1>1
<1>3. IsFiniteSet({l \in leaders : l < s})
    BY <1>1, <1>2, FS_Subset
<1> QED
    BY <1>3, FS_CardinalityType DEF BlockId

\* The indices control may go to after the last instruction of a block, as the code
\* counts them: none after an exit.
Reached(last) ==
    IF Instr(last).op = "Exit" THEN {}
    ELSE IF Instr(last).op = "Bra"
    THEN TargetIndex(last) \cup (IF IsConditional(last) THEN {last + 1} \cap Indices ELSE {})
    ELSE {last + 1} \cap Indices

\* q lists the ids of the blocks that start at the members of S.
Lists(q, S) ==
    /\ q \in Seq(Nat)
    /\ {q[x] : x \in DOMAIN q} = {BlockId(t) : t \in S}

\* The successors of a block, as the code computes them, are the blocks reached.
LEMMA SuccessorsReached ==
    ASSUME Streamed, leaders \subseteq Indices \cup {0}, NEW s \in Nat, s < N
    PROVE  Lists(Successors(s), Reached(EndOf(s) - 1))
<1> DEFINE e == EndOf(s)
           last == e - 1
<1>1. e \in Nat /\ e <= N /\ s < e
    BY EndOfBlock DEF IsEnd
<1>2. last \in Indices /\ last + 1 = e /\ N \in Nat
    BY <1>1 DEF Indices, Streamed
<1>3. {last + 1} \cap Indices = IF e < N THEN {e} ELSE {}
    BY <1>1, <1>2 DEF Indices
<1>4. \A t : BlockId(t) \in Nat
    BY BlockIdType
<1>5. FallThrough(s) = IF e < N THEN <<BlockId(e)>> ELSE <<>>
    BY DEF FallThrough
<1> HIDE DEF e
<1>6. \/ Taken(last) = <<>> /\ TargetIndex(last) = {}
      \/ \E t \in Indices : Taken(last) = <<BlockId(t)>> /\ TargetIndex(last) = {t}
    <2>1. CASE TargetIndex(last) = {}
        <3>1. Cardinality(TargetIndex(last)) = 0
            BY <2>1, FS_EmptySet
        <3> QED
            BY <2>1, <3>1 DEF Taken
    <2>2. CASE TargetIndex(last) # {}
        <3>1. PICK t \in Indices : TargetIndex(last) = {t}
            BY <1>2, <2>2 DEF Streamed, OneTarget
        <3>2. Cardinality(TargetIndex(last)) = 1
            BY <3>1, FS_Singleton
        <3>3. (CHOOSE u \in TargetIndex(last) : TRUE) = t
            BY <3>1
        <3>4. Taken(last) = [x \in 1..Cardinality(TargetIndex(last)) |->
                                BlockId(CHOOSE u \in TargetIndex(last) : TRUE)]
            BY DEF Taken
        <3>5. Taken(last) = [x \in 1..1 |-> BlockId(t)]
            BY <3>2, <3>3, <3>4, Zenon
        <3>6. Taken(last) = <<BlockId(t)>>
            BY <3>5
        <3> QED
            BY <3>1, <3>6
    <2> QED
        BY <2>1, <2>2
<1>7. CASE Instr(last).op = "Exit"
    <2>1. Successors(s) = <<>> /\ Reached(last) = {}
        BY <1>7 DEF Successors, Reached, e
    <2> QED
        BY <2>1 DEF Lists, e
<1>8. CASE Instr(last).op = "Bra"
    <2> DEFINE goes == IsConditional(last) /\ e < N
               fall == IF goes THEN {e} ELSE {}
               code == IF goes THEN <<BlockId(e)>> ELSE <<>>
    <2>1. Successors(s) = BranchSuccessors(s, last)
        BY <1>8 DEF Successors, e
    <2>2. Successors(s) = Taken(last) \o code
        BY <1>5, <2>1 DEF BranchSuccessors
    <2>3. Reached(last) = TargetIndex(last) \cup fall
        BY <1>3, <1>8 DEF Reached
    <2>4. \/ fall = {} /\ code = <<>>
          \/ fall = {e} /\ code = <<BlockId(e)>>
        <3> HIDE DEF goes
        <3>1. CASE goes
            BY <3>1
        <3>2. CASE ~goes
            BY <3>2
        <3> QED
            BY <3>1, <3>2
    <2> HIDE DEF fall, code
    <2>5. Lists(Taken(last) \o code, TargetIndex(last) \cup fall)
        <3>1. CASE Taken(last) = <<>> /\ TargetIndex(last) = {}
            <4>1. CASE fall = {} /\ code = <<>>
                <5>1. <<>> \o <<>> = <<>> /\ {} \cup {} = {}
                    OBVIOUS
                <5>2. Lists(<<>>, {})
                    BY DEF Lists
                <5> QED
                    BY <3>1, <4>1, <5>1, <5>2
            <4>2. CASE fall = {e} /\ code = <<BlockId(e)>>
                <5>1. Lists(<<BlockId(e)>>, {e})
                    BY <1>4 DEF Lists
                <5>2. <<>> \o <<BlockId(e)>> = <<BlockId(e)>> /\ {} \cup {e} = {e}
                    BY <1>4
                <5> QED
                    BY <3>1, <4>2, <5>1, <5>2
            <4> QED
                BY <2>4, <4>1, <4>2
        <3>2. ASSUME NEW t \in Indices, Taken(last) = <<BlockId(t)>>, TargetIndex(last) = {t}
              PROVE  Lists(Taken(last) \o code, TargetIndex(last) \cup fall)
            <4>1. CASE fall = {} /\ code = <<>>
                <5>1. Lists(<<BlockId(t)>>, {t})
                    BY <1>4 DEF Lists
                <5>2. <<BlockId(t)>> \o <<>> = <<BlockId(t)>> /\ {t} \cup {} = {t}
                    BY <1>4
                <5> QED
                    BY <3>2, <4>1, <5>1, <5>2
            <4>2. CASE fall = {e} /\ code = <<BlockId(e)>>
                <5> DEFINE a == BlockId(t)
                           b == BlockId(e)
                <5>1. a \in Nat /\ b \in Nat
                    BY <1>4
                <5>2. {BlockId(u) : u \in {t} \cup {e}} = {a, b}
                    OBVIOUS
                <5> HIDE DEF a, b
                <5>3. <<a>> \o <<b>> = <<a, b>> /\ <<a, b>> \in Seq(Nat) /\ DOMAIN <<a, b>> = {1, 2}
                    <6> DEFINE q == <<a>>
                    <6>1. q \in Seq(Nat) /\ Len(q) = 1 /\ q[1] = a
                        BY <5>1
                    <6>2. /\ q \o <<b>> = Append(q, b) /\ Append(q, b) \in Seq(Nat)
                          /\ Len(Append(q, b)) = 2 /\ Append(q, b)[1] = a /\ Append(q, b)[2] = b
                        BY <5>1, <6>1, AppendIsConcat, AppendProperties
                    <6>3. <<a, b>> \in Seq(Nat) /\ Len(<<a, b>>) = 2 /\ DOMAIN <<a, b>> = {1, 2}
                        BY <5>1
                    <6>4. <<a, b>>[1] = a /\ <<a, b>>[2] = b
                        OBVIOUS
                    <6>5. Append(q, b) = <<a, b>>
                        <7> DEFINE u == Append(q, b)
                                   v == <<a, b>>
                        <7>1. u \in Seq(Nat) /\ v \in Seq(Nat) /\ Len(u) = 2 /\ Len(v) = 2
                              /\ u[1] = v[1] /\ u[2] = v[2]
                            BY <6>2, <6>3, <6>4
                        <7> HIDE DEF u, v
                        <7>2. \A k \in 1..Len(u) : u[k] = v[k]
                            BY <7>1
                        <7>3. u = v
                            BY <7>1, <7>2, SeqEqual
                        <7> QED
                            BY <7>3 DEF u, v
                    <6> QED
                        BY <6>2, <6>3, <6>5
                <5>4. {<<a, b>>[x] : x \in {1, 2}} = {a, b}
                    OBVIOUS
                <5>5. Lists(<<a, b>>, {t} \cup {e})
                    BY <5>2, <5>3, <5>4 DEF Lists
                <5> QED
                    BY <3>2, <4>2, <5>3, <5>5 DEF a, b
            <4> QED
                BY <2>4, <4>1, <4>2
        <3> QED
            BY <1>6, <3>1, <3>2
    <2> QED
        BY <2>2, <2>3, <2>5 DEF e
<1>9. CASE Instr(last).op # "Exit" /\ Instr(last).op # "Bra"
    <2>1. Successors(s) = FallThrough(s) /\ Reached(last) = {last + 1} \cap Indices
        BY <1>9 DEF Successors, Reached, e
    <2>2. CASE e < N
        <3>1. Successors(s) = <<BlockId(e)>> /\ Reached(last) = {e}
            BY <1>3, <1>5, <2>1, <2>2
        <3>2. Lists(<<BlockId(e)>>, {e})
            BY <1>4 DEF Lists
        <3> QED
            BY <3>1, <3>2 DEF e
    <2>3. CASE ~(e < N)
        <3>1. Successors(s) = <<>> /\ Reached(last) = {}
            BY <1>3, <1>5, <2>1, <2>3
        <3> QED
            BY <3>1 DEF Lists, e
    <2> QED
        BY <2>2, <2>3
<1> QED
    BY <1>7, <1>8, <1>9 DEF e

-----------------------------------------------------------------------------
\* The blocks.

Block == [id : Nat, start : Nat, end : Nat, start_address : Nat, successors : Seq(Nat)]

\* blk is right as block number b (from 1) when the block before it ends at "from".
CutAt(blk, b, from) ==
    /\ blk.start = from /\ from \in leaders /\ from \in Indices
    /\ IsEnd(from, blk.end)
    /\ BlockId(from) = b - 1
    /\ Lists(blk.successors, Reached(blk.end - 1))

Before(b) == IF b = 1 THEN 0 ELSE blocks[b - 1].end

Right(b) == CutAt(blocks[b], b, Before(b))

Cutting ==
    /\ blocks \in Seq(Block)
    /\ start \in leaders \cup {N} /\ start = Before(Len(blocks) + 1)
    /\ BlockId(start) = Len(blocks)
    /\ \A b \in 1..Len(blocks) : Right(b)
    /\ \A l \in leaders : l < start => \E b \in 1..Len(blocks) : blocks[b].start = l
    /\ pc = "done" => start = N

CfgInv == Streamed /\ Scanned /\ Cutting

\* Before the first cut there is nothing to say of the blocks.
LEMMA NothingCut ==
    Streamed /\ Scanned /\ blocks = <<>> /\ start = 0 /\ (pc = "done" => N = 0) => Cutting
<1> SUFFICES ASSUME Streamed, Scanned, blocks = <<>>, start = 0, pc = "done" => N = 0
             PROVE  Cutting
    OBVIOUS
<1>1. Len(blocks) = 0 /\ blocks \in Seq(Block)
    OBVIOUS
<1>2. {l \in leaders : l < 0} = {}
    <2>1. \A l \in leaders : l \in Nat
        BY DEF Streamed, Scanned, Indices
    <2> QED
        BY <2>1
<1>3. BlockId(start) = 0
    BY <1>2, FS_EmptySet DEF BlockId
<1>4. \A l \in leaders : ~(l < start)
    BY <1>2
<1>5. 0 \in leaders /\ Before(Len(blocks) + 1) = 0
    BY <1>1 DEF Scanned, Before
<1> QED
    BY <1>1, <1>3, <1>4, <1>5 DEF Cutting

\* The same of the next state.
LEMMA NothingCutNext ==
    (Streamed /\ Scanned /\ blocks = <<>> /\ start = 0 /\ (pc = "done" => N = 0))' => Cutting'
BY NothingCut, PTL

\* The invariant holds where the blocks are begun.
LEMMA CfgInitial ==
    ASSUME NEW d \in Programs, BuildCfg(d)
    PROVE  CfgInv
<1>1. Streamed /\ i = 0 /\ leaders = {0} /\ start = 0 /\ blocks = <<>>
    BY LoweredStream DEF BuildCfg, FirstLeader
<1>2. pc = IF ir = <<>> THEN "done" ELSE "scan"
    BY DEF BuildCfg
<1>3. ir = <<>> <=> N = 0
    <2>1. d \in Seq(DecodedInstruction)
        BY ProgramsAssumption
    <2>2. ir = LowerStream(d)
        BY DEF BuildCfg
    <2> DEFINE S == {ir[x] : x \in 1..Len(d)}
               n == Len(d)
    <2>3. ir \in [1..n -> S] /\ n \in Nat
        BY <2>1, <2>2 DEF LowerStream
    <2> HIDE DEF S, n
    <2>4. ir \in Seq(S)
        BY <2>3
    <2> QED
        BY <2>4, EmptySeq DEF N
<1>4. Scanned
    BY <1>1, <1>2, <1>3 DEF Scanned, Streamed
<1> QED
    BY <1>1, <1>2, <1>3, <1>4, NothingCut DEF CfgInv

\* What depends on the stream and the leaders only.
LEMMA SameStream ==
    ASSUME Streamed, ir' = ir
    PROVE  /\ Streamed' /\ N' = N /\ Indices' = Indices
           /\ \A k : Instr(k)' = Instr(k)
           /\ \A k : (Transfers(k) <=> Transfers(k)')
           /\ \A k : TargetIndex(k)' = TargetIndex(k)
           /\ \A k : LeadersFrom(k)' = LeadersFrom(k)
           /\ \A k : Reached(k)' = Reached(k)
<1>1. N' = N /\ Indices' = Indices /\ \A k : Instr(k)' = Instr(k)
    BY DEF N, Indices, Instr
<1>2. \A k : TargetIndex(k)' = TargetIndex(k)
    BY <1>1 DEF TargetIndex, IndexAt
<1>3. \A k : LeadersFrom(k)' = LeadersFrom(k)
    BY <1>1, <1>2 DEF LeadersFrom
<1>4. \A k : (IsConditional(k) <=> IsConditional(k)') /\ (Transfers(k) <=> Transfers(k)')
    BY <1>1 DEF IsConditional, Transfers
<1>5. \A k : Reached(k)' = Reached(k)
    BY <1>1, <1>2, <1>4 DEF Reached
<1>6. Streamed'
    BY <1>1, <1>2 DEF Streamed, OneTarget
<1> QED
    BY <1>1, <1>2, <1>3, <1>4, <1>5, <1>6

\* What rests on the leaders stays while they do.
LEMMA SameLeaders ==
    ASSUME Streamed, ir' = ir, leaders' = leaders
    PROVE  /\ \A s : BlockId(s)' = BlockId(s)
           /\ \A s, e : IsEnd(s, e) => IsEnd(s, e)'
           /\ \A q, S : Lists(q, S) => Lists(q, S)'
           /\ \A blk, b, from : CutAt(blk, b, from) => CutAt(blk, b, from)'
<1>1. \A s : BlockId(s)' = BlockId(s)
    BY DEF BlockId
<1>2. \A s, e : IsEnd(s, e) => IsEnd(s, e)'
    BY SameStream DEF IsEnd
<1>3. \A q, S : Lists(q, S) => Lists(q, S)'
    BY <1>1 DEF Lists
<1>4. \A blk, b, from : CutAt(blk, b, from) => CutAt(blk, b, from)'
    BY <1>1, <1>2, <1>3, SameStream DEF CutAt
<1> QED
    BY <1>1, <1>2, <1>3, <1>4

\* A block is right when what its record and its start are, now or next, is.
LEMMA RightByParts ==
    \A b : (\A blk, from : blk = blocks[b] /\ from = Before(b) => CutAt(blk, b, from)) => Right(b)
BY DEF Right

\* The same of the next state.
LEMMA RightByPartsNext ==
    (\A b : (\A blk, from : blk = blocks[b] /\ from = Before(b) => CutAt(blk, b, from)) => Right(b))'
BY RightByParts, PTL

\* A step of the scan.
LEMMA ScanKeeps ==
    ASSUME CfgInv, Scan
    PROVE  CfgInv'
<1>1. Streamed /\ Scanned /\ Cutting
    BY DEF CfgInv
<1>2. /\ pc = "scan" /\ i < N /\ i' = i + 1 /\ UNCHANGED <<pc, ir, start, blocks>>
      /\ leaders' = leaders \cup (IF Transfers(i) THEN LeadersFrom(i) ELSE {})
    BY DEF Scan
<1>3. Streamed' /\ N' = N /\ Indices' = Indices
    BY <1>1, <1>2, SameStream
<1>4. i \in Nat /\ N \in Nat /\ i' - 1 = i
    BY <1>1, <1>2 DEF Scanned, Streamed
<1>5. ASSUME NEW k \in 0..(i' - 1), Transfers(k)'
      PROVE  LeadersFrom(k)' \subseteq leaders'
    <2>1. Transfers(k) /\ LeadersFrom(k)' = LeadersFrom(k)
        BY <1>1, <1>2, <1>5, SameStream
    <2>2. CASE k = i
        BY <1>2, <2>1, <2>2
    <2>3. CASE k # i
        <3>1. k \in 0..(i - 1)
            BY <1>4, <2>3
        <3> QED
            BY <1>1, <1>2, <2>1, <3>1 DEF Scanned
    <2> QED
        BY <2>2, <2>3
<1>6. leaders' \subseteq Indices' \cup {0} /\ 0 \in leaders'
    BY <1>1, <1>2, <1>3 DEF Scanned, LeadersFrom
<1>7. i' \in 0..N'
    BY <1>2, <1>3, <1>4
<1>8. blocks' = <<>> /\ start' = 0 /\ pc' = "scan" /\ N' > 0
    BY <1>1, <1>2, <1>3 DEF Scanned
<1>9. Scanned'
    BY <1>5, <1>6, <1>7, <1>8 DEF Scanned
<1> QED
    BY <1>3, <1>8, <1>9, NothingCutNext DEF CfgInv

\* The scan is over: the first block starts at the first leader, which is 0.
LEMMA EndScanKeeps ==
    ASSUME CfgInv, EndScan
    PROVE  CfgInv'
<1>1. Streamed /\ Scanned /\ Cutting
    BY DEF CfgInv
<1>2. pc = "scan" /\ i = N /\ pc' = "cut" /\ start' = EndOf(-1) /\ UNCHANGED <<ir, i, leaders, blocks>>
    BY DEF EndScan
<1>3. Streamed' /\ N' = N /\ Indices' = Indices
    BY <1>1, <1>2, SameStream
<1>4. start' = 0
    <2>1. N > 0 /\ 0 \in leaders /\ leaders \subseteq Indices \cup {0} /\ N \in Nat
        BY <1>1, <1>2 DEF Scanned, Streamed
    <2>2. EndOf(-1) \in Nat /\ IsEnd(-1, EndOf(-1))
        BY <1>1, <2>1, EndOfBlock
    <2>3. EndOf(-1) <= 0
        BY <2>1, <2>2 DEF IsEnd
    <2> QED
        BY <1>2, <2>2, <2>3
<1>5. Scanned'
    <2>1. \A k \in 0..(i' - 1) : Transfers(k)' => LeadersFrom(k)' \subseteq leaders'
        BY <1>1, <1>2, SameStream DEF Scanned
    <2> QED
        BY <1>1, <1>2, <1>3, <1>4, <2>1 DEF Scanned
<1>6. blocks' = <<>> /\ pc' = "cut"
    BY <1>1, <1>2 DEF Scanned
<1> QED
    BY <1>3, <1>4, <1>5, <1>6, NothingCutNext DEF CfgInv

\* A block is cut: it is right, and so are those before it.
LEMMA CutKeeps ==
    ASSUME CfgInv, Cut
    PROVE  CfgInv'
<1>1. Streamed /\ Scanned /\ Cutting
    BY DEF CfgInv
<1> DEFINE e == EndOf(start)
           blk == [id |-> Len(blocks), start |-> start, end |-> e,
                   start_address |-> Instr(start).address, successors |-> Successors(start)]
           n == Len(blocks)
<1>2. /\ pc = "cut" /\ start < N /\ blocks' = Append(blocks, blk)
      /\ start' = e /\ UNCHANGED <<pc, ir, i, leaders>>
    BY DEF Cut
<1>3. Streamed' /\ N' = N /\ Indices' = Indices
    BY <1>1, <1>2, SameStream
<1>4. /\ start \in leaders /\ start \in Nat /\ N \in Nat /\ start \in Indices
      /\ leaders \subseteq Indices \cup {0} /\ leaders \subseteq 0..N
    <2>1. /\ N \in Nat /\ start \in leaders \cup {N} /\ start < N
          /\ leaders \subseteq Indices \cup {0} /\ N > 0
        BY <1>1, <1>2 DEF Cutting, Streamed, Scanned
    <2>2. start # N /\ \A l \in leaders : l \in 0..N /\ l \in Nat
        BY <2>1 DEF Indices
    <2>3. start \in leaders
        BY <2>1, <2>2
    <2> QED
        BY <2>1, <2>2, <2>3 DEF Indices
<1>5. e \in Nat /\ e <= N /\ IsEnd(start, e) /\ start < e
    BY <1>1, <1>2, <1>4, EndOfBlock DEF IsEnd
<1>6. Lists(Successors(start), Reached(e - 1))
    BY <1>1, <1>2, <1>4, SuccessorsReached
<1>7. BlockId(e) = BlockId(start) + 1
    BY <1>4, <1>5, NextRank DEF BlockId, IsEnd
<1>8. blk \in Block
    <2>1. Instr(start).address \in Nat /\ Successors(start) \in Seq(Nat)
        BY <1>1, <1>4, <1>6 DEF Streamed, Lists
    <2>2. Len(blocks) \in Nat
        BY <1>1, LenProperties DEF Cutting
    <2> HIDE DEF e
    <2> QED
        BY <1>4, <1>5, <2>1, <2>2 DEF Block
<1>9. blk.start = start /\ blk.end = e /\ blk.successors = Successors(start)
    BY DEF blk
<1> HIDE DEF blk, e
<1>10. n \in Nat /\ blocks \in Seq(Block)
    BY <1>1, LenProperties DEF Cutting
<1>11. /\ blocks' \in Seq(Block) /\ Len(blocks') = n + 1
       /\ \A b \in 1..n : blocks'[b] = blocks[b]
       /\ blocks'[n + 1] = blk
    BY <1>2, <1>8, <1>10, AppendProperties
<1> HIDE DEF n
<1>12. start = Before(n + 1) /\ BlockId(start) = n
    BY <1>1 DEF Cutting, n
<1>13. \A b \in 1..(n + 1) : Before(b)' = Before(b)
    <2> SUFFICES ASSUME NEW b \in 1..(n + 1)
                 PROVE  Before(b)' = Before(b)
        OBVIOUS
    <2>1. CASE b = 1
        BY <2>1 DEF Before
    <2>2. CASE b # 1
        <3>1. b - 1 \in 1..n
            BY <1>10, <2>2
        <3> QED
            BY <1>11, <2>2, <3>1 DEF Before
    <2> QED
        BY <2>1, <2>2
<1>14. CutAt(blk, n + 1, start)
    <2>1. BlockId(start) = (n + 1) - 1
        BY <1>10, <1>12
    <2> QED
        BY <1>4, <1>5, <1>6, <1>9, <2>1 DEF CutAt
<1>15. ASSUME NEW b \in 1..(n + 1)
       PROVE  Right(b)'
    <2>1. ASSUME NEW x, NEW from, x = blocks'[b], from = Before(b)'
          PROVE  CutAt(x, b, from)'
        <3>1. CutAt(x, b, from)
            <4>1. CASE b = n + 1
                BY <1>11, <1>12, <1>13, <1>14, <2>1, <4>1
            <4>2. CASE b # n + 1
                <5>1. b \in 1..n
                    BY <1>10, <4>2
                <5>2. Right(b)
                    BY <1>1, <5>1 DEF Cutting, n
                <5>3. x = blocks[b] /\ from = Before(b)
                    BY <1>11, <1>13, <2>1, <5>1
                <5> QED
                    BY <5>2, <5>3 DEF Right
            <4> QED
                BY <4>1, <4>2
        <3> QED
            BY <1>1, <1>2, <3>1, SameLeaders
    <2> QED
        BY <2>1, RightByPartsNext
<1>16. start' = Before(Len(blocks) + 1)'
    <2>1. Before(Len(blocks) + 1)' = blocks'[n + 1].end
        <3>1. Before(Len(blocks) + 1)' = IF Len(blocks') + 1 = 1 THEN 0 ELSE blocks'[(Len(blocks') + 1) - 1].end
            BY DEF Before
        <3>2. Len(blocks') + 1 # 1 /\ (Len(blocks') + 1) - 1 = n + 1
            BY <1>10, <1>11
        <3> QED
            BY <3>1, <3>2
    <2> QED
        BY <1>2, <1>9, <1>11, <2>1
<1>17. BlockId(start)' = Len(blocks')
    <2>1. BlockId(start)' = Cardinality({l \in leaders' : l < start'})
        BY DEF BlockId
    <2>2. Cardinality({l \in leaders' : l < start'}) = Cardinality({l \in leaders : l < e})
        BY <1>2
    <2>3. Cardinality({l \in leaders : l < e}) = n + 1
        BY <1>7, <1>12 DEF BlockId
    <2> QED
        BY <1>11, <2>1, <2>2, <2>3
<1>18. ASSUME NEW l \in leaders', l < start'
       PROVE  \E b \in 1..Len(blocks') : blocks'[b].start = l
    <2>1. l \in leaders /\ l \in Nat /\ l < e
        BY <1>2, <1>4, <1>18
    <2>2. CASE l < start
        <3>1. PICK b \in 1..n : blocks[b].start = l
            BY <1>1, <2>1, <2>2 DEF Cutting, n
        <3> QED
            BY <1>10, <1>11, <3>1
    <2>3. CASE ~(l < start)
        <3>1. ~(start < l)
            BY <1>4, <1>5, <2>1 DEF IsEnd
        <3>2. l = start
            BY <1>4, <2>1, <2>3, <3>1
        <3> QED
            BY <1>9, <1>10, <1>11, <3>2
    <2> QED
        BY <2>2, <2>3
<1>19. start' \in leaders' \cup {N'}
    BY <1>2, <1>3, <1>5 DEF IsEnd
<1>20. Cutting'
    <2>1. \A b \in 1..Len(blocks') : Right(b)'
        BY <1>11, <1>15
    <2> QED
        BY <1>2, <1>11, <1>16, <1>17, <1>18, <1>19, <2>1 DEF Cutting
<1>21. Scanned'
    <2>1. \A k \in 0..(i' - 1) : Transfers(k)' => LeadersFrom(k)' \subseteq leaders'
        BY <1>1, <1>2, SameStream DEF Scanned
    <2> QED
        BY <1>1, <1>2, <1>3, <2>1 DEF Scanned
<1> QED
    BY <1>3, <1>20, <1>21 DEF CfgInv

\* The blocks are all cut, or nothing happens.
LEMMA BlocksStay ==
    ASSUME CfgInv, UNCHANGED <<ir, i, leaders, start, blocks>>,
           pc' = pc \/ (pc = "cut" /\ pc' = "done" /\ start = N)
    PROVE  CfgInv'
<1>1. Streamed /\ Scanned /\ Cutting
    BY DEF CfgInv
<1>2. Streamed' /\ N' = N /\ Indices' = Indices
    BY <1>1, SameStream
<1>3. \A b : Before(b)' = Before(b)
    BY DEF Before
<1>4. ASSUME NEW b \in 1..Len(blocks)
      PROVE  Right(b)'
    <2>1. ASSUME NEW x, NEW from, x = blocks'[b], from = Before(b)'
          PROVE  CutAt(x, b, from)'
        <3>1. Right(b) /\ x = blocks[b] /\ from = Before(b)
            BY <1>1, <1>3, <2>1 DEF Cutting
        <3>2. CutAt(x, b, from)
            BY <3>1 DEF Right
        <3> QED
            BY <1>1, <3>2, SameLeaders
    <2> QED
        BY <2>1, RightByPartsNext
<1>5. start' = Before(Len(blocks) + 1)'
    BY <1>1 DEF Cutting, Before
<1>6. BlockId(start)' = Len(blocks')
    <2>1. BlockId(start)' = Cardinality({l \in leaders' : l < start'})
        BY DEF BlockId
    <2>2. Cardinality({l \in leaders' : l < start'}) = Cardinality({l \in leaders : l < start})
        OBVIOUS
    <2>3. Cardinality({l \in leaders : l < start}) = Len(blocks)
        BY <1>1 DEF Cutting, BlockId
    <2> QED
        BY <2>1, <2>2, <2>3
<1>7. Cutting'
    <2>1. \A b \in 1..Len(blocks') : Right(b)'
        BY <1>4
    <2> QED
        BY <1>1, <1>2, <1>5, <1>6, <2>1 DEF Cutting
<1>8. Scanned'
    <2>1. \A k \in 0..(i' - 1) : Transfers(k)' => LeadersFrom(k)' \subseteq leaders'
        BY <1>1, SameStream DEF Scanned
    <2> QED
        BY <1>1, <1>2, <2>1 DEF Scanned
<1> QED
    BY <1>2, <1>7, <1>8 DEF CfgInv

\* The end of the cutting keeps the invariant.
LEMMA EndCutKeeps ==
    ASSUME CfgInv, EndCut
    PROVE  CfgInv'
BY BlocksStay DEF EndCut

\* The graph's invariant holds of SassCfg.
LEMMA CfgInvariant == Spec => []CfgInv
<1>1. Init => CfgInv
    BY CfgInitial DEF Init
<1>2. CfgInv /\ [Next]_vars => CfgInv'
    <2> SUFFICES ASSUME CfgInv, [Next]_vars
                 PROVE  CfgInv'
        OBVIOUS
    <2>1. CASE Scan
        BY <2>1, ScanKeeps
    <2>2. CASE EndScan
        BY <2>2, EndScanKeeps
    <2>3. CASE Cut
        BY <2>3, CutKeeps
    <2>4. CASE EndCut
        BY <2>4, EndCutKeeps
    <2>5. CASE UNCHANGED vars
        BY <2>5, BlocksStay DEF vars
    <2> QED
        BY <2>1, <2>2, <2>3, <2>4, <2>5 DEF Next
<1> QED
    BY <1>1, <1>2, PTL DEF Spec

\* The emitter runs the construction of the graph and leaves its result alone: every
\* behaviour of try_lift is one of build_cfg (lifter.rs:262-265, ir.rs:236-349).
THEOREM EmitterBuildsCfg == EmitSpec => Spec
<1>1. EmitInit => Init
    BY SMTT(30) DEF EmitInit, Init
<1>2. [EmitNext]_<<vars, emitVars>> => [Next]_vars
    BY DEF EmitNext, BuildBlocks, Refuse, FastPath, Prepass, Prologue, Translate, Epilogue,
           Finish, Next
<1> QED
    BY <1>1, <1>2, PTL DEF EmitSpec, Spec

-----------------------------------------------------------------------------
\* What every part of the invariant says of a block.
LEMMA BlockParts ==
    ASSUME CfgInv, NEW b \in 1..Len(blocks)
    PROVE  /\ Len(blocks) \in Nat /\ N \in Nat /\ b \in Nat
           /\ blocks[b].start \in leaders /\ blocks[b].start \in Nat /\ blocks[b].start < N
           /\ blocks[b].end \in Nat /\ blocks[b].end <= N /\ blocks[b].start < blocks[b].end
           /\ blocks[b].end \in leaders \cup {N}
           /\ \A l \in leaders : blocks[b].start < l => blocks[b].end <= l
           /\ blocks[b].start = Before(b)
           /\ BlockId(blocks[b].start) = b - 1
           /\ Lists(blocks[b].successors, Reached(blocks[b].end - 1))
           /\ i = N /\ pc # "scan"
<1>1. Streamed /\ Scanned /\ Cutting
    BY DEF CfgInv
<1>2. Len(blocks) \in Nat /\ N \in Nat
    BY <1>1, LenProperties DEF Cutting, Streamed
<1>3. CutAt(blocks[b], b, Before(b))
    BY <1>1 DEF Cutting, Right
<1>4. blocks # <<>>
    <2>1. Len(blocks) # 0
        BY <1>2
    <2> QED
        BY <2>1
<1>5. i = N /\ pc # "scan"
    BY <1>1, <1>4 DEF Scanned
<1>6. \A l \in leaders \cup {N} : l \in Nat /\ l <= N
    BY <1>1, <1>2 DEF Scanned, Indices
<1>7. blocks[b].start = Before(b) /\ Before(b) \in leaders /\ Before(b) \in Indices
      /\ IsEnd(Before(b), blocks[b].end) /\ BlockId(Before(b)) = b - 1
      /\ Lists(blocks[b].successors, Reached(blocks[b].end - 1))
    BY <1>3 DEF CutAt
<1>8. IsEnd(blocks[b].start, blocks[b].end) /\ BlockId(blocks[b].start) = b - 1
    BY <1>7
<1> QED
    BY <1>2, <1>5, <1>6, <1>7, <1>8 DEF IsEnd, Indices

\* The invariant implies the types.
LEMMA TypesFromInv == CfgInv => TypeOK
<1> SUFFICES ASSUME CfgInv
             PROVE  TypeOK
    OBVIOUS
<1>1. Streamed /\ Scanned /\ Cutting
    BY DEF CfgInv
<1>2. DOMAIN blocks = 1..Len(blocks)
    BY <1>1 DEF Cutting
<1>3. \A b \in DOMAIN blocks : blocks[b].start \in Indices /\ blocks[b].end \in 1..N
    <2> SUFFICES ASSUME NEW b \in 1..Len(blocks)
                 PROVE  blocks[b].start \in Indices /\ blocks[b].end \in 1..N
        BY <1>2
    <2> QED
        BY BlockParts DEF Indices
<1> QED
    BY <1>1, <1>3 DEF TypeOK, Scanned, Cutting

\* It implies that the blocks tile the stream.
LEMMA TileFromInv == CfgInv => BlocksTile
<1> SUFFICES ASSUME CfgInv
             PROVE  BlocksTile
    OBVIOUS
<1>1. Streamed /\ Scanned /\ Cutting
    BY DEF CfgInv
<1>2. DOMAIN blocks = 1..Len(blocks) /\ Len(blocks) \in Nat /\ (blocks # <<>> => Len(blocks) # 0)
    BY <1>1, EmptySeq, LenProperties DEF Cutting
<1>3. ASSUME NEW b \in DOMAIN blocks
      PROVE  /\ blocks[b].start < blocks[b].end
             /\ b > 1 => blocks[b].start = blocks[b - 1].end
    <2>1. b \in 1..Len(blocks) /\ blocks[b].start < blocks[b].end /\ blocks[b].start = Before(b)
        BY <1>2, BlockParts
    <2> QED
        BY <2>1 DEF Before
<1>4. ASSUME blocks # <<>>
      PROVE  blocks[1].start = 0 /\ blocks[Len(blocks)].end = start
    <2>1. 1 \in 1..Len(blocks) /\ Len(blocks) + 1 # 1 /\ (Len(blocks) + 1) - 1 = Len(blocks)
        BY <1>2, <1>4
    <2>2. blocks[1].start = Before(1)
        BY <2>1, BlockParts
    <2>3. start = Before(Len(blocks) + 1)
        BY <1>1 DEF Cutting
    <2> QED
        BY <2>1, <2>2, <2>3 DEF Before
<1> QED
    BY <1>1, <1>3, <1>4 DEF BlocksTile, Cutting

\* It implies that control enters a block at its start and leaves it at its end.
LEMMA OneEntryFromInv == CfgInv => OneEntryOneExit
<1> SUFFICES ASSUME CfgInv, NEW b \in DOMAIN blocks,
                    NEW k \in blocks[b].start..(blocks[b].end - 1)
             PROVE  /\ k < blocks[b].end - 1 => ~Transfers(k)
                    /\ k > blocks[b].start =>
                         \A j \in Indices : Instr(j).op = "Bra" => k \notin TargetIndex(j)
    BY DEF OneEntryOneExit
<1>1. Streamed /\ Scanned /\ Cutting
    BY DEF CfgInv
<1>2. b \in 1..Len(blocks)
    BY <1>1 DEF Cutting
<1>3. /\ blocks[b].start \in Nat /\ blocks[b].end \in Nat /\ blocks[b].end <= N /\ N \in Nat /\ i = N
      /\ \A l \in leaders : blocks[b].start < l => blocks[b].end <= l
    BY <1>2, BlockParts
<1>4. k \in Nat /\ k \in Indices /\ k \in 0..(i - 1)
    BY <1>3 DEF Indices
<1>5. \A j \in Indices : Transfers(j) => LeadersFrom(j) \subseteq leaders
    BY <1>1, <1>3 DEF Scanned, Indices
<1>6. ASSUME k < blocks[b].end - 1, Transfers(k)
      PROVE  FALSE
    <2>1. k + 1 \in Indices /\ blocks[b].start < k + 1 /\ ~(blocks[b].end <= k + 1)
        BY <1>3, <1>4, <1>6 DEF Indices
    <2>2. k + 1 \in leaders
        BY <1>4, <1>5, <1>6, <2>1 DEF LeadersFrom
    <2> QED
        BY <1>3, <2>1, <2>2
<1>7. ASSUME k > blocks[b].start, NEW j \in Indices, Instr(j).op = "Bra", k \in TargetIndex(j)
      PROVE  FALSE
    <2>1. k \in leaders
        BY <1>4, <1>5, <1>7 DEF LeadersFrom, Transfers
    <2> QED
        BY <1>3, <1>4, <1>7, <2>1
<1> QED
    BY <1>6, <1>7

\* Every block's start is found from its id.
LEMMA BlockOfLeader ==
    ASSUME CfgInv, start = N, NEW t \in leaders, t < N
    PROVE  BlockId(t) + 1 \in 1..Len(blocks) /\ blocks[BlockId(t) + 1].start = t
<1>1. Streamed /\ Scanned /\ Cutting
    BY DEF CfgInv
<1>2. PICK b \in 1..Len(blocks) : blocks[b].start = t
    BY <1>1 DEF Cutting
<1>3. BlockId(t) = b - 1 /\ b \in Nat
    BY <1>2, BlockParts
<1>4. BlockId(t) + 1 = b
    BY <1>3
<1> QED
    BY <1>2, <1>4

\* It implies that the successors are exact.
LEMMA SuccessorsFromInv == CfgInv => SuccessorsExact
<1> SUFFICES ASSUME CfgInv, pc = "done", NEW b \in DOMAIN blocks
             PROVE  LET last == blocks[b].end - 1
                    IN  /\ \A x \in DOMAIN blocks[b].successors :
                               blocks[b].successors[x] + 1 \in DOMAIN blocks
                        /\ ~(Instr(last).op = "Exit" /\ IsConditional(last)) /\ MayRun(last) =>
                               StartsOf(blocks[b].successors) = Flow(last)
    BY DEF SuccessorsExact
<1> DEFINE last == blocks[b].end - 1
           q == blocks[b].successors
           R == Reached(last)
<1>1. Streamed /\ Scanned /\ Cutting
    BY DEF CfgInv
<1>2. DOMAIN blocks = 1..Len(blocks) /\ b \in 1..Len(blocks) /\ start = N
    BY <1>1 DEF Cutting
<1>3. /\ N \in Nat /\ blocks[b].end \in Nat /\ blocks[b].end <= N /\ i = N
      /\ blocks[b].start \in Nat /\ blocks[b].start < blocks[b].end
      /\ blocks[b].end \in leaders \cup {N}
      /\ Lists(q, R)
    BY <1>2, BlockParts
<1>4. last \in Indices /\ last \in 0..(i - 1) /\ last + 1 = blocks[b].end
    BY <1>3 DEF Indices
<1>5. \A l \in leaders : l \in Nat
    BY <1>1 DEF Scanned, Indices
<1>6. ASSUME NEW t \in R
      PROVE  t \in leaders /\ t < N
    <2>1. t \in Indices
        BY <1>6 DEF Reached, TargetIndex, IndexAt
    <2>2. t < N
        BY <1>3, <2>1 DEF Indices
    <2>3. CASE Transfers(last)
        <3>1. LeadersFrom(last) \subseteq leaders
            BY <1>1, <1>4, <2>3 DEF Scanned
        <3>2. t \in TargetIndex(last) \cup {last + 1}
            BY <1>6 DEF Reached
        <3> QED
            BY <2>1, <2>2, <3>1, <3>2 DEF LeadersFrom
    <2>4. CASE ~Transfers(last)
        <3>1. t = last + 1
            BY <1>6, <2>4 DEF Reached, Transfers
        <3> QED
            BY <1>3, <1>4, <2>2, <3>1
    <2> QED
        BY <2>3, <2>4
<1> HIDE DEF last, q, R
<1>7. \A t \in R : BlockId(t) + 1 \in 1..Len(blocks) /\ blocks[BlockId(t) + 1].start = t
    BY <1>2, <1>6, BlockOfLeader
<1>8. {q[x] : x \in DOMAIN q} = {BlockId(t) : t \in R}
    BY <1>3 DEF Lists
<1>9. \A x \in DOMAIN q : q[x] + 1 \in DOMAIN blocks
    <2> SUFFICES ASSUME NEW x \in DOMAIN q
                 PROVE  q[x] + 1 \in DOMAIN blocks
        OBVIOUS
    <2>1. PICK t \in R : q[x] = BlockId(t)
        BY <1>8
    <2> QED
        BY <1>2, <1>7, <2>1
<1>10. StartsOf(q) = R
    <2>1. StartsOf(q) = {blocks[s + 1].start : s \in {BlockId(t) : t \in R}}
        BY <1>8, Zenon DEF StartsOf
    <2> QED
        BY <1>7, <2>1
<1>11. ASSUME ~(Instr(last).op = "Exit" /\ IsConditional(last)), MayRun(last)
       PROVE  R = Flow(last)
    <2>1. CASE Instr(last).op = "Exit"
        BY <1>11, <2>1 DEF R, Reached, Flow, Transfers, MaySkip
    <2>2. CASE Instr(last).op = "Bra"
        BY <1>11, <2>2 DEF R, Reached, Flow, Transfers, MaySkip
    <2>3. CASE Instr(last).op # "Exit" /\ Instr(last).op # "Bra"
        BY <1>11, <2>3 DEF R, Reached, Flow, Transfers, MaySkip
    <2> QED
        BY <2>1, <2>2, <2>3
<1> QED
    BY <1>9, <1>10, <1>11 DEF last, q

-----------------------------------------------------------------------------
\* Every instruction of every program ends up in exactly one block, in order, at every
\* step of the construction (ir.rs:299-347).
THEOREM BlocksTileHolds == EmitSpec => []BlocksTile
BY EmitterBuildsCfg, CfgInvariant, TileFromInv, PTL

\* In every program, no branch lands inside a block and none leaves it before its end
\* (ir.rs:116, 276-296).
THEOREM BlocksAreStraight == EmitSpec => []OneEntryOneExit
BY EmitterBuildsCfg, CfgInvariant, OneEntryFromInv, PTL

\* The edges of the finished graph are the transfers of control of the program: none is
\* missing, made up or dangling, whatever the program (ir.rs:311-335).
THEOREM SuccessorsAreExact == EmitSpec => []SuccessorsExact
BY EmitterBuildsCfg, CfgInvariant, SuccessorsFromInv, PTL

-----------------------------------------------------------------------------
(***************************************************************************)
(* The ids of the header.                                                  *)
(***************************************************************************)

\* The 38 global names are all different.
LEMMA NamesDiffer ==
    /\ DOMAIN GlobalNames = 1 .. 38 /\ Len(GlobalNames) = 38
    /\ \A j, k \in 1 .. 38 : GlobalNames[j] = GlobalNames[k] => j = k
BY DEF GlobalNames

\* A global's id is its place in the order Lifter::new allocates them in.
LEMMA GlobalIds ==
    \A k \in 1 .. 38 : G[GlobalNames[k]] = k
<1>1. DOMAIN G = {GlobalNames[k] : k \in 1 .. 38}
    BY NamesDiffer DEF G, ToSet
<1> SUFFICES ASSUME NEW k \in 1 .. 38
             PROVE  G[GlobalNames[k]] = k
    OBVIOUS
<1>2. GlobalNames[k] \in DOMAIN G
    BY <1>1
<1>3. G[GlobalNames[k]] = CHOOSE j \in DOMAIN GlobalNames : GlobalNames[j] = GlobalNames[k]
    BY <1>2 DEF G
<1> QED
    BY <1>3, NamesDiffer

\* The header's ids, in the order Lifter::new allocates them.
LEMMA Ids ==
    /\ G.type_void = 1 /\ G.type_func = 2 /\ G.type_bool = 3 /\ G.type_uint = 4
    /\ G.type_ulong = 5 /\ G.type_float = 6 /\ G.type_v3uint = 7
    /\ G.ptr_input_v3uint = 8 /\ G.ptr_input_uint = 9 /\ G.ptr_psb_float = 10
    /\ G.ptr_psb_uint = 11 /\ G.ptr_workgroup_float = 12 /\ G.ptr_fn_uint = 13
    /\ G.ptr_fn_ulong = 14 /\ G.ptr_fn_float = 15 /\ G.ptr_fn_bool = 16
    /\ G.type_arr1024f = 17 /\ G.ptr_wg_arr = 18 /\ G.type_push_params = 19
    /\ G.ptr_push_params = 20 /\ G.ptr_push_ulong = 21 /\ G.ptr_push_uint = 22
    /\ G.const_uint_0 = 23 /\ G.const_uint_1 = 24 /\ G.const_uint_2 = 25
    /\ G.const_uint_3 = 26 /\ G.const_uint_4 = 27 /\ G.const_uint_32 = 28
    /\ G.const_uint_256 = 29 /\ G.const_uint_264 = 30 /\ G.const_uint_1024 = 31
    /\ G.const_ulong_4 = 32 /\ G.var_global_id = 33 /\ G.var_local_id = 34
    /\ G.var_workgroup_id = 35 /\ G.var_push_params = 36 /\ G.var_shared = 37
    /\ G.func_main = 38 /\ FirstId = 39
<1>1. \A k \in 1 .. 38 : G[GlobalNames[k]] = k
    BY GlobalIds
<1>2. /\ GlobalNames[1] = "type_void" /\ GlobalNames[2] = "type_func"
      /\ GlobalNames[3] = "type_bool" /\ GlobalNames[4] = "type_uint"
      /\ GlobalNames[5] = "type_ulong" /\ GlobalNames[6] = "type_float"
      /\ GlobalNames[7] = "type_v3uint" /\ GlobalNames[8] = "ptr_input_v3uint"
      /\ GlobalNames[9] = "ptr_input_uint" /\ GlobalNames[10] = "ptr_psb_float"
      /\ GlobalNames[11] = "ptr_psb_uint" /\ GlobalNames[12] = "ptr_workgroup_float"
      /\ GlobalNames[13] = "ptr_fn_uint" /\ GlobalNames[14] = "ptr_fn_ulong"
      /\ GlobalNames[15] = "ptr_fn_float" /\ GlobalNames[16] = "ptr_fn_bool"
      /\ GlobalNames[17] = "type_arr1024f" /\ GlobalNames[18] = "ptr_wg_arr"
      /\ GlobalNames[19] = "type_push_params" /\ GlobalNames[20] = "ptr_push_params"
      /\ GlobalNames[21] = "ptr_push_ulong" /\ GlobalNames[22] = "ptr_push_uint"
      /\ GlobalNames[23] = "const_uint_0" /\ GlobalNames[24] = "const_uint_1"
      /\ GlobalNames[25] = "const_uint_2" /\ GlobalNames[26] = "const_uint_3"
      /\ GlobalNames[27] = "const_uint_4" /\ GlobalNames[28] = "const_uint_32"
      /\ GlobalNames[29] = "const_uint_256" /\ GlobalNames[30] = "const_uint_264"
      /\ GlobalNames[31] = "const_uint_1024" /\ GlobalNames[32] = "const_ulong_4"
      /\ GlobalNames[33] = "var_global_id" /\ GlobalNames[34] = "var_local_id"
      /\ GlobalNames[35] = "var_workgroup_id" /\ GlobalNames[36] = "var_push_params"
      /\ GlobalNames[37] = "var_shared" /\ GlobalNames[38] = "func_main"
    BY DEF GlobalNames
<1>3. FirstId = 39
    BY NamesDiffer DEF FirstId
<1> QED
    BY <1>1, <1>2, <1>3

-----------------------------------------------------------------------------
(***************************************************************************)
(* Straight code.  E is what is known where the code begins: pairs of an   *)
(* id and its type.                                                        *)
(***************************************************************************)

BodyOps ==
    {"Load", "Store", "AccessChain", "ConvertUToF", "ConvertFToU", "UConvert", "ConvertUToPtr",
     "LogicalNot", "IAdd", "IMul", "FAdd", "FMul", "INotEqual", "ULessThan", "Nop", "ControlBarrier"}

OtherOps ==
    {"Capability", "Extension", "MemoryModel", "EntryPoint", "ExecutionMode", "Decorate",
     "MemberDecorate", "TypeVoid", "TypeFunction", "TypeBool", "TypeInt", "TypeFloat", "TypeVector",
     "TypePointer", "TypeStruct", "TypeArray", "Constant", "Variable", "Function", "Label",
     "SelectionMerge", "BranchConditional", "Branch", "Return", "FunctionEnd"}

Words ==
    {"Shader", "Int64", "PhysicalStorageBufferAddresses", "SPV_KHR_physical_storage_buffer",
     "PhysicalStorageBuffer64", "main", "GlobalInvocationId", "LocalInvocationId", "WorkgroupId",
     "Block", "Input", "PhysicalStorageBuffer", "Workgroup", "PushConstant", "Function"}

Instruction ==
    [op : BodyOps \cup OtherOps, type : Nat, id : Nat, args : Seq(Nat), lits : Seq(Nat \cup Words)]

\* The operations of the body by their types: <<operation, result, operand>>.
Unary ==
    {<<"Load", G.type_uint, G.ptr_fn_uint>>, <<"Load", G.type_float, G.ptr_fn_float>>,
     <<"Load", G.type_ulong, G.ptr_fn_ulong>>, <<"Load", G.type_bool, G.ptr_fn_bool>>,
     <<"Load", G.type_uint, G.ptr_input_uint>>, <<"Load", G.type_uint, G.ptr_push_uint>>,
     <<"Load", G.type_ulong, G.ptr_push_ulong>>, <<"Load", G.type_float, G.ptr_psb_float>>,
     <<"ConvertUToF", G.type_float, G.type_uint>>, <<"ConvertFToU", G.type_uint, G.type_float>>,
     <<"UConvert", G.type_ulong, G.type_uint>>, <<"ConvertUToPtr", G.ptr_psb_float, G.type_ulong>>,
     <<"LogicalNot", G.type_bool, G.type_bool>>}

Binary ==
    {<<"IAdd", G.type_uint, G.type_uint>>, <<"IMul", G.type_uint, G.type_uint>>,
     <<"IAdd", G.type_ulong, G.type_ulong>>, <<"IMul", G.type_ulong, G.type_ulong>>,
     <<"FAdd", G.type_float, G.type_float>>, <<"FMul", G.type_float, G.type_float>>,
     <<"INotEqual", G.type_bool, G.type_uint>>, <<"ULessThan", G.type_bool, G.type_uint>>}

\* A pointer and what is stored through it.
Stores ==
    {<<G.ptr_fn_uint, G.type_uint>>, <<G.ptr_fn_float, G.type_float>>,
     <<G.ptr_fn_ulong, G.type_ulong>>, <<G.ptr_fn_bool, G.type_bool>>,
     <<G.ptr_psb_float, G.type_float>>}

\* A pointer to a component of a global variable: <<type, variable, index>>.
Chains ==
    ({G.ptr_input_uint} \X {G.var_global_id, G.var_local_id, G.var_workgroup_id}
        \X {G.const_uint_0, G.const_uint_1, G.const_uint_2})
    \cup ({G.ptr_push_ulong} \X {G.var_push_params} \X {G.const_uint_0, G.const_uint_1, G.const_uint_2})
    \cup {<<G.ptr_push_uint, G.var_push_params, G.const_uint_3>>}

Known(E) == {p[1] : p \in E}

\* The operands of w are known and have the types w demands.
Obeys(E, w) ==
    \/ \E s \in Unary, id \in Nat \ {0}, x \in Nat :
          w = Val(s[1], s[2], id, <<x>>) /\ <<x, s[3]>> \in E
    \/ \E s \in Binary, id \in Nat \ {0}, x, y \in Nat :
          w = Val(s[1], s[2], id, <<x, y>>) /\ <<x, s[3]>> \in E /\ <<y, s[3]>> \in E
    \/ \E s \in Stores, x, y \in Nat :
          w = Store(x, y) /\ <<x, s[1]>> \in E /\ <<y, s[2]>> \in E
    \/ \E c \in Chains, id \in Nat \ {0} :
          w = Chain(c[1], id, c[2], c[3]) /\ c[2] \in Known(E) /\ c[3] \in Known(E)
    \/ w = Plain("Nop", <<>>, <<>>)
    \/ /\ w = Plain("ControlBarrier", <<G.const_uint_2, G.const_uint_2, G.const_uint_264>>, <<>>)
       /\ {G.const_uint_2, G.const_uint_264} \subseteq Known(E)

\* The ids of the types.
Types == 1 .. 22

\* A sequence of one element and its range.
LEMMA SequencesOfOne ==
    ASSUME NEW S, NEW a \in S
    PROVE  <<a>> \in Seq(S) /\ ToSet(<<a>>) = {a}
<1>1. <<a>> \in Seq(S)
    OBVIOUS
<1>2. ToSet(<<a>>) = {a}
    BY DEF ToSet
<1> QED
    BY <1>1, <1>2

\* A sequence of two elements and its range.
LEMMA SequencesOfTwo ==
    ASSUME NEW S, NEW a \in S, NEW b \in S
    PROVE  <<a, b>> \in Seq(S) /\ ToSet(<<a, b>>) = {a, b}
<1>1. <<a, b>> \in Seq(S)
    OBVIOUS
<1>2. ToSet(<<a, b>>) = {a, b}
    BY DEF ToSet
<1> QED
    BY <1>1, <1>2

\* An operation of the body names nothing that is declared later.
LEMMA BodyOpsPlain ==
    \A op \in BodyOps : op \notin Forward
BY DEF BodyOps, Forward

\* A signature is of an operation of the body and its result has a declared type.
LEMMA SignatureTypes ==
    /\ \A s \in Unary : s[1] \in BodyOps /\ s[2] \in Types
    /\ \A s \in Binary : s[1] \in BodyOps /\ s[2] \in Types
<1>1. ASSUME NEW s \in Unary
      PROVE  s[1] \in BodyOps /\ s[2] \in Types
    <2>1. s[1] \in BodyOps
        BY DEF Unary, BodyOps
    <2>2. s[2] \in {G.type_uint, G.type_float, G.type_ulong, G.type_bool, G.ptr_psb_float}
        BY DEF Unary
    <2> QED
        BY <2>1, <2>2, Ids DEF Types
<1>2. ASSUME NEW s \in Binary
      PROVE  s[1] \in BodyOps /\ s[2] \in Types
    <2>1. s[1] \in BodyOps
        BY DEF Binary, BodyOps
    <2>2. s[2] \in {G.type_uint, G.type_float, G.type_ulong, G.type_bool}
        BY DEF Binary
    <2> QED
        BY <2>1, <2>2, Ids DEF Types
<1> QED
    BY <1>1, <1>2

\* What an instruction of the body is.
LEMMA ObeysFacts ==
    ASSUME NEW E, NEW w, Obeys(E, w)
    PROVE  /\ w \in Instruction /\ w.op \in BodyOps /\ w.lits = <<>>
           /\ Uses(w) \subseteq Known(E) \cup Types
<1>0. <<>> \in Seq(Nat) /\ <<>> \in Seq(Nat \cup Words)
    OBVIOUS
<1>1. ASSUME NEW s \in Unary, NEW id \in Nat, NEW x \in Nat,
             w = Val(s[1], s[2], id, <<x>>), <<x, s[3]>> \in E
      PROVE  /\ w \in Instruction /\ w.op \in BodyOps /\ w.lits = <<>>
             /\ Uses(w) \subseteq Known(E) \cup Types
    <2>1. s[1] \in BodyOps /\ s[2] \in Types /\ s[2] \in Nat /\ s[1] \notin Forward
        BY SignatureTypes, BodyOpsPlain DEF Types
    <2>2. <<x>> \in Seq(Nat) /\ ToSet(<<x>>) = {x}
        BY SequencesOfOne
    <2>3. /\ w.op = s[1] /\ w.type = s[2] /\ w.id = id /\ w.args = <<x>> /\ w.lits = <<>>
          /\ w = [op |-> s[1], type |-> s[2], id |-> id, args |-> <<x>>, lits |-> <<>>]
        BY <1>1 DEF Val
    <2>4. x \in Known(E)
        BY <1>1 DEF Known
    <2>5. w \in Instruction
        BY <1>0, <2>1, <2>2, <2>3 DEF Instruction
    <2> QED
        BY <2>1, <2>2, <2>3, <2>4, <2>5 DEF Uses
<1>2. ASSUME NEW s \in Binary, NEW id \in Nat, NEW x \in Nat, NEW y \in Nat,
             w = Val(s[1], s[2], id, <<x, y>>), <<x, s[3]>> \in E, <<y, s[3]>> \in E
      PROVE  /\ w \in Instruction /\ w.op \in BodyOps /\ w.lits = <<>>
             /\ Uses(w) \subseteq Known(E) \cup Types
    <2>1. s[1] \in BodyOps /\ s[2] \in Types /\ s[2] \in Nat /\ s[1] \notin Forward
        BY SignatureTypes, BodyOpsPlain DEF Types
    <2>2. <<x, y>> \in Seq(Nat) /\ ToSet(<<x, y>>) = {x, y}
        BY SequencesOfTwo
    <2>3. /\ w.op = s[1] /\ w.type = s[2] /\ w.id = id /\ w.args = <<x, y>> /\ w.lits = <<>>
          /\ w = [op |-> s[1], type |-> s[2], id |-> id, args |-> <<x, y>>, lits |-> <<>>]
        BY <1>2 DEF Val
    <2>4. x \in Known(E) /\ y \in Known(E)
        BY <1>2 DEF Known
    <2>5. w \in Instruction
        BY <1>0, <2>1, <2>2, <2>3 DEF Instruction
    <2> QED
        BY <2>1, <2>2, <2>3, <2>4, <2>5 DEF Uses
<1>3. ASSUME NEW s \in Stores, NEW x \in Nat, NEW y \in Nat,
             w = Store(x, y), <<x, s[1]>> \in E, <<y, s[2]>> \in E
      PROVE  /\ w \in Instruction /\ w.op \in BodyOps /\ w.lits = <<>>
             /\ Uses(w) \subseteq Known(E) \cup Types
    <2>2. <<x, y>> \in Seq(Nat) /\ ToSet(<<x, y>>) = {x, y}
        BY SequencesOfTwo
    <2>3. /\ w.op = "Store" /\ w.type = 0 /\ w.id = 0 /\ w.args = <<x, y>> /\ w.lits = <<>>
          /\ w = [op |-> "Store", type |-> 0, id |-> 0, args |-> <<x, y>>, lits |-> <<>>]
        BY <1>3 DEF Store, Plain
    <2>4. x \in Known(E) /\ y \in Known(E)
        BY <1>3 DEF Known
    <2>50. "Store" \in BodyOps
        BY DEF BodyOps
    <2>51. "Store" \notin Forward
        BY <2>50, BodyOpsPlain
    <2>5. w \in Instruction /\ "Store" \in BodyOps /\ "Store" \notin Forward
        BY <1>0, <2>2, <2>3, <2>50, <2>51 DEF Instruction
    <2> QED
        BY <2>2, <2>3, <2>4, <2>5 DEF Uses
<1>4. ASSUME NEW c \in Chains, NEW id \in Nat,
             w = Chain(c[1], id, c[2], c[3]), c[2] \in Known(E), c[3] \in Known(E)
      PROVE  /\ w \in Instruction /\ w.op \in BodyOps /\ w.lits = <<>>
             /\ Uses(w) \subseteq Known(E) \cup Types
    <2>1. c[1] \in Types /\ c[1] \in Nat /\ c[2] \in Nat /\ c[3] \in Nat
        BY Ids DEF Chains, Types
    <2>2. <<c[2], c[3]>> \in Seq(Nat) /\ ToSet(<<c[2], c[3]>>) = {c[2], c[3]}
        BY <2>1, SequencesOfTwo
    <2>3. /\ w.op = "AccessChain" /\ w.type = c[1] /\ w.id = id /\ w.args = <<c[2], c[3]>> /\ w.lits = <<>>
          /\ w = [op |-> "AccessChain", type |-> c[1], id |-> id, args |-> <<c[2], c[3]>>, lits |-> <<>>]
        BY <1>4 DEF Chain, Val
    <2>50. "AccessChain" \in BodyOps
        BY DEF BodyOps
    <2>51. "AccessChain" \notin Forward
        BY <2>50, BodyOpsPlain
    <2>5. w \in Instruction /\ "AccessChain" \in BodyOps /\ "AccessChain" \notin Forward
        BY <1>0, <2>1, <2>2, <2>3, <2>50, <2>51 DEF Instruction
    <2> QED
        BY <1>4, <2>1, <2>2, <2>3, <2>5 DEF Uses
<1>5. ASSUME w = Plain("Nop", <<>>, <<>>)
      PROVE  /\ w \in Instruction /\ w.op \in BodyOps /\ w.lits = <<>>
             /\ Uses(w) \subseteq Known(E) \cup Types
    <2>3. /\ w.op = "Nop" /\ w.type = 0 /\ w.id = 0 /\ w.args = <<>> /\ w.lits = <<>>
          /\ w = [op |-> "Nop", type |-> 0, id |-> 0, args |-> <<>>, lits |-> <<>>]
        BY <1>5 DEF Plain
    <2>50. "Nop" \in BodyOps
        BY DEF BodyOps
    <2>51. "Nop" \notin Forward
        BY <2>50, BodyOpsPlain
    <2>5. w \in Instruction /\ "Nop" \in BodyOps /\ "Nop" \notin Forward
        BY <1>0, <2>3, <2>50, <2>51 DEF Instruction
    <2>6. ToSet(<<>>) = {}
        BY DEF ToSet
    <2> QED
        BY <2>3, <2>5, <2>6 DEF Uses
<1>6. ASSUME w = Plain("ControlBarrier", <<G.const_uint_2, G.const_uint_2, G.const_uint_264>>, <<>>),
             {G.const_uint_2, G.const_uint_264} \subseteq Known(E)
      PROVE  /\ w \in Instruction /\ w.op \in BodyOps /\ w.lits = <<>>
             /\ Uses(w) \subseteq Known(E) \cup Types
    <2> DEFINE a == G.const_uint_2
               b == G.const_uint_264
    <2>1. a \in Nat /\ b \in Nat
        BY Ids
    <2>3. /\ w.op = "ControlBarrier" /\ w.type = 0 /\ w.id = 0 /\ w.args = <<a, a, b>> /\ w.lits = <<>>
          /\ w = [op |-> "ControlBarrier", type |-> 0, id |-> 0, args |-> <<a, a, b>>, lits |-> <<>>]
        BY <1>6 DEF Plain
    <2> HIDE DEF a, b
    <2>2. <<a, a, b>> \in Seq(Nat)
        BY <2>1
    <2>6. ToSet(<<a, a, b>>) = {a, b}
        BY DEF ToSet
    <2>50. "ControlBarrier" \in BodyOps
        BY DEF BodyOps
    <2>51. "ControlBarrier" \notin Forward
        BY <2>50, BodyOpsPlain
    <2>5. w \in Instruction /\ "ControlBarrier" \in BodyOps /\ "ControlBarrier" \notin Forward
        BY <1>0, <2>2, <2>3, <2>50, <2>51 DEF Instruction
    <2>7. {a, b} \subseteq Known(E)
        BY <1>6 DEF a, b
    <2> QED
        BY <2>3, <2>5, <2>6, <2>7 DEF Uses
<1> QED
    BY <1>1, <1>2, <1>3, <1>4, <1>5, <1>6 DEF Obeys

\* What the instructions of s before place n define.
AddsTo(s, n) == {<<s[d].id, s[d].type>> : d \in {k \in 1 .. Len(s) : k < n /\ s[k].id # 0}}

\* No id is defined twice.
Once(s) == \A u, v \in 1 .. Len(s) : s[u].id = s[v].id /\ s[u].id # 0 => u = v

Adds(s, D) == D = AddsTo(s, Len(s) + 1)

\* From what E knows, s is legal and adds D.
Code(E, s, D) ==
    /\ s \in Seq(Instruction)
    /\ \A u \in 1 .. Len(s) : Obeys(E \cup AddsTo(s, u), s[u])
    /\ Adds(s, D)
    /\ Once(s)

Apart(D, H) == Known(D) \cap Known(H) = {}

\* What is legal stays legal when more is known.
LEMMA ObeysMore ==
    ASSUME NEW E, NEW H, E \subseteq H, NEW w, Obeys(E, w)
    PROVE  Obeys(H, w)
<1>1. Known(E) \subseteq Known(H)
    BY DEF Known
<1>2. CASE \E s \in Unary, id \in Nat \ {0}, x \in Nat :
              w = Val(s[1], s[2], id, <<x>>) /\ <<x, s[3]>> \in E
    BY <1>2 DEF Obeys
<1>3. CASE \E s \in Binary, id \in Nat \ {0}, x, y \in Nat :
              w = Val(s[1], s[2], id, <<x, y>>) /\ <<x, s[3]>> \in E /\ <<y, s[3]>> \in E
    <2>1. \E s \in Binary, id \in Nat \ {0}, x, y \in Nat :
              w = Val(s[1], s[2], id, <<x, y>>) /\ <<x, s[3]>> \in H /\ <<y, s[3]>> \in H
        BY <1>3
    <2> QED
        BY <2>1 DEF Obeys
<1>4. CASE \E s \in Stores, x, y \in Nat :
              w = Store(x, y) /\ <<x, s[1]>> \in E /\ <<y, s[2]>> \in E
    <2>1. \E s \in Stores, x, y \in Nat :
              w = Store(x, y) /\ <<x, s[1]>> \in H /\ <<y, s[2]>> \in H
        BY <1>4
    <2> QED
        BY <2>1 DEF Obeys
<1>5. CASE \E c \in Chains, id \in Nat \ {0} :
              w = Chain(c[1], id, c[2], c[3]) /\ c[2] \in Known(E) /\ c[3] \in Known(E)
    <2>1. \E c \in Chains, id \in Nat \ {0} :
              w = Chain(c[1], id, c[2], c[3]) /\ c[2] \in Known(H) /\ c[3] \in Known(H)
        BY <1>1, <1>5
    <2> QED
        BY <2>1 DEF Obeys
<1>6. CASE w = Plain("Nop", <<>>, <<>>)
    BY <1>6 DEF Obeys
<1>7. CASE /\ w = Plain("ControlBarrier", <<G.const_uint_2, G.const_uint_2, G.const_uint_264>>, <<>>)
           /\ {G.const_uint_2, G.const_uint_264} \subseteq Known(E)
    BY <1>1, <1>7 DEF Obeys
<1> QED
    BY <1>2, <1>3, <1>4, <1>5, <1>6, <1>7 DEF Obeys

\* Legal code stays legal when more is known.
LEMMA CodeMore ==
    ASSUME NEW E, NEW H, E \subseteq H, NEW s, NEW D, Code(E, s, D)
    PROVE  Code(H, s, D)
<1>1. \A u \in 1 .. Len(s) : Obeys(H \cup AddsTo(s, u), s[u])
    <2> SUFFICES ASSUME NEW u \in 1 .. Len(s)
                 PROVE  Obeys(H \cup AddsTo(s, u), s[u])
        OBVIOUS
    <2>1. Obeys(E \cup AddsTo(s, u), s[u])
        BY DEF Code
    <2>2. E \cup AddsTo(s, u) \subseteq H \cup AddsTo(s, u)
        OBVIOUS
    <2> QED
        BY <2>1, <2>2, ObeysMore
<1> QED
    BY <1>1 DEF Code

\* No code is legal and adds nothing.
LEMMA NoCode ==
    ASSUME NEW E
    PROVE  Code(E, <<>>, {})
<1>1. <<>> \in Seq(Instruction) /\ Len(<<>>) = 0
    OBVIOUS
<1> QED
    BY <1>1 DEF Code, Adds, AddsTo, Once

Shifted(s, t, D) ==
    /\ \A k \in 1 .. Len(s) : AddsTo(s \o t, k) = AddsTo(s, k)
    /\ \A k \in 1 .. Len(t) : AddsTo(s \o t, Len(s) + k) = D \cup AddsTo(t, k)

\* What one sequence and then another adds.
LEMMA AddsConcat ==
    ASSUME NEW s \in Seq(Instruction), NEW t \in Seq(Instruction), NEW D, NEW H,
           Adds(s, D), Adds(t, H)
    PROVE  Adds(s \o t, D \cup H) /\ Shifted(s, t, D)
<1> DEFINE r == s \o t
           m == Len(s)
           n == Len(t)
<1>1. r \in Seq(Instruction) /\ Len(r) = m + n /\ m \in Nat /\ n \in Nat
    BY ConcatProperties, LenProperties
<1>2. \A k \in 1 .. m : r[k] = s[k]
    BY ConcatProperties
<1>3. \A k \in 1 .. n : r[m + k] = t[k]
    BY ConcatProperties
<1> HIDE DEF r, m, n
<1>4. ASSUME NEW x \in 1 .. m
      PROVE  AddsTo(r, x) = AddsTo(s, x)
    <2>1. \A k \in 1 .. m + n : k < x => k \in 1 .. m
        BY <1>1
    <2>2. {k \in 1 .. Len(r) : k < x /\ r[k].id # 0} = {k \in 1 .. m : k < x /\ s[k].id # 0}
        BY <1>1, <1>2, <2>1
    <2>3. {<<r[d].id, r[d].type>> : d \in {k \in 1 .. m : k < x /\ s[k].id # 0}}
              = {<<s[d].id, s[d].type>> : d \in {k \in 1 .. m : k < x /\ s[k].id # 0}}
        BY <1>2
    <2> QED
        BY <2>2, <2>3 DEF AddsTo, m
<1>5. ASSUME NEW x \in 1 .. n + 1
      PROVE  AddsTo(r, m + x) = D \cup AddsTo(t, x)
    <2>1. ASSUME NEW p \in AddsTo(r, m + x)
          PROVE  p \in D \cup AddsTo(t, x)
        <3>1. PICK d \in 1 .. Len(r) : d < m + x /\ r[d].id # 0 /\ p = <<r[d].id, r[d].type>>
            BY <2>1 DEF AddsTo
        <3>2. CASE d \in 1 .. m
            <4>1. d < m + 1 /\ r[d] = s[d]
                BY <1>1, <1>2, <3>2
            <4>2. p \in AddsTo(s, m + 1)
                BY <3>1, <3>2, <4>1 DEF AddsTo, m
            <4> QED
                BY <4>2 DEF Adds, m
        <3>3. CASE d \notin 1 .. m
            <4>1. d - m \in 1 .. n /\ d - m < x /\ m + (d - m) = d
                BY <1>1, <3>1, <3>3
            <4>2. r[d] = t[d - m]
                BY <1>3, <4>1
            <4>3. p \in AddsTo(t, x)
                BY <3>1, <4>1, <4>2 DEF AddsTo, n
            <4> QED
                BY <4>3
        <3> QED
            BY <3>2, <3>3
    <2>2. ASSUME NEW p \in D
          PROVE  p \in AddsTo(r, m + x)
        <3>1. PICK d \in 1 .. m : s[d].id # 0 /\ p = <<s[d].id, s[d].type>>
            BY <2>2 DEF Adds, AddsTo, m
        <3>2. d \in 1 .. Len(r) /\ d < m + x /\ r[d] = s[d]
            BY <1>1, <1>2
        <3> QED
            BY <3>1, <3>2 DEF AddsTo
    <2>3. ASSUME NEW p \in AddsTo(t, x)
          PROVE  p \in AddsTo(r, m + x)
        <3>1. PICK d \in 1 .. n : d < x /\ t[d].id # 0 /\ p = <<t[d].id, t[d].type>>
            BY <2>3 DEF AddsTo, n
        <3>2. m + d \in 1 .. Len(r) /\ m + d < m + x /\ r[m + d] = t[d]
            BY <1>1, <1>3, <3>1
        <3> QED
            BY <3>1, <3>2 DEF AddsTo
    <2> QED
        BY <2>1, <2>2, <2>3
<1>6. Adds(r, D \cup H)
    <2>1. n + 1 \in 1 .. n + 1 /\ m + (n + 1) = Len(r) + 1
        BY <1>1
    <2>2. AddsTo(r, m + (n + 1)) = D \cup AddsTo(t, n + 1)
        BY <1>5, <2>1
    <2> QED
        BY <2>1, <2>2 DEF Adds, n
<1>7. \A x \in 1 .. n : x \in 1 .. n + 1
    BY <1>1
<1> QED
    BY <1>4, <1>5, <1>6, <1>7 DEF r, m, n, Shifted

\* A result of a sequence is among what it adds.
LEMMA AddsKnown ==
    ASSUME NEW s, NEW D, Adds(s, D)
    PROVE  \A k \in 1 .. Len(s) : s[k].id # 0 => s[k].id \in Known(D) /\ <<s[k].id, s[k].type>> \in D
<1> SUFFICES ASSUME NEW k \in 1 .. Len(s), s[k].id # 0
             PROVE  s[k].id \in Known(D) /\ <<s[k].id, s[k].type>> \in D
    OBVIOUS
<1>1. k < Len(s) + 1
    OBVIOUS
<1>2. <<s[k].id, s[k].type>> \in D
    BY <1>1 DEF Adds, AddsTo
<1> QED
    BY <1>2 DEF Known

\* Two sequences that add different ids define no id twice together.
LEMMA OnceConcat ==
    ASSUME NEW s \in Seq(Instruction), NEW t \in Seq(Instruction), NEW D, NEW H,
           Adds(s, D), Adds(t, H), Once(s), Once(t), Apart(D, H)
    PROVE  Once(s \o t)
<1> DEFINE r == s \o t
           m == Len(s)
           n == Len(t)
<1>1. r \in Seq(Instruction) /\ Len(r) = m + n /\ m \in Nat /\ n \in Nat
    BY ConcatProperties, LenProperties
<1>20. \A k \in 1 .. m : r[k] = s[k]
    BY ConcatProperties
<1>21. \A k \in 1 .. m : s[k].id # 0 => s[k].id \in Known(D)
    BY AddsKnown
<1>2. \A k \in 1 .. m : r[k] = s[k] /\ (s[k].id # 0 => s[k].id \in Known(D))
    BY <1>20, <1>21
<1>30. \A k \in 1 .. n : r[m + k] = t[k]
    BY ConcatProperties
<1>31. \A k \in 1 .. n : t[k].id # 0 => t[k].id \in Known(H)
    BY AddsKnown
<1>3. \A k \in 1 .. n : r[m + k] = t[k] /\ (t[k].id # 0 => t[k].id \in Known(H))
    BY <1>30, <1>31
<1>4. \A u, v \in 1 .. m : s[u].id = s[v].id /\ s[u].id # 0 => u = v
    BY DEF Once
<1>5. \A u, v \in 1 .. n : t[u].id = t[v].id /\ t[u].id # 0 => u = v
    BY DEF Once
<1> HIDE DEF r, m, n
<1>6. ASSUME NEW u \in 1 .. Len(r), NEW v \in 1 .. Len(r), r[u].id = r[v].id, r[u].id # 0
      PROVE  u = v
    <2>1. CASE u \in 1 .. m /\ v \in 1 .. m
        BY <1>2, <1>4, <1>6, <2>1
    <2>2. CASE u \notin 1 .. m /\ v \notin 1 .. m
        <3>1. u - m \in 1 .. n /\ v - m \in 1 .. n /\ m + (u - m) = u /\ m + (v - m) = v
            BY <1>1, <2>2
        <3>2. r[u] = t[u - m] /\ r[v] = t[v - m]
            BY <1>3, <3>1
        <3>3. u - m = v - m
            BY <1>5, <1>6, <3>1, <3>2
        <3> QED
            BY <1>1, <3>3
    <2>3. ASSUME NEW a \in 1 .. m, NEW b \in 1 .. Len(r), b \notin 1 .. m, r[a].id = r[b].id, r[a].id # 0
          PROVE  FALSE
        <3>1. b - m \in 1 .. n /\ m + (b - m) = b
            BY <1>1, <2>3
        <3>2. r[b].id \in Known(H)
            BY <1>3, <2>3, <3>1
        <3>3. r[a].id \in Known(D)
            BY <1>2, <2>3
        <3> QED
            BY <2>3, <3>2, <3>3 DEF Apart
    <2> QED
        BY <1>6, <2>1, <2>2, <2>3
<1> QED
    BY <1>6 DEF Once, r

\* Code after code.
LEMMA CodeConcat ==
    ASSUME NEW E, NEW s, NEW D, NEW t, NEW H, Code(E, s, D), Code(E \cup D, t, H), Apart(D, H)
    PROVE  Code(E, s \o t, D \cup H)
<1> DEFINE r == s \o t
           m == Len(s)
           n == Len(t)
<1>1. /\ s \in Seq(Instruction) /\ t \in Seq(Instruction) /\ Adds(s, D) /\ Adds(t, H)
      /\ Once(s) /\ Once(t)
    BY DEF Code
<1>2. Adds(r, D \cup H) /\ Once(r)
    <2>1. Adds(r, D \cup H)
        BY <1>1, AddsConcat
    <2>2. Once(r)
        BY <1>1, OnceConcat
    <2> QED
        BY <2>1, <2>2
<1>3. r \in Seq(Instruction) /\ Len(r) = m + n /\ m \in Nat /\ n \in Nat
    BY <1>1, ConcatProperties, LenProperties
<1>40. \A k \in 1 .. m : r[k] = s[k]
    BY <1>1, ConcatProperties
<1>39. Shifted(s, t, D)
    BY <1>1, AddsConcat
<1>41. \A k \in 1 .. m : AddsTo(r, k) = AddsTo(s, k)
    BY <1>39 DEF Shifted
<1>4. \A k \in 1 .. m : r[k] = s[k] /\ AddsTo(r, k) = AddsTo(s, k)
    BY <1>40, <1>41
<1>50. \A k \in 1 .. n : r[m + k] = t[k]
    BY <1>1, ConcatProperties
<1>51. \A k \in 1 .. n : AddsTo(r, m + k) = D \cup AddsTo(t, k)
    BY <1>39 DEF Shifted
<1>5. \A k \in 1 .. n : r[m + k] = t[k] /\ AddsTo(r, m + k) = D \cup AddsTo(t, k)
    BY <1>50, <1>51
<1>6. \A k \in 1 .. m : Obeys(E \cup AddsTo(s, k), s[k])
    BY DEF Code
<1>7. \A k \in 1 .. n : Obeys((E \cup D) \cup AddsTo(t, k), t[k])
    BY DEF Code
<1> HIDE DEF r, m, n
<1>8. ASSUME NEW u \in 1 .. Len(r)
      PROVE  Obeys(E \cup AddsTo(r, u), r[u])
    <2>1. CASE u \in 1 .. m
        BY <1>4, <1>6, <2>1
    <2>2. CASE u \notin 1 .. m
        <3>1. u - m \in 1 .. n /\ m + (u - m) = u
            BY <1>3, <2>2
        <3>2. r[u] = t[u - m] /\ AddsTo(r, u) = D \cup AddsTo(t, u - m)
            BY <1>5, <3>1
        <3>3. Obeys((E \cup D) \cup AddsTo(t, u - m), r[u])
            BY <1>7, <3>1, <3>2
        <3>4. (E \cup D) \cup AddsTo(t, u - m) = E \cup AddsTo(r, u)
            BY <3>2
        <3> QED
            BY <3>3, <3>4
    <2> QED
        BY <2>1, <2>2
<1> QED
    BY <1>2, <1>3, <1>8 DEF Code, r

\* One legal instruction is legal code.
LEMMA CodeOne ==
    ASSUME NEW E, NEW w, Obeys(E, w)
    PROVE  Code(E, <<w>>, IF w.id = 0 THEN {} ELSE {<<w.id, w.type>>})
<1> DEFINE s == <<w>>
<1>1. s \in Seq(Instruction) /\ Len(s) = 1 /\ s[1] = w
    BY ObeysFacts
<1> HIDE DEF s
<1>2. AddsTo(s, 1) = {}
    BY <1>1 DEF AddsTo
<1>3. AddsTo(s, 2) = IF w.id = 0 THEN {} ELSE {<<w.id, w.type>>}
    BY <1>1 DEF AddsTo
<1>4. \A u \in 1 .. Len(s) : u = 1
    BY <1>1
<1>5. E \cup {} = E
    OBVIOUS
<1>6. Len(s) + 1 = 2
    BY <1>1
<1> QED
    BY <1>1, <1>2, <1>3, <1>4, <1>5, <1>6 DEF Code, Adds, Once, s

\* One instruction more.
LEMMA CodeAppend ==
    ASSUME NEW E, NEW s, NEW D, Code(E, s, D), NEW w, Obeys(E \cup D, w), w.id \notin Known(D)
    PROVE  Code(E, Append(s, w), D \cup (IF w.id = 0 THEN {} ELSE {<<w.id, w.type>>}))
<1> DEFINE H == IF w.id = 0 THEN {} ELSE {<<w.id, w.type>>}
<1>1. Code(E \cup D, <<w>>, H)
    BY CodeOne
<1>2. Apart(D, H)
    BY DEF Apart, Known
<1>3. Code(E, s \o <<w>>, D \cup H)
    BY <1>1, <1>2, CodeConcat
<1>4. s \in Seq(Instruction) /\ w \in Instruction
    BY ObeysFacts DEF Code
<1>5. Append(s, w) = s \o <<w>>
    BY <1>4, AppendIsConcat
<1> QED
    BY <1>3, <1>5

-----------------------------------------------------------------------------
(***************************************************************************)
(* The instructions an operation is made of.                               *)
(***************************************************************************)

\* A tuple is a shorter one and one element more.
LEMMA Tuple1 ==
    ASSUME NEW a
    PROVE  <<a>> = Append(<<>>, a)
OBVIOUS

\* A tuple of 2 is one of 1 and one element more.
LEMMA Tuple2 ==
    ASSUME NEW a, NEW b
    PROVE  <<a, b>> = Append(<<a>>, b)
OBVIOUS

\* A tuple of 3 is one of 2 and one element more.
LEMMA Tuple3 ==
    ASSUME NEW a, NEW b, NEW c
    PROVE  <<a, b, c>> = Append(<<a, b>>, c)
OBVIOUS

\* A tuple of 4 is one of 3 and one element more.
LEMMA Tuple4 ==
    ASSUME NEW a, NEW b, NEW c, NEW d
    PROVE  <<a, b, c, d>> = Append(<<a, b, c>>, d)
OBVIOUS

\* A tuple of 5 is one of 4 and one element more.
LEMMA Tuple5 ==
    ASSUME NEW a, NEW b, NEW c, NEW d, NEW e
    PROVE  <<a, b, c, d, e>> = Append(<<a, b, c, d>>, e)
OBVIOUS

\* A tuple of 6 is one of 5 and one element more.
LEMMA Tuple6 ==
    ASSUME NEW a, NEW b, NEW c, NEW d, NEW e, NEW f
    PROVE  <<a, b, c, d, e, f>> = Append(<<a, b, c, d, e>>, f)
OBVIOUS

\* Code goes on with an operation on one value.
LEMMA CodeUnary ==
    ASSUME NEW E, NEW s, NEW D, Code(E, s, D), NEW op, NEW t, NEW a, <<op, t, a>> \in Unary,
           NEW id \in Nat \ {0}, id \notin Known(D), NEW x \in Nat, <<x, a>> \in E \cup D
    PROVE  Code(E, Append(s, Val(op, t, id, <<x>>)), D \cup {<<id, t>>})
<1> DEFINE w == Val(op, t, id, <<x>>)
<1>1. w.id = id /\ w.type = t /\ id # 0
    BY DEF Val
<1>2. \E g \in Unary, j \in Nat \ {0}, y \in Nat : w = Val(g[1], g[2], j, <<y>>) /\ <<y, g[3]>> \in E \cup D
    <2>1. <<op, t, a>>[1] = op /\ <<op, t, a>>[2] = t /\ <<op, t, a>>[3] = a
        OBVIOUS
    <2> HIDE DEF w
    <2>2. w = Val(<<op, t, a>>[1], <<op, t, a>>[2], id, <<x>>) /\ <<x, <<op, t, a>>[3]>> \in E \cup D
        BY <2>1 DEF w
    <2> QED
        BY <2>2
<1>3. Obeys(E \cup D, w)
    BY <1>2 DEF Obeys
<1> HIDE DEF w
<1>4. Code(E, Append(s, w), D \cup (IF w.id = 0 THEN {} ELSE {<<w.id, w.type>>}))
    BY <1>1, <1>3, CodeAppend
<1> QED
    BY <1>1, <1>4 DEF w

\* Code goes on with a load.
LEMMA CodeLoad ==
    ASSUME NEW E, NEW s, NEW D, Code(E, s, D), NEW t, NEW a, <<"Load", t, a>> \in Unary,
           NEW id \in Nat \ {0}, id \notin Known(D), NEW x \in Nat, <<x, a>> \in E \cup D
    PROVE  Code(E, Append(s, Load(t, id, x)), D \cup {<<id, t>>})
BY CodeUnary DEF Load

\* Code goes on with an operation on two values.
LEMMA CodeBinary ==
    ASSUME NEW E, NEW s, NEW D, Code(E, s, D), NEW op, NEW t, NEW a, <<op, t, a>> \in Binary,
           NEW id \in Nat \ {0}, id \notin Known(D), NEW x \in Nat, <<x, a>> \in E \cup D,
           NEW y \in Nat, <<y, a>> \in E \cup D
    PROVE  Code(E, Append(s, Val(op, t, id, <<x, y>>)), D \cup {<<id, t>>})
<1> DEFINE w == Val(op, t, id, <<x, y>>)
<1>1. w.id = id /\ w.type = t /\ id # 0
    BY DEF Val
<1>2. \E g \in Binary, j \in Nat \ {0}, v, z \in Nat :
          w = Val(g[1], g[2], j, <<v, z>>) /\ <<v, g[3]>> \in E \cup D /\ <<z, g[3]>> \in E \cup D
    <2>1. <<op, t, a>>[1] = op /\ <<op, t, a>>[2] = t /\ <<op, t, a>>[3] = a
        OBVIOUS
    <2> HIDE DEF w
    <2>2. /\ w = Val(<<op, t, a>>[1], <<op, t, a>>[2], id, <<x, y>>)
          /\ <<x, <<op, t, a>>[3]>> \in E \cup D /\ <<y, <<op, t, a>>[3]>> \in E \cup D
        BY <2>1 DEF w
    <2> QED
        BY <2>2
<1>3. Obeys(E \cup D, w)
    BY <1>2 DEF Obeys
<1> HIDE DEF w
<1>4. Code(E, Append(s, w), D \cup (IF w.id = 0 THEN {} ELSE {<<w.id, w.type>>}))
    BY <1>1, <1>3, CodeAppend
<1> QED
    BY <1>1, <1>4 DEF w

\* Code goes on with a store.
LEMMA CodeStore ==
    ASSUME NEW E, NEW s, NEW D, Code(E, s, D), NEW p, NEW t, <<p, t>> \in Stores,
           NEW x \in Nat, <<x, p>> \in E \cup D, NEW y \in Nat, <<y, t>> \in E \cup D, 0 \notin Known(D)
    PROVE  Code(E, Append(s, Store(x, y)), D)
<1> DEFINE w == Store(x, y)
<1>1. w.id = 0
    BY DEF Store, Plain
<1>2. \E g \in Stores, v, z \in Nat :
          w = Store(v, z) /\ <<v, g[1]>> \in E \cup D /\ <<z, g[2]>> \in E \cup D
    <2>1. <<p, t>>[1] = p /\ <<p, t>>[2] = t
        OBVIOUS
    <2> HIDE DEF w
    <2>2. w = Store(x, y) /\ <<x, <<p, t>>[1]>> \in E \cup D /\ <<y, <<p, t>>[2]>> \in E \cup D
        BY <2>1 DEF w
    <2> QED
        BY <2>2
<1>3. Obeys(E \cup D, w)
    BY <1>2 DEF Obeys
<1> HIDE DEF w
<1>4. Code(E, Append(s, w), D \cup (IF w.id = 0 THEN {} ELSE {<<w.id, w.type>>}))
    BY <1>1, <1>3, CodeAppend
<1>5. D \cup (IF w.id = 0 THEN {} ELSE {<<w.id, w.type>>}) = D
    BY <1>1
<1> QED
    BY <1>4, <1>5 DEF w

\* Code goes on with the address of a component of a global variable.
LEMMA CodeChain ==
    ASSUME NEW E, NEW s, NEW D, Code(E, s, D), NEW t, NEW v, NEW j, <<t, v, j>> \in Chains,
           NEW id \in Nat \ {0}, id \notin Known(D), v \in Known(E), j \in Known(E)
    PROVE  Code(E, Append(s, Chain(t, id, v, j)), D \cup {<<id, t>>})
<1> DEFINE w == Chain(t, id, v, j)
<1>1. w.id = id /\ w.type = t /\ id # 0
    BY DEF Chain, Val
<1>2. \E c \in Chains, k \in Nat \ {0} :
          w = Chain(c[1], k, c[2], c[3]) /\ c[2] \in Known(E \cup D) /\ c[3] \in Known(E \cup D)
    <2>1. <<t, v, j>>[1] = t /\ <<t, v, j>>[2] = v /\ <<t, v, j>>[3] = j
        OBVIOUS
    <2>3. v \in Known(E \cup D) /\ j \in Known(E \cup D)
        BY DEF Known
    <2> HIDE DEF w
    <2>2. /\ w = Chain(<<t, v, j>>[1], id, <<t, v, j>>[2], <<t, v, j>>[3])
          /\ <<t, v, j>>[2] \in Known(E \cup D) /\ <<t, v, j>>[3] \in Known(E \cup D)
        BY <2>1, <2>3 DEF w
    <2> QED
        BY <2>2
<1>3. Obeys(E \cup D, w)
    BY <1>2 DEF Obeys
<1> HIDE DEF w
<1>4. Code(E, Append(s, w), D \cup (IF w.id = 0 THEN {} ELSE {<<w.id, w.type>>}))
    BY <1>1, <1>3, CodeAppend
<1> QED
    BY <1>1, <1>4 DEF w

\* Storing a uint in the three views of a register is legal (store_gpr).
LEMMA StoreViewsCode ==
    ASSUME NEW E, NEW u \in Nat, NEW v \in Nat, NEW b \in Nat \ {0},
           <<u, G.ptr_fn_uint>> \in E, <<u + 1, G.ptr_fn_float>> \in E, <<u + 2, G.ptr_fn_ulong>> \in E,
           <<v, G.type_uint>> \in E
    PROVE  Code(E, StoreViews(u, v, b), {<<b, G.type_float>>, <<b + 1, G.type_ulong>>})
<1> DEFINE w1 == Store(u, v)
           w2 == Val("ConvertUToF", G.type_float, b, <<v>>)
           w3 == Store(u + 1, b)
           w4 == Val("UConvert", G.type_ulong, b + 1, <<v>>)
           w5 == Store(u + 2, b + 1)
           D1 == {<<b, G.type_float>>}
           D2 == {<<b, G.type_float>>, <<b + 1, G.type_ulong>>}
<1>0. /\ <<"ConvertUToF", G.type_float, G.type_uint>> \in Unary
      /\ <<"UConvert", G.type_ulong, G.type_uint>> \in Unary
      /\ <<G.ptr_fn_uint, G.type_uint>> \in Stores /\ <<G.ptr_fn_float, G.type_float>> \in Stores
      /\ <<G.ptr_fn_ulong, G.type_ulong>> \in Stores
    BY DEF Unary, Stores
<1>1. /\ Known({}) = {} /\ Known(D1) = {b} /\ Known(D2) = {b, b + 1}
      /\ D1 = {} \cup {<<b, G.type_float>>} /\ D2 = D1 \cup {<<b + 1, G.type_ulong>>}
      /\ <<b, G.type_float>> \in E \cup D1 /\ <<b + 1, G.type_ulong>> \in E \cup D2
      /\ <<u, G.ptr_fn_uint>> \in E \cup {} /\ <<v, G.type_uint>> \in E \cup {}
      /\ <<v, G.type_uint>> \in E \cup D1 /\ <<u + 1, G.ptr_fn_float>> \in E \cup D1
      /\ <<u + 2, G.ptr_fn_ulong>> \in E \cup D2
    BY DEF Known
<1>2. b # 0 /\ b + 1 # 0 /\ b + 1 # b /\ b + 1 \in Nat \ {0} /\ u + 1 \in Nat /\ u + 2 \in Nat
    OBVIOUS
<1> HIDE DEF w1, w2, w3, w4, w5, D1, D2
<1>3. Code(E, <<w1>>, {})
    <2>1. Code(E, Append(<<>>, w1), {})
        BY <1>0, <1>1, NoCode, CodeStore DEF w1
    <2> QED
        BY <2>1
<1>4. Code(E, <<w1, w2>>, D1)
    <2>1. Code(E, Append(<<w1>>, w2), D1)
        BY <1>0, <1>1, <1>2, <1>3, CodeUnary DEF w2
    <2> QED
        BY <2>1, Tuple2
<1>5. Code(E, <<w1, w2, w3>>, D1)
    <2>1. Code(E, Append(<<w1, w2>>, w3), D1)
        BY <1>0, <1>1, <1>2, <1>4, CodeStore DEF w3
    <2> QED
        BY <2>1, Tuple3
<1>6. Code(E, <<w1, w2, w3, w4>>, D2)
    <2>1. b + 1 \notin Known(D1)
        BY <1>1, <1>2
    <2>2. Code(E, Append(<<w1, w2, w3>>, w4), D1 \cup {<<b + 1, G.type_ulong>>})
        BY <1>0, <1>1, <1>2, <1>5, <2>1, CodeUnary DEF w4
    <2>3. D1 \cup {<<b + 1, G.type_ulong>>} = D2
        BY <1>1
    <2>4. Code(E, Append(<<w1, w2, w3>>, w4), D2)
        BY <2>2, <2>3
    <2> QED
        BY <2>4, Tuple4
<1>7. Code(E, <<w1, w2, w3, w4, w5>>, D2)
    <2>1. Code(E, Append(<<w1, w2, w3, w4>>, w5), D2)
        BY <1>0, <1>1, <1>2, <1>6, CodeStore DEF w5
    <2> QED
        BY <2>1, Tuple5, ZenonT(60)
<1> QED
    BY <1>7 DEF StoreViews, w1, w2, w3, w4, w5, D2

-----------------------------------------------------------------------------
(***************************************************************************)
(* The arms of the emitter.  E is what the prologue leaves.                *)
(***************************************************************************)

RegisterPair(E, r) ==
    /\ U(r) \in Nat /\ F(r) = U(r) + 1 /\ Q(r) = U(r) + 2
    /\ <<U(r), G.ptr_fn_uint>> \in E /\ <<F(r), G.ptr_fn_float>> \in E /\ <<Q(r), G.ptr_fn_ulong>> \in E

GlobalPairs ==
    {<<G.const_uint_0, G.type_uint>>, <<G.const_uint_1, G.type_uint>>,
     <<G.const_uint_2, G.type_uint>>, <<G.const_uint_3, G.type_uint>>,
     <<G.const_uint_264, G.type_uint>>, <<G.const_ulong_4, G.type_ulong>>,
     <<G.var_global_id, G.ptr_input_v3uint>>, <<G.var_local_id, G.ptr_input_v3uint>>,
     <<G.var_workgroup_id, G.ptr_input_v3uint>>, <<G.var_push_params, G.ptr_push_params>>}

Provides(E) ==
    /\ \A r \in Registers : RegisterPair(E, r)
    /\ \A p \in 0 .. 7 : P(p) \in Nat /\ <<P(p), G.ptr_fn_bool>> \in E
    /\ \A v \in DOMAIN imm_consts : imm_consts[v] \in Nat /\ <<imm_consts[v], G.type_uint>> \in E
    /\ GlobalPairs \subseteq E

Translatable ==
    {"Mov", "IAdd3", "IMad", "ISetP", "FAdd", "FMul", "FFma", "S2R", "Ldc", "Barrier",
     "Ldg", "Stg", "Bra", "Exit", "Nop"}

\* What a lowered instruction of a stream without shared memory is.
Legal(ins) ==
    /\ ins.op \in Translatable
    /\ ins.op # "ISetP" => ins.dst \in Registers
    /\ ins.op = "ISetP" => ins.dst \in 0 .. 7
    /\ ins.op \in {"IAdd3", "IMad", "FFma"} =>
          \E x, y, z \in Registers : ins.srcs = <<x, y, z>>
    /\ ins.op \in {"ISetP", "FAdd", "FMul"} => \E x, y \in Registers : ins.srcs = <<x, y>>
    /\ ins.op = "Mov" => \E x \in Registers : ins.srcs = <<x>>
    /\ ins.imm # None => Numeral(ins.imm[1]) \in DOMAIN imm_consts

\* What is emitted is legal and its ids are the ones it takes.
Emits(E, e, b) ==
    /\ e.ids \in Nat
    /\ \E D : Code(E, e.code, D) /\ Known(D) \subseteq b .. (b + e.ids - 1)

\* Register 3 exists.
LEMMA Threes ==
    3 \in Registers
BY NumRegsAssumption DEF Registers

\* What small sets of pairs make known.
LEMMA KnownPairs ==
    /\ Known({}) = {}
    /\ \A a, t : Known({<<a, t>>}) = {a}
    /\ \A a, t, c, r : Known({<<a, t>>, <<c, r>>}) = {a, c}
    /\ \A a, t, c, r, d, q : Known({<<a, t>>, <<c, r>>, <<d, q>>}) = {a, c, d}
BY DEF Known

\* What two sets of pairs make known together.
LEMMA KnownUnion ==
    \A D, H : Known(D \cup H) = Known(D) \cup Known(H)
BY DEF Known

\* What one pair more makes known.
LEMMA KnownMore ==
    ASSUME NEW D, NEW id, NEW t
    PROVE  Known(D \cup {<<id, t>>}) = Known(D) \cup {id}
<1>1. Known({<<id, t>>}) = {id}
    BY KnownPairs
<1> QED
    BY <1>1, KnownUnion

\* What two pairs make known.
LEMMA KnownTwo ==
    ASSUME NEW x, NEW t, NEW y, NEW r
    PROVE  Known({<<x, t>>, <<y, r>>}) = {x, y}
BY DEF Known

\* The loads the signatures allow.
LEMMA LoadSignatures ==
    /\ <<"Load", G.type_uint, G.ptr_fn_uint>> \in Unary
    /\ <<"Load", G.type_float, G.ptr_fn_float>> \in Unary
    /\ <<"Load", G.type_ulong, G.ptr_fn_ulong>> \in Unary
    /\ <<"Load", G.type_bool, G.ptr_fn_bool>> \in Unary
    /\ <<"Load", G.type_uint, G.ptr_input_uint>> \in Unary
    /\ <<"Load", G.type_uint, G.ptr_push_uint>> \in Unary
    /\ <<"Load", G.type_ulong, G.ptr_push_ulong>> \in Unary
    /\ <<"Load", G.type_float, G.ptr_psb_float>> \in Unary
BY DEF Unary

\* The stores the signatures allow.
LEMMA StoreSignatures ==
    /\ <<G.ptr_fn_uint, G.type_uint>> \in Stores /\ <<G.ptr_fn_float, G.type_float>> \in Stores
    /\ <<G.ptr_fn_ulong, G.type_ulong>> \in Stores /\ <<G.ptr_fn_bool, G.type_bool>> \in Stores
    /\ <<G.ptr_psb_float, G.type_float>> \in Stores
BY DEF Stores

\* Two loads, and three.
LEMMA TwoLoads ==
    ASSUME NEW E, NEW t, NEW a, <<"Load", t, a>> \in Unary, NEW b \in Nat \ {0},
           NEW x \in Nat, NEW y \in Nat, <<x, a>> \in E, <<y, a>> \in E
    PROVE  Code(E, <<Load(t, b, x), Load(t, b + 1, y)>>, {<<b, t>>, <<b + 1, t>>})
<1> DEFINE w1 == Load(t, b, x)
           w2 == Load(t, b + 1, y)
           D1 == {<<b, t>>}
           D2 == {<<b, t>>, <<b + 1, t>>}
<1>01. Known({}) = {} /\ Known(D1) = {b}
    BY KnownPairs
<1>02. b \notin {} /\ b + 1 \notin {b} /\ b + 1 \in Nat \ {0}
    OBVIOUS
<1>03. /\ <<x, a>> \in E \cup {} /\ <<y, a>> \in E \cup D1
      /\ {} \cup {<<b, t>>} = D1 /\ D1 \cup {<<b + 1, t>>} = D2
    OBVIOUS
<1>1. /\ Known({}) = {} /\ Known(D1) = {b} /\ b \notin {} /\ b + 1 \notin {b} /\ b + 1 \in Nat \ {0}
      /\ <<x, a>> \in E \cup {} /\ <<y, a>> \in E \cup D1
      /\ {} \cup {<<b, t>>} = D1 /\ D1 \cup {<<b + 1, t>>} = D2
    BY <1>01, <1>02, <1>03
<1> HIDE DEF D1, D2
<1>2. Code(E, Append(<<>>, w1), {} \cup {<<b, t>>})
    BY <1>1, NoCode, CodeLoad
<1> HIDE DEF w1
<1>3. Code(E, <<w1>>, D1)
    BY <1>1, <1>2, Tuple1
<1>4. Code(E, Append(<<w1>>, w2), D1 \cup {<<b + 1, t>>})
    BY <1>1, <1>3, CodeLoad
<1> HIDE DEF w2
<1>5. Code(E, Append(<<w1>>, w2), D2)
    BY <1>1, <1>4
<1> QED
    BY <1>5, Tuple2 DEF D2, w1, w2

\* Three loads are legal code.
LEMMA ThreeLoads ==
    ASSUME NEW E, NEW t, NEW a, <<"Load", t, a>> \in Unary, NEW b \in Nat \ {0},
           NEW x \in Nat, NEW y \in Nat, NEW z \in Nat, <<x, a>> \in E, <<y, a>> \in E, <<z, a>> \in E
    PROVE  Code(E, <<Load(t, b, x), Load(t, b + 1, y), Load(t, b + 2, z)>>,
                   {<<b, t>>, <<b + 1, t>>, <<b + 2, t>>})
<1> DEFINE w1 == Load(t, b, x)
           w2 == Load(t, b + 1, y)
           w3 == Load(t, b + 2, z)
           D2 == {<<b, t>>, <<b + 1, t>>}
           D3 == {<<b, t>>, <<b + 1, t>>, <<b + 2, t>>}
<1>0. Code(E, <<w1, w2>>, D2)
    BY TwoLoads
<1>01. Known(D2) = {b, b + 1}
    BY DEF Known
<1>02. b + 2 \notin {b, b + 1} /\ b + 2 \in Nat \ {0}
    OBVIOUS
<1>03. <<z, a>> \in E \cup D2 /\ D2 \cup {<<b + 2, t>>} = D3
    OBVIOUS
<1>1. /\ Known(D2) = {b, b + 1} /\ b + 2 \notin {b, b + 1} /\ b + 2 \in Nat \ {0}
      /\ <<z, a>> \in E \cup D2 /\ D2 \cup {<<b + 2, t>>} = D3
    BY <1>01, <1>02, <1>03
<1> HIDE DEF D2, D3, w1, w2
<1>4. Code(E, Append(<<w1, w2>>, w3), D2 \cup {<<b + 2, t>>})
    BY <1>0, <1>1, CodeLoad
<1> HIDE DEF w3
<1>5. Code(E, Append(<<w1, w2>>, w3), D3)
    BY <1>1, <1>4
<1> QED
    BY <1>5, Tuple3 DEF D3, w1, w2, w3

\* Two uint loads written out.
LEMMA LoadsOfTwoU ==
    ASSUME NEW b \in Nat, NEW x, NEW y
    PROVE  LoadsU(b, <<x, y>>) =
                <<Load(G.type_uint, b, U(x)), Load(G.type_uint, b + 1, U(y))>>
<1>1. LoadsU(b, <<x, y>>) =
            <<Load(G.type_uint, b + 1 - 1, U(x)), Load(G.type_uint, b + 2 - 1, U(y))>>
    BY DEF LoadsU
<1>2. b + 1 - 1 = b /\ b + 2 - 1 = b + 1
    OBVIOUS
<1> QED
    BY <1>1, <1>2

\* Two float loads written out.
LEMMA LoadsOfTwoF ==
    ASSUME NEW b \in Nat, NEW x, NEW y
    PROVE  LoadsF(b, <<x, y>>) =
                <<Load(G.type_float, b, F(x)), Load(G.type_float, b + 1, F(y))>>
<1>1. LoadsF(b, <<x, y>>) =
            <<Load(G.type_float, b + 1 - 1, F(x)), Load(G.type_float, b + 2 - 1, F(y))>>
    BY DEF LoadsF
<1>2. b + 1 - 1 = b /\ b + 2 - 1 = b + 1
    OBVIOUS
<1> QED
    BY <1>1, <1>2

\* Three uint loads written out.
LEMMA LoadsOfThreeU ==
    ASSUME NEW b \in Nat, NEW x, NEW y, NEW z
    PROVE  LoadsU(b, <<x, y, z>>) =
                <<Load(G.type_uint, b, U(x)), Load(G.type_uint, b + 1, U(y)), Load(G.type_uint, b + 2, U(z))>>
<1>1. LoadsU(b, <<x, y, z>>) =
            <<Load(G.type_uint, b + 1 - 1, U(x)), Load(G.type_uint, b + 2 - 1, U(y)), Load(G.type_uint, b + 3 - 1, U(z))>>
    BY DEF LoadsU
<1>2. b + 1 - 1 = b /\ b + 2 - 1 = b + 1 /\ b + 3 - 1 = b + 2
    OBVIOUS
<1> QED
    BY <1>1, <1>2

\* Three float loads written out.
LEMMA LoadsOfThreeF ==
    ASSUME NEW b \in Nat, NEW x, NEW y, NEW z
    PROVE  LoadsF(b, <<x, y, z>>) =
                <<Load(G.type_float, b, F(x)), Load(G.type_float, b + 1, F(y)), Load(G.type_float, b + 2, F(z))>>
<1>1. LoadsF(b, <<x, y, z>>) =
            <<Load(G.type_float, b + 1 - 1, F(x)), Load(G.type_float, b + 2 - 1, F(y)), Load(G.type_float, b + 3 - 1, F(z))>>
    BY DEF LoadsF
<1>2. b + 1 - 1 = b /\ b + 2 - 1 = b + 1 /\ b + 3 - 1 = b + 2
    OBVIOUS
<1> QED
    BY <1>1, <1>2

\* The three views of a register are stored.
LEMMA StoreViewsAfter ==
    ASSUME NEW E, NEW s, NEW D, Code(E, s, D), NEW r, RegisterPair(E, r), NEW v \in Nat,
           NEW b \in Nat \ {0}, <<v, G.type_uint>> \in E \cup D, b \notin Known(D), b + 1 \notin Known(D)
    PROVE  Code(E, s \o StoreViews(U(r), v, b), D \cup {<<b, G.type_float>>, <<b + 1, G.type_ulong>>})
<1> DEFINE H == {<<b, G.type_float>>, <<b + 1, G.type_ulong>>}
<1>1. /\ U(r) \in Nat /\ <<U(r), G.ptr_fn_uint>> \in E \cup D
      /\ <<U(r) + 1, G.ptr_fn_float>> \in E \cup D /\ <<U(r) + 2, G.ptr_fn_ulong>> \in E \cup D
    BY DEF RegisterPair
<1>2. Code(E \cup D, StoreViews(U(r), v, b), H)
    BY <1>1, StoreViewsCode
<1>3. Known(H) = {b, b + 1}
    BY DEF Known
<1>4. Apart(D, H)
    BY <1>3 DEF Apart
<1> QED
    BY <1>2, <1>4, CodeConcat

\* A register is copied in one view.
LEMMA CopyView ==
    ASSUME NEW E, NEW s, NEW D, Code(E, s, D), 0 \notin Known(D), NEW t, NEW a,
           <<"Load", t, a>> \in Unary, <<a, t>> \in Stores, NEW id \in Nat \ {0}, id \notin Known(D),
           NEW x \in Nat, <<x, a>> \in E, NEW y \in Nat, <<y, a>> \in E
    PROVE  Code(E, Append(Append(s, Load(t, id, x)), Store(y, id)), D \cup {<<id, t>>})
<1> DEFINE H == D \cup {<<id, t>>}
<1>1. Code(E, Append(s, Load(t, id, x)), H)
    BY CodeLoad
<1>2. Known(H) = Known(D) \cup {id}
    BY KnownMore
<1>3. 0 \notin Known(H) /\ <<y, a>> \in E \cup H /\ <<id, t>> \in E \cup H
    BY <1>2
<1> HIDE DEF H
<1>4. Code(E, Append(Append(s, Load(t, id, x)), Store(y, id)), H)
    BY <1>1, <1>3, CodeStore
<1> QED
    BY <1>2, <1>4 DEF H

\* What it takes to show that an arm emits legal code.
LEMMA EmitsCode ==
    ASSUME NEW E, NEW b, NEW ids \in Nat, NEW code, NEW D, Code(E, code, D),
           Known(D) \subseteq b .. (b + ids - 1)
    PROVE  Emits(E, Emitted(ids, code), b)
BY DEF Emits, Emitted

\* The code of a move is legal.
LEMMA MovCode ==
    ASSUME NEW E, Provides(E), NEW ins, Legal(ins), ins.op = "Mov", NEW b \in Nat \ {0}
    PROVE  Emits(E, EmitMov(ins, b), b)
<1>1. ins.dst \in Registers /\ RegisterPair(E, ins.dst)
    <2>1. ins.dst \in Registers
        BY DEF Legal
    <2> QED
        BY <2>1 DEF Provides
<1>2. CASE ins.imm # None
    <2> DEFINE v == imm_consts[Numeral(ins.imm[1])]
               D == {<<b + 1, G.type_float>>, <<b + 1 + 1, G.type_ulong>>}
    <2>1. v \in Nat /\ <<v, G.type_uint>> \in E
        <3>1. Numeral(ins.imm[1]) \in DOMAIN imm_consts
            BY <1>2 DEF Legal
        <3> QED
            BY <3>1 DEF Provides
    <2>2. /\ U(ins.dst) \in Nat /\ <<U(ins.dst), G.ptr_fn_uint>> \in E
          /\ <<U(ins.dst) + 1, G.ptr_fn_float>> \in E /\ <<U(ins.dst) + 2, G.ptr_fn_ulong>> \in E
        BY <1>1 DEF RegisterPair
    <2>3. b + 1 \in Nat \ {0}
        OBVIOUS
    <2> HIDE DEF v
    <2>4. Code(E, StoreViews(U(ins.dst), v, b + 1), D)
        BY <2>1, <2>2, <2>3, StoreViewsCode
    <2>5. Known(D) = {b + 1, b + 1 + 1}
        BY DEF Known
    <2>6. Known(D) \subseteq b .. (b + 3 - 1)
        BY <2>5
    <2>7. EmitMov(ins, b) = Emitted(3, StoreViews(U(ins.dst), v, b + 1))
        BY <1>2 DEF EmitMov, v
    <2> QED
        BY <2>4, <2>6, <2>7, EmitsCode
<1>3. CASE ins.imm = None
    <2>1. PICK x \in Registers : ins.srcs = <<x>>
        BY DEF Legal
    <2>2. RegisterPair(E, x) /\ ins.srcs[1] = x
        BY <2>1 DEF Provides
    <2> DEFINE d == ins.dst
               s1 == Append(Append(<<>>, Load(G.type_uint, b, U(x))), Store(U(d), b))
               s2 == Append(Append(s1, Load(G.type_float, b + 1, F(x))), Store(F(d), b + 1))
               s3 == Append(Append(s2, Load(G.type_ulong, b + 2, Q(x))), Store(Q(d), b + 2))
               D1 == {} \cup {<<b, G.type_uint>>}
               D2 == D1 \cup {<<b + 1, G.type_float>>}
               D3 == D2 \cup {<<b + 2, G.type_ulong>>}
    <2>3. /\ U(x) \in Nat /\ F(x) \in Nat /\ Q(x) \in Nat /\ U(d) \in Nat /\ F(d) \in Nat /\ Q(d) \in Nat
          /\ <<U(x), G.ptr_fn_uint>> \in E /\ <<F(x), G.ptr_fn_float>> \in E /\ <<Q(x), G.ptr_fn_ulong>> \in E
          /\ <<U(d), G.ptr_fn_uint>> \in E /\ <<F(d), G.ptr_fn_float>> \in E /\ <<Q(d), G.ptr_fn_ulong>> \in E
        BY <1>1, <2>2 DEF RegisterPair
    <2>30. b # 0 /\ b + 1 # 0 /\ b + 1 \in Nat \ {0} /\ b + 2 \in Nat \ {0} /\ b + 1 # b /\ b + 2 # b /\ b + 2 # b + 1
        OBVIOUS
    <2>31. Known({}) = {}
        BY DEF Known
    <2> HIDE DEF d
    <2>32. Code(E, <<>>, {})
        BY NoCode
    <2>4. Code(E, s1, D1)
        BY <2>3, <2>31, <2>32, CopyView, LoadSignatures, StoreSignatures
    <2>41. Known(D1) = Known({}) \cup {b}
        BY KnownMore
    <2>40. Known(D1) = {b} /\ 0 \notin Known(D1) /\ b + 1 \notin Known(D1)
        BY <2>30, <2>41, <2>31
    <2> HIDE DEF s1, D1
    <2>5. Code(E, s2, D2)
        BY <2>3, <2>30, <2>4, <2>40, CopyView, LoadSignatures, StoreSignatures
    <2>51. Known(D2) = Known(D1) \cup {b + 1}
        BY KnownMore
    <2>50. Known(D2) = {b, b + 1} /\ 0 \notin Known(D2) /\ b + 2 \notin Known(D2)
        BY <2>30, <2>40, <2>51
    <2> HIDE DEF s2, D2
    <2>6. Code(E, s3, D3)
        BY <2>3, <2>30, <2>5, <2>50, CopyView, LoadSignatures, StoreSignatures
    <2>61. Known(D3) = Known(D2) \cup {b + 2}
        BY KnownMore
    <2>60. Known(D3) = {b, b + 1, b + 2}
        BY <2>50, <2>61
    <2> HIDE DEF D3
    <2>7. Known(D3) \subseteq b .. (b + 3 - 1)
        BY <2>60
    <2> DEFINE code == <<Load(G.type_uint, b, U(x)), Store(U(d), b),
                         Load(G.type_float, b + 1, F(x)), Store(F(d), b + 1),
                         Load(G.type_ulong, b + 2, Q(x)), Store(Q(d), b + 2)>>
    <2>8. EmitMov(ins, b) = Emitted(3, code)
        BY <1>3, <2>2 DEF EmitMov, d
    <2>9. code = s3
        BY DEF s3, s2, s1
    <2> HIDE DEF s3, code
    <2> QED
        BY <2>6, <2>7, <2>8, <2>9, EmitsCode
<1> QED
    BY <1>2, <1>3

\* A computation on two values, then the result and a third.
LEMMA TwoSteps ==
    ASSUME NEW E, NEW D, NEW op, NEW pq, NEW t, <<op, t, t>> \in Binary, <<pq, t, t>> \in Binary,
           NEW b \in Nat \ {0}, D = {<<b, t>>, <<b + 1, t>>, <<b + 2, t>>}
    PROVE  Code(E \cup D, <<Val(op, t, b + 3, <<b, b + 1>>), Val(pq, t, b + 4, <<b + 3, b + 2>>)>>,
                {<<b + 3, t>>, <<b + 4, t>>})
<1> DEFINE H == E \cup D
           w1 == Val(op, t, b + 3, <<b, b + 1>>)
           w2 == Val(pq, t, b + 4, <<b + 3, b + 2>>)
           D1 == {} \cup {<<b + 3, t>>}
<1>1. /\ b \in Nat /\ b + 1 \in Nat /\ b + 2 \in Nat /\ b + 3 \in Nat \ {0} /\ b + 4 \in Nat \ {0}
      /\ b + 3 # b + 4
    OBVIOUS
<1>2. /\ <<b, t>> \in H \cup {} /\ <<b + 1, t>> \in H \cup {}
      /\ <<b + 2, t>> \in H \cup D1 /\ <<b + 3, t>> \in H \cup D1
    OBVIOUS
<1>30. D1 = {<<b + 3, t>>}
    OBVIOUS
<1>31. Known({}) = {} /\ Known({<<b + 3, t>>}) = {b + 3}
    BY KnownPairs
<1>3. Known({}) = {} /\ Known(D1) = {b + 3}
    BY <1>30, <1>31
<1>40. Code(H, <<>>, {})
    BY NoCode
<1>41. b + 3 \notin Known({})
    BY <1>3
<1>42. b + 4 \notin Known(D1)
    BY <1>1, <1>3
<1> HIDE DEF H
<1>4. Code(H, Append(<<>>, w1), D1)
    BY <1>1, <1>2, <1>40, <1>41, CodeBinary
<1> HIDE DEF w1, D1
<1>5. Code(H, <<w1>>, D1)
    BY <1>4, Tuple1
<1>6. Code(H, Append(<<w1>>, w2), D1 \cup {<<b + 4, t>>})
    BY <1>1, <1>2, <1>42, <1>5, CodeBinary
<1> HIDE DEF w2
<1>7. Code(H, <<w1, w2>>, D1 \cup {<<b + 4, t>>})
    BY <1>6, Tuple2
<1>8. D1 \cup {<<b + 4, t>>} = {<<b + 3, t>>, <<b + 4, t>>}
    BY <1>30
<1> QED
    BY <1>7, <1>8 DEF w1, w2, H

\* The operations on two values the signatures allow.
LEMMA BinarySignatures ==
    /\ <<"IAdd", G.type_uint, G.type_uint>> \in Binary /\ <<"IMul", G.type_uint, G.type_uint>> \in Binary
    /\ <<"IAdd", G.type_ulong, G.type_ulong>> \in Binary
    /\ <<"IMul", G.type_ulong, G.type_ulong>> \in Binary
    /\ <<"FAdd", G.type_float, G.type_float>> \in Binary
    /\ <<"FMul", G.type_float, G.type_float>> \in Binary
    /\ <<"INotEqual", G.type_bool, G.type_uint>> \in Binary
    /\ <<"ULessThan", G.type_bool, G.type_uint>> \in Binary
BY DEF Binary

\* The ids of three loads and two operations.
LEMMA FiveIds ==
    ASSUME NEW b \in Nat \ {0}, NEW t, NEW D, D = {<<b, t>>, <<b + 1, t>>, <<b + 2, t>>} \cup {<<b + 3, t>>, <<b + 4, t>>}
    PROVE  Known(D) = {b, b + 1, b + 2, b + 3, b + 4}
<1>1. Known({<<b, t>>, <<b + 1, t>>, <<b + 2, t>>}) = {b, b + 1, b + 2}
    BY DEF Known
<1>2. Known({<<b + 3, t>>, <<b + 4, t>>}) = {b + 3, b + 4}
    BY DEF Known
<1>3. Known(D) = {b, b + 1, b + 2} \cup {b + 3, b + 4}
    BY <1>1, <1>2, KnownUnion
<1> QED
    BY <1>3

\* The code of IAdd3 and IMad is legal.
LEMMA IntegerCode ==
    ASSUME NEW E, Provides(E), NEW ins, Legal(ins), ins.op \in {"IAdd3", "IMad"}, NEW b \in Nat \ {0},
           NEW op \in {"IAdd", "IMul"}
    PROVE  Emits(E, EmitInteger(op, ins, b), b)
<1>1. ins.dst \in Registers /\ RegisterPair(E, ins.dst)
    <2>1. ins.dst \in Registers
        BY DEF Legal
    <2> QED
        BY <2>1 DEF Provides
<1>2. PICK x \in Registers, y \in Registers, z \in Registers : ins.srcs = <<x, y, z>>
    BY DEF Legal
<1>3. RegisterPair(E, x) /\ RegisterPair(E, y) /\ RegisterPair(E, z)
    BY DEF Provides
<1> DEFINE t == G.type_uint
           s1 == LoadsU(b, <<x, y, z>>)
           s2 == <<Val(op, t, b + 3, <<b, b + 1>>), Val("IAdd", t, b + 4, <<b + 3, b + 2>>)>>
           D1 == {<<b, t>>, <<b + 1, t>>, <<b + 2, t>>}
           D2 == {<<b + 3, t>>, <<b + 4, t>>}
           D3 == {<<b + 5, G.type_float>>, <<b + 5 + 1, G.type_ulong>>}
           D == (D1 \cup D2) \cup D3
<1>4. Code(E, s1, D1)
    <2>1. s1 = <<Load(t, b, U(x)), Load(t, b + 1, U(y)), Load(t, b + 2, U(z))>>
        BY LoadsOfThreeU
    <2>2. /\ U(x) \in Nat /\ U(y) \in Nat /\ U(z) \in Nat
          /\ <<U(x), G.ptr_fn_uint>> \in E /\ <<U(y), G.ptr_fn_uint>> \in E /\ <<U(z), G.ptr_fn_uint>> \in E
        BY <1>3 DEF RegisterPair
    <2>3. <<"Load", t, G.ptr_fn_uint>> \in Unary
        BY LoadSignatures
    <2> HIDE DEF t, s1
    <2>4. Code(E, <<Load(t, b, U(x)), Load(t, b + 1, U(y)), Load(t, b + 2, U(z))>>, D1)
        BY <2>2, <2>3, ThreeLoads
    <2> QED
        BY <2>1, <2>4
<1>5. Code(E \cup D1, s2, D2)
    <2>1. <<op, t, t>> \in Binary
        BY BinarySignatures
    <2>2. <<"IAdd", t, t>> \in Binary
        BY BinarySignatures
    <2> HIDE DEF t
    <2>3. D1 = {<<b, t>>, <<b + 1, t>>, <<b + 2, t>>}
        OBVIOUS
    <2> HIDE DEF D1
    <2> QED
        BY <2>1, <2>2, <2>3, TwoSteps
<1>60. Known(D1) = {b, b + 1, b + 2} /\ Known(D1 \cup D2) = {b, b + 1, b + 2, b + 3, b + 4}
    <2> HIDE DEF t
    <2>1. Known(D1 \cup D2) = {b, b + 1, b + 2, b + 3, b + 4}
        BY FiveIds
    <2>2. Known(D1) = {b, b + 1, b + 2}
        BY DEF Known
    <2> QED
        BY <2>1, <2>2
<1>61. Known(D2) = {b + 3, b + 4}
    <2> HIDE DEF t
    <2> QED
        BY DEF Known
<1>62. Known(D3) = {b + 5, b + 5 + 1}
    BY DEF Known
<1>6. Apart(D1, D2)
    <2> HIDE DEF D1, D2
    <2> QED
        BY <1>60, <1>61 DEF Apart
<1>7. Code(E, s1 \o s2, D1 \cup D2)
    <2> HIDE DEF D1, D2, s1, s2
    <2> QED
        BY <1>4, <1>5, <1>6, CodeConcat
<1>8. Code(E, (s1 \o s2) \o StoreViews(U(ins.dst), b + 4, b + 5), D)
    <2>1. <<b + 4, G.type_uint>> \in E \cup (D1 \cup D2)
        OBVIOUS
    <2> HIDE DEF D1, D2, s1, s2
    <2>2. b + 5 \notin Known(D1 \cup D2) /\ b + 5 + 1 \notin Known(D1 \cup D2) /\ b + 4 \in Nat /\ b + 5 \in Nat \ {0}
        BY <1>60
    <2> QED
        BY <1>1, <1>7, <2>1, <2>2, StoreViewsAfter
<1>9. Known(D) \subseteq b .. (b + 7 - 1)
    <2> HIDE DEF D1, D2, D3
    <2>1. Known(D) = {b, b + 1, b + 2, b + 3, b + 4} \cup {b + 5, b + 5 + 1}
        BY <1>60, <1>62, KnownUnion
    <2> QED
        BY <2>1, SMTT(30)
<1>10. EmitInteger(op, ins, b) = Emitted(7, (s1 \o s2) \o StoreViews(U(ins.dst), b + 4, b + 5))
    BY <1>2 DEF EmitInteger
<1> HIDE DEF D, s1, s2
<1> QED
    BY <1>8, <1>9, <1>10, EmitsCode

\* A float result is stored in two views.
LEMMA StoreFloatAfter ==
    ASSUME NEW E, NEW s, NEW D, Code(E, s, D), 0 \notin Known(D), NEW r, RegisterPair(E, r),
           NEW v \in Nat, <<v, G.type_float>> \in E \cup D, v + 1 \notin Known(D)
    PROVE  Code(E, s \o StoreFloat(r, v), D \cup {<<v + 1, G.type_uint>>})
<1> DEFINE w1 == Store(F(r), v)
           w2 == Val("ConvertFToU", G.type_uint, v + 1, <<v>>)
           w3 == Store(U(r), v + 1)
           H == {<<v + 1, G.type_uint>>}
           K == E \cup D
<1>1. /\ U(r) \in Nat /\ <<U(r), G.ptr_fn_uint>> \in K \cup H /\ F(r) \in Nat
      /\ <<F(r), G.ptr_fn_float>> \in K \cup {} /\ <<v, G.type_float>> \in K \cup {}
      /\ <<v + 1, G.type_uint>> \in K \cup H
    BY DEF RegisterPair
<1>2. /\ <<"ConvertFToU", G.type_uint, G.type_float>> \in Unary
      /\ <<G.ptr_fn_float, G.type_float>> \in Stores /\ <<G.ptr_fn_uint, G.type_uint>> \in Stores
    BY DEF Unary, Stores
<1>3. v + 1 \in Nat \ {0} /\ v + 1 # 0
    OBVIOUS
<1>4. Known({}) = {} /\ Known(H) = {v + 1}
    BY KnownPairs
<1>5. 0 \notin Known({}) /\ 0 \notin Known(H) /\ v + 1 \notin Known({}) /\ {} \cup H = H
    BY <1>3, <1>4
<1>6. Code(K, <<>>, {})
    BY NoCode
<1> HIDE DEF K
<1>7. Code(K, Append(<<>>, w1), {})
    BY <1>1, <1>2, <1>5, <1>6, CodeStore
<1> HIDE DEF w1
<1>8. Code(K, <<w1>>, {})
    BY <1>7, Tuple1
<1>9. Code(K, Append(<<w1>>, w2), {} \cup {<<v + 1, G.type_uint>>})
    BY <1>1, <1>2, <1>3, <1>5, <1>8, CodeUnary
<1> HIDE DEF w2
<1>10. Code(K, <<w1, w2>>, H)
    BY <1>5, <1>9, Tuple2
<1> HIDE DEF H
<1>11. Code(K, Append(<<w1, w2>>, w3), H)
    BY <1>1, <1>2, <1>3, <1>5, <1>10, CodeStore
<1> HIDE DEF w3
<1>12. Code(K, <<w1, w2, w3>>, H)
    BY <1>11, Tuple3
<1>13. Apart(D, H)
    BY <1>4 DEF Apart
<1>14. Code(E, s \o <<w1, w2, w3>>, D \cup H)
    BY <1>12, <1>13, CodeConcat DEF K
<1> QED
    BY <1>14 DEF StoreFloat, w1, w2, w3, H

\* The code of FFma is legal.
LEMMA FFmaCode ==
    ASSUME NEW E, Provides(E), NEW ins, Legal(ins), ins.op = "FFma", NEW b \in Nat \ {0}
    PROVE  Emits(E, EmitFFma(ins, b), b)
<1>1. ins.dst \in Registers /\ RegisterPair(E, ins.dst)
    <2>1. ins.dst \in Registers
        BY DEF Legal
    <2> QED
        BY <2>1 DEF Provides
<1>2. PICK x \in Registers, y \in Registers, z \in Registers : ins.srcs = <<x, y, z>>
    BY DEF Legal
<1>3. RegisterPair(E, x) /\ RegisterPair(E, y) /\ RegisterPair(E, z)
    BY DEF Provides
<1> DEFINE t == G.type_float
           s1 == LoadsF(b, <<x, y, z>>)
           s2 == <<Val("FMul", t, b + 3, <<b, b + 1>>), Val("FAdd", t, b + 4, <<b + 3, b + 2>>)>>
           D1 == {<<b, t>>, <<b + 1, t>>, <<b + 2, t>>}
           D2 == {<<b + 3, t>>, <<b + 4, t>>}
           D3 == {<<b + 4 + 1, G.type_uint>>}
           D == (D1 \cup D2) \cup D3
<1>4. Code(E, s1, D1)
    <2>1. s1 = <<Load(t, b, F(x)), Load(t, b + 1, F(y)), Load(t, b + 2, F(z))>>
        BY LoadsOfThreeF
    <2>2. /\ F(x) \in Nat /\ F(y) \in Nat /\ F(z) \in Nat
          /\ <<F(x), G.ptr_fn_float>> \in E /\ <<F(y), G.ptr_fn_float>> \in E /\ <<F(z), G.ptr_fn_float>> \in E
        BY <1>3 DEF RegisterPair
    <2>3. <<"Load", t, G.ptr_fn_float>> \in Unary
        BY LoadSignatures
    <2> HIDE DEF t, s1
    <2>4. Code(E, <<Load(t, b, F(x)), Load(t, b + 1, F(y)), Load(t, b + 2, F(z))>>, D1)
        BY <2>2, <2>3, ThreeLoads
    <2> QED
        BY <2>1, <2>4
<1>5. Code(E \cup D1, s2, D2)
    <2>1. <<"FMul", t, t>> \in Binary
        BY BinarySignatures
    <2>2. <<"FAdd", t, t>> \in Binary
        BY BinarySignatures
    <2> HIDE DEF t
    <2>3. D1 = {<<b, t>>, <<b + 1, t>>, <<b + 2, t>>}
        OBVIOUS
    <2> HIDE DEF D1
    <2> QED
        BY <2>1, <2>2, <2>3, TwoSteps
<1>60. Known(D1) = {b, b + 1, b + 2} /\ Known(D1 \cup D2) = {b, b + 1, b + 2, b + 3, b + 4}
    <2> HIDE DEF t
    <2>1. Known(D1 \cup D2) = {b, b + 1, b + 2, b + 3, b + 4}
        BY FiveIds
    <2>2. Known(D1) = {b, b + 1, b + 2}
        BY DEF Known
    <2> QED
        BY <2>1, <2>2
<1>61. Known(D2) = {b + 3, b + 4}
    <2> HIDE DEF t
    <2> QED
        BY DEF Known
<1>62. Known(D3) = {b + 4 + 1}
    BY DEF Known
<1>6. Apart(D1, D2)
    <2> HIDE DEF D1, D2
    <2> QED
        BY <1>60, <1>61 DEF Apart
<1>7. Code(E, s1 \o s2, D1 \cup D2)
    <2> HIDE DEF D1, D2, s1, s2
    <2> QED
        BY <1>4, <1>5, <1>6, CodeConcat
<1>8. Code(E, (s1 \o s2) \o StoreFloat(ins.dst, b + 4), D)
    <2>1. <<b + 4, G.type_float>> \in E \cup (D1 \cup D2)
        OBVIOUS
    <2> HIDE DEF D1, D2, s1, s2
    <2>2. b + 4 + 1 \notin Known(D1 \cup D2) /\ 0 \notin Known(D1 \cup D2) /\ b + 4 \in Nat
        BY <1>60, SMTT(30)
    <2> QED
        BY <1>1, <1>7, <2>1, <2>2, StoreFloatAfter
<1>9. Known(D) \subseteq b .. (b + 6 - 1)
    <2> HIDE DEF D1, D2, D3
    <2>1. Known(D) = {b, b + 1, b + 2, b + 3, b + 4} \cup {b + 4 + 1}
        BY <1>60, <1>62, KnownUnion
    <2>2. {b, b + 1, b + 2, b + 3, b + 4} \cup {b + 4 + 1} \subseteq b .. (b + 6 - 1)
        OBVIOUS
    <2> HIDE DEF D
    <2> QED
        BY <2>1, <2>2
<1>10. EmitFFma(ins, b) = Emitted(6, (s1 \o s2) \o StoreFloat(ins.dst, b + 4))
    BY <1>2 DEF EmitFFma
<1> HIDE DEF D, s1, s2
<1> QED
    BY <1>8, <1>9, <1>10, EmitsCode

\* A computation on two values after their loads.
LEMMA OneStep ==
    ASSUME NEW E, NEW s, NEW D, Code(E, s, D), NEW op, NEW r, NEW t, <<op, r, t>> \in Binary,
           NEW b \in Nat \ {0}, D = {<<b, t>>, <<b + 1, t>>}
    PROVE  Code(E, s \o <<Val(op, r, b + 2, <<b, b + 1>>)>>, D \cup {<<b + 2, r>>})
<1> DEFINE w == Val(op, r, b + 2, <<b, b + 1>>)
<1>1. /\ b \in Nat /\ b + 1 \in Nat /\ b + 2 \in Nat \ {0}
      /\ <<b, t>> \in E \cup D /\ <<b + 1, t>> \in E \cup D
    OBVIOUS
<1>2. Known(D) = {b, b + 1}
    BY DEF Known
<1>3. b + 2 \notin Known(D)
    BY <1>2
<1>4. Code(E, Append(s, w), D \cup {<<b + 2, r>>})
    BY <1>1, <1>3, CodeBinary
<1>5. s \in Seq(Instruction) /\ Append(s, w) \in Seq(Instruction)
    BY <1>4 DEF Code
<1>6. Append(s, w) = s \o <<w>>
    BY <1>5, AppendIsConcat, SMTT(30)
<1> QED
    BY <1>4, <1>6

\* The ids of two loads and one operation.
LEMMA ThreeIds ==
    ASSUME NEW b \in Nat \ {0}, NEW t, NEW r
    PROVE  /\ Known({<<b, t>>, <<b + 1, t>>}) = {b, b + 1}
           /\ Known({<<b, t>>, <<b + 1, t>>} \cup {<<b + 2, r>>}) = {b, b + 1, b + 2}
BY DEF Known

\* The code of FAdd and FMul is legal.
LEMMA FloatCode ==
    ASSUME NEW E, Provides(E), NEW ins, Legal(ins), ins.op \in {"FAdd", "FMul"}, NEW b \in Nat \ {0},
           NEW op \in {"FAdd", "FMul"}
    PROVE  Emits(E, EmitFloat(op, ins, b), b)
<1>1. ins.dst \in Registers /\ RegisterPair(E, ins.dst)
    <2>1. ins.dst \in Registers
        BY DEF Legal
    <2> QED
        BY <2>1 DEF Provides
<1>2. PICK x \in Registers, y \in Registers : ins.srcs = <<x, y>>
    BY DEF Legal
<1>3. RegisterPair(E, x) /\ RegisterPair(E, y)
    BY DEF Provides
<1> DEFINE t == G.type_float
           s1 == LoadsF(b, <<x, y>>)
           s2 == <<Val(op, t, b + 2, <<b, b + 1>>)>>
           D1 == {<<b, t>>, <<b + 1, t>>}
           D2 == D1 \cup {<<b + 2, t>>}
           D == D2 \cup {<<b + 2 + 1, G.type_uint>>}
<1>4. Code(E, s1, D1)
    <2>1. s1 = <<Load(t, b, F(x)), Load(t, b + 1, F(y))>>
        BY LoadsOfTwoF
    <2>2. /\ F(x) \in Nat /\ F(y) \in Nat
          /\ <<F(x), G.ptr_fn_float>> \in E /\ <<F(y), G.ptr_fn_float>> \in E
        BY <1>3 DEF RegisterPair
    <2>3. <<"Load", t, G.ptr_fn_float>> \in Unary
        BY LoadSignatures
    <2> HIDE DEF t, s1
    <2>4. Code(E, <<Load(t, b, F(x)), Load(t, b + 1, F(y))>>, D1)
        BY <2>2, <2>3, TwoLoads
    <2> QED
        BY <2>1, <2>4
<1>5. Code(E, s1 \o s2, D2)
    <2>1. <<op, t, t>> \in Binary
        BY BinarySignatures
    <2> HIDE DEF t, s1
    <2>3. D1 = {<<b, t>>, <<b + 1, t>>}
        OBVIOUS
    <2> HIDE DEF D1
    <2> QED
        BY <1>4, <2>1, <2>3, OneStep
<1>6. Known(D2) = {b, b + 1, b + 2}
    <2> HIDE DEF t
    <2> QED
        BY DEF Known
<1>7. Code(E, (s1 \o s2) \o StoreFloat(ins.dst, b + 2), D)
    <2>1. <<b + 2, G.type_float>> \in E \cup D2
        OBVIOUS
    <2> HIDE DEF D2, s1, s2
    <2>2. b + 2 + 1 \notin Known(D2) /\ 0 \notin Known(D2) /\ b + 2 \in Nat
        BY <1>6
    <2> QED
        BY <1>1, <1>5, <2>1, <2>2, StoreFloatAfter
<1>8. Known(D) \subseteq b .. (b + 4 - 1)
    <2> HIDE DEF D2
    <2>1. Known(D) = {b, b + 1, b + 2} \cup {b + 2 + 1}
        BY <1>6, KnownMore
    <2>2. {b, b + 1, b + 2} \cup {b + 2 + 1} \subseteq b .. (b + 4 - 1)
        OBVIOUS
    <2> HIDE DEF D
    <2> QED
        BY <2>1, <2>2
<1>9. EmitFloat(op, ins, b) = Emitted(4, (s1 \o s2) \o StoreFloat(ins.dst, b + 2))
    BY <1>2 DEF EmitFloat
<1> HIDE DEF D, s1, s2
<1> QED
    BY <1>7, <1>8, <1>9, EmitsCode

\* The code of ISetP is legal.
LEMMA ISetPCode ==
    ASSUME NEW E, Provides(E), NEW ins, Legal(ins), ins.op = "ISetP", NEW b \in Nat \ {0}
    PROVE  Emits(E, EmitISetP(ins, b), b)
<1>1. P(ins.dst) \in Nat /\ <<P(ins.dst), G.ptr_fn_bool>> \in E
    <2>1. ins.dst \in 0 .. 7
        BY DEF Legal
    <2> QED
        BY <2>1 DEF Provides
<1>2. PICK x \in Registers, y \in Registers : ins.srcs = <<x, y>>
    BY DEF Legal
<1>3. RegisterPair(E, x) /\ RegisterPair(E, y)
    BY DEF Provides
<1> DEFINE t == G.type_uint
           s1 == LoadsU(b, <<x, y>>)
           w1 == Val("INotEqual", G.type_bool, b + 2, <<b, b + 1>>)
           w2 == Store(P(ins.dst), b + 2)
           D1 == {<<b, t>>, <<b + 1, t>>}
           D2 == D1 \cup {<<b + 2, G.type_bool>>}
<1>4. Code(E, s1, D1)
    <2>1. s1 = <<Load(t, b, U(x)), Load(t, b + 1, U(y))>>
        BY LoadsOfTwoU
    <2>2. /\ U(x) \in Nat /\ U(y) \in Nat
          /\ <<U(x), G.ptr_fn_uint>> \in E /\ <<U(y), G.ptr_fn_uint>> \in E
        BY <1>3 DEF RegisterPair
    <2>3. <<"Load", t, G.ptr_fn_uint>> \in Unary
        BY LoadSignatures
    <2> HIDE DEF t, s1
    <2>4. Code(E, <<Load(t, b, U(x)), Load(t, b + 1, U(y))>>, D1)
        BY <2>2, <2>3, TwoLoads
    <2> QED
        BY <2>1, <2>4
<1>5. Code(E, s1 \o <<w1>>, D2)
    <2>1. <<"INotEqual", G.type_bool, t>> \in Binary
        BY BinarySignatures
    <2> HIDE DEF t, s1
    <2>3. D1 = {<<b, t>>, <<b + 1, t>>}
        OBVIOUS
    <2> HIDE DEF D1
    <2> QED
        BY <1>4, <2>1, <2>3, OneStep
<1>6. Known(D2) = {b, b + 1, b + 2}
    <2> HIDE DEF t
    <2> QED
        BY DEF Known
<1>7. Code(E, Append(s1 \o <<w1>>, w2), D2)
    <2>1. <<b + 2, G.type_bool>> \in E \cup D2 /\ <<P(ins.dst), G.ptr_fn_bool>> \in E \cup D2
        BY <1>1
    <2> HIDE DEF D2, s1, w1
    <2>2. 0 \notin Known(D2) /\ b + 2 \in Nat
        BY <1>6
    <2>3. <<G.ptr_fn_bool, G.type_bool>> \in Stores
        BY StoreSignatures
    <2> QED
        BY <1>1, <1>5, <2>1, <2>2, <2>3, CodeStore
<1>70. s1 \o <<w1, w2>> = Append(s1 \o <<w1>>, w2)
    <2>1. s1 \in Seq(Instruction) /\ s1 \o <<w1>> \in Seq(Instruction)
        BY <1>4, <1>5 DEF Code
    <2>2. Append(s1 \o <<w1>>, w2) \in Seq(Instruction)
        BY <1>7 DEF Code
    <2> HIDE DEF s1, w1, w2
    <2>3. <<w1, w2>> = Append(<<w1>>, w2)
        BY Tuple2
    <2>4. s1 \o Append(<<w1>>, w2) = Append(s1 \o <<w1>>, w2)
        BY <2>1, <2>2
    <2> QED
        BY <2>3, <2>4
<1>8. Known(D2) \subseteq b .. (b + 3 - 1)
    BY <1>6, SMTT(30)
<1>9. EmitISetP(ins, b) = Emitted(3, s1 \o <<w1, w2>>)
    BY <1>2 DEF EmitISetP
<1> HIDE DEF D2, s1, w1, w2
<1> QED
    BY <1>7, <1>70, <1>8, <1>9, EmitsCode

\* The code of S2R is legal, also for a register no builtin gives.
LEMMA S2RCode ==
    ASSUME NEW E, Provides(E), NEW ins, Legal(ins), ins.op = "S2R", NEW b \in Nat \ {0}
    PROVE  Emits(E, EmitS2R(ins, b), b)
<1>1. ins.dst \in Registers /\ RegisterPair(E, ins.dst)
    <2>1. ins.dst \in Registers
        BY DEF Legal
    <2> QED
        BY <2>1 DEF Provides
<1>2. CASE ins.sr \notin DOMAIN Builtin
    <2> DEFINE v == G.const_uint_0
               D == {<<b + 1, G.type_float>>, <<b + 1 + 1, G.type_ulong>>}
    <2>1. v \in Nat /\ <<v, G.type_uint>> \in E
        BY Ids DEF Provides, GlobalPairs
    <2>2. /\ U(ins.dst) \in Nat /\ <<U(ins.dst), G.ptr_fn_uint>> \in E
          /\ <<U(ins.dst) + 1, G.ptr_fn_float>> \in E /\ <<U(ins.dst) + 2, G.ptr_fn_ulong>> \in E
        BY <1>1 DEF RegisterPair
    <2>3. b + 1 \in Nat \ {0}
        OBVIOUS
    <2>7. EmitS2R(ins, b) = Emitted(3, StoreViews(U(ins.dst), v, b + 1))
        BY <1>2 DEF EmitS2R
    <2> HIDE DEF v
    <2>4. Code(E, StoreViews(U(ins.dst), v, b + 1), D)
        BY <2>1, <2>2, <2>3, StoreViewsCode
    <2>5. Known(D) = {b + 1, b + 1 + 1}
        BY DEF Known
    <2>6. Known(D) \subseteq b .. (b + 3 - 1)
        BY <2>5
    <2> QED
        BY <2>4, <2>6, <2>7, EmitsCode
<1>3. CASE ins.sr \in DOMAIN Builtin
    <2> DEFINE v == Builtin[ins.sr][1]
               j == Builtin[ins.sr][2]
               t == G.ptr_input_uint
               w1 == Chain(t, b + 1, v, j)
               w2 == Load(G.type_uint, b, b + 1)
               D1 == {} \cup {<<b + 1, t>>}
               D2 == D1 \cup {<<b, G.type_uint>>}
               D == D2 \cup {<<b + 2, G.type_float>>, <<b + 2 + 1, G.type_ulong>>}
    <2>0. EmitS2R(ins, b) = Emitted(4, <<w1, w2>> \o StoreViews(U(ins.dst), b, b + 2))
        BY <1>3 DEF EmitS2R
    <2>1. /\ v \in {G.var_local_id, G.var_workgroup_id}
          /\ j \in {G.const_uint_0, G.const_uint_1, G.const_uint_2}
        <3>1. DOMAIN Builtin = {"TidX", "TidY", "TidZ", "CtaIdX", "CtaIdY", "CtaIdZ", "LaneId"}
            BY DEF Builtin
        <3>2. \A x \in DOMAIN Builtin :
                  /\ Builtin[x][1] \in {G.var_local_id, G.var_workgroup_id}
                  /\ Builtin[x][2] \in {G.const_uint_0, G.const_uint_1, G.const_uint_2}
            BY <3>1 DEF Builtin
        <3> QED
            BY <1>3, <3>2
    <2>2. <<t, v, j>> \in Chains
        BY <2>1 DEF Chains
    <2>3. v \in Known(E) /\ j \in Known(E)
        <3>1. <<v, G.ptr_input_v3uint>> \in E
            BY <2>1 DEF Provides, GlobalPairs
        <3>2. <<j, G.type_uint>> \in E
            BY <2>1 DEF Provides, GlobalPairs
        <3> HIDE DEF v, j
        <3> QED
            BY <3>1, <3>2 DEF Known
    <2>4. <<"Load", G.type_uint, t>> \in Unary
        BY LoadSignatures
    <2>5. Code(E, <<>>, {}) /\ Known({}) = {}
        BY NoCode, KnownPairs
    <2> HIDE DEF v, j, t
    <2>6. /\ b + 1 \in Nat \ {0} /\ b + 1 \in Nat /\ b + 1 \notin Known({}) /\ b # b + 1
          /\ b + 2 \in Nat \ {0}
        BY <2>5
    <2>7. Code(E, Append(<<>>, w1), D1)
        BY <2>2, <2>3, <2>5, <2>6, CodeChain
    <2>80. Known(D1) = Known({}) \cup {b + 1}
        BY KnownMore
    <2>81. <<b + 1, t>> \in E \cup D1
        OBVIOUS
    <2>8. Known(D1) = {b + 1} /\ <<b + 1, t>> \in E \cup D1
        BY <2>5, <2>80, <2>81
    <2> HIDE DEF w1, D1
    <2>9. Code(E, <<w1>>, D1)
        BY <2>7, Tuple1
    <2>90. b \notin Known(D1)
        BY <2>6, <2>8
    <2>10. Code(E, Append(<<w1>>, w2), D2)
        BY <2>4, <2>6, <2>8, <2>9, <2>90, CodeLoad
    <2> HIDE DEF w2
    <2>11. Code(E, <<w1, w2>>, D2)
        BY <2>10, Tuple2
    <2>120. Known(D2) = Known(D1) \cup {b}
        BY KnownMore
    <2>121. <<b, G.type_uint>> \in E \cup D2
        OBVIOUS
    <2>12. Known(D2) = {b, b + 1} /\ <<b, G.type_uint>> \in E \cup D2
        BY <2>8, <2>120, <2>121
    <2> HIDE DEF D2
    <2>13. b + 2 \notin Known(D2) /\ b + 2 + 1 \notin Known(D2)
        BY <2>12
    <2>14. Code(E, <<w1, w2>> \o StoreViews(U(ins.dst), b, b + 2), D)
        BY <1>1, <2>6, <2>11, <2>12, <2>13, StoreViewsAfter
    <2>15. Known({<<b + 2, G.type_float>>, <<b + 2 + 1, G.type_ulong>>}) = {b + 2, b + 2 + 1}
        BY DEF Known
    <2>16. Known(D) = {b, b + 1} \cup {b + 2, b + 2 + 1}
        BY <2>12, <2>15, KnownUnion
    <2>17. {b, b + 1} \cup {b + 2, b + 2 + 1} \subseteq b .. (b + 4 - 1)
        OBVIOUS
    <2>18. Known(D) \subseteq b .. (b + 4 - 1)
        BY <2>16, <2>17
    <2> HIDE DEF D
    <2> QED
        BY <2>0, <2>14, <2>18, EmitsCode
<1> QED
    BY <1>2, <1>3

\* The code of Ldc is legal, whatever its offset.
LEMMA LdcCode ==
    ASSUME NEW E, Provides(E), NEW ins, Legal(ins), ins.op = "Ldc", NEW b \in Nat \ {0}
    PROVE  Emits(E, EmitLdc(ins, b), b)
<1>1. ins.dst \in Registers /\ RegisterPair(E, ins.dst)
    <2>1. ins.dst \in Registers
        BY DEF Legal
    <2> QED
        BY <2>1 DEF Provides
<1>2. /\ U(ins.dst) \in Nat /\ F(ins.dst) \in Nat
      /\ <<U(ins.dst), G.ptr_fn_uint>> \in E /\ <<F(ins.dst), G.ptr_fn_float>> \in E
    BY <1>1 DEF RegisterPair
<1>3. <<"ConvertUToF", G.type_float, G.type_uint>> \in Unary
    BY DEF Unary
<1>4. ASSUME NEW s, NEW D, Code(E, s, D), 0 \notin Known(D), NEW v \in Nat, <<v, G.type_uint>> \in E \cup D,
             NEW f \in Nat \ {0}, f \notin Known(D)
      PROVE  Code(E, s \o <<Store(U(ins.dst), v), Val("ConvertUToF", G.type_float, f, <<v>>), Store(F(ins.dst), f)>>,
                  D \cup {<<f, G.type_float>>})
    <2> DEFINE w1 == Store(U(ins.dst), v)
               w2 == Val("ConvertUToF", G.type_float, f, <<v>>)
               w3 == Store(F(ins.dst), f)
               K == E \cup D
               H == {} \cup {<<f, G.type_float>>}
    <2>1. /\ <<U(ins.dst), G.ptr_fn_uint>> \in K \cup {} /\ <<v, G.type_uint>> \in K \cup {}
          /\ <<F(ins.dst), G.ptr_fn_float>> \in K \cup H /\ <<f, G.type_float>> \in K \cup H
        BY <1>2, <1>4
    <2>20. Known({}) = {}
        BY KnownPairs
    <2>21. Known(H) = Known({}) \cup {f}
        BY KnownMore
    <2>2. Known({}) = {} /\ Known(H) = {f}
        BY <2>20, <2>21
    <2>3. 0 \notin Known({}) /\ 0 \notin Known(H) /\ f \notin Known({}) /\ f \in Nat
        BY <2>2
    <2>4. Code(K, <<>>, {})
        BY NoCode
    <2> HIDE DEF K
    <2>5. Code(K, Append(<<>>, w1), {})
        BY <1>2, <2>1, <2>3, <2>4, StoreSignatures, CodeStore
    <2> HIDE DEF w1
    <2>6. Code(K, <<w1>>, {})
        BY <2>5, Tuple1
    <2>7. Code(K, Append(<<w1>>, w2), H)
        BY <1>3, <2>1, <2>3, <2>6, CodeUnary
    <2> HIDE DEF w2, H
    <2>8. Code(K, <<w1, w2>>, H)
        BY <2>7, Tuple2
    <2>9. Code(K, Append(<<w1, w2>>, w3), H)
        BY <1>2, <2>1, <2>3, <2>8, StoreSignatures, CodeStore
    <2> HIDE DEF w3
    <2>10. Code(K, <<w1, w2, w3>>, H)
        BY <2>9, Tuple3
    <2>11. Apart(D, H)
        BY <1>4, <2>2 DEF Apart
    <2>12. Code(E, s \o <<w1, w2, w3>>, D \cup H)
        BY <1>4, <2>10, <2>11, CodeConcat DEF K
    <2> QED
        BY <2>12 DEF w1, w2, w3, H
<1> DEFINE code(v, f) == <<Store(U(ins.dst), v), Val("ConvertUToF", G.type_float, f, <<v>>), Store(F(ins.dst), f)>>
<1>5. CASE ins.offset = 24
    <2> DEFINE t == G.type_uint
               w == Load(t, b, U(3))
               D1 == {} \cup {<<b, t>>}
               D == D1 \cup {<<b + 1, G.type_float>>}
    <2>1. RegisterPair(E, 3)
        BY Threes DEF Provides
    <2>2. U(3) \in Nat /\ <<U(3), G.ptr_fn_uint>> \in E \cup {} /\ <<"Load", t, G.ptr_fn_uint>> \in Unary
        BY <2>1, LoadSignatures DEF RegisterPair
    <2>3. Code(E, <<>>, {}) /\ Known({}) = {} /\ b \notin Known({})
        BY NoCode, KnownPairs
    <2>0. EmitLdc(ins, b) = Emitted(b + 1 - b + 1, <<w>> \o code(b, b + 1))
        BY <1>5 DEF EmitLdc
    <2> HIDE DEF code, t
    <2>4. Code(E, Append(<<>>, w), D1)
        BY <2>2, <2>3, CodeLoad
    <2>50. Known(D1) = Known({}) \cup {b}
        BY KnownMore
    <2>51. <<b, t>> \in E \cup D1
        OBVIOUS
    <2>5. Known(D1) = {b} /\ <<b, t>> \in E \cup D1
        BY <2>3, <2>50, <2>51
    <2> HIDE DEF w, D1
    <2>6. Code(E, <<w>>, D1)
        BY <2>4, Tuple1
    <2>7. 0 \notin Known(D1) /\ b + 1 \in Nat \ {0} /\ b + 1 \notin Known(D1) /\ b \in Nat
        BY <2>5
    <2>8. Code(E, <<w>> \o code(b, b + 1), D)
        BY <1>4, <2>5, <2>6, <2>7 DEF code, t
    <2>90. Known(D) = Known(D1) \cup {b + 1}
        BY KnownMore
    <2>9. Known(D) = {b} \cup {b + 1}
        BY <2>5, <2>90
    <2>10. {b} \cup {b + 1} \subseteq b .. (b + (b + 1 - b + 1) - 1) /\ b + 1 - b + 1 \in Nat
        OBVIOUS
    <2>11. Known(D) \subseteq b .. (b + (b + 1 - b + 1) - 1)
        BY <2>9, <2>10
    <2> HIDE DEF D
    <2> QED
        BY <2>0, <2>8, <2>10, <2>11, EmitsCode
<1>6. CASE ins.offset # 24
    <2> DEFINE z == G.const_uint_0
               D == {} \cup {<<b, G.type_float>>}
    <2>0. EmitLdc(ins, b) = Emitted(b - b + 1, <<>> \o code(z, b))
        BY <1>6 DEF EmitLdc
    <2>1. z \in Nat /\ <<z, G.type_uint>> \in E \cup {}
        BY Ids DEF Provides, GlobalPairs
    <2>2. Code(E, <<>>, {}) /\ Known({}) = {} /\ b \notin Known({}) /\ 0 \notin Known({})
        BY NoCode, KnownPairs
    <2> HIDE DEF code, z
    <2>3. Code(E, <<>> \o code(z, b), D)
        BY <1>4, <2>1, <2>2 DEF code
    <2>40. Known(D) = Known({}) \cup {b}
        BY KnownMore
    <2>4. Known(D) = {b}
        BY <2>2, <2>40
    <2>5. {b} \subseteq b .. (b + (b - b + 1) - 1) /\ b - b + 1 \in Nat
        OBVIOUS
    <2>6. Known(D) \subseteq b .. (b + (b - b + 1) - 1)
        BY <2>4, <2>5
    <2> HIDE DEF D
    <2> QED
        BY <2>0, <2>3, <2>5, <2>6, EmitsCode
<1> QED
    BY <1>5, <1>6

\* The code of a barrier is legal.
LEMMA BarrierCode ==
    ASSUME NEW E, Provides(E), NEW b \in Nat \ {0}
    PROVE  Emits(E, EmitBarrier, b)
<1> DEFINE w == Plain("ControlBarrier", <<G.const_uint_2, G.const_uint_2, G.const_uint_264>>, <<>>)
<1>1. <<G.const_uint_2, G.type_uint>> \in E /\ <<G.const_uint_264, G.type_uint>> \in E
    BY DEF Provides, GlobalPairs
<1>2. {G.const_uint_2, G.const_uint_264} \subseteq Known(E)
    BY <1>1 DEF Known
<1>3. Obeys(E, w)
    BY <1>2 DEF Obeys
<1>4. w.id = 0
    BY DEF Plain
<1> HIDE DEF w
<1>5. Code(E, <<w>>, {})
    BY <1>3, <1>4, CodeOne
<1>6. Known({}) \subseteq b .. (b + 0 - 1)
    BY KnownPairs
<1> QED
    BY <1>5, <1>6, EmitsCode DEF EmitBarrier, w

\* A no-op is legal.
LEMMA NopCode ==
    ASSUME NEW E, NEW b \in Nat \ {0}
    PROVE  Emits(E, EmitNop, b)
<1> DEFINE w == Plain("Nop", <<>>, <<>>)
<1>3. Obeys(E, w)
    BY DEF Obeys
<1>4. w.id = 0
    BY DEF Plain
<1> HIDE DEF w
<1>5. Code(E, <<w>>, {})
    BY <1>3, <1>4, CodeOne
<1>6. Known({}) \subseteq b .. (b + 0 - 1)
    BY KnownPairs
<1> QED
    BY <1>5, <1>6, EmitsCode DEF EmitNop, w

\* Every arm emits legal code.
LEMMA ArmCode ==
    ASSUME NEW E, Provides(E), NEW ins, Legal(ins), NEW b \in Nat \ {0}
    PROVE  Emits(E, EmitOp(ins, b), b)
<1>1. CASE ins.op = "Mov"
    <2>1. EmitOp(ins, b) = EmitMov(ins, b)
        BY <1>1 DEF EmitOp
    <2> QED
        BY <1>1, <2>1, MovCode
<1>2. CASE ins.op = "IAdd3"
    <2>1. EmitOp(ins, b) = EmitInteger("IAdd", ins, b)
        BY <1>2 DEF EmitOp
    <2> QED
        BY <1>2, <2>1, IntegerCode
<1>3. CASE ins.op = "IMad"
    <2>1. EmitOp(ins, b) = EmitInteger("IMul", ins, b)
        BY <1>3 DEF EmitOp
    <2> QED
        BY <1>3, <2>1, IntegerCode
<1>4. CASE ins.op = "ISetP"
    <2>1. EmitOp(ins, b) = EmitISetP(ins, b)
        BY <1>4 DEF EmitOp
    <2> QED
        BY <1>4, <2>1, ISetPCode
<1>5. CASE ins.op = "FAdd"
    <2>1. EmitOp(ins, b) = EmitFloat("FAdd", ins, b)
        BY <1>5 DEF EmitOp
    <2> QED
        BY <1>5, <2>1, FloatCode
<1>6. CASE ins.op = "FMul"
    <2>1. EmitOp(ins, b) = EmitFloat("FMul", ins, b)
        BY <1>6 DEF EmitOp
    <2> QED
        BY <1>6, <2>1, FloatCode
<1>7. CASE ins.op = "FFma"
    <2>1. EmitOp(ins, b) = EmitFFma(ins, b)
        BY <1>7 DEF EmitOp
    <2> QED
        BY <1>7, <2>1, FFmaCode
<1>8. CASE ins.op = "S2R"
    <2>1. EmitOp(ins, b) = EmitS2R(ins, b)
        BY <1>8 DEF EmitOp
    <2> QED
        BY <1>8, <2>1, S2RCode
<1>9. CASE ins.op = "Ldc"
    <2>1. EmitOp(ins, b) = EmitLdc(ins, b)
        BY <1>9 DEF EmitOp
    <2> QED
        BY <1>9, <2>1, LdcCode
<1>10. CASE ins.op = "Barrier"
    <2>1. EmitOp(ins, b) = EmitBarrier
        BY <1>10 DEF EmitOp
    <2> QED
        BY <2>1, BarrierCode
<1>11. CASE ins.op \in {"Ldg", "Stg", "Bra", "Exit", "Nop"}
    <2>1. EmitOp(ins, b) = EmitNop
        BY <1>11 DEF EmitOp
    <2> QED
        BY <2>1, NopCode
<1> QED
    BY <1>1, <1>2, <1>3, <1>4, <1>5, <1>6, <1>7, <1>8, <1>9, <1>10, <1>11 DEF Legal, Translatable

-----------------------------------------------------------------------------
(***************************************************************************)
(* Code with control flow.                                                 *)
(***************************************************************************)

Jumping == {"Branch", "BranchConditional"}
Targeting == {"Branch", "BranchConditional", "SelectionMerge"}

PairAt(s, d) == <<s[d].id, s[d].type>>

\* The definitions before place u that no label separates from it.
NearAt(s, u) ==
    {d \in 1 .. Len(s) : d < u /\ s[d].id # 0 /\ \A j \in 1 .. Len(s) : d < j /\ j <= u => s[j].op # "Label"}

Near(s, u) == {PairAt(s, d) : d \in NearAt(s, u)}

\* The definitions before place u that no branch precedes.
OpenAt(s, u) ==
    {d \in 1 .. Len(s) : d < u /\ s[d].id # 0 /\ \A j \in 1 .. Len(s) : j < d => s[j].op \notin Jumping}

Open(s, u) == {PairAt(s, d) : d \in OpenAt(s, u)}

\* The open definitions of all of s.
Exports(s) == Open(s, Len(s) + 1)

\* Where E is known, the operands of w are known and of the types it demands.
Fit(E, w) ==
    /\ Uses(w) \subseteq Known(E)
    /\ w.op \in BodyOps => Obeys(E, w)
    /\ w.op = "BranchConditional" => \E c \in Nat : w.args = <<c>> /\ <<c, G.type_bool>> \in E

\* s is legal after code that leaves E known on every path.
Grounded(E, s) == \A u \in 1 .. Len(s) : Fit(E \cup Near(s, u), s[u])

LabelsIn(s) == {s[k].id : k \in {j \in 1 .. Len(s) : s[j].op = "Label"}}

\* Every label that s goes to comes later in s, or is one of L.
Resolved(s, L) ==
    \A k \in 1 .. Len(s) : s[k].op \in Targeting =>
        \A x \in DOMAIN s[k].lits :
            \/ s[k].lits[x] \in L
            \/ \E j \in 1 .. Len(s) : k < j /\ s[j].op = "Label" /\ s[j].id = s[k].lits[x]

\* A part of a function, and a module or its beginning.
Part(E, s) == s \in Seq(Instruction) /\ Once(s) /\ Grounded(E, s) /\ Resolved(s, {})

Sound(s) ==
    /\ s \in Seq(Instruction)
    /\ Once(s)
    /\ \A u \in 1 .. Len(s) : Fit(Open(s, u) \cup Near(s, u), s[u])
    /\ Resolved(s, {})

\* The parts of a concatenation, by their places.
Glued(r, s, t) ==
    /\ r \in Seq(Instruction) /\ Len(s) \in Nat /\ Len(t) \in Nat /\ Len(r) = Len(s) + Len(t)
    /\ \A k \in 1 .. Len(s) : k \in 1 .. Len(r) /\ r[k] = s[k]
    /\ \A k \in 1 .. Len(t) : Len(s) + k \in 1 .. Len(r) /\ r[Len(s) + k] = t[k]
    /\ \A k \in 1 .. Len(r) : k \in 1 .. Len(s) \/ \E j \in 1 .. Len(t) : k = Len(s) + j

\* A concatenation has the parts it is made of.
LEMMA ConcatGlues ==
    ASSUME NEW s \in Seq(Instruction), NEW t \in Seq(Instruction)
    PROVE  Glued(s \o t, s, t)
<1> DEFINE r == s \o t
           m == Len(s)
           n == Len(t)
<1>1. r \in Seq(Instruction) /\ Len(r) = m + n /\ m \in Nat /\ n \in Nat
    BY ConcatProperties, LenProperties
<1>2. \A k \in 1 .. m : r[k] = s[k]
    BY ConcatProperties
<1>3. \A k \in 1 .. n : r[m + k] = t[k]
    BY ConcatProperties
<1> HIDE DEF r, m, n
<1>4. \A k \in 1 .. m : k \in 1 .. Len(r)
    BY <1>1
<1>5. \A k \in 1 .. n : m + k \in 1 .. Len(r)
    BY <1>1
<1>6. ASSUME NEW k \in 1 .. Len(r), k \notin 1 .. m
      PROVE  \E j \in 1 .. n : k = m + j
    <2>1. k - m \in 1 .. n /\ k = m + (k - m)
        BY <1>1, <1>6
    <2> QED
        BY <2>1
<1> QED
    BY <1>1, <1>2, <1>3, <1>4, <1>5, <1>6 DEF Glued, r, m, n

\* What is near a place of a part is near it in the whole.
LEMMA NearGrows ==
    ASSUME NEW r, NEW s, NEW t, Glued(r, s, t)
    PROVE  /\ \A u \in 1 .. Len(s) : Near(s, u) \subseteq Near(r, u)
           /\ \A u \in 1 .. Len(t) : Near(t, u) \subseteq Near(r, Len(s) + u)
<1> USE DEF Glued
<1>1. ASSUME NEW u \in 1 .. Len(s), NEW p \in Near(s, u)
      PROVE  p \in Near(r, u)
    <2>1. PICK d \in NearAt(s, u) : p = PairAt(s, d)
        BY <1>1 DEF Near
    <2>2. /\ d \in 1 .. Len(s) /\ d < u /\ s[d].id # 0
          /\ \A j \in 1 .. Len(s) : d < j /\ j <= u => s[j].op # "Label"
        BY <2>1 DEF NearAt
    <2>3. r[d] = s[d] /\ d \in 1 .. Len(r)
        BY <2>2
    <2>4. ASSUME NEW j \in 1 .. Len(r), d < j, j <= u
          PROVE  r[j].op # "Label"
        <3>1. j \in 1 .. Len(s)
            BY <2>4
        <3> QED
            BY <2>2, <2>4, <3>1
    <2>5. d \in NearAt(r, u)
        BY <2>2, <2>3, <2>4 DEF NearAt
    <2>6. p = PairAt(r, d)
        BY <2>1, <2>3 DEF PairAt
    <2> QED
        BY <2>5, <2>6 DEF Near
<1>2. ASSUME NEW u \in 1 .. Len(t), NEW p \in Near(t, u)
      PROVE  p \in Near(r, Len(s) + u)
    <2> DEFINE m == Len(s)
    <2>1. PICK d \in NearAt(t, u) : p = PairAt(t, d)
        BY <1>2 DEF Near
    <2>2. /\ d \in 1 .. Len(t) /\ d < u /\ t[d].id # 0
          /\ \A j \in 1 .. Len(t) : d < j /\ j <= u => t[j].op # "Label"
        BY <2>1 DEF NearAt
    <2>3. r[m + d] = t[d] /\ m + d \in 1 .. Len(r) /\ m + d < m + u
        BY <2>2
    <2>4. ASSUME NEW j \in 1 .. Len(r), m + d < j, j <= m + u
          PROVE  r[j].op # "Label"
        <3>1. j - m \in 1 .. Len(t) /\ d < j - m /\ j - m <= u /\ j = m + (j - m)
            BY <2>2, <2>4
        <3>2. r[m + (j - m)] = t[j - m]
            BY <3>1
        <3> QED
            BY <2>2, <3>1, <3>2
    <2>5. m + d \in NearAt(r, m + u)
        BY <2>2, <2>3, <2>4 DEF NearAt
    <2>6. p = PairAt(r, m + d)
        BY <2>1, <2>3 DEF PairAt
    <2> QED
        BY <2>5, <2>6 DEF Near
<1> QED
    BY <1>1, <1>2

\* What is open at a place of the first part is open there, and in the second part, of the whole.
LEMMA OpenGrows ==
    ASSUME NEW r, NEW s, NEW t, Glued(r, s, t)
    PROVE  /\ \A u \in 1 .. Len(s) + 1 : Open(s, u) \subseteq Open(r, u)
           /\ \A u \in 1 .. Len(t) + 1 : Exports(s) \subseteq Open(r, Len(s) + u)
<1> USE DEF Glued
<1>1. ASSUME NEW v \in 1 .. Len(s) + 1, NEW u \in Nat, v <= u, NEW p \in Open(s, v)
      PROVE  p \in Open(r, u)
    <2>1. PICK d \in OpenAt(s, v) : p = PairAt(s, d)
        BY <1>1 DEF Open
    <2>2. /\ d \in 1 .. Len(s) /\ d < v /\ s[d].id # 0
          /\ \A j \in 1 .. Len(s) : j < d => s[j].op \notin Jumping
        BY <2>1 DEF OpenAt
    <2>3. r[d] = s[d] /\ d \in 1 .. Len(r) /\ d < u
        BY <1>1, <2>2
    <2>4. ASSUME NEW j \in 1 .. Len(r), j < d
          PROVE  r[j].op \notin Jumping
        <3>1. j \in 1 .. Len(s)
            BY <2>2, <2>4
        <3> QED
            BY <2>2, <2>4, <3>1
    <2>5. d \in OpenAt(r, u)
        BY <2>2, <2>3, <2>4 DEF OpenAt
    <2>6. p = PairAt(r, d)
        BY <2>1, <2>3 DEF PairAt
    <2> QED
        BY <2>5, <2>6 DEF Open
<1>2. ASSUME NEW u \in 1 .. Len(s) + 1
      PROVE  Open(s, u) \subseteq Open(r, u)
    <2>1. u \in Nat /\ u <= u
        OBVIOUS
    <2> QED
        BY <1>1, <2>1
<1>3. ASSUME NEW u \in 1 .. Len(t) + 1
      PROVE  Exports(s) \subseteq Open(r, Len(s) + u)
    <2>1. Len(s) + u \in Nat /\ Len(s) + 1 <= Len(s) + u /\ Len(s) + 1 \in 1 .. Len(s) + 1
        OBVIOUS
    <2> QED
        BY <1>1, <2>1 DEF Exports
<1> QED
    BY <1>2, <1>3

\* An instruction that fits still fits when more is known.
LEMMA FitMore ==
    ASSUME NEW E, NEW H, E \subseteq H, NEW w, Fit(E, w)
    PROVE  Fit(H, w)
<1>1. Known(E) \subseteq Known(H)
    BY DEF Known
<1>2. w.op \in BodyOps => Obeys(H, w)
    BY ObeysMore DEF Fit
<1> QED
    BY <1>1, <1>2 DEF Fit

\* Two legal parts make one.
LEMMA GroundedConcat ==
    ASSUME NEW E, NEW s \in Seq(Instruction), NEW t \in Seq(Instruction), Grounded(E, s), Grounded(E, t)
    PROVE  Grounded(E, s \o t)
<1> DEFINE r == s \o t
<1>1. Glued(r, s, t)
    BY ConcatGlues
<1> HIDE DEF r
<1>2. /\ \A u \in 1 .. Len(s) : Near(s, u) \subseteq Near(r, u)
      /\ \A u \in 1 .. Len(t) : Near(t, u) \subseteq Near(r, Len(s) + u)
    BY <1>1, NearGrows
<1> SUFFICES ASSUME NEW u \in 1 .. Len(r)
             PROVE  Fit(E \cup Near(r, u), r[u])
    BY DEF Grounded, r
<1>3. CASE u \in 1 .. Len(s)
    <2>1. Fit(E \cup Near(s, u), s[u]) /\ r[u] = s[u]
        BY <1>1, <1>3 DEF Grounded, Glued
    <2>2. E \cup Near(s, u) \subseteq E \cup Near(r, u)
        BY <1>2, <1>3
    <2> QED
        BY <2>1, <2>2, FitMore
<1>4. ASSUME NEW v \in 1 .. Len(t), u = Len(s) + v
      PROVE  Fit(E \cup Near(r, u), r[u])
    <2>1. Fit(E \cup Near(t, v), t[v]) /\ r[u] = t[v]
        BY <1>1, <1>4 DEF Grounded, Glued
    <2>2. E \cup Near(t, v) \subseteq E \cup Near(r, u)
        BY <1>2, <1>4
    <2> QED
        BY <2>1, <2>2, FitMore
<1> QED
    BY <1>1, <1>3, <1>4 DEF Glued

\* The labels a first part leaves open may come in the second.
LEMMA ResolvedConcat ==
    ASSUME NEW s \in Seq(Instruction), NEW t \in Seq(Instruction), NEW L, NEW K,
           Resolved(s, K), Resolved(t, L), K \subseteq L \cup LabelsIn(t)
    PROVE  Resolved(s \o t, L)
<1> DEFINE r == s \o t
<1>1. Glued(r, s, t)
    BY ConcatGlues
<1> HIDE DEF r
<1> SUFFICES ASSUME NEW k \in 1 .. Len(r), r[k].op \in Targeting, NEW x \in DOMAIN r[k].lits,
                    r[k].lits[x] \notin L
             PROVE  \E j \in 1 .. Len(r) : k < j /\ r[j].op = "Label" /\ r[j].id = r[k].lits[x]
    BY DEF Resolved, r
<1>2. CASE k \in 1 .. Len(s)
    <2>1. r[k] = s[k]
        BY <1>1, <1>2 DEF Glued
    <2>2. CASE s[k].lits[x] \in K
        <3>1. s[k].lits[x] \in LabelsIn(t)
            BY <2>1, <2>2
        <3>2. PICK j \in 1 .. Len(t) : t[j].op = "Label" /\ t[j].id = s[k].lits[x]
            BY <3>1 DEF LabelsIn
        <3>3. Len(s) + j \in 1 .. Len(r) /\ r[Len(s) + j] = t[j] /\ k < Len(s) + j
            BY <1>1, <1>2 DEF Glued
        <3> QED
            BY <2>1, <3>2, <3>3
    <2>3. CASE s[k].lits[x] \notin K
        <3>1. PICK j \in 1 .. Len(s) : k < j /\ s[j].op = "Label" /\ s[j].id = s[k].lits[x]
            BY <1>2, <2>1, <2>3 DEF Resolved
        <3>2. j \in 1 .. Len(r) /\ r[j] = s[j]
            BY <1>1 DEF Glued
        <3> QED
            BY <2>1, <3>1, <3>2
    <2> QED
        BY <2>2, <2>3
<1>3. ASSUME NEW v \in 1 .. Len(t), k = Len(s) + v
      PROVE  \E j \in 1 .. Len(r) : k < j /\ r[j].op = "Label" /\ r[j].id = r[k].lits[x]
    <2>1. r[k] = t[v]
        BY <1>1, <1>3 DEF Glued
    <2>2. PICK j \in 1 .. Len(t) : v < j /\ t[j].op = "Label" /\ t[j].id = t[v].lits[x]
        BY <2>1 DEF Resolved
    <2>3. Len(s) + j \in 1 .. Len(r) /\ r[Len(s) + j] = t[j] /\ k < Len(s) + j
        BY <1>1, <1>3, <2>2 DEF Glued
    <2> QED
        BY <2>1, <2>2, <2>3
<1> QED
    BY <1>1, <1>2, <1>3 DEF Glued

\* The labels and the results of a concatenation.
LEMMA LabelsConcat ==
    ASSUME NEW s \in Seq(Instruction), NEW t \in Seq(Instruction)
    PROVE  /\ LabelsIn(s) \subseteq LabelsIn(s \o t)
           /\ LabelsIn(t) \subseteq LabelsIn(s \o t)
           /\ ResultIds(s \o t) = ResultIds(s) \cup ResultIds(t)
<1> DEFINE r == s \o t
<1>1. Glued(r, s, t)
    BY ConcatGlues
<1> HIDE DEF r
<1>2. LabelsIn(s) \subseteq LabelsIn(r)
    BY <1>1 DEF Glued, LabelsIn
<1>3. ASSUME NEW x \in LabelsIn(t)
      PROVE  x \in LabelsIn(r)
    <2>1. PICK j \in 1 .. Len(t) : t[j].op = "Label" /\ t[j].id = x
        BY <1>3 DEF LabelsIn
    <2>2. Len(s) + j \in 1 .. Len(r) /\ r[Len(s) + j] = t[j]
        BY <1>1 DEF Glued
    <2> QED
        BY <2>1, <2>2 DEF LabelsIn
<1>4. DOMAIN r = 1 .. Len(r) /\ DOMAIN s = 1 .. Len(s) /\ DOMAIN t = 1 .. Len(t)
    BY <1>1 DEF Glued
<1>5. ResultIds(s) \subseteq ResultIds(r)
    BY <1>1, <1>4 DEF Glued, ResultIds
<1>6. ASSUME NEW x \in ResultIds(t)
      PROVE  x \in ResultIds(r)
    <2>1. PICK j \in 1 .. Len(t) : t[j].id = x /\ x # 0
        BY <1>4, <1>6 DEF ResultIds
    <2>2. Len(s) + j \in 1 .. Len(r) /\ r[Len(s) + j] = t[j]
        BY <1>1 DEF Glued
    <2> QED
        BY <1>4, <2>1, <2>2 DEF ResultIds
<1>7. ASSUME NEW x \in ResultIds(r)
      PROVE  x \in ResultIds(s) \cup ResultIds(t)
    <2>1. PICK j \in 1 .. Len(r) : r[j].id = x /\ x # 0
        BY <1>4, <1>7 DEF ResultIds
    <2>2. CASE j \in 1 .. Len(s)
        BY <1>1, <1>4, <2>1, <2>2 DEF Glued, ResultIds
    <2>3. ASSUME NEW v \in 1 .. Len(t), j = Len(s) + v
          PROVE  x \in ResultIds(t)
        <3>1. t[v].id = x
            BY <1>1, <2>1, <2>3 DEF Glued
        <3> QED
            BY <1>4, <2>1, <3>1 DEF ResultIds
    <2> QED
        BY <1>1, <2>2, <2>3 DEF Glued
<1> QED
    BY <1>2, <1>3, <1>5, <1>6, <1>7 DEF r

\* Two parts with different results define no id twice together.
LEMMA OnceApart ==
    ASSUME NEW s \in Seq(Instruction), NEW t \in Seq(Instruction), Once(s), Once(t),
           ResultIds(s) \cap ResultIds(t) = {}
    PROVE  Once(s \o t)
<1> DEFINE r == s \o t
<1>1. Glued(r, s, t)
    BY ConcatGlues
<1> HIDE DEF r
<1>2. DOMAIN s = 1 .. Len(s) /\ DOMAIN t = 1 .. Len(t)
    OBVIOUS
<1>3. ASSUME NEW u \in 1 .. Len(s), NEW v \in 1 .. Len(t), s[u].id = t[v].id, s[u].id # 0
      PROVE  FALSE
    BY <1>2, <1>3 DEF ResultIds
<1> SUFFICES ASSUME NEW u \in 1 .. Len(r), NEW v \in 1 .. Len(r), r[u].id = r[v].id, r[u].id # 0
             PROVE  u = v
    BY DEF Once, r
<1>4. CASE u \in 1 .. Len(s) /\ v \in 1 .. Len(s)
    BY <1>1, <1>4 DEF Glued, Once
<1>5. CASE u \in 1 .. Len(s) /\ v \notin 1 .. Len(s)
    <2>1. PICK j \in 1 .. Len(t) : v = Len(s) + j
        BY <1>1, <1>5 DEF Glued
    <2>2. r[u] = s[u] /\ r[v] = t[j]
        BY <1>1, <1>5, <2>1 DEF Glued
    <2> QED
        BY <1>3, <1>5, <2>2
<1>6. CASE u \notin 1 .. Len(s) /\ v \in 1 .. Len(s)
    <2>1. PICK j \in 1 .. Len(t) : u = Len(s) + j
        BY <1>1, <1>6 DEF Glued
    <2>2. r[v] = s[v] /\ r[u] = t[j]
        BY <1>1, <1>6, <2>1 DEF Glued
    <2> QED
        BY <1>3, <1>6, <2>2
<1>7. CASE u \notin 1 .. Len(s) /\ v \notin 1 .. Len(s)
    <2>1. PICK j \in 1 .. Len(t) : u = Len(s) + j
        BY <1>1, <1>7 DEF Glued
    <2>2. PICK k \in 1 .. Len(t) : v = Len(s) + k
        BY <1>1, <1>7 DEF Glued
    <2>3. r[u] = t[j] /\ r[v] = t[k]
        BY <1>1, <2>1, <2>2 DEF Glued
    <2>4. j = k
        BY <2>3 DEF Once
    <2> QED
        BY <2>1, <2>2, <2>4
<1> QED
    BY <1>4, <1>5, <1>6, <1>7

\* A module and a part that rests on what the module exports.
LEMMA SoundConcat ==
    ASSUME NEW s, Sound(s), NEW E, E \subseteq Exports(s), NEW t, Part(E, t),
           ResultIds(s) \cap ResultIds(t) = {}
    PROVE  Sound(s \o t) /\ Exports(s) \subseteq Exports(s \o t)
<1> DEFINE r == s \o t
<1>0. s \in Seq(Instruction) /\ t \in Seq(Instruction) /\ Once(s) /\ Once(t)
    BY DEF Sound, Part
<1>1. Glued(r, s, t)
    BY <1>0, ConcatGlues
<1>2. Once(r)
    BY <1>0, OnceApart
<1>3. Resolved(r, {})
    <2>1. {} \subseteq {} \cup LabelsIn(t)
        OBVIOUS
    <2> QED
        BY <1>0, <2>1, ResolvedConcat DEF Sound, Part
<1> HIDE DEF r
<1>4. /\ \A u \in 1 .. Len(s) : Near(s, u) \subseteq Near(r, u)
      /\ \A u \in 1 .. Len(t) : Near(t, u) \subseteq Near(r, Len(s) + u)
    BY <1>1, NearGrows
<1>5. /\ \A u \in 1 .. Len(s) + 1 : Open(s, u) \subseteq Open(r, u)
      /\ \A u \in 1 .. Len(t) + 1 : Exports(s) \subseteq Open(r, Len(s) + u)
    BY <1>1, OpenGrows
<1>6. ASSUME NEW u \in 1 .. Len(r)
      PROVE  Fit(Open(r, u) \cup Near(r, u), r[u])
    <2>1. CASE u \in 1 .. Len(s)
        <3>1. Fit(Open(s, u) \cup Near(s, u), s[u]) /\ r[u] = s[u]
            BY <1>1, <2>1 DEF Sound, Glued
        <3>2. u \in 1 .. Len(s) + 1
            BY <1>1, <2>1 DEF Glued
        <3>3. Open(s, u) \cup Near(s, u) \subseteq Open(r, u) \cup Near(r, u)
            BY <1>4, <1>5, <2>1, <3>2
        <3> QED
            BY <3>1, <3>3, FitMore
    <2>2. ASSUME NEW v \in 1 .. Len(t), u = Len(s) + v
          PROVE  Fit(Open(r, u) \cup Near(r, u), r[u])
        <3>1. Fit(E \cup Near(t, v), t[v]) /\ r[u] = t[v]
            BY <1>1, <2>2 DEF Part, Grounded, Glued
        <3>2. v \in 1 .. Len(t) + 1
            BY <1>1 DEF Glued
        <3>3. E \cup Near(t, v) \subseteq Open(r, u) \cup Near(r, u)
            BY <1>4, <1>5, <2>2, <3>2
        <3> QED
            BY <3>1, <3>3, FitMore
    <2> QED
        BY <1>1, <2>1, <2>2 DEF Glued
<1>7. Exports(s) \subseteq Exports(r)
    <2>1. Len(t) + 1 \in 1 .. Len(t) + 1 /\ Len(s) + (Len(t) + 1) = Len(r) + 1
        BY <1>1 DEF Glued
    <2> QED
        BY <1>5, <2>1 DEF Exports
<1>8. r \in Seq(Instruction)
    BY <1>1 DEF Glued
<1> QED
    BY <1>2, <1>3, <1>6, <1>7, <1>8 DEF Sound, r

-----------------------------------------------------------------------------
(***************************************************************************)
(* The order of the instructions of a function.                            *)
(***************************************************************************)

FunctionOps ==
    BodyOps \cup {"Label", "SelectionMerge", "BranchConditional", "Branch", "Return", "FunctionEnd"}

\* b may come after a.
Follows(a, b) ==
    /\ b \in {"Label", "FunctionEnd"} <=> a \in Terminators
    /\ b = "BranchConditional" <=> a = "SelectionMerge"

Chained(s) ==
    /\ \A k \in 1 .. Len(s) : s[k].op \in FunctionOps /\ (s[k].op = "Label" => s[k].id # 0)
    /\ \A k \in 2 .. Len(s) : Follows(s[k - 1].op, s[k].op)

Opening == BodyOps \cup {"SelectionMerge", "Branch", "Return"}
Calm == BodyOps \cup {"Label"}

Begins(s) == Len(s) # 0 => s[1].op \in Opening
Ends(s) == Len(s) # 0 => s[Len(s)].op \in Calm

\* What may come after and before anything else of the kind.
Stretch(s) == Chained(s) /\ Begins(s) /\ Ends(s)

\* An operation of the body is none of the control flow.
LEMMA BodyOpsApart ==
    \A op \in BodyOps :
        op \notin {"Label", "SelectionMerge", "BranchConditional", "Branch", "Return", "FunctionEnd",
                   "Function", "Variable"}
BY DEF BodyOps

\* Where nothing is pending, any opening instruction may come.
LEMMA CalmFollows ==
    ASSUME NEW a \in Calm, NEW b \in Opening
    PROVE  Follows(a, b)
<1>1. a \notin {"SelectionMerge", "Branch", "BranchConditional", "Return"}
    BY BodyOpsApart DEF Calm
<1>2. b \notin {"Label", "FunctionEnd", "BranchConditional"}
    BY BodyOpsApart DEF Opening
<1> QED
    BY <1>1, <1>2 DEF Follows, Terminators

\* Two chains make one.
LEMMA ChainedConcat ==
    ASSUME NEW s \in Seq(Instruction), NEW t \in Seq(Instruction), Chained(s), Ends(s),
           Chained(t), Begins(t)
    PROVE  Chained(s \o t)
<1> DEFINE r == s \o t
           m == Len(s)
<1>1. Glued(r, s, t)
    BY ConcatGlues
<1> HIDE DEF r
<1>2. /\ m \in Nat /\ Len(t) \in Nat /\ Len(r) = m + Len(t)
      /\ \A k \in 1 .. m : k \in 1 .. Len(r) /\ r[k] = s[k]
      /\ \A k \in 1 .. Len(t) : m + k \in 1 .. Len(r) /\ r[m + k] = t[k]
    BY <1>1 DEF Glued
<1>20. \A k \in 1 .. Len(r) : k \in 1 .. m \/ \E j \in 1 .. Len(t) : k = m + j
    BY <1>1 DEF Glued
<1>21. \A k \in 1 .. Len(s) : s[k].op \in FunctionOps /\ (s[k].op = "Label" => s[k].id # 0)
    BY DEF Chained
<1>22. \A k \in 1 .. Len(t) : t[k].op \in FunctionOps /\ (t[k].op = "Label" => t[k].id # 0)
    BY DEF Chained
<1>3. \A k \in 1 .. Len(r) : r[k].op \in FunctionOps /\ (r[k].op = "Label" => r[k].id # 0)
    <2> SUFFICES ASSUME NEW k \in 1 .. Len(r)
                 PROVE  r[k].op \in FunctionOps /\ (r[k].op = "Label" => r[k].id # 0)
        OBVIOUS
    <2>1. CASE k \in 1 .. m
        <3>1. r[k] = s[k]
            BY <1>2, <2>1
        <3> QED
            BY <1>21, <2>1, <3>1
    <2>2. CASE \E j \in 1 .. Len(t) : k = m + j
        <3>1. PICK j \in 1 .. Len(t) : k = m + j
            BY <2>2
        <3>2. r[k] = t[j]
            BY <1>2, <3>1
        <3> QED
            BY <1>22, <3>1, <3>2
    <2> QED
        BY <1>20, <2>1, <2>2
<1>4. ASSUME NEW k \in 2 .. Len(r)
      PROVE  Follows(r[k - 1].op, r[k].op)
    <2>1. CASE k <= m
        <3>1. k \in 2 .. m /\ k \in 1 .. m /\ k - 1 \in 1 .. m
            BY <2>1, <1>2
        <3>2. r[k] = s[k] /\ r[k - 1] = s[k - 1]
            BY <1>2, <3>1
        <3> QED
            BY <3>1, <3>2 DEF Chained
    <2>2. CASE k = m + 1
        <3>1. m \in 1 .. m /\ 1 \in 1 .. Len(t) /\ k - 1 = m
            BY <1>2, <2>2
        <3>2. r[k] = t[1] /\ r[k - 1] = s[m]
            BY <1>2, <2>2, <3>1
        <3>3. s[m].op \in Calm /\ t[1].op \in Opening
            BY <3>1 DEF Ends, Begins
        <3> QED
            BY <3>2, <3>3, CalmFollows
    <2>3. CASE k > m + 1
        <3>1. /\ k - m \in 2 .. Len(t) /\ k - m \in 1 .. Len(t) /\ (k - m) - 1 \in 1 .. Len(t)
              /\ k = m + (k - m) /\ k - 1 = m + ((k - m) - 1)
            BY <1>2, <2>3
        <3>20. r[m + (k - m)] = t[k - m]
            BY <1>2, <3>1
        <3>21. r[m + ((k - m) - 1)] = t[(k - m) - 1]
            BY <1>2, <3>1
        <3>2. r[k] = t[k - m] /\ r[k - 1] = t[(k - m) - 1]
            BY <3>1, <3>20, <3>21
        <3>3. Follows(t[(k - m) - 1].op, t[k - m].op)
            BY <3>1 DEF Chained
        <3> QED
            BY <3>2, <3>3
    <2> QED
        BY <1>2, <2>1, <2>2, <2>3
<1> QED
    BY <1>3, <1>4 DEF Chained, r

\* Two parts that leave nothing pending leave nothing pending together.
LEMMA EndsConcat ==
    ASSUME NEW s \in Seq(Instruction), NEW t \in Seq(Instruction), Ends(s), Ends(t)
    PROVE  Ends(s \o t)
<1> DEFINE r == s \o t
<1>1. Glued(r, s, t)
    BY ConcatGlues
<1> HIDE DEF r
<1>2. CASE Len(t) = 0
    <2>1. Len(r) = Len(s)
        BY <1>1, <1>2 DEF Glued
    <2>2. Len(s) # 0 => r[Len(s)] = s[Len(s)]
        BY <1>1 DEF Glued
    <2> QED
        BY <2>1, <2>2 DEF Ends, r
<1>3. CASE Len(t) # 0
    <2>1. Len(t) \in 1 .. Len(t)
        BY <1>1, <1>3 DEF Glued
    <2>2. r[Len(r)] = t[Len(t)]
        BY <1>1, <2>1 DEF Glued
    <2> QED
        BY <1>3, <2>2 DEF Ends, r
<1> QED
    BY <1>2, <1>3

\* A concatenation begins like its first part.
LEMMA BeginsConcat ==
    ASSUME NEW s \in Seq(Instruction), NEW t \in Seq(Instruction), Begins(s), Begins(t)
    PROVE  Begins(s \o t)
<1> DEFINE r == s \o t
<1>1. Glued(r, s, t)
    BY ConcatGlues
<1> HIDE DEF r
<1>2. CASE Len(s) = 0
    <2>1. Len(r) = Len(t)
        BY <1>1, <1>2 DEF Glued
    <2>2. Len(t) # 0 => r[1] = t[1]
        <3>1. ASSUME Len(t) # 0
              PROVE  r[1] = t[1]
            <4>1. 1 \in 1 .. Len(t) /\ Len(s) + 1 = 1
                BY <1>1, <1>2, <3>1 DEF Glued
            <4>2. r[Len(s) + 1] = t[1]
                BY <1>1, <4>1 DEF Glued
            <4> QED
                BY <4>1, <4>2
        <3> QED
            BY <3>1
    <2> QED
        BY <2>1, <2>2 DEF Begins, r
<1>3. CASE Len(s) # 0
    <2>1. 1 \in 1 .. Len(s)
        BY <1>1, <1>3 DEF Glued
    <2>2. r[1] = s[1]
        BY <1>1, <2>1 DEF Glued
    <2> QED
        BY <1>3, <2>2 DEF Begins, r
<1> QED
    BY <1>2, <1>3

\* Two stretches make one.
LEMMA StretchConcat ==
    ASSUME NEW s \in Seq(Instruction), NEW t \in Seq(Instruction), Stretch(s), Stretch(t)
    PROVE  Stretch(s \o t)
<1>1. Chained(s \o t)
    BY ChainedConcat DEF Stretch
<1>2. Ends(s \o t)
    BY EndsConcat DEF Stretch
<1>3. Begins(s \o t)
    BY BeginsConcat DEF Stretch
<1> QED
    BY <1>1, <1>2, <1>3 DEF Stretch

-----------------------------------------------------------------------------
(***************************************************************************)
(* Straight code is a part of a function, and so is code in a selection.   *)
(***************************************************************************)

Fragment(E, s, S) == Part(E, s) /\ Stretch(s) /\ ResultIds(s) = S

\* Without a label all that precedes is near.
LEMMA NoLabelNear ==
    ASSUME NEW s, \A k \in 1 .. Len(s) : s[k].op # "Label", NEW u
    PROVE  Near(s, u) = AddsTo(s, u)
<1>1. NearAt(s, u) = {k \in 1 .. Len(s) : k < u /\ s[k].id # 0}
    BY DEF NearAt
<1> QED
    BY <1>1 DEF Near, AddsTo, PairAt

\* What a sequence adds are its results.
LEMMA AddsIds ==
    ASSUME NEW s \in Seq(Instruction), NEW D, Adds(s, D)
    PROVE  ResultIds(s) = Known(D)
<1>1. DOMAIN s = 1 .. Len(s) /\ Len(s) \in Nat
    OBVIOUS
<1>2. ASSUME NEW x \in ResultIds(s)
      PROVE  x \in Known(D)
    <2>1. PICK k \in 1 .. Len(s) : s[k].id = x /\ x # 0
        BY <1>1, <1>2 DEF ResultIds
    <2> QED
        BY <2>1, AddsKnown
<1>3. ASSUME NEW x \in Known(D)
      PROVE  x \in ResultIds(s)
    <2>1. PICK p \in D : x = p[1]
        BY <1>3 DEF Known
    <2>2. PICK k \in 1 .. Len(s) : s[k].id # 0 /\ p = <<s[k].id, s[k].type>>
        BY DEF Adds, AddsTo
    <2>3. x = s[k].id
        BY <2>1, <2>2
    <2> QED
        BY <1>1, <2>2, <2>3 DEF ResultIds
<1> QED
    BY <1>2, <1>3

\* Code without control flow is a stretch.
LEMMA BodyPart ==
    ASSUME NEW E, NEW s \in Seq(Instruction), \A k \in 1 .. Len(s) : s[k].op \in BodyOps
    PROVE  Resolved(s, {}) /\ Stretch(s) /\ \A k \in 1 .. Len(s) : s[k].op # "Label"
<1>1. \A k \in 1 .. Len(s) : s[k].op # "Label" /\ s[k].op \notin Targeting
    BY BodyOpsApart DEF Targeting
<1>2. Resolved(s, {})
    BY <1>1 DEF Resolved
<1>3. BodyOps \subseteq Calm /\ BodyOps \subseteq Opening /\ BodyOps \subseteq FunctionOps
    BY DEF Calm, Opening, FunctionOps
<1>4. \A k \in 2 .. Len(s) : Follows(s[k - 1].op, s[k].op)
    <2> SUFFICES ASSUME NEW k \in 2 .. Len(s)
                 PROVE  Follows(s[k - 1].op, s[k].op)
        OBVIOUS
    <2>1. k - 1 \in 1 .. Len(s) /\ k \in 1 .. Len(s)
        OBVIOUS
    <2>2. s[k - 1].op \in Calm /\ s[k].op \in Opening
        BY <1>3, <2>1
    <2> QED
        BY <2>2, CalmFollows
<1>5. Len(s) # 0 => 1 \in 1 .. Len(s) /\ Len(s) \in 1 .. Len(s)
    OBVIOUS
<1>6. Stretch(s)
    BY <1>1, <1>3, <1>4, <1>5 DEF Stretch, Chained, Begins, Ends
<1> QED
    BY <1>1, <1>2, <1>6

\* Legal code is a fragment of a function.
LEMMA CodeFragment ==
    ASSUME NEW E, Types \subseteq Known(E), NEW s, NEW D, Code(E, s, D)
    PROVE  Fragment(E, s, Known(D)) /\ \A k \in 1 .. Len(s) : s[k].op \in BodyOps
<1>1. s \in Seq(Instruction) /\ Adds(s, D) /\ Once(s)
    BY DEF Code
<1>2. ASSUME NEW u \in 1 .. Len(s)
      PROVE  s[u].op \in BodyOps /\ Fit(E \cup AddsTo(s, u), s[u])
    <2>1. Obeys(E \cup AddsTo(s, u), s[u])
        BY DEF Code
    <2>2. s[u].op \in BodyOps /\ Uses(s[u]) \subseteq Known(E \cup AddsTo(s, u)) \cup Types
        BY <2>1, ObeysFacts
    <2>3. Known(E) \subseteq Known(E \cup AddsTo(s, u))
        BY KnownUnion
    <2>4. Uses(s[u]) \subseteq Known(E \cup AddsTo(s, u))
        BY <2>2, <2>3
    <2>5. s[u].op # "BranchConditional"
        BY <2>2, BodyOpsApart
    <2> QED
        BY <2>1, <2>2, <2>4, <2>5 DEF Fit
<1>3. Resolved(s, {}) /\ Stretch(s) /\ \A k \in 1 .. Len(s) : s[k].op # "Label"
    BY <1>1, <1>2, BodyPart
<1>4. Grounded(E, s)
    BY <1>2, <1>3, NoLabelNear DEF Grounded
<1>5. ResultIds(s) = Known(D)
    BY <1>1, AddsIds
<1> QED
    BY <1>1, <1>2, <1>3, <1>4, <1>5 DEF Fragment, Part

\* Sequences of one and of two labels.
LEMMA LiteralLabels ==
    ASSUME NEW x \in Nat, NEW y \in Nat
    PROVE  /\ <<x>> \in Seq(Nat \cup Words) /\ DOMAIN <<x>> = {1}
           /\ <<x, y>> \in Seq(Nat \cup Words) /\ DOMAIN <<x, y>> = {1, 2}
           /\ <<>> \in Seq(Nat \cup Words) /\ DOMAIN <<>> = {}
           /\ <<>> \in Seq(Nat)
OBVIOUS

\* The words of the control flow are instructions.
LEMMA ControlWords ==
    ASSUME NEW l \in Nat, NEW m \in Nat, NEW c \in Nat
    PROVE  /\ Label(l) \in Instruction /\ Branch(l) \in Instruction
           /\ Plain("SelectionMerge", <<>>, <<m>>) \in Instruction
           /\ Plain("BranchConditional", <<c>>, <<l, m>>) \in Instruction
           /\ Plain("Return", <<>>, <<>>) \in Instruction
           /\ Plain("FunctionEnd", <<>>, <<>>) \in Instruction
<1> USE LiteralLabels
<1>1. /\ "Label" \in OtherOps /\ "Branch" \in OtherOps /\ "SelectionMerge" \in OtherOps
      /\ "BranchConditional" \in OtherOps /\ "Return" \in OtherOps /\ "FunctionEnd" \in OtherOps
    BY DEF OtherOps
<1>2. <<c>> \in Seq(Nat)
    OBVIOUS
<1>3. /\ <<>> \in Seq(Nat) /\ <<>> \in Seq(Nat \cup Words) /\ <<m>> \in Seq(Nat \cup Words)
      /\ <<l>> \in Seq(Nat \cup Words) /\ <<l, m>> \in Seq(Nat \cup Words)
    BY LiteralLabels
<1>4. Label(l) \in Instruction
    BY <1>1, <1>3 DEF Label, Def, Instruction
<1>5. Branch(l) \in Instruction
    BY <1>1, <1>3 DEF Branch, Plain, Instruction
<1>6. Plain("SelectionMerge", <<>>, <<m>>) \in Instruction
    BY <1>1, <1>3 DEF Plain, Instruction
<1>7. Plain("BranchConditional", <<c>>, <<l, m>>) \in Instruction
    BY <1>1, <1>2, <1>3 DEF Plain, Instruction
<1>8. Plain("Return", <<>>, <<>>) \in Instruction
    BY <1>1, <1>3 DEF Plain, Instruction
<1>9. Plain("FunctionEnd", <<>>, <<>>) \in Instruction
    BY <1>1, <1>3 DEF Plain, Instruction
<1> QED
    BY <1>4, <1>5, <1>6, <1>7, <1>8, <1>9

\* An instruction that uses no id is legal everywhere.
LEMMA NothingUsed ==
    ASSUME NEW E, NEW w, w.args = <<>>, w.type = 0, w.op \notin BodyOps, w.op # "BranchConditional"
    PROVE  Fit(E, w)
<1>1. ToSet(<<>>) = {}
    BY DEF ToSet
<1> QED
    BY <1>1 DEF Fit, Uses

\* Code up to a selected block, which goes on at merge.
Selecting(E, r, S, merge) ==
    /\ r \in Seq(Instruction) /\ Once(r) /\ Grounded(E, r) /\ Resolved(r, {merge})
    /\ Stretch(r) /\ ResultIds(r) = S

\* The selection itself, after straight code that knows its condition.
LEMMA SelectionPart ==
    ASSUME NEW E, Types \subseteq Known(E), NEW s, NEW D, Code(E, s, D), NEW c \in Nat \ {0},
           <<c, G.type_bool>> \in D, NEW then \in Nat \ {0}, NEW merge \in Nat \ {0}, then # merge,
           then \notin Known(D)
    PROVE  Selecting(E, s \o Selection(c, then, merge), Known(D) \cup {then}, merge)
<1> DEFINE w1 == Plain("SelectionMerge", <<>>, <<merge>>)
           w2 == Plain("BranchConditional", <<c>>, <<then, merge>>)
           w3 == Label(then)
           t == <<w1, w2, w3>>
           r == s \o t
           m == Len(s)
<1>1. /\ w1.op = "SelectionMerge" /\ w1.args = <<>> /\ w1.type = 0 /\ w1.id = 0 /\ w1.lits = <<merge>>
      /\ w2.op = "BranchConditional" /\ w2.args = <<c>> /\ w2.type = 0 /\ w2.id = 0 /\ w2.lits = <<then, merge>>
      /\ w3.op = "Label" /\ w3.args = <<>> /\ w3.type = 0 /\ w3.id = then
    BY DEF Plain, Label, Def
<1>2. w1 \in Instruction /\ w2 \in Instruction /\ w3 \in Instruction
    BY ControlWords
<1>3. t = Selection(c, then, merge)
    BY DEF Selection
<1> HIDE DEF w1, w2, w3
<1>4. t \in Seq(Instruction) /\ Len(t) = 3 /\ t[1] = w1 /\ t[2] = w2 /\ t[3] = w3
    BY <1>2
<1> HIDE DEF t
<1>5. /\ s \in Seq(Instruction) /\ Fragment(E, s, Known(D))
      /\ \A k \in 1 .. m : s[k].op \in BodyOps
    <2>1. s \in Seq(Instruction)
        BY DEF Code
    <2>2. Fragment(E, s, Known(D))
        BY CodeFragment
    <2>3. \A k \in 1 .. m : s[k].op \in BodyOps
        BY CodeFragment
    <2> QED
        BY <2>1, <2>2, <2>3
<1>6. Glued(r, s, t)
    BY <1>4, <1>5, ConcatGlues
<1>7. r[m + 1] = w1 /\ r[m + 2] = w2 /\ r[m + 3] = w3 /\ Len(r) = m + 3 /\ m \in Nat
    BY <1>4, <1>6 DEF Glued
<1>8. \A u \in 1 .. m : Near(s, u) \subseteq Near(r, u) /\ r[u] = s[u]
    <2>1. \A u \in 1 .. m : Near(s, u) \subseteq Near(r, u)
        BY <1>6, NearGrows
    <2>2. \A u \in 1 .. m : r[u] = s[u]
        BY <1>6 DEF Glued
    <2> QED
        BY <2>1, <2>2
<1>9. <<c, G.type_bool>> \in Near(r, m + 2)
    <2>1. PICK d \in 1 .. m : s[d].id # 0 /\ <<c, G.type_bool>> = <<s[d].id, s[d].type>>
        BY DEF Code, Adds, AddsTo
    <2>2. r[d] = s[d] /\ d \in 1 .. Len(r) /\ d < m + 2
        BY <1>7, <1>8
    <2>3. ASSUME NEW j \in 1 .. Len(r), d < j, j <= m + 2
          PROVE  r[j].op # "Label"
        <3>1. CASE j \in 1 .. m
            BY <1>5, <1>8, <3>1, BodyOpsApart
        <3>2. CASE j = m + 1
            BY <1>1, <1>7, <3>2
        <3>3. CASE j = m + 2
            BY <1>1, <1>7, <3>3
        <3> QED
            BY <1>7, <2>3, <3>1, <3>2, <3>3, SMTT(30)
    <2>4. d \in NearAt(r, m + 2)
        BY <2>1, <2>2, <2>3 DEF NearAt
    <2> QED
        BY <2>1, <2>2, <2>4 DEF Near, PairAt
<1> HIDE DEF r
<1>10. Grounded(E, r)
    <2> SUFFICES ASSUME NEW u \in 1 .. Len(r)
                 PROVE  Fit(E \cup Near(r, u), r[u])
        BY DEF Grounded
    <2>0. w1.op \notin BodyOps /\ w2.op \notin BodyOps /\ w3.op \notin BodyOps
        BY <1>1, BodyOpsApart
    <2>1. CASE u \in 1 .. m
        <3>1. Fit(E \cup Near(s, u), s[u])
            BY <1>5, <2>1 DEF Fragment, Part, Grounded
        <3>2. E \cup Near(s, u) \subseteq E \cup Near(r, u)
            BY <1>8, <2>1
        <3> QED
            BY <1>8, <2>1, <3>1, <3>2, FitMore
    <2>2. CASE u = m + 1
        BY <1>1, <1>7, <2>0, <2>2, NothingUsed
    <2>3. CASE u = m + 2
        <3>1. Uses(w2) = {c}
            <4>1. ToSet(<<c>>) = {c}
                BY DEF ToSet
            <4>2. w2.op \notin Forward
                BY <1>1 DEF Forward
            <4> QED
                BY <1>1, <4>1, <4>2 DEF Uses
        <3>2. <<c, G.type_bool>> \in E \cup Near(r, u)
            BY <1>9, <2>3
        <3>3. c \in Known(E \cup Near(r, u))
            BY <3>2 DEF Known
        <3> QED
            BY <1>1, <1>7, <2>0, <2>3, <3>1, <3>2, <3>3 DEF Fit
    <2>4. CASE u = m + 3
        BY <1>1, <1>7, <2>0, <2>4, NothingUsed
    <2> QED
        BY <1>7, <2>1, <2>2, <2>3, <2>4
<1>11. Resolved(t, {merge})
    <2> SUFFICES ASSUME NEW k \in 1 .. 3, t[k].op \in Targeting, NEW x \in DOMAIN t[k].lits,
                        t[k].lits[x] # merge
                 PROVE  \E j \in 1 .. 3 : k < j /\ t[j].op = "Label" /\ t[j].id = t[k].lits[x]
        BY <1>4 DEF Resolved
    <2>1. k # 1
        BY <1>1, <1>4, LiteralLabels
    <2>2. k # 3
        BY <1>1, <1>4 DEF Targeting
    <2>3. k = 2 /\ t[k].lits = <<then, merge>>
        BY <1>1, <1>4, <2>1, <2>2
    <2>4. t[k].lits[x] = then
        BY <2>3, LiteralLabels
    <2> QED
        BY <1>1, <1>4, <2>3, <2>4
<1>12. Resolved(r, {merge})
    <2>1. Resolved(s, {})
        BY <1>5 DEF Fragment, Part
    <2>2. {} \subseteq {merge} \cup LabelsIn(t)
        OBVIOUS
    <2> QED
        BY <1>4, <1>5, <1>11, <2>1, <2>2, ResolvedConcat DEF r
<1>13. ResultIds(t) = {then} /\ Once(t)
    <2>1. DOMAIN t = 1 .. 3
        BY <1>4
    <2>2. \A k \in 1 .. 3 : t[k].id # 0 <=> k = 3
        BY <1>1, <1>4
    <2> QED
        BY <1>1, <1>4, <2>1, <2>2 DEF ResultIds, Once
<1>14. ResultIds(r) = Known(D) \cup {then} /\ Once(r)
    <2>1. ResultIds(s) = Known(D) /\ Once(s)
        BY <1>5 DEF Fragment, Part
    <2>2. ResultIds(r) = ResultIds(s) \cup ResultIds(t)
        BY <1>4, <1>5, LabelsConcat DEF r
    <2>3. ResultIds(s) \cap ResultIds(t) = {}
        BY <1>13, <2>1
    <2>4. Once(r)
        BY <1>4, <1>5, <1>13, <2>1, <2>3, OnceApart DEF r
    <2> QED
        BY <1>13, <2>1, <2>2, <2>4
<1>15. Stretch(t)
    <2>1. \A k \in 1 .. 3 : t[k].op \in FunctionOps /\ (t[k].op = "Label" => t[k].id # 0)
        BY <1>1, <1>4 DEF FunctionOps
    <2>2. \A k \in 2 .. 3 : Follows(t[k - 1].op, t[k].op)
        <3>1. Follows("SelectionMerge", "BranchConditional") /\ Follows("BranchConditional", "Label")
            BY DEF Follows, Terminators
        <3>2. t[2 - 1] = w1 /\ t[3 - 1] = w2
            BY <1>4
        <3> QED
            BY <1>1, <1>4, <3>1, <3>2
    <2>3. t[1].op \in Opening /\ t[3].op \in Calm
        BY <1>1, <1>4 DEF Opening, Calm
    <2> QED
        BY <1>4, <2>1, <2>2, <2>3 DEF Stretch, Chained, Begins, Ends
<1>16. Stretch(r)
    BY <1>4, <1>5, <1>15, StretchConcat DEF r, Fragment
<1>17. r \in Seq(Instruction)
    BY <1>6 DEF Glued
<1>18. r = s \o Selection(c, then, merge)
    BY <1>3 DEF r
<1> HIDE DEF r
<1> QED
    BY <1>10, <1>12, <1>14, <1>16, <1>17, <1>18 DEF Selecting

\* The end of the selected block.
LEMMA MergePart ==
    ASSUME NEW E, NEW merge \in Nat \ {0}
    PROVE  /\ <<Branch(merge), Label(merge)>> \in Seq(Instruction)
           /\ Fragment(E, <<Branch(merge), Label(merge)>>, {merge})
           /\ LabelsIn(<<Branch(merge), Label(merge)>>) = {merge}
<1> DEFINE w1 == Branch(merge)
           w2 == Label(merge)
           t == <<w1, w2>>
<1>1. /\ w1.op = "Branch" /\ w1.args = <<>> /\ w1.type = 0 /\ w1.id = 0 /\ w1.lits = <<merge>>
      /\ w2.op = "Label" /\ w2.args = <<>> /\ w2.type = 0 /\ w2.id = merge
    BY DEF Plain, Label, Def, Branch
<1>2. w1 \in Instruction /\ w2 \in Instruction
    BY ControlWords
<1> HIDE DEF w1, w2
<1>3. t \in Seq(Instruction) /\ Len(t) = 2 /\ t[1] = w1 /\ t[2] = w2 /\ DOMAIN t = 1 .. 2
    BY <1>2
<1> HIDE DEF t
<1>4. \A k \in 1 .. 2 : k = 1 \/ k = 2
    OBVIOUS
<1>5. Once(t) /\ ResultIds(t) = {merge} /\ LabelsIn(t) = {merge}
    BY <1>1, <1>3, <1>4 DEF Once, ResultIds, LabelsIn
<1>6. Grounded(E, t)
    <2>1. w1.op \notin BodyOps /\ w2.op \notin BodyOps
        BY <1>1, BodyOpsApart
    <2> SUFFICES ASSUME NEW u \in 1 .. 2
                 PROVE  Fit(E \cup Near(t, u), t[u])
        BY <1>3 DEF Grounded
    <2>2. CASE u = 1
        BY <1>1, <1>3, <2>1, <2>2, NothingUsed
    <2>3. CASE u = 2
        BY <1>1, <1>3, <2>1, <2>3, NothingUsed
    <2> QED
        BY <1>4, <2>2, <2>3
<1>7. Resolved(t, {})
    <2> SUFFICES ASSUME NEW k \in 1 .. 2, t[k].op \in Targeting, NEW x \in DOMAIN t[k].lits
                 PROVE  \E j \in 1 .. 2 : k < j /\ t[j].op = "Label" /\ t[j].id = t[k].lits[x]
        BY <1>3 DEF Resolved
    <2>1. k = 1
        BY <1>1, <1>3, <1>4 DEF Targeting
    <2>2. t[k].lits[x] = merge
        BY <1>1, <1>3, <2>1, LiteralLabels
    <2> QED
        BY <1>1, <1>3, <2>1, <2>2
<1>8. Stretch(t)
    <2>1. \A k \in 1 .. 2 : t[k].op \in FunctionOps /\ (t[k].op = "Label" => t[k].id # 0)
        BY <1>1, <1>3 DEF FunctionOps
    <2>2. \A k \in 2 .. 2 : Follows(t[k - 1].op, t[k].op)
        <3>1. Follows("Branch", "Label")
            BY DEF Follows, Terminators
        <3>2. t[2 - 1] = w1
            BY <1>3
        <3> QED
            BY <1>1, <1>3, <3>1, <3>2
    <2>3. t[1].op \in Opening /\ t[2].op \in Calm
        BY <1>1, <1>3 DEF Opening, Calm
    <2> QED
        BY <1>3, <2>1, <2>2, <2>3 DEF Stretch, Chained, Begins, Ends
<1> QED
    BY <1>3, <1>5, <1>6, <1>7, <1>8 DEF Fragment, Part, t, w1, w2

\* Code in a selection.
LEMMA Enclosed ==
    ASSUME NEW E, Types \subseteq Known(E), NEW s, NEW D, Code(E, s, D), NEW c \in Nat \ {0},
           <<c, G.type_bool>> \in D, NEW then \in Nat \ {0}, NEW merge \in Nat \ {0},
           NEW t, NEW H, Code(E, t, H), then # merge, then \notin Known(D), then \notin Known(H),
           merge \notin Known(D), merge \notin Known(H), Apart(D, H)
    PROVE  Fragment(E, ((s \o Selection(c, then, merge)) \o t) \o <<Branch(merge), Label(merge)>>,
                    Known(D) \cup Known(H) \cup {then, merge})
<1> DEFINE r == s \o Selection(c, then, merge)
           q == r \o t
           z == <<Branch(merge), Label(merge)>>
           f == q \o z
<1>0. Selecting(E, r, Known(D) \cup {then}, merge)
    BY SelectionPart
<1>1. /\ r \in Seq(Instruction) /\ Once(r) /\ Grounded(E, r) /\ Resolved(r, {merge})
      /\ Stretch(r) /\ ResultIds(r) = Known(D) \cup {then}
    BY <1>0 DEF Selecting
<1>2. t \in Seq(Instruction) /\ Fragment(E, t, Known(H))
    BY CodeFragment DEF Code
<1>3. z \in Seq(Instruction) /\ Fragment(E, z, {merge}) /\ LabelsIn(z) = {merge}
    BY MergePart
<1> HIDE DEF r, z
<1>4. Once(t) /\ Grounded(E, t) /\ Resolved(t, {}) /\ Stretch(t) /\ ResultIds(t) = Known(H)
    BY <1>2 DEF Fragment, Part
<1>5. Once(z) /\ Grounded(E, z) /\ Resolved(z, {}) /\ Stretch(z) /\ ResultIds(z) = {merge}
    BY <1>3 DEF Fragment, Part
<1>6. ResultIds(r) \cap ResultIds(t) = {}
    BY <1>1, <1>4 DEF Apart
<1>7. q \in Seq(Instruction)
    BY <1>1, <1>2, ConcatGlues DEF Glued
<1>8. Once(q)
    BY <1>1, <1>2, <1>4, <1>6, OnceApart
<1>9. Grounded(E, q)
    BY <1>1, <1>2, <1>4, GroundedConcat
<1>10. Stretch(q)
    BY <1>1, <1>2, <1>4, StretchConcat
<1>11. ResultIds(q) = Known(D) \cup {then} \cup Known(H)
    BY <1>1, <1>2, <1>4, LabelsConcat
<1>12. Resolved(q, {merge})
    <2>1. Resolved(t, {merge})
        BY <1>4 DEF Resolved
    <2>2. {merge} \subseteq {merge} \cup LabelsIn(t)
        OBVIOUS
    <2> QED
        BY <1>1, <1>2, <2>1, <2>2, ResolvedConcat
<1> HIDE DEF q
<1>13. ResultIds(q) \cap ResultIds(z) = {}
    BY <1>5, <1>11
<1>14. f \in Seq(Instruction)
    BY <1>3, <1>7, ConcatGlues DEF Glued
<1>15. Once(f)
    BY <1>3, <1>5, <1>7, <1>8, <1>13, OnceApart
<1>16. Grounded(E, f)
    BY <1>3, <1>5, <1>7, <1>9, GroundedConcat
<1>17. Stretch(f)
    BY <1>3, <1>5, <1>7, <1>10, StretchConcat
<1>18. ResultIds(f) = ResultIds(q) \cup ResultIds(z)
    BY <1>3, <1>7, LabelsConcat
<1>19. ResultIds(f) = Known(D) \cup Known(H) \cup {then, merge}
    BY <1>5, <1>11, <1>18
<1>20. Resolved(f, {})
    <2>1. {merge} \subseteq {} \cup LabelsIn(z)
        BY <1>3
    <2> QED
        BY <1>3, <1>5, <1>7, <1>12, <2>1, ResolvedConcat
<1> QED
    BY <1>14, <1>15, <1>16, <1>17, <1>19, <1>20 DEF Fragment, Part, f, q, r, z

-----------------------------------------------------------------------------
(***************************************************************************)
(* An instruction of the program, with or without a guard.                 *)
(***************************************************************************)

Lowers(E, e, b) ==
    e.ids \in Nat /\ \E S \in SUBSET (b .. (b + e.ids - 1)) : Fragment(E, e.code, S)

\* A guarded instruction is a legal fragment, its labels and results among the ids it takes.
LEMMA GuardedFragment ==
    ASSUME NEW E, Provides(E), Types \subseteq Known(E), NEW ins, Legal(ins), ins.guard \in 0 .. 7,
           ins.inv \in BOOLEAN, NEW b \in Nat \ {0}
    PROVE  Lowers(E, Guarded(ins, b), b)
<1> DEFINE cond == IF ins.inv THEN b + 1 ELSE b
           then == cond + 1
           merge == cond + 2
           inner == EmitOp(ins, merge + 1)
           w1 == Load(G.type_bool, b, P(ins.guard))
           w2 == Val("LogicalNot", G.type_bool, cond, <<b>>)
           s == <<w1>> \o (IF ins.inv THEN <<w2>> ELSE <<>>)
           D1 == {} \cup {<<b, G.type_bool>>}
           D == IF ins.inv THEN D1 \cup {<<cond, G.type_bool>>} ELSE D1
           t == inner.code
           f == ((s \o Selection(cond, then, merge)) \o t) \o <<Branch(merge), Label(merge)>>
<1>1. Guarded(ins, b) = Emitted(merge + 1 - b + inner.ids, f)
    BY DEF Guarded
<1>2. P(ins.guard) \in Nat /\ <<P(ins.guard), G.ptr_fn_bool>> \in E
    BY DEF Provides
<1>3. /\ cond \in Nat \ {0} /\ then \in Nat \ {0} /\ merge \in Nat \ {0} /\ merge + 1 \in Nat \ {0}
      /\ then = cond + 1 /\ merge = cond + 2 /\ (cond = b \/ cond = b + 1) /\ cond \in Nat
      /\ (ins.inv => cond # b) /\ (~ins.inv => cond = b)
    OBVIOUS
<1>4. Emits(E, inner, merge + 1)
    BY <1>3, ArmCode
<1>5. Code(E, <<w1>>, D1)
    <2>1. Code(E, <<>>, {}) /\ b \notin Known({})
        BY NoCode, KnownPairs
    <2>2. <<"Load", G.type_bool, G.ptr_fn_bool>> \in Unary
        BY LoadSignatures
    <2>3. <<P(ins.guard), G.ptr_fn_bool>> \in E \cup {}
        BY <1>2
    <2>4. Code(E, Append(<<>>, w1), D1)
        BY <1>2, <2>1, <2>2, <2>3, CodeLoad
    <2> QED
        BY <2>4, Tuple1
<1>6. Known(D1) = {b}
    <2>1. Known(D1) = Known({}) \cup {b}
        BY KnownMore
    <2> QED
        BY <2>1, KnownPairs
<1>7. <<b, G.type_bool>> \in D1
    OBVIOUS
<1>8. inner.ids \in Nat
    BY <1>4 DEF Emits
<1>9. PICK H : Code(E, t, H) /\ Known(H) \subseteq merge + 1 .. (merge + 1 + inner.ids - 1)
    BY <1>4 DEF Emits
<1> HIDE DEF w1, inner, D1, cond
<1>10. Code(E, s, D) /\ <<cond, G.type_bool>> \in D /\ Known(D) \subseteq {b, cond}
    <2>1. CASE ~ins.inv
        <3>1. <<w1>> \in Seq(Instruction)
            BY <1>5 DEF Code
        <3>2. s = <<w1>> \o <<>>
            BY <2>1
        <3>3. <<w1>> \o <<>> = <<w1>>
            BY <3>1
        <3> QED
            BY <1>3, <1>5, <1>6, <1>7, <2>1, <3>2, <3>3
    <2>2. CASE ins.inv
        <3>1. <<"LogicalNot", G.type_bool, G.type_bool>> \in Unary
            BY DEF Unary
        <3>2. cond \notin Known(D1) /\ <<b, G.type_bool>> \in E \cup D1
            BY <1>3, <1>6, <1>7, <2>2
        <3>3. Code(E, Append(<<w1>>, w2), D1 \cup {<<cond, G.type_bool>>})
            BY <1>3, <1>5, <3>1, <3>2, CodeUnary
        <3>4. <<w1>> \in Seq(Instruction)
            BY <1>5 DEF Code
        <3>5. s = Append(<<w1>>, w2)
            BY <2>2, <3>4
        <3>6. Known(D1 \cup {<<cond, G.type_bool>>}) = Known(D1) \cup {cond}
            BY KnownMore
        <3> QED
            BY <1>6, <2>2, <3>3, <3>5, <3>6
    <2> QED
        BY <2>1, <2>2
<1> HIDE DEF s, D, t
<1>11. /\ then # merge /\ then \notin Known(D) /\ merge \notin Known(D) /\ then \notin Known(H)
       /\ merge \notin Known(H) /\ Apart(D, H)
    BY <1>3, <1>9, <1>10 DEF Apart
<1>12. Fragment(E, f, Known(D) \cup Known(H) \cup {then, merge})
    <2> HIDE DEF then, merge
    <2> QED
        BY <1>3, <1>9, <1>10, <1>11, Enclosed
<1>13. Known(D) \cup Known(H) \cup {then, merge} \subseteq b .. (b + (merge + 1 - b + inner.ids) - 1)
    <2>1. \A x \in Known(D) : x = b \/ x = cond
        BY <1>10
    <2>2. \A x \in Known(H) : x \in Nat /\ merge + 1 <= x /\ x <= merge + 1 + inner.ids - 1
        BY <1>3, <1>8, <1>9
    <2> HIDE DEF then, merge
    <2> QED
        BY <1>3, <1>8, <2>1, <2>2
<1>14. merge + 1 - b + inner.ids \in Nat
    BY <1>3, <1>8
<1> HIDE DEF f
<1> QED
    BY <1>1, <1>12, <1>13, <1>14 DEF Lowers, Emitted

\* Whatever a legal instruction is, what it becomes is a legal fragment.
LEMMA LoweredFragment ==
    ASSUME NEW E, Provides(E), Types \subseteq Known(E), NEW ins, Legal(ins), ins.guard \in 0 .. 7,
           ins.inv \in BOOLEAN, NEW b \in Nat \ {0}
    PROVE  Lowers(E, LowerInstr(ins, b), b)
<1>1. CASE ins.guard # PT
    BY <1>1, GuardedFragment DEF LowerInstr
<1>2. CASE ins.guard = PT
    <2>1. LowerInstr(ins, b) = EmitOp(ins, b) /\ Emits(E, EmitOp(ins, b), b)
        BY <1>2, ArmCode DEF LowerInstr
    <2> DEFINE e == EmitOp(ins, b)
    <2>2. PICK D : Code(E, e.code, D) /\ Known(D) \subseteq b .. (b + e.ids - 1)
        BY <2>1 DEF Emits
    <2>3. Fragment(E, e.code, Known(D)) /\ e.ids \in Nat
        BY <2>1, <2>2, CodeFragment DEF Emits
    <2> HIDE DEF e
    <2>4. Lowers(E, e, b)
        BY <2>2, <2>3 DEF Lowers
    <2> QED
        BY <2>1, <2>4 DEF e
<1> QED
    BY <1>1, <1>2

-----------------------------------------------------------------------------
(***************************************************************************)
(* The epilogue.                                                           *)
(***************************************************************************)

\* A tuple of 7 is one of 6 and one element more.
LEMMA Tuple7 ==
    ASSUME NEW x1, NEW x2, NEW x3, NEW x4, NEW x5, NEW x6, NEW x7
    PROVE  <<x1, x2, x3, x4, x5, x6, x7>>
                = Append(<<x1, x2, x3, x4, x5, x6>>, x7)
OBVIOUS

\* A tuple of 8 is one of 7 and one element more.
LEMMA Tuple8 ==
    ASSUME NEW x1, NEW x2, NEW x3, NEW x4, NEW x5, NEW x6, NEW x7, NEW x8
    PROVE  <<x1, x2, x3, x4, x5, x6, x7, x8>>
                = Append(<<x1, x2, x3, x4, x5, x6, x7>>, x8)
OBVIOUS

\* A tuple of 9 is one of 8 and one element more.
LEMMA Tuple9 ==
    ASSUME NEW x1, NEW x2, NEW x3, NEW x4, NEW x5, NEW x6, NEW x7, NEW x8, NEW x9
    PROVE  <<x1, x2, x3, x4, x5, x6, x7, x8, x9>>
                = Append(<<x1, x2, x3, x4, x5, x6, x7, x8>>, x9)
OBVIOUS

\* A tuple of 10 is one of 9 and one element more.
LEMMA Tuple10 ==
    ASSUME NEW x1, NEW x2, NEW x3, NEW x4, NEW x5, NEW x6, NEW x7, NEW x8, NEW x9, NEW x10
    PROVE  <<x1, x2, x3, x4, x5, x6, x7, x8, x9, x10>>
                = Append(<<x1, x2, x3, x4, x5, x6, x7, x8, x9>>, x10)
OBVIOUS

\* A tuple of 11 is one of 10 and one element more.
LEMMA Tuple11 ==
    ASSUME NEW x1, NEW x2, NEW x3, NEW x4, NEW x5, NEW x6, NEW x7, NEW x8, NEW x9, NEW x10, NEW x11
    PROVE  <<x1, x2, x3, x4, x5, x6, x7, x8, x9, x10, x11>>
                = Append(<<x1, x2, x3, x4, x5, x6, x7, x8, x9, x10>>, x11)
OBVIOUS

\* A tuple of 12 is one of 11 and one element more.
LEMMA Tuple12 ==
    ASSUME NEW x1, NEW x2, NEW x3, NEW x4, NEW x5, NEW x6, NEW x7, NEW x8, NEW x9, NEW x10, NEW x11, NEW x12
    PROVE  <<x1, x2, x3, x4, x5, x6, x7, x8, x9, x10, x11, x12>>
                = Append(<<x1, x2, x3, x4, x5, x6, x7, x8, x9, x10, x11>>, x12)
OBVIOUS

\* A tuple of 13 is one of 12 and one element more.
LEMMA Tuple13 ==
    ASSUME NEW x1, NEW x2, NEW x3, NEW x4, NEW x5, NEW x6, NEW x7, NEW x8, NEW x9, NEW x10, NEW x11, NEW x12, NEW x13
    PROVE  <<x1, x2, x3, x4, x5, x6, x7, x8, x9, x10, x11, x12, x13>>
                = Append(<<x1, x2, x3, x4, x5, x6, x7, x8, x9, x10, x11, x12>>, x13)
OBVIOUS

\* A tuple of 14 is one of 13 and one element more.
LEMMA Tuple14 ==
    ASSUME NEW x1, NEW x2, NEW x3, NEW x4, NEW x5, NEW x6, NEW x7, NEW x8, NEW x9, NEW x10, NEW x11, NEW x12, NEW x13, NEW x14
    PROVE  <<x1, x2, x3, x4, x5, x6, x7, x8, x9, x10, x11, x12, x13, x14>>
                = Append(<<x1, x2, x3, x4, x5, x6, x7, x8, x9, x10, x11, x12, x13>>, x14)
OBVIOUS

\* A tuple of 15 is one of 14 and one element more.
LEMMA Tuple15 ==
    ASSUME NEW x1, NEW x2, NEW x3, NEW x4, NEW x5, NEW x6, NEW x7, NEW x8, NEW x9, NEW x10, NEW x11, NEW x12, NEW x13, NEW x14, NEW x15
    PROVE  <<x1, x2, x3, x4, x5, x6, x7, x8, x9, x10, x11, x12, x13, x14, x15>>
                = Append(<<x1, x2, x3, x4, x5, x6, x7, x8, x9, x10, x11, x12, x13, x14>>, x15)
OBVIOUS

\* A tuple of 16 is one of 15 and one element more.
LEMMA Tuple16 ==
    ASSUME NEW x1, NEW x2, NEW x3, NEW x4, NEW x5, NEW x6, NEW x7, NEW x8, NEW x9, NEW x10, NEW x11, NEW x12, NEW x13, NEW x14, NEW x15, NEW x16
    PROVE  <<x1, x2, x3, x4, x5, x6, x7, x8, x9, x10, x11, x12, x13, x14, x15, x16>>
                = Append(<<x1, x2, x3, x4, x5, x6, x7, x8, x9, x10, x11, x12, x13, x14, x15>>, x16)
OBVIOUS

\* Two words appended one by one.
LEMMA TwoMore ==
    ASSUME NEW s \in Seq(Instruction), NEW v \in Instruction, NEW w \in Instruction
    PROVE  s \o <<v, w>> = Append(Append(s, v), w)
<1>1. <<v>> \in Seq(Instruction) /\ <<v, w>> \in Seq(Instruction)
    OBVIOUS
<1>2. Append(s, v) \in Seq(Instruction)
    OBVIOUS
<1> DEFINE q == s \o <<v, w>>
           r == Append(Append(s, v), w)
<1>3. Len(q) = Len(s) + 2 /\ q \in Seq(Instruction)
    BY <1>1
<1>4. Len(r) = Len(s) + 2 /\ r \in Seq(Instruction)
    BY <1>2
<1>5. \A k \in 1 .. Len(s) + 2 : q[k] = r[k]
    BY <1>1, <1>2
<1> HIDE DEF q, r
<1>6. q = r
    BY <1>3, <1>4, <1>5
<1> QED
    BY <1>6 DEF q, r

\* What the prologue leaves for the epilogue.
Frames(E) ==
    /\ frame.gid \in Nat /\ <<frame.gid, G.type_uint>> \in E
    /\ frame.n \in Nat /\ <<frame.n, G.type_uint>> \in E
    /\ \A k \in 0 .. 2 : frame.p[k] \in Nat /\ <<frame.p[k], G.type_ulong>> \in E

\* The sum of the two elements, at the third address.
SumCode(b) ==
    <<Val("UConvert", G.type_ulong, b + 1, <<frame.gid>>),
      Val("IMul", G.type_ulong, b + 2, <<b + 1, G.const_ulong_4>>),
      Val("IAdd", G.type_ulong, b + 3, <<frame.p[0], b + 2>>),
      Val("ConvertUToPtr", G.ptr_psb_float, b + 4, <<b + 3>>), Load(G.type_float, b + 5, b + 4),
      Val("IAdd", G.type_ulong, b + 6, <<frame.p[1], b + 2>>),
      Val("ConvertUToPtr", G.ptr_psb_float, b + 7, <<b + 6>>), Load(G.type_float, b + 8, b + 7),
      Val("FAdd", G.type_float, b + 9, <<b + 5, b + 8>>),
      Val("IAdd", G.type_ulong, b + 10, <<frame.p[2], b + 2>>),
      Val("ConvertUToPtr", G.ptr_psb_float, b + 11, <<b + 10>>), Store(b + 11, b + 9)>>

\* The sum of the epilogue is legal.
LEMMA SumIsCode ==
    ASSUME NEW E, Provides(E), Frames(E), NEW b \in Nat \ {0}
    PROVE  \E D : Code(E, SumCode(b), D) /\ Known(D) = b + 1 .. b + 11
<1> DEFINE w1 == Val("UConvert", G.type_ulong, b + 1, <<frame.gid>>)
           w2 == Val("IMul", G.type_ulong, b + 2, <<b + 1, G.const_ulong_4>>)
           w3 == Val("IAdd", G.type_ulong, b + 3, <<frame.p[0], b + 2>>)
           w4 == Val("ConvertUToPtr", G.ptr_psb_float, b + 4, <<b + 3>>)
           w5 == Load(G.type_float, b + 5, b + 4)
           w6 == Val("IAdd", G.type_ulong, b + 6, <<frame.p[1], b + 2>>)
           w7 == Val("ConvertUToPtr", G.ptr_psb_float, b + 7, <<b + 6>>)
           w8 == Load(G.type_float, b + 8, b + 7)
           w9 == Val("FAdd", G.type_float, b + 9, <<b + 5, b + 8>>)
           w10 == Val("IAdd", G.type_ulong, b + 10, <<frame.p[2], b + 2>>)
           w11 == Val("ConvertUToPtr", G.ptr_psb_float, b + 11, <<b + 10>>)
           w12 == Store(b + 11, b + 9)
           D0 == {}
           D1 == D0 \cup {<<b + 1, G.type_ulong>>}
           D2 == D1 \cup {<<b + 2, G.type_ulong>>}
           D3 == D2 \cup {<<b + 3, G.type_ulong>>}
           D4 == D3 \cup {<<b + 4, G.ptr_psb_float>>}
           D5 == D4 \cup {<<b + 5, G.type_float>>}
           D6 == D5 \cup {<<b + 6, G.type_ulong>>}
           D7 == D6 \cup {<<b + 7, G.ptr_psb_float>>}
           D8 == D7 \cup {<<b + 8, G.type_float>>}
           D9 == D8 \cup {<<b + 9, G.type_float>>}
           D10 == D9 \cup {<<b + 10, G.type_ulong>>}
           D11 == D10 \cup {<<b + 11, G.ptr_psb_float>>}
<1>1. /\ frame.gid \in Nat /\ <<frame.gid, G.type_uint>> \in E
      /\ frame.p[0] \in Nat /\ <<frame.p[0], G.type_ulong>> \in E
      /\ frame.p[1] \in Nat /\ <<frame.p[1], G.type_ulong>> \in E
      /\ frame.p[2] \in Nat /\ <<frame.p[2], G.type_ulong>> \in E
    BY DEF Frames
<1>2. G.const_ulong_4 \in Nat /\ <<G.const_ulong_4, G.type_ulong>> \in E
    BY Ids DEF Provides, GlobalPairs
<1>3. /\ <<"UConvert", G.type_ulong, G.type_uint>> \in Unary
      /\ <<"ConvertUToPtr", G.ptr_psb_float, G.type_ulong>> \in Unary
      /\ <<"Load", G.type_float, G.ptr_psb_float>> \in Unary
    BY DEF Unary
<1>4. <<G.ptr_psb_float, G.type_float>> \in Stores
    BY StoreSignatures
<1>5. /\ <<"IAdd", G.type_ulong, G.type_ulong>> \in Binary
      /\ <<"IMul", G.type_ulong, G.type_ulong>> \in Binary
      /\ <<"FAdd", G.type_float, G.type_float>> \in Binary
    BY BinarySignatures
<1>20. <<b + 1, G.type_ulong>> \in E \cup D1
    OBVIOUS
<1>21. <<b + 2, G.type_ulong>> \in E \cup D2
    OBVIOUS
<1>22. <<b + 3, G.type_ulong>> \in E \cup D3
    OBVIOUS
<1>23. <<b + 4, G.ptr_psb_float>> \in E \cup D4
    OBVIOUS
<1>24. <<b + 2, G.type_ulong>> \in E \cup D5
    OBVIOUS
<1>25. <<b + 6, G.type_ulong>> \in E \cup D6
    OBVIOUS
<1>26. <<b + 7, G.ptr_psb_float>> \in E \cup D7
    OBVIOUS
<1>27. <<b + 5, G.type_float>> \in E \cup D8
    OBVIOUS
<1>28. <<b + 8, G.type_float>> \in E \cup D8
    OBVIOUS
<1>29. <<b + 2, G.type_ulong>> \in E \cup D9
    OBVIOUS
<1>30. <<b + 10, G.type_ulong>> \in E \cup D10
    OBVIOUS
<1>31. <<b + 11, G.ptr_psb_float>> \in E \cup D11
    OBVIOUS
<1>32. <<b + 9, G.type_float>> \in E \cup D11
    OBVIOUS
<1>40. b + 1 \in Nat \ {0} /\ b + 2 \in Nat \ {0} /\ b + 3 \in Nat \ {0} /\ b + 4 \in Nat \ {0} /\ b + 5 \in Nat \ {0} /\ b + 6 \in Nat \ {0}
    OBVIOUS
<1>41. b + 7 \in Nat \ {0} /\ b + 8 \in Nat \ {0} /\ b + 9 \in Nat \ {0} /\ b + 10 \in Nat \ {0} /\ b + 11 \in Nat \ {0}
    OBVIOUS
<1>50. Known(D0) = {} /\ b + 1 \notin Known(D0)
    BY KnownPairs
<1>51. Known(D1) = b + 1 .. b + 1
    <2>1. Known(D1) = Known(D0) \cup {b + 1}
        BY KnownMore
    <2> HIDE DEF D1, D0
    <2> QED
        BY <1>50, <2>1
<1>52. Known(D2) = b + 1 .. b + 2
    <2>1. Known(D2) = Known(D1) \cup {b + 2}
        BY KnownMore
    <2> HIDE DEF D2, D1
    <2> QED
        BY <1>51, <2>1
<1>53. Known(D3) = b + 1 .. b + 3
    <2>1. Known(D3) = Known(D2) \cup {b + 3}
        BY KnownMore
    <2> HIDE DEF D3, D2
    <2> QED
        BY <1>52, <2>1
<1>54. Known(D4) = b + 1 .. b + 4
    <2>1. Known(D4) = Known(D3) \cup {b + 4}
        BY KnownMore
    <2> HIDE DEF D4, D3
    <2> QED
        BY <1>53, <2>1
<1>55. Known(D5) = b + 1 .. b + 5
    <2>1. Known(D5) = Known(D4) \cup {b + 5}
        BY KnownMore
    <2> HIDE DEF D5, D4
    <2> QED
        BY <1>54, <2>1
<1>56. Known(D6) = b + 1 .. b + 6
    <2>1. Known(D6) = Known(D5) \cup {b + 6}
        BY KnownMore
    <2> HIDE DEF D6, D5
    <2> QED
        BY <1>55, <2>1
<1>57. Known(D7) = b + 1 .. b + 7
    <2>1. Known(D7) = Known(D6) \cup {b + 7}
        BY KnownMore
    <2> HIDE DEF D7, D6
    <2> QED
        BY <1>56, <2>1
<1>58. Known(D8) = b + 1 .. b + 8
    <2>1. Known(D8) = Known(D7) \cup {b + 8}
        BY KnownMore
    <2> HIDE DEF D8, D7
    <2> QED
        BY <1>57, <2>1
<1>59. Known(D9) = b + 1 .. b + 9
    <2>1. Known(D9) = Known(D8) \cup {b + 9}
        BY KnownMore
    <2> HIDE DEF D9, D8
    <2> QED
        BY <1>58, <2>1
<1>60. Known(D10) = b + 1 .. b + 10
    <2>1. Known(D10) = Known(D9) \cup {b + 10}
        BY KnownMore
    <2> HIDE DEF D10, D9
    <2> QED
        BY <1>59, <2>1
<1>61. Known(D11) = b + 1 .. b + 11
    <2>1. Known(D11) = Known(D10) \cup {b + 11}
        BY KnownMore
    <2> HIDE DEF D11, D10
    <2> QED
        BY <1>60, <2>1
<1> HIDE DEF w1, w2, w3, w4, w5, w6, w7, w8, w9, w10, w11, w12
<1>70. Code(E, <<>>, D0)
    BY NoCode
<1>71. Code(E, <<w1>>, D1)
    <2>1. b + 1 \notin Known(D0)
        BY <1>50
    <2> HIDE DEF D0
    <2>2. Code(E, Append(<<>>, w1), D1)
        BY <1>1, <1>2, <1>40, <1>41, <1>3, <1>70, <2>1, CodeUnary DEF w1
    <2> HIDE DEF D1
    <2> QED
        BY <2>2, Tuple1
<1>72. Code(E, <<w1, w2>>, D2)
    <2>1. b + 2 \notin Known(D1)
        BY <1>51
    <2> HIDE DEF D1
    <2>2. Code(E, Append(<<w1>>, w2), D2)
        BY <1>1, <1>2, <1>20, <1>40, <1>41, <1>5, <1>71, <2>1, CodeBinary DEF w2
    <2> HIDE DEF D2
    <2> QED
        BY <2>2, Tuple2
<1>73. Code(E, <<w1, w2, w3>>, D3)
    <2>1. b + 3 \notin Known(D2)
        BY <1>52
    <2> HIDE DEF D2
    <2>2. Code(E, Append(<<w1, w2>>, w3), D3)
        BY <1>1, <1>2, <1>21, <1>40, <1>41, <1>5, <1>72, <2>1, CodeBinary DEF w3
    <2> HIDE DEF D3
    <2> QED
        BY <2>2, Tuple3
<1>74. Code(E, <<w1, w2, w3, w4>>, D4)
    <2>1. b + 4 \notin Known(D3)
        BY <1>53
    <2> HIDE DEF D3
    <2>2. Code(E, Append(<<w1, w2, w3>>, w4), D4)
        BY <1>1, <1>2, <1>22, <1>40, <1>41, <1>3, <1>73, <2>1, CodeUnary DEF w4
    <2> HIDE DEF D4
    <2> QED
        BY <2>2, Tuple4
<1>75. Code(E, <<w1, w2, w3, w4, w5>>, D5)
    <2>1. b + 5 \notin Known(D4)
        BY <1>54
    <2> HIDE DEF D4
    <2>2. Code(E, Append(<<w1, w2, w3, w4>>, w5), D5)
        BY <1>1, <1>2, <1>23, <1>40, <1>41, <1>3, <1>74, <2>1, CodeLoad DEF w5
    <2> HIDE DEF D5
    <2> QED
        BY <2>2, Tuple5, ZenonT(60)
<1>76. Code(E, <<w1, w2, w3, w4, w5, w6>>, D6)
    <2>1. b + 6 \notin Known(D5)
        BY <1>55
    <2> HIDE DEF D5
    <2>2. Code(E, Append(<<w1, w2, w3, w4, w5>>, w6), D6)
        BY <1>1, <1>2, <1>24, <1>40, <1>41, <1>5, <1>75, <2>1, CodeBinary DEF w6
    <2> HIDE DEF D6
    <2>3. <<w1, w2, w3, w4, w5, w6>>
            = Append(<<w1, w2, w3, w4, w5>>, w6)
        BY Tuple6
    <2> QED
        BY <2>2, <2>3
<1>77. Code(E, <<w1, w2, w3, w4, w5, w6, w7>>, D7)
    <2>1. b + 7 \notin Known(D6)
        BY <1>56
    <2> HIDE DEF D6
    <2>2. Code(E, Append(<<w1, w2, w3, w4, w5, w6>>, w7), D7)
        BY <1>1, <1>2, <1>25, <1>40, <1>41, <1>3, <1>76, <2>1, CodeUnary DEF w7
    <2> HIDE DEF D7
    <2>3. <<w1, w2, w3, w4, w5, w6, w7>>
            = Append(<<w1, w2, w3, w4, w5, w6>>, w7)
        BY Tuple7
    <2> QED
        BY <2>2, <2>3
<1>78. Code(E, <<w1, w2, w3, w4, w5, w6, w7, w8>>, D8)
    <2>1. b + 8 \notin Known(D7)
        BY <1>57
    <2> HIDE DEF D7
    <2>2. Code(E, Append(<<w1, w2, w3, w4, w5, w6, w7>>, w8), D8)
        BY <1>1, <1>2, <1>26, <1>40, <1>41, <1>3, <1>77, <2>1, CodeLoad DEF w8
    <2> HIDE DEF D8
    <2>3. <<w1, w2, w3, w4, w5, w6, w7, w8>>
            = Append(<<w1, w2, w3, w4, w5, w6, w7>>, w8)
        BY Tuple8
    <2> QED
        BY <2>2, <2>3
<1>79. Code(E, <<w1, w2, w3, w4, w5, w6, w7, w8, w9>>, D9)
    <2>1. b + 9 \notin Known(D8)
        BY <1>58
    <2> HIDE DEF D8
    <2>2. Code(E, Append(<<w1, w2, w3, w4, w5, w6, w7, w8>>, w9), D9)
        BY <1>1, <1>2, <1>27, <1>28, <1>40, <1>41, <1>5, <1>78, <2>1, CodeBinary DEF w9
    <2> HIDE DEF D9
    <2>3. <<w1, w2, w3, w4, w5, w6, w7, w8, w9>>
            = Append(<<w1, w2, w3, w4, w5, w6, w7, w8>>, w9)
        BY Tuple9
    <2> QED
        BY <2>2, <2>3
<1>80. Code(E, <<w1, w2, w3, w4, w5, w6, w7, w8, w9, w10>>, D10)
    <2>1. b + 10 \notin Known(D9)
        BY <1>59
    <2> HIDE DEF D9
    <2>2. Code(E, Append(<<w1, w2, w3, w4, w5, w6, w7, w8, w9>>, w10), D10)
        BY <1>1, <1>2, <1>29, <1>40, <1>41, <1>5, <1>79, <2>1, CodeBinary DEF w10
    <2> HIDE DEF D10
    <2>3. <<w1, w2, w3, w4, w5, w6, w7, w8, w9, w10>>
            = Append(<<w1, w2, w3, w4, w5, w6, w7, w8, w9>>, w10)
        BY Tuple10
    <2> QED
        BY <2>2, <2>3
<1>81. Code(E, <<w1, w2, w3, w4, w5, w6, w7, w8, w9, w10, w11>>, D11)
    <2>1. b + 11 \notin Known(D10)
        BY <1>60
    <2> HIDE DEF D10
    <2>2. Code(E, Append(<<w1, w2, w3, w4, w5, w6, w7, w8, w9, w10>>, w11), D11)
        BY <1>1, <1>2, <1>30, <1>40, <1>41, <1>3, <1>80, <2>1, CodeUnary DEF w11
    <2> HIDE DEF D11
    <2>3. <<w1, w2, w3, w4, w5, w6, w7, w8, w9, w10, w11>>
            = Append(<<w1, w2, w3, w4, w5, w6, w7, w8, w9, w10>>, w11)
        BY Tuple11
    <2> QED
        BY <2>2, <2>3
<1>82. Code(E, <<w1, w2, w3, w4, w5, w6, w7, w8, w9, w10, w11, w12>>, D11)
    <2>1. 0 \notin Known(D11)
        BY <1>61
    <2> HIDE DEF D11
    <2>2. Code(E, Append(<<w1, w2, w3, w4, w5, w6, w7, w8, w9, w10, w11>>, w12), D11)
        BY <1>1, <1>2, <1>31, <1>32, <1>40, <1>41, <1>4, <1>81, <2>1, CodeStore DEF w12
    <2>3. <<w1, w2, w3, w4, w5, w6, w7, w8, w9, w10, w11, w12>>
            = Append(<<w1, w2, w3, w4, w5, w6, w7, w8, w9, w10, w11>>, w12)
        BY Tuple12
    <2> QED
        BY <2>2, <2>3
<1> HIDE DEF D11
<1> QED
    BY <1>61, <1>82 DEF SumCode, w1, w2, w3, w4, w5, w6, w7, w8, w9, w10, w11, w12

\* Concatenation is associative.
LEMMA Associate ==
    ASSUME NEW x \in Seq(Instruction), NEW y \in Seq(Instruction), NEW z \in Seq(Instruction)
    PROVE  (x \o y) \o z = x \o (y \o z)
<1> DEFINE q == (x \o y) \o z
           r == x \o (y \o z)
<1>1. x \o y \in Seq(Instruction) /\ y \o z \in Seq(Instruction)
    OBVIOUS
<1>2. Len(q) = Len(x) + Len(y) + Len(z) /\ q \in Seq(Instruction)
    BY <1>1
<1>3. Len(r) = Len(x) + Len(y) + Len(z) /\ r \in Seq(Instruction)
    BY <1>1
<1>4. \A k \in 1 .. Len(x) + Len(y) + Len(z) : q[k] = r[k]
    BY <1>1
<1> HIDE DEF q, r
<1>5. q = r
    BY <1>2, <1>3, <1>4
<1> QED
    BY <1>5 DEF q, r

\* The epilogue: the sum in a selection, then the end of the function.
LEMMA EpilogueSplit ==
    ASSUME NEW b \in Nat \ {0}, SumCode(b) \in Seq(Instruction), frame.exit \in Nat,
           NEW x \in Seq(Instruction), x = BoundsGuard(b) \o Selection(b, frame.body, frame.exit)
    PROVE  EpilogueCode(b) =
              ((x \o SumCode(b)) \o <<Branch(frame.exit), Label(frame.exit)>>)
                 \o <<Plain("Return", <<>>, <<>>), Plain("FunctionEnd", <<>>, <<>>)>>
<1> DEFINE w1 == Val("UConvert", G.type_ulong, b + 1, <<frame.gid>>)
           w2 == Val("IMul", G.type_ulong, b + 2, <<b + 1, G.const_ulong_4>>)
           w3 == Val("IAdd", G.type_ulong, b + 3, <<frame.p[0], b + 2>>)
           w4 == Val("ConvertUToPtr", G.ptr_psb_float, b + 4, <<b + 3>>)
           w5 == Load(G.type_float, b + 5, b + 4)
           w6 == Val("IAdd", G.type_ulong, b + 6, <<frame.p[1], b + 2>>)
           w7 == Val("ConvertUToPtr", G.ptr_psb_float, b + 7, <<b + 6>>)
           w8 == Load(G.type_float, b + 8, b + 7)
           w9 == Val("FAdd", G.type_float, b + 9, <<b + 5, b + 8>>)
           w10 == Val("IAdd", G.type_ulong, b + 10, <<frame.p[2], b + 2>>)
           w11 == Val("ConvertUToPtr", G.ptr_psb_float, b + 11, <<b + 10>>)
           w12 == Store(b + 11, b + 9)
           w13 == Branch(frame.exit)
           w14 == Label(frame.exit)
           w15 == Plain("Return", <<>>, <<>>)
           w16 == Plain("FunctionEnd", <<>>, <<>>)
           t == SumCode(b)
           w == <<w1, w2, w3, w4, w5, w6, w7, w8, w9, w10, w11, w12, w13, w14, w15, w16>>
<1>1. (b + 4) - 1 = b + 3 /\ (b + 7) - 1 = b + 6 /\ (b + 11) - 1 = b + 10
    OBVIOUS
<1>2. /\ Val("ConvertUToPtr", G.ptr_psb_float, b + 4, <<(b + 4) - 1>>) = w4
      /\ Val("ConvertUToPtr", G.ptr_psb_float, b + 7, <<(b + 7) - 1>>) = w7
      /\ Val("ConvertUToPtr", G.ptr_psb_float, b + 11, <<(b + 11) - 1>>) = w11
    BY <1>1
<1>3. EpilogueCode(b) = x \o w
    BY <1>2 DEF EpilogueCode
<1>4. t = <<w1, w2, w3, w4, w5, w6, w7, w8, w9, w10, w11, w12>>
    BY DEF SumCode
<1>5. w13 \in Instruction /\ w14 \in Instruction /\ w15 \in Instruction /\ w16 \in Instruction
    BY ControlWords
<1>6. t \in Seq(Instruction)
    OBVIOUS
<1> HIDE DEF w1, w2, w3, w4, w5, w6, w7, w8, w9, w10, w11, w12, w13, w14, w15, w16, t, w
<1>7. w = Append(Append(Append(Append(t, w13), w14), w15), w16)
    <2>1. <<w1, w2, w3, w4, w5, w6, w7, w8, w9, w10, w11, w12, w13>> = Append(t, w13)
        BY <1>4, Tuple13, SMTT(30)
    <2>14. <<w1, w2, w3, w4, w5, w6, w7, w8, w9, w10, w11, w12, w13, w14>>
            = Append(<<w1, w2, w3, w4, w5, w6, w7, w8, w9, w10, w11, w12, w13>>, w14)
        BY Tuple14, SMTT(30)
    <2>2. <<w1, w2, w3, w4, w5, w6, w7, w8, w9, w10, w11, w12, w13, w14>>
            = Append(Append(t, w13), w14)
        BY <2>1, <2>14
    <2>15. <<w1, w2, w3, w4, w5, w6, w7, w8, w9, w10, w11, w12, w13, w14, w15>>
            = Append(<<w1, w2, w3, w4, w5, w6, w7, w8, w9, w10, w11, w12, w13, w14>>, w15)
        BY Tuple15, SMTT(30)
    <2>3. <<w1, w2, w3, w4, w5, w6, w7, w8, w9, w10, w11, w12, w13, w14, w15>>
            = Append(Append(Append(t, w13), w14), w15)
        BY <2>2, <2>15
    <2>16. <<w1, w2, w3, w4, w5, w6, w7, w8, w9, w10, w11, w12, w13, w14, w15, w16>>
            = Append(<<w1, w2, w3, w4, w5, w6, w7, w8, w9, w10, w11, w12, w13, w14, w15>>, w16)
        BY Tuple16, SMTT(30)
    <2> QED
        BY <2>3, <2>16 DEF w
<1> DEFINE y == <<w13, w14>>
           z == <<w15, w16>>
<1>8. Append(Append(t, w13), w14) = t \o y
    BY <1>5, <1>6, TwoMore
<1>9. t \o y \in Seq(Instruction) /\ y \in Seq(Instruction) /\ z \in Seq(Instruction)
    BY <1>5, <1>6
<1>10. Append(Append(t \o y, w15), w16) = (t \o y) \o z
    BY <1>5, <1>9, TwoMore
<1> HIDE DEF y, z
<1>11. w = (t \o y) \o z
    BY <1>7, <1>8, <1>10
<1>12. (x \o t) \o y = x \o (t \o y)
    BY <1>6, <1>9, Associate, ZenonT(60)
<1>13. (x \o (t \o y)) \o z = x \o ((t \o y) \o z)
    BY <1>9, Associate, ZenonT(60)
<1>14. EpilogueCode(b) = ((x \o t) \o y) \o z
    BY <1>3, <1>11, <1>12, <1>13
<1> QED
    BY <1>14 DEF t, y, z, w13, w14, w15, w16

\* Two parts on the same ground make one.
LEMMA PartConcat ==
    ASSUME NEW E, NEW s, Part(E, s), NEW t, Part(E, t), ResultIds(s) \cap ResultIds(t) = {}
    PROVE  Part(E, s \o t)
<1>1. s \in Seq(Instruction) /\ t \in Seq(Instruction)
    BY DEF Part
<1>2. s \o t \in Seq(Instruction)
    BY <1>1
<1>3. Once(s) /\ Once(t) /\ Grounded(E, s) /\ Grounded(E, t) /\ Resolved(s, {}) /\ Resolved(t, {})
    BY DEF Part
<1>4. Once(s \o t)
    BY <1>1, <1>3, OnceApart
<1>5. Grounded(E, s \o t)
    BY <1>1, <1>3, GroundedConcat
<1>6. Resolved(s \o t, {})
    <2>1. {} \subseteq {} \cup LabelsIn(t)
        OBVIOUS
    <2> QED
        BY <1>1, <1>3, <2>1, ResolvedConcat
<1> QED
    BY <1>2, <1>4, <1>5, <1>6 DEF Part

\* The end of the function.
Final == <<Plain("Return", <<>>, <<>>), Plain("FunctionEnd", <<>>, <<>>)>>

\* The end of the function is legal after any code.
LEMMA FinalPart ==
    ASSUME NEW E
    PROVE  /\ Part(E, Final) /\ Chained(Final) /\ Begins(Final) /\ ResultIds(Final) = {}
           /\ Len(Final) = 2 /\ Final[2].op = "FunctionEnd"
<1> DEFINE w1 == Plain("Return", <<>>, <<>>)
           w2 == Plain("FunctionEnd", <<>>, <<>>)
           t == <<w1, w2>>
<1>1. /\ w1.op = "Return" /\ w1.args = <<>> /\ w1.type = 0 /\ w1.id = 0
      /\ w2.op = "FunctionEnd" /\ w2.args = <<>> /\ w2.type = 0 /\ w2.id = 0
    BY DEF Plain
<1>2. w1 \in Instruction /\ w2 \in Instruction
    BY ControlWords
<1>3. t = Final
    BY DEF Final
<1> HIDE DEF w1, w2
<1>4. t \in Seq(Instruction) /\ Len(t) = 2 /\ t[1] = w1 /\ t[2] = w2 /\ DOMAIN t = 1 .. 2
    BY <1>2
<1> HIDE DEF t
<1>5. \A k \in 1 .. 2 : k = 1 \/ k = 2
    OBVIOUS
<1>6. Once(t) /\ ResultIds(t) = {}
    BY <1>1, <1>4, <1>5 DEF Once, ResultIds
<1>7. Grounded(E, t)
    <2>1. w1.op \notin BodyOps /\ w2.op \notin BodyOps
        BY <1>1, BodyOpsApart
    <2> SUFFICES ASSUME NEW u \in 1 .. 2
                 PROVE  Fit(E \cup Near(t, u), t[u])
        BY <1>4 DEF Grounded
    <2>2. CASE u = 1
        BY <1>1, <1>4, <2>1, <2>2, NothingUsed
    <2>3. CASE u = 2
        BY <1>1, <1>4, <2>1, <2>3, NothingUsed
    <2> QED
        BY <1>5, <2>2, <2>3
<1>8. Resolved(t, {})
    BY <1>1, <1>4, <1>5 DEF Resolved, Targeting
<1>9. Chained(t) /\ Begins(t)
    <2>1. \A k \in 1 .. 2 : t[k].op \in FunctionOps /\ (t[k].op = "Label" => t[k].id # 0)
        BY <1>1, <1>4, <1>5 DEF FunctionOps
    <2>2. \A k \in 2 .. 2 : Follows(t[k - 1].op, t[k].op)
        <3>1. Follows("Return", "FunctionEnd")
            BY DEF Follows, Terminators
        <3>2. t[2 - 1] = w1
            BY <1>4
        <3> QED
            BY <1>1, <1>4, <3>1, <3>2
    <2>3. t[1].op \in Opening
        BY <1>1, <1>4 DEF Opening
    <2> QED
        BY <1>4, <2>1, <2>2, <2>3 DEF Chained, Begins
<1> QED
    BY <1>1, <1>3, <1>4, <1>6, <1>7, <1>8, <1>9 DEF Part

\* Code that ends the function.
Closing(E, e, S) ==
    /\ Part(E, e) /\ Chained(e) /\ Begins(e) /\ ResultIds(e) = S
    /\ Len(e) # 0 /\ e[Len(e)].op = "FunctionEnd"

\* The epilogue closes the function, whatever the body was (emit_epilogue).
LEMMA EpilogueCloses ==
    ASSUME NEW E, Provides(E), Frames(E), Types \subseteq Known(E), NEW b \in Nat \ {0},
           frame.body \in Nat \ {0}, frame.exit \in Nat \ {0}, frame.body # frame.exit,
           frame.body < b, frame.exit < b
    PROVE  Closing(E, EpilogueCode(b), b .. (b + 11) \cup {frame.body, frame.exit})
<1> DEFINE s == BoundsGuard(b)
           D == {<<b, G.type_bool>>}
           then == frame.body
           merge == frame.exit
           x == s \o Selection(b, then, merge)
           t == SumCode(b)
           y == <<Branch(merge), Label(merge)>>
           q == (x \o t) \o y
<1>1. Code(E, s, D)
    <2>1. Code(E, <<>>, {})
        BY NoCode
    <2>2. <<"ULessThan", G.type_bool, G.type_uint>> \in Binary
        BY BinarySignatures
    <2>3. b \notin Known({})
        BY KnownPairs
    <2>4. /\ frame.gid \in Nat /\ <<frame.gid, G.type_uint>> \in E \cup {}
          /\ frame.n \in Nat /\ <<frame.n, G.type_uint>> \in E \cup {}
        BY DEF Frames
    <2> DEFINE w == Val("ULessThan", G.type_bool, b, <<frame.gid, frame.n>>)
               H == {} \cup {<<b, G.type_bool>>}
    <2>5. Code(E, Append(<<>>, w), H)
        BY <2>1, <2>2, <2>3, <2>4, CodeBinary
    <2>6. H = D
        OBVIOUS
    <2>7. s = <<w>>
        BY DEF BoundsGuard
    <2> HIDE DEF w, H, D, s
    <2> QED
        BY <2>5, <2>6, <2>7, Tuple1
<1>2. Known(D) = {b}
    BY KnownPairs
<1>3. PICK H : Code(E, t, H) /\ Known(H) = b + 1 .. b + 11
    BY SumIsCode
<1>4. <<b, G.type_bool>> \in D
    OBVIOUS
<1> HIDE DEF D, t
<1>5. /\ then \in Nat \ {0} /\ merge \in Nat \ {0} /\ then # merge
      /\ then \notin Known(D) /\ merge \notin Known(D) /\ then \notin Known(H) /\ merge \notin Known(H)
    BY <1>2, <1>3
<1>6. Apart(D, H)
    BY <1>2, <1>3 DEF Apart
<1>7. s \in Seq(Instruction) /\ t \in Seq(Instruction)
    BY <1>1, <1>3 DEF Code
<1>8. Selection(b, then, merge) \in Seq(Instruction)
    <2>1. /\ Plain("SelectionMerge", <<>>, <<merge>>) \in Instruction
          /\ Plain("BranchConditional", <<b>>, <<then, merge>>) \in Instruction
          /\ Label(then) \in Instruction
        BY <1>5, ControlWords
    <2> QED
        BY <2>1 DEF Selection
<1> HIDE DEF s, then, merge
<1>9. Fragment(E, q, Known(D) \cup Known(H) \cup {then, merge})
    BY <1>1, <1>3, <1>4, <1>5, <1>6, Enclosed
<1>10. x \in Seq(Instruction)
    BY <1>7, <1>8
<1>11. EpilogueCode(b) = q \o Final
    BY <1>5, <1>7, <1>10, EpilogueSplit DEF s, t, then, merge, Final
<1> HIDE DEF q, x
<1>12. Part(E, q) /\ Stretch(q) /\ q \in Seq(Instruction)
    BY <1>9 DEF Fragment, Part
<1>13. ResultIds(q) = b .. (b + 11) \cup {then, merge}
    <2>1. Known(D) \cup Known(H) = b .. (b + 11)
        BY <1>2, <1>3
    <2> QED
        BY <1>9, <2>1 DEF Fragment
<1>14. /\ Part(E, Final) /\ Chained(Final) /\ Begins(Final) /\ ResultIds(Final) = {}
       /\ Len(Final) = 2 /\ Final[2].op = "FunctionEnd" /\ Final \in Seq(Instruction)
    BY FinalPart DEF Part
<1> DEFINE r == q \o Final
<1>15. Part(E, r)
    BY <1>12, <1>14, PartConcat
<1>16. Chained(r)
    BY <1>12, <1>14, ChainedConcat DEF Stretch
<1>17. Begins(r)
    BY <1>12, <1>14, BeginsConcat DEF Stretch
<1>18. ResultIds(r) = b .. (b + 11) \cup {then, merge}
    BY <1>12, <1>13, <1>14, LabelsConcat
<1>19. Len(r) # 0 /\ r[Len(r)].op = "FunctionEnd"
    <2>1. Glued(r, q, Final)
        BY <1>12, <1>14, ConcatGlues
    <2>2. Len(r) = Len(q) + 2 /\ Len(q) \in Nat /\ 2 \in 1 .. Len(Final)
        BY <1>14, <2>1 DEF Glued
    <2>3. r[Len(q) + 2] = Final[2]
        BY <2>1, <2>2 DEF Glued
    <2> QED
        BY <1>14, <2>2, <2>3
<1> HIDE DEF r
<1>20. Closing(E, r, b .. (b + 11) \cup {then, merge})
    BY <1>15, <1>16, <1>17, <1>18, <1>19 DEF Closing
<1> QED
    BY <1>11, <1>20 DEF r, then, merge

-----------------------------------------------------------------------------
(***************************************************************************)
(* The declarations and the prologue: code without a branch.               *)
(***************************************************************************)

Still(s) == \A k \in 1 .. Len(s) : s[k].op \notin Jumping

\* A module or its beginning that defines D and has no branch.
Straight(s, D) == Sound(s) /\ Still(s) /\ Adds(s, D)

\* Without a branch all that precedes is open.
LEMMA StillOpen ==
    ASSUME NEW s, Still(s), NEW u
    PROVE  Open(s, u) = AddsTo(s, u)
<1>1. \A d \in 1 .. Len(s) : \A j \in 1 .. Len(s) : j < d => s[j].op \notin Jumping
    BY DEF Still
<1>2. OpenAt(s, u) = {d \in 1 .. Len(s) : d < u /\ s[d].id # 0}
    BY <1>1 DEF OpenAt
<1> QED
    BY <1>2 DEF Open, PairAt, AddsTo

\* A straight beginning and a part without a branch.
LEMMA StraightConcat ==
    ASSUME NEW s, NEW D, Straight(s, D), NEW E, E \subseteq D, NEW t, NEW H, Part(E, t), Still(t),
           Adds(t, H), Apart(D, H)
    PROVE  Straight(s \o t, D \cup H)
<1>1. s \in Seq(Instruction) /\ t \in Seq(Instruction) /\ Sound(s) /\ Adds(s, D) /\ Still(s)
    BY DEF Straight, Sound, Part
<1>2. E \subseteq Exports(s)
    <2>1. Open(s, Len(s) + 1) = AddsTo(s, Len(s) + 1)
        BY <1>1, StillOpen
    <2> QED
        BY <1>1, <2>1 DEF Exports, Adds
<1>3. ResultIds(s) \cap ResultIds(t) = {}
    <2>1. ResultIds(s) = Known(D)
        BY <1>1, AddsIds
    <2>2. ResultIds(t) = Known(H)
        BY <1>1, AddsIds
    <2> QED
        BY <2>1, <2>2 DEF Apart
<1>4. Sound(s \o t)
    BY <1>1, <1>2, <1>3, SoundConcat
<1>5. Adds(s \o t, D \cup H)
    BY <1>1, AddsConcat
<1>6. Still(s \o t)
    <2> DEFINE r == s \o t
    <2>1. Glued(r, s, t)
        BY <1>1, ConcatGlues
    <2> HIDE DEF r
    <2> SUFFICES ASSUME NEW k \in 1 .. Len(r)
                 PROVE  r[k].op \notin Jumping
        BY DEF Still, r
    <2>2. CASE k \in 1 .. Len(s)
        BY <1>1, <2>1, <2>2 DEF Glued, Still
    <2>3. CASE \E j \in 1 .. Len(t) : k = Len(s) + j
        <3>1. PICK j \in 1 .. Len(t) : k = Len(s) + j
            BY <2>3
        <3>2. r[k] = t[j]
            BY <2>1, <3>1 DEF Glued
        <3> QED
            BY <3>1, <3>2 DEF Still
    <2> QED
        BY <2>1, <2>2, <2>3 DEF Glued
<1> QED
    BY <1>4, <1>5, <1>6 DEF Straight

\* Nothing is a straight beginning.
LEMMA StraightNone ==
    Straight(<<>>, {})
<1>1. <<>> \in Seq(Instruction) /\ Len(<<>>) = 0
    OBVIOUS
<1>2. \A k \in 1 .. Len(<<>>) : FALSE
    BY <1>1
<1>3. Adds(<<>>, {})
    BY <1>2 DEF Adds, AddsTo
<1>4. Once(<<>>) /\ Resolved(<<>>, {}) /\ Still(<<>>)
    BY <1>2 DEF Once, Resolved, Still
<1>5. Sound(<<>>)
    BY <1>1, <1>2, <1>4 DEF Sound
<1> QED
    BY <1>3, <1>4, <1>5 DEF Straight

\* Code of the body is straight.
LEMMA StraightCode ==
    ASSUME NEW s, NEW D, Straight(s, D), Types \subseteq Known(D), NEW t, NEW H, Code(D, t, H), Apart(D, H)
    PROVE  Straight(s \o t, D \cup H)
<1>1. Part(D, t) /\ \A k \in 1 .. Len(t) : t[k].op \in BodyOps
    <2>1. Fragment(D, t, Known(H))
        BY CodeFragment
    <2>2. \A k \in 1 .. Len(t) : t[k].op \in BodyOps
        BY CodeFragment
    <2> QED
        BY <2>1, <2>2 DEF Fragment
<1>2. Still(t)
    BY <1>1, BodyOpsApart DEF Still, Jumping
<1>3. Adds(t, H)
    BY DEF Code
<1> QED
    BY <1>1, <1>2, <1>3, StraightConcat

DeclaringOps ==
    {"Capability", "Extension", "MemoryModel", "EntryPoint", "ExecutionMode", "Decorate",
     "MemberDecorate", "TypeVoid", "TypeFunction", "TypeBool", "TypeInt", "TypeFloat", "TypeVector",
     "TypePointer", "TypeStruct", "TypeArray", "Constant", "Variable"}

\* Declarations that rest on E.
Declares(E, t, D) ==
    /\ t \in Seq(Instruction)
    /\ \A u \in 1 .. Len(t) : t[u].op \in DeclaringOps /\ Uses(t[u]) \subseteq Known(E \cup AddsTo(t, u))
    /\ Once(t)
    /\ Adds(t, D)

\* A declaration is no instruction of the body and no control flow.
LEMMA DeclaringOpsApart ==
    \A op \in DeclaringOps :
        /\ op \notin BodyOps /\ op \notin Targeting /\ op \notin Jumping
        /\ op # "Label" /\ op # "BranchConditional" /\ op # "Function"
BY DEF DeclaringOps, BodyOps, Targeting, Jumping

\* Declarations are a part without a branch.
LEMMA DeclarationsPart ==
    ASSUME NEW E, NEW t, NEW D, Declares(E, t, D)
    PROVE  Part(E, t) /\ Still(t) /\ Adds(t, D)
<1>1. t \in Seq(Instruction) /\ Once(t) /\ Adds(t, D)
    BY DEF Declares
<1>2. \A u \in 1 .. Len(t) :
        /\ t[u].op \notin BodyOps /\ t[u].op \notin Targeting /\ t[u].op \notin Jumping
        /\ t[u].op # "Label" /\ t[u].op # "BranchConditional"
    BY DeclaringOpsApart DEF Declares
<1>3. Still(t) /\ Resolved(t, {})
    BY <1>2 DEF Still, Resolved
<1>4. Grounded(E, t)
    <2> SUFFICES ASSUME NEW u \in 1 .. Len(t)
                 PROVE  Fit(E \cup Near(t, u), t[u])
        BY DEF Grounded
    <2>1. Near(t, u) = AddsTo(t, u)
        BY <1>2, NoLabelNear
    <2>2. Uses(t[u]) \subseteq Known(E \cup Near(t, u))
        BY <2>1 DEF Declares
    <2> QED
        BY <1>2, <2>2 DEF Fit
<1> QED
    BY <1>1, <1>3, <1>4 DEF Part

\* A straight beginning and declarations that rest on it.
LEMMA StraightDeclared ==
    ASSUME NEW s, NEW D, Straight(s, D), NEW t, NEW H, Declares(D, t, H), Apart(D, H)
    PROVE  Straight(s \o t, D \cup H)
<1>1. Part(D, t) /\ Still(t) /\ Adds(t, H)
    BY DeclarationsPart
<1> QED
    BY <1>1, StraightConcat

\* w is a declaration of this operation, result and type, that uses S.
Word(w, op, id, type, S) ==
    w \in Instruction /\ w.op = op /\ w.id = id /\ w.type = type /\ Uses(w) = S /\ op \in DeclaringOps

\* The forms of a declaration.
LEMMA PlainWord ==
    ASSUME NEW op \in Forward \cup {"Capability", "Extension", "MemoryModel"}, NEW args \in Seq(Nat),
           args = <<>> \/ op \in Forward, NEW lits \in Seq(Nat \cup Words)
    PROVE  Word(Plain(op, args, lits), op, 0, 0, {})
<1> DEFINE w == Plain(op, args, lits)
<1>1. w.op = op /\ w.id = 0 /\ w.type = 0 /\ w.args = args
    BY DEF Plain
<1>2. op \in OtherOps /\ op \in DeclaringOps
    BY DEF Forward, OtherOps, DeclaringOps
<1>3. w \in Instruction
    BY <1>2 DEF Plain, Instruction
<1>4. ToSet(<<>>) = {}
    BY DEF ToSet
<1> HIDE DEF w
<1>5. Uses(w) = {}
    BY <1>1, <1>4 DEF Uses
<1> QED
    BY <1>1, <1>2, <1>3, <1>5 DEF w, Word

TypeOps ==
    {"TypeVoid", "TypeFunction", "TypeBool", "TypeInt", "TypeFloat", "TypeVector", "TypePointer",
     "TypeStruct", "TypeArray"}

\* A type declaration defines its id and uses its arguments.
LEMMA DefWord ==
    ASSUME NEW op \in TypeOps, NEW id \in Nat, NEW args \in Seq(Nat), NEW lits \in Seq(Nat \cup Words)
    PROVE  Word(Def(op, id, args, lits), op, id, 0, ToSet(args))
<1> DEFINE w == Def(op, id, args, lits)
<1>1. w.op = op /\ w.id = id /\ w.type = 0 /\ w.args = args
    BY DEF Def
<1>2. op \in OtherOps /\ op \in DeclaringOps /\ op \notin Forward
    BY DEF TypeOps, OtherOps, DeclaringOps, Forward
<1>3. w \in Instruction
    BY <1>2 DEF Def, Instruction
<1> HIDE DEF w
<1>5. Uses(w) = ToSet(args)
    BY <1>1, <1>2 DEF Uses
<1> QED
    BY <1>1, <1>2, <1>3, <1>5 DEF w, Word

\* A pointer type defines its id and uses the type it points to.
LEMMA PointerWord ==
    ASSUME NEW id \in Nat, NEW class \in Words, NEW type \in Nat
    PROVE  Word(Pointer(id, class, type), "TypePointer", id, 0, {type})
<1>1. <<type>> \in Seq(Nat) /\ ToSet(<<type>>) = {type}
    BY SequencesOfOne
<1>2. <<class>> \in Seq(Nat \cup Words)
    OBVIOUS
<1>3. "TypePointer" \in TypeOps
    BY DEF TypeOps
<1>4. Word(Def("TypePointer", id, <<type>>, <<class>>), "TypePointer", id, 0, ToSet(<<type>>))
    BY <1>1, <1>2, <1>3, DefWord
<1> QED
    BY <1>1, <1>4 DEF Pointer

\* A constant defines its id and uses its type.
LEMMA ConstantWord ==
    ASSUME NEW type \in Nat \ {0}, NEW id \in Nat, NEW value \in Nat
    PROVE  Word(Constant(type, id, value), "Constant", id, type, {type})
<1> DEFINE w == Constant(type, id, value)
<1>1. w.op = "Constant" /\ w.id = id /\ w.type = type /\ w.args = <<>>
    BY DEF Constant
<1>2. "Constant" \in OtherOps /\ "Constant" \in DeclaringOps /\ "Constant" \notin Forward
    BY DEF OtherOps, DeclaringOps, Forward
<1>3. <<value>> \in Seq(Nat \cup Words) /\ <<>> \in Seq(Nat) /\ ToSet(<<>>) = {}
    BY DEF ToSet
<1>4. w \in Instruction
    BY <1>2, <1>3 DEF Constant, Instruction
<1> HIDE DEF w
<1>5. Uses(w) = {type}
    BY <1>1, <1>2, <1>3 DEF Uses
<1> QED
    BY <1>1, <1>2, <1>4, <1>5 DEF w, Word

\* A variable defines its id and uses its type.
LEMMA VariableWord ==
    ASSUME NEW type \in Nat \ {0}, NEW id \in Nat, NEW class \in Words
    PROVE  Word(Variable(type, id, class), "Variable", id, type, {type})
<1> DEFINE w == Variable(type, id, class)
<1>1. w.op = "Variable" /\ w.id = id /\ w.type = type /\ w.args = <<>>
    BY DEF Variable
<1>2. "Variable" \in OtherOps /\ "Variable" \in DeclaringOps /\ "Variable" \notin Forward
    BY DEF OtherOps, DeclaringOps, Forward
<1>3. <<class>> \in Seq(Nat \cup Words) /\ <<>> \in Seq(Nat) /\ ToSet(<<>>) = {}
    BY DEF ToSet
<1>4. w \in Instruction
    BY <1>2, <1>3 DEF Variable, Instruction
<1> HIDE DEF w
<1>5. Uses(w) = {type}
    BY <1>1, <1>2, <1>3 DEF Uses
<1> QED
    BY <1>1, <1>2, <1>4, <1>5 DEF w, Word

\* The four forms of a type declaration in the header.
LEMMA TypeWords ==
    ASSUME NEW op \in TypeOps, NEW id \in Nat, NEW n \in Nat, NEW x \in Nat
    PROVE  /\ Word(Def(op, id, <<>>, <<>>), op, id, 0, {})
           /\ Word(Def(op, id, <<>>, <<n>>), op, id, 0, {})
           /\ Word(Def(op, id, <<x>>, <<>>), op, id, 0, {x})
           /\ Word(Def(op, id, <<x>>, <<n>>), op, id, 0, {x})
<1>1. /\ <<>> \in Seq(Nat) /\ <<x>> \in Seq(Nat) /\ <<>> \in Seq(Nat \cup Words)
      /\ <<n>> \in Seq(Nat \cup Words)
    OBVIOUS
<1>2. ToSet(<<>>) = {} /\ ToSet(<<x>>) = {x}
    BY SequencesOfOne DEF ToSet
<1>3. Word(Def(op, id, <<>>, <<>>), op, id, 0, ToSet(<<>>))
    BY <1>1, DefWord
<1>4. Word(Def(op, id, <<>>, <<n>>), op, id, 0, ToSet(<<>>))
    BY <1>1, DefWord
<1>5. Word(Def(op, id, <<x>>, <<>>), op, id, 0, ToSet(<<x>>))
    BY <1>1, DefWord
<1>6. Word(Def(op, id, <<x>>, <<n>>), op, id, 0, ToSet(<<x>>))
    BY <1>1, DefWord
<1> QED
    BY <1>2, <1>3, <1>4, <1>5, <1>6

\* The storage classes are words.
LEMMA WordsOfPointers ==
    {"Input", "PhysicalStorageBuffer", "Workgroup", "PushConstant", "Function"} \subseteq Words
BY DEF Words

\* What the pieces of the header define.
TypePairs == {<<x, 0>> : x \in 1 .. 16 \cup 19 .. 22}
ConstantPairs == {<<x, IF x = 32 THEN 5 ELSE 4>> : x \in 23 .. 32}
ArrayPairs == {<<x, 0>> : x \in 17 .. 18}
VariablePairs == {<<x, IF x = 36 THEN 20 ELSE IF x = 37 THEN 18 ELSE 8>> : x \in 33 .. 37}

\* The types rest on nothing.
LEMMA TypesDeclared ==
    Declares({}, TypeDeclarations, TypePairs)
<1> DEFINE w1 == Def("TypeVoid", G.type_void, <<>>, <<>>)
           w2 == Def("TypeFunction", G.type_func, <<G.type_void>>, <<>>)
           w3 == Def("TypeBool", G.type_bool, <<>>, <<>>)
           w4 == Def("TypeInt", G.type_uint, <<>>, <<32>>)
           w5 == Def("TypeInt", G.type_ulong, <<>>, <<64>>)
           w6 == Def("TypeFloat", G.type_float, <<>>, <<32>>)
           w7 == Def("TypeVector", G.type_v3uint, <<G.type_uint>>, <<3>>)
           w8 == Pointer(G.ptr_input_v3uint, "Input", G.type_v3uint)
           w9 == Pointer(G.ptr_input_uint, "Input", G.type_uint)
           w10 == Pointer(G.ptr_psb_float, "PhysicalStorageBuffer", G.type_float)
           w11 == Pointer(G.ptr_psb_uint, "PhysicalStorageBuffer", G.type_uint)
           w12 == Pointer(G.ptr_workgroup_float, "Workgroup", G.type_float)
           w13 == Def("TypeStruct", G.type_push_params,
                    <<G.type_ulong, G.type_ulong, G.type_ulong, G.type_uint>>, <<>>)
           w14 == Pointer(G.ptr_push_params, "PushConstant", G.type_push_params)
           w15 == Pointer(G.ptr_push_ulong, "PushConstant", G.type_ulong)
           w16 == Pointer(G.ptr_push_uint, "PushConstant", G.type_uint)
           w17 == Pointer(G.ptr_fn_uint, "Function", G.type_uint)
           w18 == Pointer(G.ptr_fn_ulong, "Function", G.type_ulong)
           w19 == Pointer(G.ptr_fn_float, "Function", G.type_float)
           w20 == Pointer(G.ptr_fn_bool, "Function", G.type_bool)
           t == <<w1, w2, w3, w4, w5, w6, w7, w8, w9, w10, w11, w12, w13, w14, w15, w16, w17, w18, w19, w20>>
<1>1. Word(w1, "TypeVoid", 1, 0, {})
    <2>1. "TypeVoid" \in TypeOps
        BY DEF TypeOps
    <2>2. G.type_void \in Nat
        BY Ids
    <2>3. Word(Def("TypeVoid", G.type_void, <<>>, <<>>), "TypeVoid", G.type_void, 0, {})
        BY <2>1, <2>2, TypeWords
    <2> QED
        BY <2>3, Ids
<1>2. Word(w2, "TypeFunction", 2, 0, {1})
    <2>1. "TypeFunction" \in TypeOps
        BY DEF TypeOps
    <2>2. G.type_func \in Nat /\ G.type_void \in Nat
        BY Ids
    <2>3. Word(Def("TypeFunction", G.type_func, <<G.type_void>>, <<>>), "TypeFunction", G.type_func, 0, {G.type_void})
        BY <2>1, <2>2, TypeWords
    <2> QED
        BY <2>3, Ids
<1>3. Word(w3, "TypeBool", 3, 0, {})
    <2>1. "TypeBool" \in TypeOps
        BY DEF TypeOps
    <2>2. G.type_bool \in Nat
        BY Ids
    <2>3. Word(Def("TypeBool", G.type_bool, <<>>, <<>>), "TypeBool", G.type_bool, 0, {})
        BY <2>1, <2>2, TypeWords
    <2> QED
        BY <2>3, Ids
<1>4. Word(w4, "TypeInt", 4, 0, {})
    <2>1. "TypeInt" \in TypeOps
        BY DEF TypeOps
    <2>2. G.type_uint \in Nat
        BY Ids
    <2>3. Word(Def("TypeInt", G.type_uint, <<>>, <<32>>), "TypeInt", G.type_uint, 0, {})
        BY <2>1, <2>2, TypeWords
    <2> QED
        BY <2>3, Ids
<1>5. Word(w5, "TypeInt", 5, 0, {})
    <2>1. "TypeInt" \in TypeOps
        BY DEF TypeOps
    <2>2. G.type_ulong \in Nat
        BY Ids
    <2>3. Word(Def("TypeInt", G.type_ulong, <<>>, <<64>>), "TypeInt", G.type_ulong, 0, {})
        BY <2>1, <2>2, TypeWords
    <2> QED
        BY <2>3, Ids
<1>6. Word(w6, "TypeFloat", 6, 0, {})
    <2>1. "TypeFloat" \in TypeOps
        BY DEF TypeOps
    <2>2. G.type_float \in Nat
        BY Ids
    <2>3. Word(Def("TypeFloat", G.type_float, <<>>, <<32>>), "TypeFloat", G.type_float, 0, {})
        BY <2>1, <2>2, TypeWords
    <2> QED
        BY <2>3, Ids
<1>7. Word(w7, "TypeVector", 7, 0, {4})
    <2>1. "TypeVector" \in TypeOps
        BY DEF TypeOps
    <2>2. G.type_v3uint \in Nat /\ G.type_uint \in Nat
        BY Ids
    <2>3. Word(Def("TypeVector", G.type_v3uint, <<G.type_uint>>, <<3>>), "TypeVector", G.type_v3uint, 0, {G.type_uint})
        BY <2>1, <2>2, TypeWords
    <2> QED
        BY <2>3, Ids
<1>8. Word(w8, "TypePointer", 8, 0, {7})
    BY PointerWord, WordsOfPointers, Ids
<1>9. Word(w9, "TypePointer", 9, 0, {4})
    BY PointerWord, WordsOfPointers, Ids
<1>10. Word(w10, "TypePointer", 10, 0, {6})
    BY PointerWord, WordsOfPointers, Ids
<1>11. Word(w11, "TypePointer", 11, 0, {4})
    BY PointerWord, WordsOfPointers, Ids
<1>12. Word(w12, "TypePointer", 12, 0, {6})
    BY PointerWord, WordsOfPointers, Ids
<1>13. Word(w13, "TypeStruct", 19, 0, {5, 4})
    <2> DEFINE args == <<G.type_ulong, G.type_ulong, G.type_ulong, G.type_uint>>
    <2>1. "TypeStruct" \in TypeOps /\ <<>> \in Seq(Nat \cup Words)
        BY DEF TypeOps
    <2>2. args = <<5, 5, 5, 4>>
        BY Ids
    <2>3. args \in Seq(Nat) /\ ToSet(args) = {5, 4}
        BY <2>2 DEF ToSet
    <2>4. G.type_push_params = 19
        BY Ids
    <2> HIDE DEF args
    <2>5. G.type_push_params \in Nat
        BY <2>4
    <2>6. Word(Def("TypeStruct", G.type_push_params, args, <<>>), "TypeStruct", G.type_push_params, 0, ToSet(args))
        BY <2>1, <2>3, <2>5, DefWord
    <2> QED
        BY <2>3, <2>4, <2>6 DEF args
<1>14. Word(w14, "TypePointer", 20, 0, {19})
    BY PointerWord, WordsOfPointers, Ids
<1>15. Word(w15, "TypePointer", 21, 0, {5})
    BY PointerWord, WordsOfPointers, Ids
<1>16. Word(w16, "TypePointer", 22, 0, {4})
    BY PointerWord, WordsOfPointers, Ids
<1>17. Word(w17, "TypePointer", 13, 0, {4})
    BY PointerWord, WordsOfPointers, Ids
<1>18. Word(w18, "TypePointer", 14, 0, {5})
    BY PointerWord, WordsOfPointers, Ids
<1>19. Word(w19, "TypePointer", 15, 0, {6})
    BY PointerWord, WordsOfPointers, Ids
<1>20. Word(w20, "TypePointer", 16, 0, {3})
    BY PointerWord, WordsOfPointers, Ids
<1>21. t = TypeDeclarations
    BY DEF TypeDeclarations
<1> HIDE DEF w1, w2, w3, w4, w5, w6, w7, w8, w9, w10, w11, w12, w13, w14, w15, w16, w17, w18, w19, w20
<1>22. /\ w1 \in Instruction
      /\ w2 \in Instruction
      /\ w3 \in Instruction
      /\ w4 \in Instruction
      /\ w5 \in Instruction
      /\ w6 \in Instruction
      /\ w7 \in Instruction
      /\ w8 \in Instruction
      /\ w9 \in Instruction
      /\ w10 \in Instruction
      /\ w11 \in Instruction
      /\ w12 \in Instruction
      /\ w13 \in Instruction
      /\ w14 \in Instruction
      /\ w15 \in Instruction
      /\ w16 \in Instruction
      /\ w17 \in Instruction
      /\ w18 \in Instruction
      /\ w19 \in Instruction
      /\ w20 \in Instruction
    BY <1>1, <1>2, <1>3, <1>4, <1>5, <1>6, <1>7, <1>8, <1>9, <1>10, <1>11, <1>12, <1>13, <1>14, <1>15, <1>16, <1>17, <1>18, <1>19, <1>20 DEF Word
<1>23. t \in Seq(Instruction) /\ Len(t) = 20
    BY <1>22
<1>24. /\ t[1] = w1
      /\ t[2] = w2
      /\ t[3] = w3
      /\ t[4] = w4
      /\ t[5] = w5
      /\ t[6] = w6
      /\ t[7] = w7
      /\ t[8] = w8
      /\ t[9] = w9
      /\ t[10] = w10
      /\ t[11] = w11
      /\ t[12] = w12
      /\ t[13] = w13
      /\ t[14] = w14
      /\ t[15] = w15
      /\ t[16] = w16
      /\ t[17] = w17
      /\ t[18] = w18
      /\ t[19] = w19
      /\ t[20] = w20
    OBVIOUS
<1> HIDE DEF t
<1>25. \A k \in 1 .. 20 : k = 1 \/ k = 2 \/ k = 3 \/ k = 4 \/ k = 5 \/ k = 6 \/ k = 7 \/ k = 8 \/ k = 9 \/ k = 10 \/ k = 11 \/ k = 12 \/ k = 13 \/ k = 14 \/ k = 15 \/ k = 16 \/ k = 17 \/ k = 18 \/ k = 19 \/ k = 20
    OBVIOUS
<1>26. ASSUME NEW k \in 1 .. 20
      PROVE  t[k].op \in DeclaringOps /\ t[k].id = (IF k <= 12 THEN k ELSE IF k <= 16 THEN k + 6 ELSE k - 4) /\ t[k].type = (0)
    <2>1. CASE k = 1
        BY <1>1, <1>24, <2>1 DEF Word
    <2>2. CASE k = 2
        BY <1>2, <1>24, <2>2 DEF Word
    <2>3. CASE k = 3
        BY <1>3, <1>24, <2>3 DEF Word
    <2>4. CASE k = 4
        BY <1>4, <1>24, <2>4 DEF Word
    <2>5. CASE k = 5
        BY <1>5, <1>24, <2>5 DEF Word
    <2>6. CASE k = 6
        BY <1>6, <1>24, <2>6 DEF Word
    <2>7. CASE k = 7
        BY <1>7, <1>24, <2>7 DEF Word
    <2>8. CASE k = 8
        BY <1>8, <1>24, <2>8 DEF Word
    <2>9. CASE k = 9
        BY <1>9, <1>24, <2>9 DEF Word
    <2>10. CASE k = 10
        BY <1>10, <1>24, <2>10 DEF Word
    <2>11. CASE k = 11
        BY <1>11, <1>24, <2>11 DEF Word
    <2>12. CASE k = 12
        BY <1>12, <1>24, <2>12 DEF Word
    <2>13. CASE k = 13
        BY <1>13, <1>24, <2>13 DEF Word
    <2>14. CASE k = 14
        BY <1>14, <1>24, <2>14 DEF Word
    <2>15. CASE k = 15
        BY <1>15, <1>24, <2>15 DEF Word
    <2>16. CASE k = 16
        BY <1>16, <1>24, <2>16 DEF Word
    <2>17. CASE k = 17
        BY <1>17, <1>24, <2>17 DEF Word
    <2>18. CASE k = 18
        BY <1>18, <1>24, <2>18 DEF Word
    <2>19. CASE k = 19
        BY <1>19, <1>24, <2>19 DEF Word
    <2>20. CASE k = 20
        BY <1>20, <1>24, <2>20 DEF Word
    <2> QED
        BY <1>25, <2>1, <2>2, <2>3, <2>4, <2>5, <2>6, <2>7, <2>8, <2>9, <2>10, <2>11, <2>12, <2>13, <2>14, <2>15, <2>16, <2>17, <2>18, <2>19, <2>20
<1>27. Once(t)
    <2>1. \A j, k \in 1 .. 20 : (IF j <= 12 THEN j ELSE IF j <= 16 THEN j + 6 ELSE j - 4) = (IF k <= 12 THEN k ELSE IF k <= 16 THEN k + 6 ELSE k - 4) => j = k
        OBVIOUS
    <2>2. ASSUME NEW j \in 1 .. 20, NEW k \in 1 .. 20, t[j].id = t[k].id
          PROVE  j = k
        <3>1. t[j].id = (IF j <= 12 THEN j ELSE IF j <= 16 THEN j + 6 ELSE j - 4)
            BY <1>26
        <3>2. t[k].id = (IF k <= 12 THEN k ELSE IF k <= 16 THEN k + 6 ELSE k - 4)
            BY <1>26
        <3> QED
            BY <2>1, <2>2, <3>1, <3>2
    <2> QED
        BY <1>23, <2>2 DEF Once
<1>28. Adds(t, TypePairs)
    <2>1. TypePairs = {<<t[k].id, t[k].type>> : k \in 1 .. 20}
        BY <1>26 DEF TypePairs
    <2>2. AddsTo(t, 20 + 1) = {<<t[k].id, t[k].type>> : k \in 1 .. 20}
        <3>1. \A k \in 1 .. 20 : k < 20 + 1 /\ t[k].id # 0
            BY <1>26
        <3>2. {k \in 1 .. Len(t) : k < 20 + 1 /\ t[k].id # 0} = 1 .. 20
            BY <1>23, <3>1
        <3> QED
            BY <3>2 DEF AddsTo
    <2> QED
        BY <1>23, <2>1, <2>2 DEF Adds
<1>29. \A d, k \in 1 .. 20 : d < k => t[d].id \in Known({} \cup AddsTo(t, k))
    <2> SUFFICES ASSUME NEW d \in 1 .. 20, NEW k \in 1 .. 20, d < k
                 PROVE  t[d].id \in Known({} \cup AddsTo(t, k))
        OBVIOUS
    <2>1. t[d].id # 0
        BY <1>26
    <2>2. <<t[d].id, t[d].type>> \in AddsTo(t, k)
        BY <1>23, <2>1 DEF AddsTo
    <2> QED
        BY <2>2 DEF Known
<1>30. \A k : Known({}) \subseteq Known({} \cup AddsTo(t, k))
    BY DEF Known
<1>31. ASSUME NEW k \in 1 .. 20
      PROVE  Uses(t[k]) \subseteq Known({} \cup AddsTo(t, k))
    <2>1. CASE k = 1
        BY <1>1, <1>24, <1>30, <2>1 DEF Word
    <2>2. CASE k = 2
        <3>1. w1.id = 1
            BY <1>1 DEF Word
        <3>2. {1} \subseteq Known({} \cup AddsTo(t, 2))
            BY <1>24, <1>29, <3>1
        <3> QED
            BY <1>2, <1>24, <1>30, <2>2, <3>2 DEF Word
    <2>3. CASE k = 3
        BY <1>3, <1>24, <1>30, <2>3 DEF Word
    <2>4. CASE k = 4
        BY <1>4, <1>24, <1>30, <2>4 DEF Word
    <2>5. CASE k = 5
        BY <1>5, <1>24, <1>30, <2>5 DEF Word
    <2>6. CASE k = 6
        BY <1>6, <1>24, <1>30, <2>6 DEF Word
    <2>7. CASE k = 7
        <3>1. w4.id = 4
            BY <1>4 DEF Word
        <3>2. {4} \subseteq Known({} \cup AddsTo(t, 7))
            BY <1>24, <1>29, <3>1
        <3> QED
            BY <1>7, <1>24, <1>30, <2>7, <3>2 DEF Word
    <2>8. CASE k = 8
        <3>1. w7.id = 7
            BY <1>7 DEF Word
        <3>2. {7} \subseteq Known({} \cup AddsTo(t, 8))
            BY <1>24, <1>29, <3>1
        <3> QED
            BY <1>8, <1>24, <1>30, <2>8, <3>2 DEF Word
    <2>9. CASE k = 9
        <3>1. w4.id = 4
            BY <1>4 DEF Word
        <3>2. {4} \subseteq Known({} \cup AddsTo(t, 9))
            BY <1>24, <1>29, <3>1
        <3> QED
            BY <1>9, <1>24, <1>30, <2>9, <3>2 DEF Word
    <2>10. CASE k = 10
        <3>1. w6.id = 6
            BY <1>6 DEF Word
        <3>2. {6} \subseteq Known({} \cup AddsTo(t, 10))
            BY <1>24, <1>29, <3>1
        <3> QED
            BY <1>10, <1>24, <1>30, <2>10, <3>2 DEF Word
    <2>11. CASE k = 11
        <3>1. w4.id = 4
            BY <1>4 DEF Word
        <3>2. {4} \subseteq Known({} \cup AddsTo(t, 11))
            BY <1>24, <1>29, <3>1
        <3> QED
            BY <1>11, <1>24, <1>30, <2>11, <3>2 DEF Word
    <2>12. CASE k = 12
        <3>1. w6.id = 6
            BY <1>6 DEF Word
        <3>2. {6} \subseteq Known({} \cup AddsTo(t, 12))
            BY <1>24, <1>29, <3>1
        <3> QED
            BY <1>12, <1>24, <1>30, <2>12, <3>2 DEF Word
    <2>13. CASE k = 13
        <3>1. w4.id = 4 /\ w5.id = 5
            BY <1>4, <1>5 DEF Word
        <3>2. {4, 5} \subseteq Known({} \cup AddsTo(t, 13))
            BY <1>24, <1>29, <3>1
        <3> QED
            BY <1>13, <1>24, <1>30, <2>13, <3>2 DEF Word
    <2>14. CASE k = 14
        <3>1. w13.id = 19
            BY <1>13 DEF Word
        <3>2. {19} \subseteq Known({} \cup AddsTo(t, 14))
            BY <1>24, <1>29, <3>1
        <3> QED
            BY <1>14, <1>24, <1>30, <2>14, <3>2 DEF Word
    <2>15. CASE k = 15
        <3>1. w5.id = 5
            BY <1>5 DEF Word
        <3>2. {5} \subseteq Known({} \cup AddsTo(t, 15))
            BY <1>24, <1>29, <3>1
        <3> QED
            BY <1>15, <1>24, <1>30, <2>15, <3>2 DEF Word
    <2>16. CASE k = 16
        <3>1. w4.id = 4
            BY <1>4 DEF Word
        <3>2. {4} \subseteq Known({} \cup AddsTo(t, 16))
            BY <1>24, <1>29, <3>1
        <3> QED
            BY <1>16, <1>24, <1>30, <2>16, <3>2 DEF Word
    <2>17. CASE k = 17
        <3>1. w4.id = 4
            BY <1>4 DEF Word
        <3>2. {4} \subseteq Known({} \cup AddsTo(t, 17))
            BY <1>24, <1>29, <3>1
        <3> QED
            BY <1>17, <1>24, <1>30, <2>17, <3>2 DEF Word
    <2>18. CASE k = 18
        <3>1. w5.id = 5
            BY <1>5 DEF Word
        <3>2. {5} \subseteq Known({} \cup AddsTo(t, 18))
            BY <1>24, <1>29, <3>1
        <3> QED
            BY <1>18, <1>24, <1>30, <2>18, <3>2 DEF Word
    <2>19. CASE k = 19
        <3>1. w6.id = 6
            BY <1>6 DEF Word
        <3>2. {6} \subseteq Known({} \cup AddsTo(t, 19))
            BY <1>24, <1>29, <3>1
        <3> QED
            BY <1>19, <1>24, <1>30, <2>19, <3>2 DEF Word
    <2>20. CASE k = 20
        <3>1. w3.id = 3
            BY <1>3 DEF Word
        <3>2. {3} \subseteq Known({} \cup AddsTo(t, 20))
            BY <1>24, <1>29, <3>1
        <3> QED
            BY <1>20, <1>24, <1>30, <2>20, <3>2 DEF Word
    <2> QED
        BY <1>25, <2>1, <2>2, <2>3, <2>4, <2>5, <2>6, <2>7, <2>8, <2>9, <2>10, <2>11, <2>12, <2>13, <2>14, <2>15, <2>16, <2>17, <2>18, <2>19, <2>20
<1>32. Declares({}, t, TypePairs)
    BY <1>23, <1>26, <1>27, <1>28, <1>31 DEF Declares
<1> QED
    BY <1>21, <1>32

\* The constants.
LEMMA ConstantsDeclared ==
    ASSUME NEW E, 4 \in Known(E), 5 \in Known(E)
    PROVE  Declares(E, ConstantDeclarations, ConstantPairs)
<1> DEFINE w1 == Constant(G.type_uint, G.const_uint_0, 0)
           w2 == Constant(G.type_uint, G.const_uint_1, 1)
           w3 == Constant(G.type_uint, G.const_uint_2, 2)
           w4 == Constant(G.type_uint, G.const_uint_3, 3)
           w5 == Constant(G.type_uint, G.const_uint_4, 4)
           w6 == Constant(G.type_uint, G.const_uint_32, 32)
           w7 == Constant(G.type_uint, G.const_uint_256, 256)
           w8 == Constant(G.type_uint, G.const_uint_264, 264)
           w9 == Constant(G.type_uint, G.const_uint_1024, 1024)
           w10 == Constant(G.type_ulong, G.const_ulong_4, 4)
           t == <<w1, w2, w3, w4, w5, w6, w7, w8, w9, w10>>
<1>1. Word(w1, "Constant", 23, 4, {4})
    BY ConstantWord, Ids
<1>2. Word(w2, "Constant", 24, 4, {4})
    BY ConstantWord, Ids
<1>3. Word(w3, "Constant", 25, 4, {4})
    BY ConstantWord, Ids
<1>4. Word(w4, "Constant", 26, 4, {4})
    BY ConstantWord, Ids
<1>5. Word(w5, "Constant", 27, 4, {4})
    BY ConstantWord, Ids
<1>6. Word(w6, "Constant", 28, 4, {4})
    BY ConstantWord, Ids
<1>7. Word(w7, "Constant", 29, 4, {4})
    BY ConstantWord, Ids
<1>8. Word(w8, "Constant", 30, 4, {4})
    BY ConstantWord, Ids
<1>9. Word(w9, "Constant", 31, 4, {4})
    BY ConstantWord, Ids
<1>10. Word(w10, "Constant", 32, 5, {5})
    BY ConstantWord, Ids
<1>11. t = ConstantDeclarations
    BY DEF ConstantDeclarations
<1> HIDE DEF w1, w2, w3, w4, w5, w6, w7, w8, w9, w10
<1>12. /\ w1 \in Instruction
      /\ w2 \in Instruction
      /\ w3 \in Instruction
      /\ w4 \in Instruction
      /\ w5 \in Instruction
      /\ w6 \in Instruction
      /\ w7 \in Instruction
      /\ w8 \in Instruction
      /\ w9 \in Instruction
      /\ w10 \in Instruction
    BY <1>1, <1>2, <1>3, <1>4, <1>5, <1>6, <1>7, <1>8, <1>9, <1>10 DEF Word
<1>13. t \in Seq(Instruction) /\ Len(t) = 10
    BY <1>12
<1>14. /\ t[1] = w1
      /\ t[2] = w2
      /\ t[3] = w3
      /\ t[4] = w4
      /\ t[5] = w5
      /\ t[6] = w6
      /\ t[7] = w7
      /\ t[8] = w8
      /\ t[9] = w9
      /\ t[10] = w10
    OBVIOUS
<1> HIDE DEF t
<1>15. \A k \in 1 .. 10 : k = 1 \/ k = 2 \/ k = 3 \/ k = 4 \/ k = 5 \/ k = 6 \/ k = 7 \/ k = 8 \/ k = 9 \/ k = 10
    OBVIOUS
<1>16. ASSUME NEW k \in 1 .. 10
      PROVE  t[k].op \in DeclaringOps /\ t[k].id = (k + 22) /\ t[k].type = (IF k = 10 THEN 5 ELSE 4)
    <2>1. CASE k = 1
        BY <1>1, <1>14, <2>1 DEF Word
    <2>2. CASE k = 2
        BY <1>2, <1>14, <2>2 DEF Word
    <2>3. CASE k = 3
        BY <1>3, <1>14, <2>3 DEF Word
    <2>4. CASE k = 4
        BY <1>4, <1>14, <2>4 DEF Word
    <2>5. CASE k = 5
        BY <1>5, <1>14, <2>5 DEF Word
    <2>6. CASE k = 6
        BY <1>6, <1>14, <2>6 DEF Word
    <2>7. CASE k = 7
        BY <1>7, <1>14, <2>7 DEF Word
    <2>8. CASE k = 8
        BY <1>8, <1>14, <2>8 DEF Word
    <2>9. CASE k = 9
        BY <1>9, <1>14, <2>9 DEF Word
    <2>10. CASE k = 10
        BY <1>10, <1>14, <2>10 DEF Word
    <2> QED
        BY <1>15, <2>1, <2>2, <2>3, <2>4, <2>5, <2>6, <2>7, <2>8, <2>9, <2>10
<1>17. Once(t)
    <2>1. \A j, k \in 1 .. 10 : (j + 22) = (k + 22) => j = k
        OBVIOUS
    <2>2. ASSUME NEW j \in 1 .. 10, NEW k \in 1 .. 10, t[j].id = t[k].id
          PROVE  j = k
        <3>1. t[j].id = (j + 22)
            BY <1>16
        <3>2. t[k].id = (k + 22)
            BY <1>16
        <3> QED
            BY <2>1, <2>2, <3>1, <3>2
    <2> QED
        BY <1>13, <2>2 DEF Once
<1>18. Adds(t, ConstantPairs)
    <2>1. ConstantPairs = {<<t[k].id, t[k].type>> : k \in 1 .. 10}
        BY <1>16 DEF ConstantPairs
    <2>2. AddsTo(t, 10 + 1) = {<<t[k].id, t[k].type>> : k \in 1 .. 10}
        <3>1. \A k \in 1 .. 10 : k < 10 + 1 /\ t[k].id # 0
            BY <1>16
        <3>2. {k \in 1 .. Len(t) : k < 10 + 1 /\ t[k].id # 0} = 1 .. 10
            BY <1>13, <3>1
        <3> QED
            BY <3>2 DEF AddsTo
    <2> QED
        BY <1>13, <2>1, <2>2 DEF Adds
<1>19. \A d, k \in 1 .. 10 : d < k => t[d].id \in Known(E \cup AddsTo(t, k))
    <2> SUFFICES ASSUME NEW d \in 1 .. 10, NEW k \in 1 .. 10, d < k
                 PROVE  t[d].id \in Known(E \cup AddsTo(t, k))
        OBVIOUS
    <2>1. t[d].id # 0
        BY <1>16
    <2>2. <<t[d].id, t[d].type>> \in AddsTo(t, k)
        BY <1>13, <2>1 DEF AddsTo
    <2> QED
        BY <2>2 DEF Known
<1>20. \A k : Known(E) \subseteq Known(E \cup AddsTo(t, k))
    BY DEF Known
<1>21. ASSUME NEW k \in 1 .. 10
      PROVE  Uses(t[k]) \subseteq Known(E \cup AddsTo(t, k))
    <2>1. CASE k = 1
        BY <1>1, <1>14, <1>20, <2>1 DEF Word
    <2>2. CASE k = 2
        BY <1>2, <1>14, <1>20, <2>2 DEF Word
    <2>3. CASE k = 3
        BY <1>3, <1>14, <1>20, <2>3 DEF Word
    <2>4. CASE k = 4
        BY <1>4, <1>14, <1>20, <2>4 DEF Word
    <2>5. CASE k = 5
        BY <1>5, <1>14, <1>20, <2>5 DEF Word
    <2>6. CASE k = 6
        BY <1>6, <1>14, <1>20, <2>6 DEF Word
    <2>7. CASE k = 7
        BY <1>7, <1>14, <1>20, <2>7 DEF Word
    <2>8. CASE k = 8
        BY <1>8, <1>14, <1>20, <2>8 DEF Word
    <2>9. CASE k = 9
        BY <1>9, <1>14, <1>20, <2>9 DEF Word
    <2>10. CASE k = 10
        BY <1>10, <1>14, <1>20, <2>10 DEF Word
    <2> QED
        BY <1>15, <2>1, <2>2, <2>3, <2>4, <2>5, <2>6, <2>7, <2>8, <2>9, <2>10
<1>22. Declares(E, t, ConstantPairs)
    BY <1>13, <1>16, <1>17, <1>18, <1>21 DEF Declares
<1> QED
    BY <1>11, <1>22

\* The shared array.
LEMMA ArrayDeclared ==
    ASSUME NEW E, 6 \in Known(E), 31 \in Known(E)
    PROVE  Declares(E, SharedArray, ArrayPairs)
<1> DEFINE w1 == Def("TypeArray", G.type_arr1024f, <<G.type_float, G.const_uint_1024>>, <<>>)
           w2 == Pointer(G.ptr_wg_arr, "Workgroup", G.type_arr1024f)
           t == <<w1, w2>>
<1>1. Word(w1, "TypeArray", 17, 0, {6, 31})
    <2> DEFINE args == <<G.type_float, G.const_uint_1024>>
    <2>1. "TypeArray" \in TypeOps /\ <<>> \in Seq(Nat \cup Words)
        BY DEF TypeOps
    <2>2. args = <<6, 31>>
        BY Ids
    <2>3. args \in Seq(Nat) /\ ToSet(args) = {6, 31}
        BY <2>2, SequencesOfTwo
    <2>4. G.type_arr1024f = 17
        BY Ids
    <2> HIDE DEF args
    <2>5. G.type_arr1024f \in Nat /\ args \in Seq(Nat) /\ <<>> \in Seq(Nat \cup Words)
        BY <2>1, <2>3, <2>4
    <2>6. Word(Def("TypeArray", G.type_arr1024f, args, <<>>), "TypeArray", G.type_arr1024f, 0, ToSet(args))
        BY <2>1, <2>5, DefWord, ZenonT(60)
    <2> QED
        BY <2>3, <2>4, <2>6 DEF args
<1>2. Word(w2, "TypePointer", 18, 0, {17})
    BY PointerWord, WordsOfPointers, Ids
<1>3. t = SharedArray
    BY DEF SharedArray
<1> HIDE DEF w1, w2
<1>4. /\ w1 \in Instruction
      /\ w2 \in Instruction
    BY <1>1, <1>2 DEF Word
<1>5. t \in Seq(Instruction) /\ Len(t) = 2
    BY <1>4
<1>6. /\ t[1] = w1
      /\ t[2] = w2
    OBVIOUS
<1> HIDE DEF t
<1>7. \A k \in 1 .. 2 : k = 1 \/ k = 2
    OBVIOUS
<1>8. ASSUME NEW k \in 1 .. 2
      PROVE  t[k].op \in DeclaringOps /\ t[k].id = (k + 16) /\ t[k].type = (0)
    <2>1. CASE k = 1
        BY <1>1, <1>6, <2>1 DEF Word
    <2>2. CASE k = 2
        BY <1>2, <1>6, <2>2 DEF Word
    <2> QED
        BY <1>7, <2>1, <2>2
<1>9. Once(t)
    <2>1. \A j, k \in 1 .. 2 : (j + 16) = (k + 16) => j = k
        OBVIOUS
    <2>2. ASSUME NEW j \in 1 .. 2, NEW k \in 1 .. 2, t[j].id = t[k].id
          PROVE  j = k
        <3>1. t[j].id = (j + 16)
            BY <1>8
        <3>2. t[k].id = (k + 16)
            BY <1>8
        <3> QED
            BY <2>1, <2>2, <3>1, <3>2
    <2> QED
        BY <1>5, <2>2 DEF Once
<1>10. Adds(t, ArrayPairs)
    <2>1. ArrayPairs = {<<t[k].id, t[k].type>> : k \in 1 .. 2}
        BY <1>8 DEF ArrayPairs
    <2>2. AddsTo(t, 2 + 1) = {<<t[k].id, t[k].type>> : k \in 1 .. 2}
        <3>1. \A k \in 1 .. 2 : k < 2 + 1 /\ t[k].id # 0
            BY <1>8
        <3>2. {k \in 1 .. Len(t) : k < 2 + 1 /\ t[k].id # 0} = 1 .. 2
            BY <1>5, <3>1
        <3> QED
            BY <3>2 DEF AddsTo
    <2> QED
        BY <1>5, <2>1, <2>2 DEF Adds
<1>11. \A d, k \in 1 .. 2 : d < k => t[d].id \in Known(E \cup AddsTo(t, k))
    <2> SUFFICES ASSUME NEW d \in 1 .. 2, NEW k \in 1 .. 2, d < k
                 PROVE  t[d].id \in Known(E \cup AddsTo(t, k))
        OBVIOUS
    <2>1. t[d].id # 0
        BY <1>8
    <2>2. <<t[d].id, t[d].type>> \in AddsTo(t, k)
        BY <1>5, <2>1 DEF AddsTo
    <2> QED
        BY <2>2 DEF Known
<1>12. \A k : Known(E) \subseteq Known(E \cup AddsTo(t, k))
    BY DEF Known
<1>13. ASSUME NEW k \in 1 .. 2
      PROVE  Uses(t[k]) \subseteq Known(E \cup AddsTo(t, k))
    <2>1. CASE k = 1
        BY <1>1, <1>6, <1>12, <2>1 DEF Word
    <2>2. CASE k = 2
        <3>1. w1.id = 17
            BY <1>1 DEF Word
        <3>2. {17} \subseteq Known(E \cup AddsTo(t, 2))
            BY <1>6, <1>11, <3>1
        <3> QED
            BY <1>2, <1>6, <1>12, <2>2, <3>2 DEF Word
    <2> QED
        BY <1>7, <2>1, <2>2
<1>14. Declares(E, t, ArrayPairs)
    BY <1>5, <1>8, <1>9, <1>10, <1>13 DEF Declares
<1> QED
    BY <1>3, <1>14

\* The global variables.
LEMMA VariablesDeclared ==
    ASSUME NEW E, 8 \in Known(E), 18 \in Known(E), 20 \in Known(E)
    PROVE  Declares(E, GlobalVariables, VariablePairs)
<1> DEFINE w1 == Variable(G.ptr_input_v3uint, G.var_global_id, "Input")
           w2 == Variable(G.ptr_input_v3uint, G.var_local_id, "Input")
           w3 == Variable(G.ptr_input_v3uint, G.var_workgroup_id, "Input")
           w4 == Variable(G.ptr_push_params, G.var_push_params, "PushConstant")
           w5 == Variable(G.ptr_wg_arr, G.var_shared, "Workgroup")
           t == <<w1, w2, w3, w4, w5>>
<1>1. Word(w1, "Variable", 33, 8, {8})
    BY VariableWord, WordsOfPointers, Ids
<1>2. Word(w2, "Variable", 34, 8, {8})
    BY VariableWord, WordsOfPointers, Ids
<1>3. Word(w3, "Variable", 35, 8, {8})
    BY VariableWord, WordsOfPointers, Ids
<1>4. Word(w4, "Variable", 36, 20, {20})
    BY VariableWord, WordsOfPointers, Ids
<1>5. Word(w5, "Variable", 37, 18, {18})
    BY VariableWord, WordsOfPointers, Ids
<1>6. t = GlobalVariables
    BY DEF GlobalVariables
<1> HIDE DEF w1, w2, w3, w4, w5
<1>7. /\ w1 \in Instruction
      /\ w2 \in Instruction
      /\ w3 \in Instruction
      /\ w4 \in Instruction
      /\ w5 \in Instruction
    BY <1>1, <1>2, <1>3, <1>4, <1>5 DEF Word
<1>8. t \in Seq(Instruction) /\ Len(t) = 5
    BY <1>7
<1>9. /\ t[1] = w1
      /\ t[2] = w2
      /\ t[3] = w3
      /\ t[4] = w4
      /\ t[5] = w5
    OBVIOUS
<1> HIDE DEF t
<1>10. \A k \in 1 .. 5 : k = 1 \/ k = 2 \/ k = 3 \/ k = 4 \/ k = 5
    OBVIOUS
<1>11. ASSUME NEW k \in 1 .. 5
      PROVE  t[k].op \in DeclaringOps /\ t[k].id = (k + 32) /\ t[k].type = (IF k = 4 THEN 20 ELSE IF k = 5 THEN 18 ELSE 8)
    <2>1. CASE k = 1
        BY <1>1, <1>9, <2>1 DEF Word
    <2>2. CASE k = 2
        BY <1>2, <1>9, <2>2 DEF Word
    <2>3. CASE k = 3
        BY <1>3, <1>9, <2>3 DEF Word
    <2>4. CASE k = 4
        BY <1>4, <1>9, <2>4 DEF Word
    <2>5. CASE k = 5
        BY <1>5, <1>9, <2>5 DEF Word
    <2> QED
        BY <1>10, <2>1, <2>2, <2>3, <2>4, <2>5
<1>12. Once(t)
    <2>1. \A j, k \in 1 .. 5 : (j + 32) = (k + 32) => j = k
        OBVIOUS
    <2>2. ASSUME NEW j \in 1 .. 5, NEW k \in 1 .. 5, t[j].id = t[k].id
          PROVE  j = k
        <3>1. t[j].id = (j + 32)
            BY <1>11
        <3>2. t[k].id = (k + 32)
            BY <1>11
        <3> QED
            BY <2>1, <2>2, <3>1, <3>2
    <2> QED
        BY <1>8, <2>2 DEF Once
<1>13. Adds(t, VariablePairs)
    <2>1. VariablePairs = {<<t[k].id, t[k].type>> : k \in 1 .. 5}
        BY <1>11 DEF VariablePairs
    <2>2. AddsTo(t, 5 + 1) = {<<t[k].id, t[k].type>> : k \in 1 .. 5}
        <3>1. \A k \in 1 .. 5 : k < 5 + 1 /\ t[k].id # 0
            BY <1>11
        <3>2. {k \in 1 .. Len(t) : k < 5 + 1 /\ t[k].id # 0} = 1 .. 5
            BY <1>8, <3>1
        <3> QED
            BY <3>2 DEF AddsTo
    <2> QED
        BY <1>8, <2>1, <2>2 DEF Adds
<1>14. \A d, k \in 1 .. 5 : d < k => t[d].id \in Known(E \cup AddsTo(t, k))
    <2> SUFFICES ASSUME NEW d \in 1 .. 5, NEW k \in 1 .. 5, d < k
                 PROVE  t[d].id \in Known(E \cup AddsTo(t, k))
        OBVIOUS
    <2>1. t[d].id # 0
        BY <1>11
    <2>2. <<t[d].id, t[d].type>> \in AddsTo(t, k)
        BY <1>8, <2>1 DEF AddsTo
    <2> QED
        BY <2>2 DEF Known
<1>15. \A k : Known(E) \subseteq Known(E \cup AddsTo(t, k))
    BY DEF Known
<1>16. ASSUME NEW k \in 1 .. 5
      PROVE  Uses(t[k]) \subseteq Known(E \cup AddsTo(t, k))
    <2>1. CASE k = 1
        BY <1>1, <1>9, <1>15, <2>1 DEF Word
    <2>2. CASE k = 2
        BY <1>2, <1>9, <1>15, <2>2 DEF Word
    <2>3. CASE k = 3
        BY <1>3, <1>9, <1>15, <2>3 DEF Word
    <2>4. CASE k = 4
        BY <1>4, <1>9, <1>15, <2>4 DEF Word
    <2>5. CASE k = 5
        BY <1>5, <1>9, <1>15, <2>5 DEF Word
    <2> QED
        BY <1>10, <2>1, <2>2, <2>3, <2>4, <2>5
<1>17. Declares(E, t, VariablePairs)
    BY <1>8, <1>11, <1>12, <1>13, <1>16 DEF Declares
<1> QED
    BY <1>6, <1>17

\* A function on 1 .. n is a sequence.
LEMMA FunctionSequence ==
    ASSUME NEW n \in Nat, NEW h \in [1 .. n -> Instruction]
    PROVE  h \in Seq(Instruction) /\ Len(h) = n
<1>1. h \in Seq(Instruction)
    BY SeqDef
<1> QED
    BY <1>1

\* Declarations that define and use nothing.
LEMMA PlainDeclared ==
    ASSUME NEW t \in Seq(Instruction),
           \A k \in 1 .. Len(t) : t[k].op \in DeclaringOps /\ t[k].id = 0 /\ Uses(t[k]) = {}
    PROVE  Declares({}, t, {})
<1>1. Once(t)
    BY DEF Once
<1>2. Adds(t, {})
    BY DEF Adds, AddsTo
<1> QED
    BY <1>1, <1>2 DEF Declares

\* The preamble word by word.
LEMMA PreambleWords ==
    \E w1, w2, w3, w4, w5, w6, w7 :
        /\ Preamble = <<w1, w2, w3, w4, w5, w6, w7>>
        /\ Word(w1, "Capability", 0, 0, {}) /\ Word(w2, "Capability", 0, 0, {})
        /\ Word(w3, "Capability", 0, 0, {}) /\ Word(w4, "Extension", 0, 0, {})
        /\ Word(w5, "MemoryModel", 0, 0, {}) /\ Word(w6, "EntryPoint", 0, 0, {})
        /\ Word(w7, "ExecutionMode", 0, 0, {})
        /\ w6.args = <<G.func_main, G.var_global_id, G.var_local_id, G.var_workgroup_id, G.var_push_params>>
<1> DEFINE args == <<G.func_main, G.var_global_id, G.var_local_id, G.var_workgroup_id, G.var_push_params>>
           w1 == Plain("Capability", <<>>, <<"Shader">>)
           w2 == Plain("Capability", <<>>, <<"Int64">>)
           w3 == Plain("Capability", <<>>, <<"PhysicalStorageBufferAddresses">>)
           w4 == Plain("Extension", <<>>, <<"SPV_KHR_physical_storage_buffer">>)
           w5 == Plain("MemoryModel", <<>>, <<"PhysicalStorageBuffer64">>)
           w6 == Plain("EntryPoint", args, <<"main">>)
           w7 == Plain("ExecutionMode", <<G.func_main>>, <<256, 1, 1>>)
<1>1. "EntryPoint" \in Forward /\ "ExecutionMode" \in Forward
    BY DEF Forward
<1>2. {"Shader", "Int64", "PhysicalStorageBufferAddresses", "SPV_KHR_physical_storage_buffer",
       "PhysicalStorageBuffer64", "main"} \subseteq Words
    BY DEF Words
<1>3. args \in Seq(Nat) /\ <<G.func_main>> \in Seq(Nat) /\ <<>> \in Seq(Nat)
    BY Ids
<1>4. /\ <<"Shader">> \in Seq(Nat \cup Words) /\ <<"Int64">> \in Seq(Nat \cup Words)
      /\ <<"PhysicalStorageBufferAddresses">> \in Seq(Nat \cup Words)
      /\ <<"SPV_KHR_physical_storage_buffer">> \in Seq(Nat \cup Words)
      /\ <<"PhysicalStorageBuffer64">> \in Seq(Nat \cup Words)
      /\ <<"main">> \in Seq(Nat \cup Words) /\ <<256, 1, 1>> \in Seq(Nat \cup Words)
    BY <1>2
<1> HIDE DEF args
<1>5. Word(w1, "Capability", 0, 0, {}) /\ Word(w2, "Capability", 0, 0, {}) /\ Word(w3, "Capability", 0, 0, {})
    BY <1>3, <1>4, PlainWord
<1>6. Word(w4, "Extension", 0, 0, {}) /\ Word(w5, "MemoryModel", 0, 0, {})
    BY <1>3, <1>4, PlainWord
<1>7. Word(w6, "EntryPoint", 0, 0, {}) /\ Word(w7, "ExecutionMode", 0, 0, {})
    BY <1>1, <1>3, <1>4, PlainWord, ZenonT(60)
<1>8. w6.args = args
    BY DEF Plain
<1>9. Preamble = <<w1, w2, w3, w4, w5, w6, w7>>
    BY DEF Preamble, args
<1> HIDE DEF w1, w2, w3, w4, w5, w6, w7
<1> QED
    BY <1>5, <1>6, <1>7, <1>8, <1>9 DEF args

\* The preamble defines nothing, and its operations are in the order of the sections.
LEMMA PreambleFacts ==
    /\ Preamble \in Seq(Instruction) /\ Len(Preamble) = 7
    /\ \A k \in 1 .. 7 : Preamble[k].op \in DeclaringOps /\ Preamble[k].id = 0 /\ Uses(Preamble[k]) = {}
    /\ Preamble[1].op = "Capability" /\ Preamble[2].op = "Capability" /\ Preamble[3].op = "Capability"
    /\ Preamble[4].op = "Extension" /\ Preamble[5].op = "MemoryModel" /\ Preamble[6].op = "EntryPoint"
    /\ Preamble[7].op = "ExecutionMode"
    /\ Preamble[6].args =
          <<G.func_main, G.var_global_id, G.var_local_id, G.var_workgroup_id, G.var_push_params>>
<1> DEFINE args == <<G.func_main, G.var_global_id, G.var_local_id, G.var_workgroup_id, G.var_push_params>>
           t == Preamble
<1>1. PICK w1, w2, w3, w4, w5, w6, w7 :
        /\ t = <<w1, w2, w3, w4, w5, w6, w7>>
        /\ Word(w1, "Capability", 0, 0, {}) /\ Word(w2, "Capability", 0, 0, {})
        /\ Word(w3, "Capability", 0, 0, {}) /\ Word(w4, "Extension", 0, 0, {})
        /\ Word(w5, "MemoryModel", 0, 0, {}) /\ Word(w6, "EntryPoint", 0, 0, {})
        /\ Word(w7, "ExecutionMode", 0, 0, {})
        /\ w6.args = args
    BY PreambleWords
<1> HIDE DEF args, t
<1>2. /\ w1 \in Instruction /\ w2 \in Instruction /\ w3 \in Instruction /\ w4 \in Instruction
      /\ w5 \in Instruction /\ w6 \in Instruction /\ w7 \in Instruction
    BY <1>1 DEF Word
<1>3. /\ t \in Seq(Instruction) /\ Len(t) = 7 /\ t[1] = w1 /\ t[2] = w2 /\ t[3] = w3 /\ t[4] = w4
      /\ t[5] = w5 /\ t[6] = w6 /\ t[7] = w7
    BY <1>1, <1>2
<1>4. \A k \in 1 .. 7 : k = 1 \/ k = 2 \/ k = 3 \/ k = 4 \/ k = 5 \/ k = 6 \/ k = 7
    OBVIOUS
<1>5. \A k \in 1 .. 7 : t[k].op \in DeclaringOps /\ t[k].id = 0 /\ Uses(t[k]) = {}
    <2>1. \A w, op : Word(w, op, 0, 0, {}) => w.op \in DeclaringOps /\ w.id = 0 /\ Uses(w) = {}
        BY DEF Word
    <2> QED
        BY <1>1, <1>3, <1>4, <2>1
<1>6. /\ t[1].op = "Capability" /\ t[2].op = "Capability" /\ t[3].op = "Capability"
      /\ t[4].op = "Extension" /\ t[5].op = "MemoryModel" /\ t[6].op = "EntryPoint"
      /\ t[7].op = "ExecutionMode"
    BY <1>1, <1>3 DEF Word
<1> QED
    BY <1>1, <1>3, <1>5, <1>6 DEF t, args

\* The decorations define nothing.
LEMMA DecorationsFacts ==
    /\ Decorations \in Seq(Instruction) /\ Len(Decorations) = 8
    /\ \A k \in 1 .. 8 : /\ Decorations[k].op \in {"Decorate", "MemberDecorate"}
                         /\ Decorations[k].id = 0 /\ Uses(Decorations[k]) = {}
<1> DEFINE w1 == Plain("Decorate", <<G.var_global_id>>, <<"GlobalInvocationId">>)
           w2 == Plain("Decorate", <<G.var_local_id>>, <<"LocalInvocationId">>)
           w3 == Plain("Decorate", <<G.var_workgroup_id>>, <<"WorkgroupId">>)
           w4 == Plain("Decorate", <<G.type_push_params>>, <<"Block">>)
           s == <<w1, w2, w3, w4>>
           t == [m \in 1..4 |-> Plain("MemberDecorate", <<G.type_push_params>>, <<m - 1, 8 * (m - 1)>>)]
           ok(w) == w \in Instruction /\ w.op \in {"Decorate", "MemberDecorate"} /\ w.id = 0 /\ Uses(w) = {}
<1>1. "Decorate" \in Forward /\ "MemberDecorate" \in Forward
    BY DEF Forward
<1>2. {"GlobalInvocationId", "LocalInvocationId", "WorkgroupId", "Block"} \subseteq Words
    BY DEF Words
<1>3. /\ <<G.var_global_id>> \in Seq(Nat) /\ <<G.var_local_id>> \in Seq(Nat)
      /\ <<G.var_workgroup_id>> \in Seq(Nat) /\ <<G.type_push_params>> \in Seq(Nat)
    BY Ids
<1>4. /\ <<"GlobalInvocationId">> \in Seq(Nat \cup Words) /\ <<"LocalInvocationId">> \in Seq(Nat \cup Words)
      /\ <<"WorkgroupId">> \in Seq(Nat \cup Words) /\ <<"Block">> \in Seq(Nat \cup Words)
    BY <1>2
<1>5. \A w : Word(w, "Decorate", 0, 0, {}) \/ Word(w, "MemberDecorate", 0, 0, {}) => ok(w)
    BY DEF Word
<1>6. Word(w1, "Decorate", 0, 0, {}) /\ Word(w2, "Decorate", 0, 0, {})
    BY <1>1, <1>3, <1>4, PlainWord
<1>7. Word(w3, "Decorate", 0, 0, {}) /\ Word(w4, "Decorate", 0, 0, {})
    BY <1>1, <1>3, <1>4, PlainWord
<1>8. \A m \in 1 .. 4 : Word(t[m], "MemberDecorate", 0, 0, {})
    <2> SUFFICES ASSUME NEW m \in 1 .. 4
                 PROVE  Word(t[m], "MemberDecorate", 0, 0, {})
        OBVIOUS
    <2>1. <<m - 1, 8 * (m - 1)>> \in Seq(Nat \cup Words)
        OBVIOUS
    <2>2. Word(Plain("MemberDecorate", <<G.type_push_params>>, <<m - 1, 8 * (m - 1)>>),
               "MemberDecorate", 0, 0, {})
        BY <1>1, <1>3, <2>1, PlainWord
    <2> QED
        BY <2>2
<1>9. Decorations = s \o t
    BY DEF Decorations
<1>10. DOMAIN t = 1 .. 4
    OBVIOUS
<1> HIDE DEF w1, w2, w3, w4, t
<1>11. ok(w1) /\ ok(w2) /\ ok(w3) /\ ok(w4) /\ \A m \in 1 .. 4 : ok(t[m])
    BY <1>5, <1>6, <1>7, <1>8
<1>12. s \in Seq(Instruction) /\ Len(s) = 4 /\ s[1] = w1 /\ s[2] = w2 /\ s[3] = w3 /\ s[4] = w4
    BY <1>11
<1>13. t \in Seq(Instruction) /\ Len(t) = 4
    <2>1. t \in [1 .. 4 -> Instruction]
        <3>1. t = [m \in 1 .. 4 |-> t[m]]
            BY DEF t
        <3> QED
            BY <1>11, <3>1
    <2> QED
        BY <2>1, FunctionSequence
<1> HIDE DEF s
<1>14. \A m \in 1 .. 4 : ok(s[m])
    <2>1. \A m \in 1 .. 4 : m = 1 \/ m = 2 \/ m = 3 \/ m = 4
        OBVIOUS
    <2> HIDE DEF ok
    <2> QED
        BY <1>11, <1>12, <2>1
<1> DEFINE r == s \o t
<1>15. Glued(r, s, t)
    BY <1>12, <1>13, ConcatGlues
<1> HIDE DEF r, ok
<1>16. r \in Seq(Instruction) /\ Len(r) = 8
    BY <1>12, <1>13, <1>15 DEF Glued
<1>17. \A k \in 1 .. 8 : ok(r[k])
    <2> SUFFICES ASSUME NEW k \in 1 .. 8
                 PROVE  ok(r[k])
        OBVIOUS
    <2>1. CASE k \in 1 .. 4
        BY <1>12, <1>14, <1>15, <2>1 DEF Glued
    <2>2. CASE k \in 5 .. 8
        <3>1. k - 4 \in 1 .. 4 /\ k = 4 + (k - 4)
            BY <2>2
        <3>2. r[4 + (k - 4)] = t[k - 4]
            BY <1>12, <1>13, <1>15, <3>1 DEF Glued
        <3> QED
            BY <1>11, <3>1, <3>2
    <2> QED
        BY <2>1, <2>2
<1> QED
    BY <1>9, <1>16, <1>17 DEF r, ok

\* The ids each piece of the header defines.
LEMMA KnownDeclarations ==
    /\ Known(TypePairs) = 1 .. 16 \cup 19 .. 22
    /\ Known(ConstantPairs) = 23 .. 32
    /\ Known(ArrayPairs) = 17 .. 18
    /\ Known(VariablePairs) = 33 .. 37
    /\ Known({}) = {}
<1>1. Known(TypePairs) = 1 .. 16 \cup 19 .. 22
    <2>1. ASSUME NEW x \in 1 .. 16 \cup 19 .. 22
          PROVE  x \in Known(TypePairs)
        <3>1. <<x, 0>> \in TypePairs
            BY DEF TypePairs
        <3>2. <<x, 0>>[1] = x
            OBVIOUS
        <3> QED
            BY <3>1, <3>2 DEF Known
    <2>2. ASSUME NEW q \in TypePairs
          PROVE  q[1] \in 1 .. 16 \cup 19 .. 22
        BY DEF TypePairs
    <2> QED
        BY <2>1, <2>2 DEF Known
<1>2. Known(ConstantPairs) = 23 .. 32
    <2>1. ASSUME NEW x \in 23 .. 32
          PROVE  x \in Known(ConstantPairs)
        <3>1. <<x, IF x = 32 THEN 5 ELSE 4>> \in ConstantPairs
            BY DEF ConstantPairs
        <3>2. <<x, IF x = 32 THEN 5 ELSE 4>>[1] = x
            OBVIOUS
        <3> QED
            BY <3>1, <3>2 DEF Known
    <2>2. ASSUME NEW q \in ConstantPairs
          PROVE  q[1] \in 23 .. 32
        BY DEF ConstantPairs
    <2> QED
        BY <2>1, <2>2 DEF Known
<1>3. Known(ArrayPairs) = 17 .. 18
    <2>1. ASSUME NEW x \in 17 .. 18
          PROVE  x \in Known(ArrayPairs)
        <3>1. <<x, 0>> \in ArrayPairs
            BY DEF ArrayPairs
        <3>2. <<x, 0>>[1] = x
            OBVIOUS
        <3> QED
            BY <3>1, <3>2 DEF Known
    <2>2. ASSUME NEW q \in ArrayPairs
          PROVE  q[1] \in 17 .. 18
        BY DEF ArrayPairs
    <2> QED
        BY <2>1, <2>2 DEF Known
<1>4. Known(VariablePairs) = 33 .. 37
    <2>1. ASSUME NEW x \in 33 .. 37
          PROVE  x \in Known(VariablePairs)
        <3>1. <<x, IF x = 36 THEN 20 ELSE IF x = 37 THEN 18 ELSE 8>> \in VariablePairs
            BY DEF VariablePairs
        <3>2. <<x, IF x = 36 THEN 20 ELSE IF x = 37 THEN 18 ELSE 8>>[1] = x
            OBVIOUS
        <3> QED
            BY <3>1, <3>2 DEF Known
    <2>2. ASSUME NEW q \in VariablePairs
          PROVE  q[1] \in 33 .. 37
        BY DEF VariablePairs
    <2> QED
        BY <2>1, <2>2 DEF Known
<1> QED
    BY <1>1, <1>2, <1>3, <1>4, KnownPairs

\* What the header defines.
HeaderPairs == ((TypePairs \cup ConstantPairs) \cup ArrayPairs) \cup VariablePairs

\* The header defines every global id but the one of the function.
LEMMA HeaderKnown ==
    Known(HeaderPairs) = 1 .. 37
<1>1. Known(TypePairs \cup ConstantPairs) = Known(TypePairs) \cup Known(ConstantPairs)
    BY KnownUnion
<1>2. Known((TypePairs \cup ConstantPairs) \cup ArrayPairs)
        = Known(TypePairs \cup ConstantPairs) \cup Known(ArrayPairs)
    BY KnownUnion
<1>3. Known(HeaderPairs) = Known((TypePairs \cup ConstantPairs) \cup ArrayPairs) \cup Known(VariablePairs)
    BY KnownUnion DEF HeaderPairs
<1>4. (1 .. 16 \cup 19 .. 22) \cup 23 .. 32 \cup 17 .. 18 \cup 33 .. 37 = 1 .. 37
    OBVIOUS
<1> QED
    BY <1>1, <1>2, <1>3, <1>4, KnownDeclarations, ZenonT(60)

\* The preamble and the decorations are legal declarations.
LEMMA DeclarationsDeclare ==
    Declares({}, Preamble, {}) /\ Declares({}, Decorations, {})
<1>1. Declares({}, Preamble, {})
    BY PreambleFacts, PlainDeclared
<1>2. "Decorate" \in DeclaringOps /\ "MemberDecorate" \in DeclaringOps
    BY DEF DeclaringOps
<1>3. Declares({}, Decorations, {})
    BY <1>2, DecorationsFacts, PlainDeclared
<1> QED
    BY <1>1, <1>3

\* The header is a legal beginning of a module.
LEMMA HeaderStraight ==
    Straight(Header, HeaderPairs)
<1> DEFINE h1 == Preamble
           h2 == h1 \o Decorations
           h3 == h2 \o TypeDeclarations
           h4 == h3 \o ConstantDeclarations
           h5 == h4 \o SharedArray
           h6 == h5 \o GlobalVariables
           D4 == TypePairs \cup ConstantPairs
           D5 == D4 \cup ArrayPairs
           D6 == D5 \cup VariablePairs
<1>1. Header = h6
    BY DEF Header
<1>2. HeaderPairs = D6
    BY DEF HeaderPairs
<1>3. Known(D4) = 1 .. 16 \cup 19 .. 32
    <2>1. Known(D4) = Known(TypePairs) \cup Known(ConstantPairs)
        BY KnownUnion
    <2>2. (1 .. 16 \cup 19 .. 22) \cup 23 .. 32 = 1 .. 16 \cup 19 .. 32
        OBVIOUS
    <2> QED
        BY <2>1, <2>2, KnownDeclarations
<1>4. Known(D5) = 1 .. 32
    <2>1. Known(D5) = Known(D4) \cup Known(ArrayPairs)
        BY KnownUnion
    <2>2. (1 .. 16 \cup 19 .. 32) \cup 17 .. 18 = 1 .. 32
        OBVIOUS
    <2> QED
        BY <1>3, <2>1, <2>2, KnownDeclarations
<1>5. Straight(h1, {})
    <2>1. Apart({}, {})
        BY KnownDeclarations DEF Apart
    <2>2. Straight(<<>> \o Preamble, {} \cup {})
        BY <2>1, StraightNone, StraightDeclared, DeclarationsDeclare
    <2>3. <<>> \o Preamble = Preamble /\ {} \cup {} = {}
        BY PreambleFacts
    <2> QED
        BY <2>2, <2>3
<1> HIDE DEF h1
<1>6. Straight(h2, {})
    <2>1. Apart({}, {})
        BY KnownDeclarations DEF Apart
    <2>2. Straight(h1 \o Decorations, {} \cup {})
        BY <1>5, <2>1, StraightDeclared, DeclarationsDeclare
    <2>3. {} \cup {} = {}
        OBVIOUS
    <2> QED
        BY <2>2, <2>3
<1> HIDE DEF h2
<1>7. Straight(h3, TypePairs)
    <2>1. Apart({}, TypePairs)
        BY KnownDeclarations DEF Apart
    <2>2. Straight(h2 \o TypeDeclarations, {} \cup TypePairs)
        BY <1>6, <2>1, StraightDeclared, TypesDeclared
    <2>3. {} \cup TypePairs = TypePairs
        OBVIOUS
    <2> QED
        BY <2>2, <2>3
<1> HIDE DEF h3
<1>8. Straight(h4, D4)
    <2>1. Apart(TypePairs, ConstantPairs)
        BY KnownDeclarations DEF Apart
    <2>2. 4 \in Known(TypePairs) /\ 5 \in Known(TypePairs)
        BY KnownDeclarations
    <2>3. Declares(TypePairs, ConstantDeclarations, ConstantPairs)
        BY <2>2, ConstantsDeclared
    <2> QED
        BY <1>7, <2>1, <2>3, StraightDeclared
<1> HIDE DEF h4, D4
<1>9. Straight(h5, D5)
    <2>1. Apart(D4, ArrayPairs)
        BY <1>3, KnownDeclarations DEF Apart
    <2>2. 6 \in Known(D4) /\ 31 \in Known(D4)
        BY <1>3
    <2>3. Declares(D4, SharedArray, ArrayPairs)
        BY <2>2, ArrayDeclared
    <2> QED
        BY <1>8, <2>1, <2>3, StraightDeclared
<1> HIDE DEF h5, D5
<1>10. Straight(h6, D6)
    <2>1. Apart(D5, VariablePairs)
        BY <1>4, KnownDeclarations DEF Apart
    <2>2. 8 \in Known(D5) /\ 18 \in Known(D5) /\ 20 \in Known(D5)
        BY <1>4
    <2>3. Declares(D5, GlobalVariables, VariablePairs)
        BY <2>2, VariablesDeclared
    <2> QED
        BY <1>9, <2>1, <2>3, StraightDeclared
<1> QED
    BY <1>1, <1>2, <1>10

\* The pairs the body rests on are the header's.
LEMMA HeaderGlobals ==
    GlobalPairs \subseteq HeaderPairs
<1>1. GlobalPairs = {<<23, 4>>, <<24, 4>>, <<25, 4>>, <<26, 4>>, <<30, 4>>, <<32, 5>>, <<33, 8>>, <<34, 8>>,
                     <<35, 8>>, <<36, 20>>}
    BY Ids DEF GlobalPairs
<1>2. {<<23, 4>>, <<24, 4>>, <<25, 4>>, <<26, 4>>, <<30, 4>>, <<32, 5>>} \subseteq ConstantPairs
    BY DEF ConstantPairs
<1>3. {<<33, 8>>, <<34, 8>>, <<35, 8>>, <<36, 20>>} \subseteq VariablePairs
    BY DEF VariablePairs
<1> QED
    BY <1>1, <1>2, <1>3 DEF HeaderPairs

\* Where the pieces of the header are.
Sits(r, s, n) == \A k \in 1 .. Len(s) : n + k \in 1 .. Len(r) /\ r[n + k] = s[k]

\* r is s, of length m, and then t.
Extends(r, s, t, m) ==
    /\ r \in Seq(Instruction) /\ Len(r) = m + Len(t)
    /\ Sits(r, t, m)
    /\ \A p, n : Sits(s, p, n) => Sits(r, p, n)

\* What sits in a first part sits at the same place of the whole.
LEMMA SitsAgain ==
    ASSUME NEW s, NEW t, NEW r, Glued(r, s, t), NEW p, NEW n, Sits(s, p, n)
    PROVE  Sits(r, p, n)
BY DEF Glued, Sits

\* A concatenation extends its first part.
LEMMA ConcatExtends ==
    ASSUME NEW s \in Seq(Instruction), NEW t \in Seq(Instruction), NEW m \in Nat, Len(s) = m
    PROVE  Extends(s \o t, s, t, m)
<1> DEFINE r == s \o t
<1>1. Glued(r, s, t)
    BY ConcatGlues
<1> HIDE DEF r
<1>2. r \in Seq(Instruction) /\ Len(r) = m + Len(t)
    BY <1>1 DEF Glued
<1>3. Sits(r, t, m)
    BY <1>1 DEF Glued, Sits
<1>4. \A p, n : Sits(s, p, n) => Sits(r, p, n)
    BY <1>1, SitsAgain
<1> QED
    BY <1>2, <1>3, <1>4 DEF Extends, r

\* Where the pieces of the header begin.
LEMMA HeaderParts ==
    /\ Header \in Seq(Instruction) /\ Len(Header) = 52
    /\ Sits(Header, Preamble, 0) /\ Sits(Header, Decorations, 7) /\ Sits(Header, TypeDeclarations, 15)
    /\ Sits(Header, ConstantDeclarations, 35) /\ Sits(Header, SharedArray, 45)
    /\ Sits(Header, GlobalVariables, 47)
<1> DEFINE h1 == Preamble
           h2 == h1 \o Decorations
           h3 == h2 \o TypeDeclarations
           h4 == h3 \o ConstantDeclarations
           h5 == h4 \o SharedArray
           h6 == h5 \o GlobalVariables
<1>1. Header = h6
    BY DEF Header
<1>2. /\ TypeDeclarations \in Seq(Instruction) /\ ConstantDeclarations \in Seq(Instruction)
      /\ SharedArray \in Seq(Instruction) /\ GlobalVariables \in Seq(Instruction)
    <2>1. TypeDeclarations \in Seq(Instruction)
        BY TypesDeclared DEF Declares
    <2>2. 4 \in Known(HeaderPairs) /\ 5 \in Known(HeaderPairs) /\ 6 \in Known(HeaderPairs)
          /\ 31 \in Known(HeaderPairs) /\ 8 \in Known(HeaderPairs) /\ 18 \in Known(HeaderPairs)
          /\ 20 \in Known(HeaderPairs)
        BY HeaderKnown
    <2>3. ConstantDeclarations \in Seq(Instruction)
        BY <2>2, ConstantsDeclared DEF Declares
    <2>4. SharedArray \in Seq(Instruction)
        BY <2>2, ArrayDeclared DEF Declares
    <2>5. GlobalVariables \in Seq(Instruction)
        BY <2>2, VariablesDeclared DEF Declares
    <2> QED
        BY <2>1, <2>3, <2>4, <2>5
<1>3. h1 \in Seq(Instruction) /\ Len(h1) = 7 /\ Decorations \in Seq(Instruction) /\ Len(Decorations) = 8
    BY PreambleFacts, DecorationsFacts
<1>4. /\ Len(TypeDeclarations) = 20 /\ Len(ConstantDeclarations) = 10 /\ Len(SharedArray) = 2
      /\ Len(GlobalVariables) = 5
    BY DEF TypeDeclarations, ConstantDeclarations, SharedArray, GlobalVariables
<1>6. Sits(h1, Preamble, 0)
    BY <1>3 DEF Sits
<1> HIDE DEF h1
<1>7. /\ h2 \in Seq(Instruction) /\ Len(h2) = 15
      /\ Sits(h2, Preamble, 0) /\ Sits(h2, Decorations, 7)
    <2>1. Extends(h2, h1, Decorations, 7)
        BY <1>3, ConcatExtends
    <2> HIDE DEF h2
    <2> QED
        BY <1>3, <1>6, <2>1 DEF Extends
<1> HIDE DEF h2
<1>8. /\ h3 \in Seq(Instruction) /\ Len(h3) = 35
      /\ Sits(h3, Preamble, 0) /\ Sits(h3, Decorations, 7) /\ Sits(h3, TypeDeclarations, 15)
    <2>1. Extends(h3, h2, TypeDeclarations, 15)
        BY <1>2, <1>4, <1>7, ConcatExtends
    <2> HIDE DEF h3
    <2> QED
        BY <1>2, <1>4, <1>7, <2>1 DEF Extends
<1> HIDE DEF h3
<1>9. /\ h4 \in Seq(Instruction) /\ Len(h4) = 45
      /\ Sits(h4, Preamble, 0) /\ Sits(h4, Decorations, 7) /\ Sits(h4, TypeDeclarations, 15)
      /\ Sits(h4, ConstantDeclarations, 35)
    <2>1. Extends(h4, h3, ConstantDeclarations, 35)
        BY <1>2, <1>4, <1>8, ConcatExtends
    <2> HIDE DEF h4
    <2> QED
        BY <1>2, <1>4, <1>8, <2>1 DEF Extends
<1> HIDE DEF h4
<1>10. /\ h5 \in Seq(Instruction) /\ Len(h5) = 47
       /\ Sits(h5, Preamble, 0) /\ Sits(h5, Decorations, 7) /\ Sits(h5, TypeDeclarations, 15)
       /\ Sits(h5, ConstantDeclarations, 35) /\ Sits(h5, SharedArray, 45)
    <2>1. Extends(h5, h4, SharedArray, 45)
        BY <1>2, <1>4, <1>9, ConcatExtends, ZenonT(60)
    <2> HIDE DEF h5
    <2> QED
        BY <1>2, <1>4, <1>9, <2>1 DEF Extends
<1> HIDE DEF h5
<1>11. /\ h6 \in Seq(Instruction) /\ Len(h6) = 52
       /\ Sits(h6, Preamble, 0) /\ Sits(h6, Decorations, 7) /\ Sits(h6, TypeDeclarations, 15)
       /\ Sits(h6, ConstantDeclarations, 35) /\ Sits(h6, SharedArray, 45)
       /\ Sits(h6, GlobalVariables, 47)
    <2>1. Extends(h6, h5, GlobalVariables, 47)
        BY <1>2, <1>4, <1>10, ConcatExtends, ZenonT(60)
    <2> HIDE DEF h6
    <2> QED
        BY <1>2, <1>4, <1>10, <2>1 DEF Extends
<1> QED
    BY <1>1, <1>11

-----------------------------------------------------------------------------
(***************************************************************************)
(* The constants of the program's immediates.                              *)
(***************************************************************************)

\* The number of the one bits of a field is a natural number.
LEMMA NumeralType ==
    ASSUME NEW bits
    PROVE  Numeral(bits) \in Nat
<1> DEFINE Bit(k) == IF 32 - k \in bits THEN 1 ELSE 0
           Is(h) == h = [k \in 0..32 |-> IF k = 0 THEN 0 ELSE 2 * h[k - 1] + Bit(k)]
           g == CHOOSE h : Is(h)
           step == [x \in Nat \X Nat |-> 2 * x[2] + Bit(x[1])]
<1>1. Numeral(bits) = g[32]
    BY DEF Numeral
<1>2. \A k : Bit(k) \in Nat
    OBVIOUS
<1> HIDE DEF Bit
<1>3. step \in [Nat \X Nat -> Nat]
    BY <1>2
<1>4. PICK h : Recurses(h, Nat, 0, step, 32)
    <2> HIDE DEF step
    <2> QED
        BY <1>3, PrimitiveRecursion
<1>5. h \in [0 .. 32 -> Nat] /\ h[0] = 0 /\ \A k \in 1 .. 32 : h[k] = step[<<k, h[k - 1]>>]
    BY <1>4 DEF Recurses
<1>6. \A k \in 1 .. 32 : h[k] = 2 * h[k - 1] + Bit(k)
    <2> SUFFICES ASSUME NEW k \in 1 .. 32
                 PROVE  h[k] = 2 * h[k - 1] + Bit(k)
        OBVIOUS
    <2>1. k \in Nat /\ h[k - 1] \in Nat
        BY <1>5
    <2>2. step[<<k, h[k - 1]>>] = 2 * h[k - 1] + Bit(k)
        BY <2>1
    <2> QED
        BY <1>5, <2>2
<1>7. Is(h)
    <2> DEFINE r == [k \in 0..32 |-> IF k = 0 THEN 0 ELSE 2 * h[k - 1] + Bit(k)]
    <2>1. \A k \in 0 .. 32 : r[k] = h[k]
        BY <1>5, <1>6
    <2>2. DOMAIN r = 0 .. 32 /\ DOMAIN h = 0 .. 32 /\ r = [k \in 0 .. 32 |-> r[k]]
          /\ h = [k \in 0 .. 32 |-> h[k]]
        BY <1>5
    <2>3. r = h
        BY <2>1, <2>2, SMTT(30)
    <2> QED
        BY <2>3
<1>8. Is(g)
    BY <1>7, ZenonT(60)
<1> HIDE DEF g
<1>9. g[0] = 0 /\ \A k \in 0 .. 32 : k # 0 => g[k] = 2 * g[k - 1] + Bit(k)
    BY <1>8
<1> DEFINE T == {k \in 0 .. 32 : g[k] \in Nat}
<1>10. 0 \in T
    BY <1>9
<1>11. \A k \in 0 .. 32 - 1 : k \in T => k + 1 \in T
    <2> SUFFICES ASSUME NEW k \in 0 .. 32 - 1, g[k] \in Nat
                 PROVE  g[k + 1] \in Nat
        OBVIOUS
    <2>1. k + 1 \in 0 .. 32 /\ k + 1 # 0 /\ (k + 1) - 1 = k
        OBVIOUS
    <2>2. g[k + 1] = 2 * g[k] + Bit(k + 1)
        BY <1>9, <2>1
    <2> QED
        BY <1>2, <2>2
<1>12. \A k \in 0 .. 32 : k \in T
    <2> HIDE DEF T
    <2> QED
        BY <1>10, <1>11, BoundedInduction
<1> QED
    BY <1>1, <1>12

Rank(S, v) == Cardinality({w \in S : w < v})

\* The ranks in a finite set of numbers are the numbers below its size.
LEMMA RanksFill ==
    ASSUME NEW S \in SUBSET Nat, IsFiniteSet(S)
    PROVE  /\ Cardinality(S) \in Nat
           /\ \A v \in S : Rank(S, v) \in 0 .. (Cardinality(S) - 1)
           /\ \A k \in 0 .. (Cardinality(S) - 1) : \E v \in S : Rank(S, v) = k
<1> DEFINE n == Cardinality(S)
           f == [v \in S |-> Rank(S, v)]
<1>1. n \in Nat
    BY FS_CardinalityType
<1>2. ASSUME NEW v \in S
      PROVE  Rank(S, v) \in 0 .. (n - 1)
    <2> DEFINE W == {w \in S : w < v}
    <2>1. IsFiniteSet(S \ {v}) /\ Cardinality(S \ {v}) = n - 1
        BY FS_RemoveElement
    <2>2. W \in SUBSET (S \ {v})
        OBVIOUS
    <2> HIDE DEF W
    <2>3. IsFiniteSet(W) /\ Cardinality(W) <= n - 1
        BY <2>1, <2>2, FS_Subset
    <2>4. Cardinality(W) \in Nat
        BY <2>3, FS_CardinalityType
    <2> QED
        BY <1>1, <2>3, <2>4 DEF Rank, W
<1>3. ASSUME NEW u \in S, NEW v \in S, u < v
      PROVE  Rank(S, u) < Rank(S, v)
    <2> DEFINE V == {w \in S : w < u}
               W == {w \in S : w < v}
    <2>1. V \in SUBSET S /\ W \in SUBSET S /\ u \notin V /\ V \cup {u} \in SUBSET W
        <3>1. u \in Nat /\ v \in Nat /\ \A w \in S : w \in Nat
            OBVIOUS
        <3>2. \A w \in S : w < u => w < v
            BY <1>3, <3>1
        <3>3. u \notin V
            BY <3>1
        <3>4. \A w \in V \cup {u} : w \in W
            BY <1>3, <3>2
        <3> QED
            BY <3>3, <3>4
    <2> HIDE DEF V, W
    <2>2. IsFiniteSet(V) /\ IsFiniteSet(W)
        BY <2>1, FS_Subset
    <2>3. Cardinality(V \cup {u}) = Cardinality(V) + 1
        BY <2>1, <2>2, FS_AddElement
    <2>4. Cardinality(V \cup {u}) <= Cardinality(W)
        BY <2>1, <2>2, FS_Subset
    <2>5. Cardinality(V) \in Nat /\ Cardinality(W) \in Nat
        BY <2>2, FS_CardinalityType
    <2>6. Cardinality(V) < Cardinality(W)
        BY <2>3, <2>4, <2>5
    <2> QED
        BY <2>6 DEF Rank, V, W
<1>4. f \in [S -> 0 .. (n - 1)]
    BY <1>2
<1>5. \A u, v \in S : f[u] = f[v] => u = v
    <2> SUFFICES ASSUME NEW u \in S, NEW v \in S, f[u] = f[v], u # v
                 PROVE  FALSE
        OBVIOUS
    <2>1. Rank(S, u) = Rank(S, v) /\ Rank(S, u) \in Nat /\ Rank(S, v) \in Nat
        BY <1>2
    <2>2. u < v \/ v < u
        OBVIOUS
    <2> QED
        BY <1>3, <2>1, <2>2
<1> HIDE DEF n
<1>6. IsFiniteSet(0 .. (n - 1)) /\ Cardinality(0 .. (n - 1)) = n
    <2>1. n - 1 \in Int /\ 0 \in Int
        BY <1>1
    <2>2. /\ IsFiniteSet(0 .. (n - 1))
          /\ Cardinality(0 .. (n - 1)) = IF 0 > n - 1 THEN 0 ELSE (n - 1) - 0 + 1
        BY <2>1, FS_Interval
    <2> QED
        BY <1>1, <2>2
<1>7. f \in Injection(S, 0 .. (n - 1))
    <2> HIDE DEF f
    <2> QED
        BY <1>4, <1>5 DEF Injection, IsInjective
<1>8. f \in Surjection(S, 0 .. (n - 1))
    <2> HIDE DEF f
    <2> QED
        BY <1>6, <1>7, FS_Injection DEF n
<1>9. \A k \in 0 .. (n - 1) : \E v \in S : f[v] = k
    <2> HIDE DEF f
    <2> QED
        BY <1>8 DEF Surjection
<1> QED
    BY <1>1, <1>2, <1>9 DEF n

\* The values of a function on a finite set are finitely many.
LEMMA ImageFinite ==
    ASSUME NEW S, IsFiniteSet(S), NEW T, NEW f \in [S -> T]
    PROVE  IsFiniteSet({f[x] : x \in S})
<1> DEFINE V == {f[x] : x \in S}
<1>1. f \in [S -> V]
    OBVIOUS
<1>2. \A v \in V : \E x \in S : f[x] = v
    OBVIOUS
<1> HIDE DEF V
<1>3. f \in Surjection(S, V)
    BY <1>1, <1>2 DEF Surjection
<1>4. IsFiniteSet(V)
    BY <1>3, FS_Surjection
<1> QED
    BY <1>4 DEF V

\* What a lowered instruction is.
LEMMA LoweredAt ==
    ASSUME NEW d \in Programs, ir = LowerStream(d), NEW k \in Indices
    PROVE  /\ k + 1 \in DOMAIN d /\ d[k + 1] \in DecodedInstruction
           /\ \E a : Instr(k) = LowerToIr(d[k + 1], a)
<1>1. d \in Seq(DecodedInstruction)
    BY ProgramsAssumption
<1>2. ir = [x \in DOMAIN d |->
              LowerToIr(d[x], IF (x - 1) * 16 > U32Max THEN U32Max ELSE (x - 1) * 16)]
    BY DEF LowerStream
<1>3. DOMAIN d = 1 .. Len(d) /\ Len(d) \in Nat
    BY <1>1
<1>4. N = Len(d)
    BY <1>2, <1>3 DEF N
<1>5. k + 1 \in DOMAIN d
    BY <1>3, <1>4 DEF Indices
<1>6. d[k + 1] \in DecodedInstruction
    BY <1>1, <1>3, <1>5
<1> DEFINE a == IF ((k + 1) - 1) * 16 > U32Max THEN U32Max ELSE ((k + 1) - 1) * 16
<1>7. ir[k + 1] = LowerToIr(d[k + 1], a)
    BY <1>2, <1>5
<1> HIDE DEF a
<1> QED
    BY <1>5, <1>6, <1>7 DEF Instr

\* The immediates are finitely many numbers.
LEMMA NeededNumbers ==
    ASSUME NEW d \in Programs, ir = LowerStream(d)
    PROVE  Needed \in SUBSET Nat /\ IsFiniteSet(Needed)
<1> DEFINE I1 == {j \in Indices : Instr(j).imm # None}
           I2 == {j \in Indices : Instr(j).op \in {"Ldg", "Stg"}}
           f1 == [k \in I1 |-> Numeral(Instr(k).imm[1])]
           f2 == [k \in I2 |-> Instr(k).offset]
<1>1. Needed = {f1[k] : k \in I1} \cup {f2[k] : k \in I2}
    BY DEF Needed
<1>2. N \in Nat
    BY LoweredStream DEF Streamed
<1>3. IsFiniteSet(Indices)
    BY <1>2, FS_Interval DEF Indices
<1>4. I1 \in SUBSET Indices /\ I2 \in SUBSET Indices
    OBVIOUS
<1>5. f1 \in [I1 -> Nat]
    BY NumeralType
<1>6. f2 \in [I2 -> Nat]
    <2> SUFFICES ASSUME NEW k \in Indices
                 PROVE  Instr(k).offset \in Nat
        OBVIOUS
    <2>1. PICK a : Instr(k) = LowerToIr(d[k + 1], a)
        BY LoweredAt
    <2>2. d[k + 1] \in DecodedInstruction
        BY LoweredAt
    <2>4. d[k + 1].offset \in 0 .. (2 ^ 24 - 1)
        BY <2>2 DEF DecodedInstruction
    <2>5. d[k + 1].offset \in Nat
        BY <2>4
    <2>3. Instr(k).offset = d[k + 1].offset
        BY <2>1 DEF LowerToIr
    <2> QED
        BY <2>5, <2>3
<1> HIDE DEF I1, I2, f1, f2
<1>7. IsFiniteSet(I1) /\ IsFiniteSet(I2)
    BY <1>3, <1>4, FS_Subset
<1>8. IsFiniteSet({f1[k] : k \in I1}) /\ IsFiniteSet({f2[k] : k \in I2})
    <2>1. IsFiniteSet({f1[k] : k \in I1})
        BY <1>5, <1>7, ImageFinite
    <2>2. IsFiniteSet({f2[k] : k \in I2})
        BY <1>6, <1>7, ImageFinite
    <2> QED
        BY <2>1, <2>2
<1>9. Needed \in SUBSET Nat
    BY <1>1, <1>5, <1>6
<1> QED
    BY <1>1, <1>8, <1>9, FS_Union

\* Words whose ids are consecutive.
Row(m, n, type) == {<<m + k - 1, type[k]>> : k \in 1 .. n}

\* A row of ids makes an interval known.
LEMMA RowKnown ==
    ASSUME NEW m \in Nat, NEW n \in Nat, NEW type
    PROVE  Known(Row(m, n, type)) = m .. (m + n - 1)
<1>1. ASSUME NEW x \in m .. (m + n - 1)
      PROVE  x \in Known(Row(m, n, type))
    <2> DEFINE k == x - m + 1
    <2>1. k \in 1 .. n /\ m + k - 1 = x
        OBVIOUS
    <2> HIDE DEF k
    <2>2. <<m + k - 1, type[k]>> \in Row(m, n, type)
        BY <2>1 DEF Row
    <2> QED
        BY <2>1, <2>2 DEF Known
<1>2. ASSUME NEW q \in Row(m, n, type)
      PROVE  q[1] \in m .. (m + n - 1)
    BY DEF Row
<1> QED
    BY <1>1, <1>2 DEF Known

\* Declarations with consecutive ids declare a row.
LEMMA RowDeclared ==
    ASSUME NEW E, NEW t \in Seq(Instruction), NEW m \in Nat \ {0}, NEW type,
           \A k \in 1 .. Len(t) : /\ t[k].op \in DeclaringOps /\ t[k].id = m + k - 1
                                  /\ t[k].type = type[k] /\ Uses(t[k]) \subseteq Known(E)
    PROVE  Declares(E, t, Row(m, Len(t), type))
<1> DEFINE n == Len(t)
<1>1. n \in Nat
    OBVIOUS
<1>2. \A k \in 1 .. n : k < n + 1 /\ t[k].id # 0 /\ t[k].id = m + k - 1 /\ t[k].type = type[k]
    OBVIOUS
<1>3. Once(t)
    <2>1. ASSUME NEW j \in 1 .. n, NEW k \in 1 .. n, t[j].id = t[k].id
          PROVE  j = k
        <3>1. t[j].id = m + j - 1
            OBVIOUS
        <3>2. t[k].id = m + k - 1
            OBVIOUS
        <3>3. m + j - 1 = m + k - 1
            BY <2>1, <3>1, <3>2
        <3>4. m \in Nat /\ j \in Nat /\ k \in Nat
            BY <1>1
        <3> QED
            BY <3>3, <3>4
    <2> QED
        BY <2>1 DEF Once
<1>4. Adds(t, Row(m, n, type))
    <2>1. {k \in 1 .. Len(t) : k < Len(t) + 1 /\ t[k].id # 0} = 1 .. n
        BY <1>2
    <2>2. AddsTo(t, Len(t) + 1) = {<<t[k].id, t[k].type>> : k \in 1 .. n}
        BY <2>1 DEF AddsTo
    <2>3. Row(m, n, type) = {<<t[k].id, t[k].type>> : k \in 1 .. n}
        BY <1>2 DEF Row
    <2> QED
        BY <2>2, <2>3 DEF Adds
<1>5. \A u \in 1 .. n : Known(E) \subseteq Known(E \cup AddsTo(t, u))
    BY DEF Known
<1>6. \A u \in 1 .. n : t[u].op \in DeclaringOps /\ Uses(t[u]) \subseteq Known(E \cup AddsTo(t, u))
    <2> SUFFICES ASSUME NEW u \in 1 .. n
                 PROVE  t[u].op \in DeclaringOps /\ Uses(t[u]) \subseteq Known(E \cup AddsTo(t, u))
        OBVIOUS
    <2>1. t[u].op \in DeclaringOps /\ Uses(t[u]) \subseteq Known(E)
        OBVIOUS
    <2> QED
        BY <1>5, <2>1
<1> QED
    BY <1>3, <1>4, <1>6 DEF Declares

-----------------------------------------------------------------------------
(***************************************************************************)
(* What a translated program is made of.                                   *)
(***************************************************************************)

\* Without shared memory every opcode is lowered to an operation the emitter translates.
LEMMA LoweredOpsRange ==
    \A x \in DOMAIN LoweredOps : x \notin {"STS", "LDS"} => LoweredOps[x] \in Translatable
BY DEF LoweredOps, Translatable

\* A stream the emitter goes on to translate.
Accepted ==
    /\ decoded \in Programs
    /\ ir = LowerStream(decoded)
    /\ \A k \in Indices : Instr(k).op # "Unsupported"
    /\ \A k \in DOMAIN decoded : decoded[k].opcode \notin {"STS", "LDS", "BarSync"}

\* Every instruction of an accepted stream is legal.
LEMMA LegalAt ==
    ASSUME Accepted, DOMAIN imm_consts = Needed, NEW k \in Indices
    PROVE  Legal(Instr(k)) /\ Instr(k).guard \in 0 .. 7 /\ Instr(k).inv \in BOOLEAN
<1> DEFINE d == decoded[k + 1]
           ins == Instr(k)
<1>1. k + 1 \in DOMAIN decoded /\ d \in DecodedInstruction
    BY LoweredAt DEF Accepted
<1>2. PICK a : ins = LowerToIr(d, a)
    BY LoweredAt DEF Accepted
<1>3. ins.op # "Unsupported" /\ d.opcode \notin {"STS", "LDS", "BarSync"}
    BY <1>1 DEF Accepted
<1>4. /\ LoweredOp(d) # "ISetP" => d.dst \in Registers
      /\ \A j \in DOMAIN SourcesOf(LoweredOp(d), d) : SourcesOf(LoweredOp(d), d)[j] \in Registers
    BY <1>1, NumRegsAssumption DEF Accepted, Registers
<1>5. d.pred_reg \in 0 .. 7 /\ d.pred_inv \in BOOLEAN /\ d.dst \in 0 .. 255
    BY <1>1 DEF DecodedInstruction
<1> HIDE DEF d, ins
<1>6. ins.op = LoweredOp(d) /\ ins.guard = d.pred_reg /\ ins.inv = d.pred_inv
      /\ ins.dst = (IF ins.op = "ISetP" THEN PredDst(d.dst) ELSE d.dst)
      /\ ins.srcs = SourcesOf(ins.op, d)
    BY <1>2 DEF LowerToIr
<1>7. ins.op \in Translatable
    <2>1. d.opcode \in DOMAIN LoweredOps /\ ins.op = LoweredOps[d.opcode]
        BY <1>3, <1>6 DEF LoweredOp
    <2> QED
        BY <2>1, <1>3, LoweredOpsRange
<1>8. PredDst(d.dst) \in 0 .. 7
    <2>1. d.dst \in Nat
        BY <1>5
    <2> QED
        BY <2>1 DEF PredDst
<1>9. ins.imm # None => Numeral(ins.imm[1]) \in Needed
    BY DEF Needed, ins
<1>10. ins.op \in {"IAdd3", "IMad", "FFma"} => ins.srcs = <<d.src0, d.src1, d.src2>>
    BY <1>6 DEF SourcesOf
<1>11. ins.op \in {"ISetP", "FAdd", "FMul"} => ins.srcs = <<d.src0, d.src1>>
    BY <1>6 DEF SourcesOf
<1>12. ins.op = "Mov" => ins.srcs = <<d.src0>>
    BY <1>6 DEF SourcesOf
<1>13. Legal(ins)
    <2>1. ins.op # "ISetP" => ins.dst \in Registers
        BY <1>4, <1>6
    <2>2. ins.op = "ISetP" => ins.dst \in 0 .. 7
        BY <1>6, <1>8
    <2> DEFINE srcs == ins.srcs
    <2>0. \A j \in DOMAIN srcs : srcs[j] \in Registers
        BY <1>4, <1>6
    <2> HIDE DEF srcs
    <2>3. ins.op \in {"IAdd3", "IMad", "FFma"} => \E x, y, z \in Registers : ins.srcs = <<x, y, z>>
        <3> SUFFICES ASSUME ins.op \in {"IAdd3", "IMad", "FFma"}
                     PROVE  \E x, y, z \in Registers : srcs = <<x, y, z>>
            BY DEF srcs
        <3>1. srcs = <<d.src0, d.src1, d.src2>>
            BY <1>10 DEF srcs
        <3>2. d.src0 \in Registers /\ d.src1 \in Registers /\ d.src2 \in Registers
            BY <2>0, <3>1
        <3> QED
            BY <3>1, <3>2
    <2>4. ins.op \in {"ISetP", "FAdd", "FMul"} => \E x, y \in Registers : ins.srcs = <<x, y>>
        <3> SUFFICES ASSUME ins.op \in {"ISetP", "FAdd", "FMul"}
                     PROVE  \E x, y \in Registers : srcs = <<x, y>>
            BY DEF srcs
        <3>1. srcs = <<d.src0, d.src1>>
            BY <1>11 DEF srcs
        <3>2. d.src0 \in Registers /\ d.src1 \in Registers
            BY <2>0, <3>1
        <3> QED
            BY <3>1, <3>2
    <2>5. ins.op = "Mov" => \E x \in Registers : ins.srcs = <<x>>
        <3> SUFFICES ASSUME ins.op = "Mov" PROVE \E x \in Registers : srcs = <<x>>
            BY DEF srcs
        <3>1. srcs = <<d.src0>>
            BY <1>12 DEF srcs
        <3>2. d.src0 \in Registers
            BY <2>0, <3>1
        <3> QED
            BY <3>1, <3>2
    <2> QED
        BY <1>7, <1>9, <2>1, <2>2, <2>3, <2>4, <2>5 DEF Legal
<1> QED
    BY <1>5, <1>6, <1>13 DEF ins

-----------------------------------------------------------------------------
(***************************************************************************)
(* The constants of the immediates.                                        *)
(***************************************************************************)
NthNeeded(k) == CHOOSE v \in Needed : Rank(Needed, v) = k

Immediates == [k \in 1 .. Cardinality(Needed) |-> Constant(G.type_uint, 39 + k - 1, NthNeeded(k - 1))]

UintRow(n) == Row(39, n, [k \in 1 .. n |-> G.type_uint])

\* The constants declare the ids from 39 on.
LEMMA ImmediatesDeclared ==
    ASSUME Accepted
    PROVE  /\ Cardinality(Needed) \in Nat
           /\ Immediates \in Seq(Instruction) /\ Len(Immediates) = Cardinality(Needed)
           /\ \A k \in 1 .. Len(Immediates) : Immediates[k].op = "Constant"
           /\ Declares(HeaderPairs, Immediates, UintRow(Cardinality(Needed)))
<1> DEFINE n == Cardinality(Needed)
<1>1. Needed \in SUBSET Nat /\ IsFiniteSet(Needed)
    BY NeededNumbers DEF Accepted
<1>2. n \in Nat /\ \A k \in 0 .. (n - 1) : \E v \in Needed : Rank(Needed, v) = k
    BY <1>1, RanksFill
<1> HIDE DEF n
<1>3. ASSUME NEW k \in 1 .. n
      PROVE  NthNeeded(k - 1) \in Nat
    <2>1. k - 1 \in 0 .. (n - 1)
        BY <1>2
    <2>2. \E v \in Needed : Rank(Needed, v) = k - 1
        BY <1>2, <2>1
    <2>3. NthNeeded(k - 1) \in Needed
        BY <2>2 DEF NthNeeded
    <2> QED
        BY <1>1, <2>3
<1>4. ASSUME NEW k \in 1 .. n
      PROVE  Word(Immediates[k], "Constant", 39 + k - 1, G.type_uint, {G.type_uint})
    <2>1. Immediates[k] = Constant(G.type_uint, 39 + k - 1, NthNeeded(k - 1))
        BY DEF Immediates, n
    <2>2. G.type_uint \in Nat \ {0}
        BY Ids
    <2>3. 39 + k - 1 \in Nat
        BY <1>2
    <2> HIDE DEF NthNeeded
    <2>4. Word(Constant(G.type_uint, 39 + k - 1, NthNeeded(k - 1)), "Constant", 39 + k - 1,
               G.type_uint, {G.type_uint})
        BY <1>3, <2>2, <2>3, ConstantWord
    <2> QED
        BY <2>1, <2>4
<1>5. Immediates \in [1 .. n -> Instruction]
    <2>1. \A k \in 1 .. n : Immediates[k] \in Instruction
        BY <1>4 DEF Word
    <2>2. Immediates = [k \in 1 .. n |-> Immediates[k]]
        BY DEF Immediates, n
    <2> HIDE DEF Immediates
    <2> QED
        BY <2>1, <2>2
<1>6. Immediates \in Seq(Instruction) /\ Len(Immediates) = n
    BY <1>2, <1>5, FunctionSequence
<1>7. 39 \in Nat \ {0}
    OBVIOUS
<1> DEFINE type == [k \in 1 .. n |-> G.type_uint]
<1>8. \A k \in 1 .. Len(Immediates) :
         /\ Immediates[k].op \in DeclaringOps /\ Immediates[k].id = 39 + k - 1
         /\ Immediates[k].type = type[k] /\ Uses(Immediates[k]) \subseteq Known(HeaderPairs)
    <2> SUFFICES ASSUME NEW k \in 1 .. n
                 PROVE  /\ Immediates[k].op \in DeclaringOps /\ Immediates[k].id = 39 + k - 1
                        /\ Immediates[k].type = type[k] /\ Uses(Immediates[k]) \subseteq Known(HeaderPairs)
        BY <1>6
    <2>1. G.type_uint \in Known(HeaderPairs)
        BY HeaderKnown, Ids
    <2>2. Word(Immediates[k], "Constant", 39 + k - 1, G.type_uint, {G.type_uint})
        BY <1>4
    <2> QED
        BY <2>1, <2>2 DEF Word
<1>9. \A k \in 1 .. n : Immediates[k].op = "Constant"
    BY <1>4 DEF Word
<1> HIDE DEF type, Immediates
<1>10. Declares(HeaderPairs, Immediates, Row(39, Len(Immediates), type))
    BY <1>6, <1>7, <1>8, RowDeclared
<1> QED
    BY <1>2, <1>6, <1>9, <1>10 DEF UintRow, n, type

\* An immediate's constant has its id.
LEMMA ImmediateKnown ==
    ASSUME Accepted, NEW v \in Needed
    PROVE  /\ 39 + Rank(Needed, v) \in 39 .. (38 + Cardinality(Needed))
           /\ <<39 + Rank(Needed, v), G.type_uint>> \in UintRow(Cardinality(Needed))
<1> DEFINE n == Cardinality(Needed)
           k == Rank(Needed, v) + 1
<1>1. Needed \in SUBSET Nat /\ IsFiniteSet(Needed)
    BY NeededNumbers DEF Accepted
<1>2. n \in Nat /\ Rank(Needed, v) \in 0 .. (n - 1)
    BY <1>1, RanksFill
<1> HIDE DEF n
<1>3. k \in 1 .. n /\ 39 + k - 1 = 39 + Rank(Needed, v)
    BY <1>2
<1> HIDE DEF k
<1>4. <<39 + k - 1, G.type_uint>> \in UintRow(n)
    BY <1>3 DEF UintRow, Row
<1>5. 39 + Rank(Needed, v) \in 39 .. (38 + n)
    BY <1>2
<1> QED
    BY <1>3, <1>4, <1>5 DEF n

-----------------------------------------------------------------------------
(***************************************************************************)
(* The straight code of the prologue.                                      *)
(***************************************************************************)

\* The address of a component and the load from it.
LEMMA ChainLoad ==
    ASSUME NEW E, NEW t, NEW v, NEW j, <<t, v, j>> \in Chains, v \in Known(E), j \in Known(E),
           NEW r, <<"Load", r, t>> \in Unary, NEW c \in Nat \ {0}, NEW e \in Nat \ {0}, c # e
    PROVE  Code(E, <<Chain(t, c, v, j), Load(r, e, c)>>, {<<c, t>>, <<e, r>>})
<1> DEFINE w1 == Chain(t, c, v, j)
           w2 == Load(r, e, c)
           D1 == {<<c, t>>}
<1>1. Known({}) = {} /\ Known(D1) = {c} /\ D1 = {} \cup {<<c, t>>}
      /\ {<<c, t>>, <<e, r>>} = D1 \cup {<<e, r>>} /\ <<c, t>> \in E \cup D1
    BY DEF Known
<1>2. c \notin {} /\ e \notin {c}
    OBVIOUS
<1> HIDE DEF D1, w1, w2
<1>3. Code(E, Append(<<>>, w1), {} \cup {<<c, t>>})
    BY <1>1, <1>2, NoCode, CodeChain DEF w1
<1>4. Code(E, <<w1>>, D1)
    BY <1>1, <1>3
<1>5. Code(E, Append(<<w1>>, w2), D1 \cup {<<e, r>>})
    BY <1>1, <1>2, <1>4, CodeLoad DEF w2
<1> QED
    BY <1>1, <1>5, Tuple2 DEF w1, w2

Fills(D, b, w) == Known(D) = b .. (b + w - 1)

\* Two ids more.
LEMMA TwoIdsMore ==
    ASSUME NEW E, NEW s, NEW D, Code(E, s, D), NEW b \in Nat, NEW w \in Nat, Fills(D, b, w),
           NEW c, c = b + w, NEW e, e = c + 1, NEW x, NEW y, NEW H, H = {<<c, x>>, <<e, y>>},
           NEW K, E \subseteq K, D \subseteq K, K \subseteq E \cup D, NEW t, Code(K, t, H), NEW v, v = w + 2
    PROVE  Code(E, s \o t, D \cup H) /\ Fills(D \cup H, b, v)
<1>1. Known(H) = {c, e}
    BY DEF Known
<1>2. K = E \cup D
    OBVIOUS
<1>3. c \notin b .. (b + w - 1) /\ e \notin b .. (b + w - 1)
      /\ b .. (b + v - 1) = b .. (b + w - 1) \cup {c, e}
    OBVIOUS
<1>4. Apart(D, H)
    BY <1>1, <1>3 DEF Apart, Fills
<1>5. Code(E \cup D, t, H)
    BY <1>2
<1>6. Code(E, s \o t, D \cup H)
    BY <1>4, <1>5, CodeConcat
<1>7. Known(D \cup H) = Known(D) \cup Known(H)
    BY KnownUnion
<1> QED
    BY <1>1, <1>3, <1>6, <1>7 DEF Fills

\* h is x, y and z.
Triple(h, x, y, z) ==
    /\ h \in [1 .. 3 -> Seq(Instruction)] /\ h[1] = x /\ h[2] = y /\ h[3] = z
    /\ x \in Seq(Instruction) /\ y \in Seq(Instruction) /\ z \in Seq(Instruction)

\* Three sequences flattened.
LEMMA ThreeFlattened ==
    ASSUME NEW h, NEW x, NEW y, NEW z, Triple(h, x, y, z)
    PROVE  FlattenSeq(h) = ((x \o y) \o z)
<1>0. /\ h \in [1 .. 3 -> Seq(Instruction)] /\ h[1] = x /\ h[2] = y /\ h[3] = z
      /\ x \in Seq(Instruction) /\ y \in Seq(Instruction) /\ z \in Seq(Instruction)
    BY DEF Triple
<1> DEFINE S == Seq(Instruction)
<1>1. h \in Seq(S) /\ Len(h) = 3
    <2> HIDE DEF S
    <2>1. h \in [1 .. 3 -> S]
        BY <1>0 DEF S
    <2>2. 3 \in Nat
        OBVIOUS
    <2>3. h \in Seq(S)
        <3>1. h \in UNION {[1 .. n -> S] : n \in Nat}
            BY <2>1, <2>2
        <3> QED
            BY <3>1, SeqDef
    <2> QED
        BY <2>1, <2>3
<1>2. PICK K : Concatenates(K, Instruction, h) /\ FlattenSeq(h) = K[Len(h)]
    <2>1. h \in Seq(Seq(Instruction))
        BY <1>1
    <2> QED
        BY <2>1, FlattenConcatenates
<1>3. K[0] = <<>> /\ \A k \in 1 .. 3 : K[k] = K[k - 1] \o h[k]
    BY <1>1, <1>2 DEF Concatenates
<1>4. K[1] = K[0] \o x /\ K[2] = K[1] \o y /\ K[3] = K[2] \o z
    <2>1. 1 - 1 = 0 /\ 2 - 1 = 1 /\ 3 - 1 = 2 /\ 1 \in 1 .. 3 /\ 2 \in 1 .. 3 /\ 3 \in 1 .. 3
        OBVIOUS
    <2>2. K[1] = K[1 - 1] \o h[1]
        BY <1>3, <2>1
    <2>3. K[2] = K[2 - 1] \o h[2]
        BY <1>3, <2>1
    <2>4. K[3] = K[3 - 1] \o h[3]
        BY <1>3, <2>1
    <2> QED
        BY <1>0, <2>1, <2>2, <2>3, <2>4
<1>5. <<>> \o x = x
    BY <1>0, ConcatEmptySeq
<1> QED
    BY <1>1, <1>2, <1>3, <1>4, <1>5

\* What the prologue computes: the invocation into register 0, the count into register 3,
\* and the three buffers.
Parameters(m, b) ==
    (((GidLoad(b) \o StoreViews(m, b + 1, b + 2)) \o CountLoad(b)) \o StoreViews(m + 9, b + 5, b + 6))
        \o FlattenSeq(BufferLoads(b))

\* The two registers the parameters go to.
Targets(E, m) ==
    /\ <<m, G.ptr_fn_uint>> \in E /\ <<m + 1, G.ptr_fn_float>> \in E /\ <<m + 2, G.ptr_fn_ulong>> \in E
    /\ <<m + 9, G.ptr_fn_uint>> \in E /\ <<m + 10, G.ptr_fn_float>> \in E
    /\ <<m + 11, G.ptr_fn_ulong>> \in E

\* The addresses the prologue takes are of the signatures.
LEMMA ChainSignatures ==
    /\ <<G.ptr_input_uint, G.var_global_id, G.const_uint_0>> \in Chains
    /\ <<G.ptr_push_uint, G.var_push_params, G.const_uint_3>> \in Chains
    /\ <<G.ptr_push_ulong, G.var_push_params, G.const_uint_0>> \in Chains
    /\ <<G.ptr_push_ulong, G.var_push_params, G.const_uint_1>> \in Chains
    /\ <<G.ptr_push_ulong, G.var_push_params, G.const_uint_2>> \in Chains
BY DEF Chains

\* The header's constants and variables are known where its pairs are.
LEMMA GlobalsKnown ==
    ASSUME NEW E, GlobalPairs \subseteq E
    PROVE  {G.const_uint_0, G.const_uint_1, G.const_uint_2, G.const_uint_3, G.const_uint_264,
            G.var_global_id, G.var_local_id, G.var_workgroup_id, G.var_push_params} \subseteq Known(E)
<1>1. ASSUME NEW x, NEW y, <<x, y>> \in E
      PROVE  x \in Known(E)
    BY <1>1 DEF Known
<1>2. /\ <<G.const_uint_0, G.type_uint>> \in E /\ <<G.const_uint_1, G.type_uint>> \in E
      /\ <<G.const_uint_2, G.type_uint>> \in E /\ <<G.const_uint_3, G.type_uint>> \in E
      /\ <<G.const_uint_264, G.type_uint>> \in E
      /\ <<G.var_global_id, G.ptr_input_v3uint>> \in E /\ <<G.var_local_id, G.ptr_input_v3uint>> \in E
      /\ <<G.var_workgroup_id, G.ptr_input_v3uint>> \in E /\ <<G.var_push_params, G.ptr_push_params>> \in E
    BY DEF GlobalPairs
<1> QED
    BY <1>1, <1>2

\* The loads of the buffers one by one.
Buffered(b, x, y, z) ==
    /\ x = <<Chain(G.ptr_push_ulong, b + 8, G.var_push_params, G.const_uint_0),
             Load(G.type_ulong, b + 9, b + 8)>>
    /\ y = <<Chain(G.ptr_push_ulong, b + 10, G.var_push_params, G.const_uint_1),
             Load(G.type_ulong, b + 11, b + 10)>>
    /\ z = <<Chain(G.ptr_push_ulong, b + 12, G.var_push_params, G.const_uint_2),
             Load(G.type_ulong, b + 13, b + 12)>>

\* The loads of the buffers in one sequence.
LEMMA BuffersFlattened ==
    ASSUME NEW b \in Nat \ {0}, NEW x \in Seq(Instruction), NEW y \in Seq(Instruction),
           NEW z \in Seq(Instruction), Buffered(b, x, y, z)
    PROVE  FlattenSeq(BufferLoads(b)) = ((x \o y) \o z)
<1> DEFINE h == BufferLoads(b)
<1>1. /\ b + 9 + 2 * (1 - 1) = b + 9 /\ b + 9 + 2 * (2 - 1) = b + 11 /\ b + 9 + 2 * (3 - 1) = b + 13
      /\ b + 9 - 1 = b + 8 /\ b + 11 - 1 = b + 10 /\ b + 13 - 1 = b + 12
    OBVIOUS
<1>2. h[1] = x
    BY <1>1 DEF BufferLoads, BufferId, Buffered
<1>3. h[2] = y
    BY <1>1 DEF BufferLoads, BufferId, Buffered
<1>4. h[3] = z
    BY <1>1 DEF BufferLoads, BufferId, Buffered
<1>5. h = [k \in 1 .. 3 |-> h[k]]
    BY DEF BufferLoads, BufferId
<1> HIDE DEF h
<1>6. \A k \in 1 .. 3 : h[k] \in Seq(Instruction)
    <2>1. \A k \in 1 .. 3 : k = 1 \/ k = 2 \/ k = 3
        OBVIOUS
    <2> QED
        BY <1>2, <1>3, <1>4, <2>1
<1>7. h \in [1 .. 3 -> Seq(Instruction)]
    BY <1>5, <1>6
<1> USE DEF h
<1> HIDE DEF BufferLoads, BufferId
<1>8. Triple(BufferLoads(b), x, y, z)
    BY <1>2, <1>3, <1>4, <1>7 DEF Triple
<1> QED
    BY <1>8, ThreeFlattened

Two(c, e, x, y) == {<<c, x>>, <<e, y>>}

\* The invocation, the count and the buffers are known.
Loaded(H, b) ==
    /\ <<b + 1, G.type_uint>> \in H /\ <<b + 5, G.type_uint>> \in H
    /\ <<b + 9, G.type_ulong>> \in H /\ <<b + 11, G.type_ulong>> \in H /\ <<b + 13, G.type_ulong>> \in H

\* What the parameters' code defines.
Leaves(H, b) == Known(H) = b .. (b + 13) /\ Loaded(H, b)

\* The loads of the buffers are legal code.
LEMMA BuffersCode ==
    ASSUME NEW E, GlobalPairs \subseteq E, NEW b \in Nat \ {0}
    PROVE  \E H : /\ Code(E, FlattenSeq(BufferLoads(b)), H)
                  /\ Known(H) = (b + 8) .. (b + 8 + 6 - 1)
                  /\ <<b + 9, G.type_ulong>> \in H /\ <<b + 11, G.type_ulong>> \in H
                  /\ <<b + 13, G.type_ulong>> \in H
<1> DEFINE x == <<Chain(G.ptr_push_ulong, b + 8, G.var_push_params, G.const_uint_0),
                  Load(G.type_ulong, b + 9, b + 8)>>
           y == <<Chain(G.ptr_push_ulong, b + 10, G.var_push_params, G.const_uint_1),
                  Load(G.type_ulong, b + 11, b + 10)>>
           z == <<Chain(G.ptr_push_ulong, b + 12, G.var_push_params, G.const_uint_2),
                  Load(G.type_ulong, b + 13, b + 12)>>
           D1 == Two(b + 8, b + 9, G.ptr_push_ulong, G.type_ulong)
           D2 == Two(b + 10, b + 11, G.ptr_push_ulong, G.type_ulong)
           D3 == Two(b + 12, b + 13, G.ptr_push_ulong, G.type_ulong)
<1>1. /\ b + 8 \in Nat \ {0} /\ b + 9 \in Nat \ {0} /\ b + 10 \in Nat \ {0} /\ b + 11 \in Nat \ {0}
      /\ b + 12 \in Nat \ {0} /\ b + 13 \in Nat \ {0} /\ b + 8 # b + 9 /\ b + 10 # b + 11
      /\ b + 12 # b + 13 /\ b + 8 \in Nat
    OBVIOUS
<1>2. ASSUME NEW K, E \subseteq K
      PROVE  /\ GlobalPairs \subseteq K
             /\ {G.const_uint_0, G.const_uint_1, G.const_uint_2, G.var_push_params} \subseteq Known(K)
    BY <1>2, GlobalsKnown
<1>3. ASSUME NEW K, E \subseteq K
      PROVE  Code(K, x, D1) /\ Code(K, y, D2) /\ Code(K, z, D3)
    <2>1. {G.const_uint_0, G.const_uint_1, G.const_uint_2, G.var_push_params} \subseteq Known(K)
        BY <1>2, <1>3
    <2>2. Code(K, x, D1)
        BY <1>1, <2>1, ChainLoad, ChainSignatures, LoadSignatures DEF Two
    <2>3. Code(K, y, D2)
        BY <1>1, <2>1, ChainLoad, ChainSignatures, LoadSignatures DEF Two
    <2>4. Code(K, z, D3)
        BY <1>1, <2>1, ChainLoad, ChainSignatures, LoadSignatures DEF Two
    <2> QED
        BY <2>2, <2>3, <2>4
<1>4. Buffered(b, x, y, z)
    BY DEF Buffered
<1>5. Code(E, x, D1) /\ Code(E \cup D1, y, D2) /\ Code(E \cup (D1 \cup D2), z, D3)
    BY <1>3
<1>6. x \in Seq(Instruction) /\ y \in Seq(Instruction) /\ z \in Seq(Instruction)
    BY <1>5 DEF Code
<1>7. Known(D1) = {b + 8, b + 9}
    BY DEF Two, Known
<1>8. /\ D1 = {<<b + 8, G.ptr_push_ulong>>, <<b + 9, G.type_ulong>>}
      /\ D2 = {<<b + 10, G.ptr_push_ulong>>, <<b + 11, G.type_ulong>>}
      /\ D3 = {<<b + 12, G.ptr_push_ulong>>, <<b + 13, G.type_ulong>>}
    BY DEF Two
<1> HIDE DEF x, y, z, D1, D2, D3
<1>9. Fills(D1, b + 8, 2)
    <2>1. {b + 8, b + 9} = (b + 8) .. (b + 8 + 2 - 1)
        OBVIOUS
    <2> QED
        BY <1>7, <2>1 DEF Fills
<1>10. Code(E, x \o y, D1 \cup D2) /\ Fills(D1 \cup D2, b + 8, 4)
    <2>1. b + 10 = b + 8 + 2 /\ b + 11 = b + 10 + 1 /\ 4 = 2 + 2 /\ 2 \in Nat
        OBVIOUS
    <2>2. E \subseteq E \cup D1 /\ D1 \subseteq E \cup D1 /\ E \cup D1 \subseteq E \cup D1
        OBVIOUS
    <2> DEFINE K == E \cup D1
    <2>3. Code(K, y, D2)
        BY <1>5
    <2> HIDE DEF K
    <2> QED
        BY <1>1, <1>5, <1>8, <1>9, <2>1, <2>2, <2>3, TwoIdsMore, ZenonT(60) DEF K
<1>11. Code(E, (x \o y) \o z, (D1 \cup D2) \cup D3) /\ Fills((D1 \cup D2) \cup D3, b + 8, 6)
    <2> DEFINE D == D1 \cup D2
               K == E \cup D
    <2>1. b + 12 = b + 8 + 4 /\ b + 13 = b + 12 + 1 /\ 6 = 4 + 2 /\ 4 \in Nat
        OBVIOUS
    <2>2. E \subseteq K /\ D \subseteq K /\ K \subseteq E \cup D
        OBVIOUS
    <2>3. Code(K, z, D3)
        BY <1>5
    <2>4. Code(E, x \o y, D) /\ Fills(D, b + 8, 4)
        BY <1>10
    <2> HIDE DEF K, D
    <2>5. Code(E, (x \o y) \o z, D \cup D3) /\ Fills(D \cup D3, b + 8, 6)
        BY <1>1, <1>8, <2>1, <2>2, <2>3, <2>4, TwoIdsMore, ZenonT(60)
    <2> QED
        BY <2>5 DEF D
<1>12. FlattenSeq(BufferLoads(b)) = ((x \o y) \o z)
    BY <1>4, <1>6, BuffersFlattened
<1> WITNESS (D1 \cup D2) \cup D3
<1>13. Code(E, FlattenSeq(BufferLoads(b)), (D1 \cup D2) \cup D3)
    BY <1>11, <1>12
<1>14. Known((D1 \cup D2) \cup D3) = (b + 8) .. (b + 8 + 6 - 1)
    BY <1>11 DEF Fills
<1>15. <<b + 9, G.type_ulong>> \in D1 /\ <<b + 11, G.type_ulong>> \in D2 /\ <<b + 13, G.type_ulong>> \in D3
    BY <1>8
<1> QED
    BY <1>13, <1>14, <1>15

\* The parameters' code is legal.
LEMMA ParametersCode ==
    ASSUME NEW E, GlobalPairs \subseteq E, NEW m \in Nat, Targets(E, m), NEW b \in Nat \ {0}
    PROVE  \E H : Code(E, Parameters(m, b), H) /\ Leaves(H, b)
<1> DEFINE x == GidLoad(b)
           y == StoreViews(m, b + 1, b + 2)
           z == CountLoad(b)
           w == StoreViews(m + 9, b + 5, b + 6)
           D1 == Two(b, b + 1, G.ptr_input_uint, G.type_uint)
           D2 == Two(b + 2, b + 3, G.type_float, G.type_ulong)
           D3 == Two(b + 4, b + 5, G.ptr_push_uint, G.type_uint)
           D4 == Two(b + 6, b + 7, G.type_float, G.type_ulong)
           E2 == D1 \cup D2
           E3 == E2 \cup D3
           E4 == E3 \cup D4
<1>1. /\ b + 1 \in Nat \ {0} /\ b + 2 \in Nat \ {0} /\ b + 4 \in Nat \ {0} /\ b + 5 \in Nat \ {0}
      /\ b + 6 \in Nat \ {0} /\ b # b + 1 /\ b + 4 # b + 5 /\ m + 9 \in Nat /\ b \in Nat
      /\ m + 9 + 1 = m + 10 /\ m + 9 + 2 = m + 11 /\ b + 2 + 1 = b + 3 /\ b + 6 + 1 = b + 7
    OBVIOUS
<1>2. {G.const_uint_0, G.const_uint_3, G.var_global_id, G.var_push_params} \subseteq Known(E)
    BY GlobalsKnown
<1>3. Code(E, x, D1)
    BY <1>1, <1>2, ChainLoad, ChainSignatures, LoadSignatures DEF Two, GidLoad
<1>4. Code(E \cup D1, y, D2)
    <2> DEFINE K == E \cup D1
    <2>1. <<m, G.ptr_fn_uint>> \in K /\ <<m + 1, G.ptr_fn_float>> \in K /\ <<m + 2, G.ptr_fn_ulong>> \in K
          /\ <<b + 1, G.type_uint>> \in K
        BY DEF Targets, Two
    <2> HIDE DEF K
    <2>2. Code(K, StoreViews(m, b + 1, b + 2), {<<b + 2, G.type_float>>, <<b + 2 + 1, G.type_ulong>>})
        BY <1>1, <2>1, StoreViewsCode
    <2> QED
        BY <1>1, <2>2 DEF Two, K
<1>5. Code(E \cup E2, z, D3)
    <2> DEFINE K == E \cup E2
    <2>1. GlobalPairs \subseteq K
        OBVIOUS
    <2> HIDE DEF K
    <2>2. {G.const_uint_3, G.var_push_params} \subseteq Known(K)
        BY <2>1, GlobalsKnown
    <2>3. Code(K, z, D3)
        BY <1>1, <2>2, ChainLoad, ChainSignatures, LoadSignatures DEF Two, CountLoad
    <2> QED
        BY <2>3 DEF K
<1>6. Code(E \cup E3, w, D4)
    <2> DEFINE K == E \cup E3
    <2>1. <<m + 9, G.ptr_fn_uint>> \in K /\ <<m + 9 + 1, G.ptr_fn_float>> \in K
          /\ <<m + 9 + 2, G.ptr_fn_ulong>> \in K /\ <<b + 5, G.type_uint>> \in K
        BY <1>1 DEF Targets, Two
    <2> HIDE DEF K
    <2>2. Code(K, StoreViews(m + 9, b + 5, b + 6), {<<b + 6, G.type_float>>, <<b + 6 + 1, G.type_ulong>>})
        BY <1>1, <2>1, StoreViewsCode
    <2> QED
        BY <1>1, <2>2 DEF Two, K
<1>7. PICK D5 : /\ Code(E \cup E4, FlattenSeq(BufferLoads(b)), D5)
                /\ Known(D5) = (b + 8) .. (b + 8 + 6 - 1)
                /\ <<b + 9, G.type_ulong>> \in D5 /\ <<b + 11, G.type_ulong>> \in D5
                /\ <<b + 13, G.type_ulong>> \in D5
    <2>1. GlobalPairs \subseteq E \cup E4
        OBVIOUS
    <2> QED
        BY <2>1, BuffersCode
<1>8. /\ D1 = {<<b, G.ptr_input_uint>>, <<b + 1, G.type_uint>>}
      /\ D2 = {<<b + 2, G.type_float>>, <<b + 3, G.type_ulong>>}
      /\ D3 = {<<b + 4, G.ptr_push_uint>>, <<b + 5, G.type_uint>>}
      /\ D4 = {<<b + 6, G.type_float>>, <<b + 7, G.type_ulong>>}
    BY DEF Two
<1>9. Fills(D1, b, 2)
    <2>1. Known(D1) = {b, b + 1}
        BY DEF Two, Known
    <2>2. {b, b + 1} = b .. (b + 2 - 1)
        OBVIOUS
    <2> QED
        BY <2>1, <2>2 DEF Fills
<1> HIDE DEF x, y, z, w, D1, D2, D3, D4
<1>10. Code(E, x \o y, E2) /\ Fills(E2, b, 4)
    <2> DEFINE K == E \cup D1
    <2>1. b + 2 = b + 2 /\ b + 3 = b + 2 + 1 /\ 4 = 2 + 2 /\ 2 \in Nat
        OBVIOUS
    <2>2. E \subseteq K /\ D1 \subseteq K /\ K \subseteq E \cup D1
        OBVIOUS
    <2>3. Code(K, y, D2)
        BY <1>4
    <2> HIDE DEF K
    <2>4. Code(E, x \o y, D1 \cup D2) /\ Fills(D1 \cup D2, b, 4)
        BY <1>1, <1>3, <1>8, <1>9, <2>1, <2>2, <2>3, TwoIdsMore
    <2> QED
        BY <2>4
<1>11. Code(E, (x \o y) \o z, E3) /\ Fills(E3, b, 6)
    <2> DEFINE K == E \cup E2
    <2>1. b + 4 = b + 4 /\ b + 5 = b + 4 + 1 /\ 6 = 4 + 2 /\ 4 \in Nat
        OBVIOUS
    <2>2. E \subseteq K /\ E2 \subseteq K /\ K \subseteq E \cup E2
        OBVIOUS
    <2>3. Code(K, z, D3)
        BY <1>5
    <2> HIDE DEF K, E2
    <2>4. Code(E, (x \o y) \o z, E2 \cup D3) /\ Fills(E2 \cup D3, b, 6)
        BY <1>1, <1>10, <1>8, <2>1, <2>2, <2>3, TwoIdsMore
    <2> QED
        BY <2>4
<1>12. Code(E, ((x \o y) \o z) \o w, E4) /\ Fills(E4, b, 8)
    <2> DEFINE K == E \cup E3
    <2>1. b + 6 = b + 6 /\ b + 7 = b + 6 + 1 /\ 8 = 6 + 2 /\ 6 \in Nat
        OBVIOUS
    <2>2. E \subseteq K /\ E3 \subseteq K /\ K \subseteq E \cup E3
        OBVIOUS
    <2>3. Code(K, w, D4)
        BY <1>6
    <2> HIDE DEF K, E3
    <2>4. Code(E, ((x \o y) \o z) \o w, E3 \cup D4) /\ Fills(E3 \cup D4, b, 8)
        BY <1>1, <1>11, <1>8, <2>1, <2>2, <2>3, TwoIdsMore, ZenonT(60)
    <2> QED
        BY <2>4
<1>13. <<b + 1, G.type_uint>> \in E4 /\ <<b + 5, G.type_uint>> \in E4
    BY <1>8
<1> HIDE DEF E4
<1>14. Known(E4) = b .. (b + 8 - 1)
    BY <1>12 DEF Fills
<1>15. Apart(E4, D5) /\ Known(E4 \cup D5) = b .. (b + 13)
    <2>1. (b .. (b + 8 - 1)) \cap ((b + 8) .. (b + 8 + 6 - 1)) = {}
        OBVIOUS
    <2>2. (b .. (b + 8 - 1)) \cup ((b + 8) .. (b + 8 + 6 - 1)) = b .. (b + 13)
        OBVIOUS
    <2>3. Known(E4 \cup D5) = Known(E4) \cup Known(D5)
        BY KnownUnion
    <2> QED
        BY <1>7, <1>14, <2>1, <2>2, <2>3 DEF Apart
<1>16. Code(E, (((x \o y) \o z) \o w) \o FlattenSeq(BufferLoads(b)), E4 \cup D5)
    BY <1>7, <1>12, <1>15, CodeConcat
<1>17. Parameters(m, b) = (((x \o y) \o z) \o w) \o FlattenSeq(BufferLoads(b))
    BY DEF Parameters, x, y, z, w
<1>18. Leaves(E4 \cup D5, b)
    BY <1>7, <1>13, <1>15 DEF Leaves, Loaded
<1> QED
    BY <1>16, <1>17, <1>18

-----------------------------------------------------------------------------
(***************************************************************************)
(* The shape of a module: the header, the constants, one function.         *)
(***************************************************************************)

\* The function begins at f, after the constants.
Leading(r, f) ==
    /\ Sits(r, Header, 0)
    /\ f \in 53 .. Len(r) /\ r[f].op = "Function" /\ G.var_shared \notin Uses(r[f])
    /\ \A k \in 53 .. (f - 1) : r[k].op = "Constant"

\* w may come after an instruction of operation a in the function.
After(a, w) ==
    /\ w.op \in FunctionOps \cup {"Variable"}
    /\ w.op \in {"Label", "FunctionEnd"} <=> a \in Terminators \cup {"Function"}
    /\ w.op = "BranchConditional" <=> a = "SelectionMerge"
    /\ w.op = "Label" => w.id # 0
    /\ G.var_shared \notin Uses(w)

Bodied(r, f) ==
    \A k \in (f + 1) .. Len(r) :
        After(r[k - 1].op, r[k]) /\ (r[k].op = "Variable" => r[k - 1].op = "Variable" \/ k = f + 2)

Shaped(r, f) == r \in Seq(Instruction) /\ Leading(r, f) /\ Bodied(r, f)

\* The instruction before place k of what follows r.
Preceding(r, t, k) == IF k = 1 THEN r[Len(r)] ELSE t[k - 1]

\* A shaped beginning stays shaped when each next word may come after the one before it.
LEMMA ShapedConcat ==
    ASSUME NEW r, NEW f, Shaped(r, f), NEW t \in Seq(Instruction),
           \A k \in 1 .. Len(t) :
               /\ After(Preceding(r, t, k).op, t[k])
               /\ t[k].op = "Variable" => Preceding(r, t, k).op = "Variable" \/ Len(r) + k = f + 2
    PROVE  Shaped(r \o t, f)
<1> DEFINE s == r \o t
<1>1. r \in Seq(Instruction) /\ Leading(r, f) /\ Bodied(r, f)
    BY DEF Shaped
<1>2. Glued(s, r, t)
    BY <1>1, ConcatGlues
<1> HIDE DEF s
<1>3. /\ s \in Seq(Instruction) /\ Len(r) \in Nat /\ Len(t) \in Nat /\ Len(s) = Len(r) + Len(t)
      /\ \A k \in 1 .. Len(r) : k \in 1 .. Len(s) /\ s[k] = r[k]
      /\ \A k \in 1 .. Len(t) : Len(r) + k \in 1 .. Len(s) /\ s[Len(r) + k] = t[k]
      /\ \A k \in 1 .. Len(s) : k \in 1 .. Len(r) \/ \E j \in 1 .. Len(t) : k = Len(r) + j
    BY <1>2 DEF Glued
<1>4. f \in 53 .. Len(r) /\ r[f].op = "Function" /\ G.var_shared \notin Uses(r[f]) /\ (\A k \in 53 .. (f - 1) : r[k].op = "Constant")
      /\ Sits(r, Header, 0)
    BY <1>1 DEF Leading
<1>5. Leading(s, f)
    <2>1. Sits(s, Header, 0)
        BY <1>2, <1>4, SitsAgain
    <2>2. f \in 53 .. Len(s) /\ s[f].op = "Function" /\ G.var_shared \notin Uses(s[f])
        BY <1>3, <1>4
    <2>3. ASSUME NEW k \in 53 .. (f - 1)
          PROVE  s[k].op = "Constant"
        <3>1. k \in 1 .. Len(r)
            BY <1>3, <1>4
        <3>2. s[k] = r[k]
            BY <1>3, <3>1
        <3> QED
            BY <1>4, <3>2
    <2> QED
        BY <2>1, <2>2, <2>3 DEF Leading
<1>6. Bodied(s, f)
    <2> SUFFICES ASSUME NEW k \in (f + 1) .. Len(s)
                 PROVE  /\ After(s[k - 1].op, s[k])
                        /\ s[k].op = "Variable" => s[k - 1].op = "Variable" \/ k = f + 2
        BY DEF Bodied
    <2>1. k \in Nat /\ k \in 1 .. Len(s)
        BY <1>3, <1>4
    <2>2. CASE k \in 1 .. Len(r)
        <3>1. k \in (f + 1) .. Len(r) /\ k - 1 \in 1 .. Len(r)
            BY <1>3, <1>4, <2>1, <2>2
        <3>2. s[k] = r[k] /\ s[k - 1] = r[k - 1]
            BY <1>3, <2>2, <3>1
        <3> QED
            BY <1>1, <3>1, <3>2 DEF Bodied
    <2>3. CASE \E j \in 1 .. Len(t) : k = Len(r) + j
        <3>1. PICK j \in 1 .. Len(t) : k = Len(r) + j
            BY <2>3
        <3>2. s[k] = t[j]
            BY <1>3, <3>1
        <3>3. s[k - 1] = Preceding(r, t, j)
            <4>1. CASE j = 1
                <5>1. k - 1 = Len(r) /\ Len(r) \in 1 .. Len(r)
                    BY <1>3, <1>4, <3>1, <4>1
                <5> QED
                    BY <1>3, <4>1, <5>1 DEF Preceding
            <4>2. CASE j # 1
                <5>1. k - 1 = Len(r) + (j - 1) /\ j - 1 \in 1 .. Len(t)
                    BY <1>3, <3>1, <4>2
                <5>2. s[Len(r) + (j - 1)] = t[j - 1]
                    BY <1>3, <5>1
                <5> QED
                    BY <4>2, <5>1, <5>2 DEF Preceding
            <4> QED
                BY <4>1, <4>2
        <3>4. /\ After(Preceding(r, t, j).op, t[j])
              /\ t[j].op = "Variable" => Preceding(r, t, j).op = "Variable" \/ Len(r) + j = f + 2
            BY <3>1
        <3> QED
            BY <3>1, <3>2, <3>3, <3>4
    <2> QED
        BY <1>3, <2>1, <2>2, <2>3
<1> QED
    BY <1>3, <1>5, <1>6 DEF Shaped, s

\* What ends the code so far.
LastOp(r) == r[Len(r)].op

\* The last operation of a concatenation.
LEMMA LastConcat ==
    ASSUME NEW r \in Seq(Instruction), NEW t \in Seq(Instruction)
    PROVE  LastOp(r \o t) = IF Len(t) = 0 THEN LastOp(r) ELSE LastOp(t)
<1> DEFINE s == r \o t
<1>1. Glued(s, r, t)
    BY ConcatGlues
<1>2. Len(r) \in Nat /\ Len(t) \in Nat /\ Len(s) = Len(r) + Len(t)
      /\ \A k \in 1 .. Len(t) : s[Len(r) + k] = t[k]
    BY <1>1 DEF Glued
<1>3. CASE Len(t) = 0
    <2>1. t = <<>>
        BY <1>3, EmptySeq
    <2>2. s = r
        BY <2>1, ConcatEmptySeq
    <2> QED
        BY <1>3, <2>2 DEF LastOp
<1>4. CASE Len(t) # 0
    <2>1. Len(t) \in 1 .. Len(t)
        BY <1>2, <1>4
    <2> HIDE DEF s
    <2>2. s[Len(s)] = t[Len(t)]
        BY <1>2, <2>1
    <2> QED
        BY <1>4, <2>2 DEF LastOp, s
<1> QED
    BY <1>3, <1>4

\* Variables may come after the first label and after variables.
Declaring(r, f) == LastOp(r) = "Variable" \/ (LastOp(r) = "Label" /\ Len(r) = f + 1)

\* The function's variables keep the shape.
LEMMA ShapedVariables ==
    ASSUME NEW r, NEW f, Shaped(r, f), Declaring(r, f), NEW t \in Seq(Instruction), Len(t) # 0,
           \A k \in 1 .. Len(t) : t[k].op = "Variable" /\ G.var_shared \notin Uses(t[k])
    PROVE  Shaped(r \o t, f) /\ LastOp(r \o t) = "Variable"
<1>1. r \in Seq(Instruction) /\ f \in 53 .. Len(r) /\ Len(r) \in Nat /\ Len(t) \in Nat
    BY DEF Shaped, Leading
<1>2. LastOp(r \o t) = "Variable"
    <2>1. Len(t) \in 1 .. Len(t)
        BY <1>1
    <2> QED
        BY <1>1, <2>1, LastConcat DEF LastOp
<1>3. ASSUME NEW w, w.op = "Variable", G.var_shared \notin Uses(w), NEW a, a \in {"Variable", "Label"}
      PROVE  After(a, w)
    BY <1>3 DEF After, FunctionOps, BodyOps, Terminators
<1>4. ASSUME NEW k \in 1 .. Len(t)
      PROVE  /\ After(Preceding(r, t, k).op, t[k])
             /\ t[k].op = "Variable" => Preceding(r, t, k).op = "Variable" \/ Len(r) + k = f + 2
    <2>1. CASE k = 1
        <3>1. Preceding(r, t, k).op = LastOp(r)
            BY <2>1 DEF Preceding, LastOp
        <3>2. LastOp(r) \in {"Variable", "Label"} /\ (LastOp(r) # "Variable" => Len(r) = f + 1)
            BY DEF Declaring
        <3>3. Len(r) = f + 1 => Len(r) + k = f + 2
            BY <1>1, <2>1
        <3> QED
            BY <1>3, <3>1, <3>2, <3>3
    <2>2. CASE k # 1
        <3>1. k - 1 \in 1 .. Len(t)
            BY <1>1, <2>2
        <3>2. Preceding(r, t, k).op = "Variable"
            BY <2>2, <3>1 DEF Preceding
        <3> QED
            BY <1>3, <3>2
    <2> QED
        BY <2>1, <2>2
<1>5. Shaped(r \o t, f)
    BY <1>4, ShapedConcat
<1> QED
    BY <1>2, <1>5

\* So may code, after code that has not ended.
Going(r) == LastOp(r) \in Calm \cup {"Variable"}

\* A chain of code keeps the shape.
LEMMA ShapedCode ==
    ASSUME NEW r, NEW f, Shaped(r, f), Going(r), NEW t \in Seq(Instruction), Chained(t), Begins(t),
           \A k \in 1 .. Len(t) : G.var_shared \notin Uses(t[k])
    PROVE  /\ Shaped(r \o t, f)
           /\ Ends(t) => Going(r \o t)
           /\ Len(t) # 0 => LastOp(r \o t) = LastOp(t)
<1>1. r \in Seq(Instruction) /\ f \in 53 .. Len(r) /\ Len(r) \in Nat /\ Len(t) \in Nat
    BY DEF Shaped, Leading
<1>2. LastOp(r \o t) = IF Len(t) = 0 THEN LastOp(r) ELSE LastOp(t)
    BY <1>1, LastConcat
<1>3. Ends(t) => Going(r \o t)
    BY <1>2 DEF Ends, Going, LastOp
<1>4. ASSUME NEW k \in 1 .. Len(t)
      PROVE  /\ After(Preceding(r, t, k).op, t[k])
             /\ t[k].op = "Variable" => Preceding(r, t, k).op = "Variable" \/ Len(r) + k = f + 2
    <2>1. t[k].op \in FunctionOps /\ (t[k].op = "Label" => t[k].id # 0) /\ t[k].op # "Variable"
          /\ G.var_shared \notin Uses(t[k])
        <3>1. t[k].op \in FunctionOps /\ (t[k].op = "Label" => t[k].id # 0)
            BY DEF Chained
        <3>2. "Variable" \notin FunctionOps
            BY BodyOpsApart DEF FunctionOps
        <3> QED
            BY <3>1, <3>2
    <2>2. CASE k = 1
        <3>1. Preceding(r, t, k).op = LastOp(r)
            BY <2>2 DEF Preceding, LastOp
        <3>2. t[k].op \in Opening
            BY <2>2 DEF Begins
        <3>3. t[k].op \notin {"Label", "FunctionEnd", "BranchConditional"}
            BY <3>2, BodyOpsApart DEF Opening
        <3>4. LastOp(r) \notin Terminators \cup {"Function", "SelectionMerge"}
            BY BodyOpsApart DEF Going, Calm, Terminators
        <3> QED
            BY <2>1, <3>1, <3>3, <3>4 DEF After
    <2>3. CASE k # 1
        <3>1. k \in 2 .. Len(t) /\ k - 1 \in 1 .. Len(t)
            BY <1>1, <2>3
        <3>2. Follows(t[k - 1].op, t[k].op)
            BY <3>1 DEF Chained
        <3>3. t[k - 1].op # "Function"
            <4>1. t[k - 1].op \in FunctionOps
                BY <3>1 DEF Chained
            <4>2. "Function" \notin FunctionOps
                BY BodyOpsApart DEF FunctionOps
            <4> QED
                BY <4>1, <4>2
        <3>4. Preceding(r, t, k) = t[k - 1]
            BY <2>3 DEF Preceding
        <3> QED
            BY <2>1, <3>2, <3>3, <3>4 DEF After, Follows
    <2> QED
        BY <2>2, <2>3
<1>5. Shaped(r \o t, f)
    BY <1>4, ShapedConcat
<1> QED
    BY <1>2, <1>3, <1>5

-----------------------------------------------------------------------------
(***************************************************************************)
(* The code written after the header.                                      *)
(***************************************************************************)

\* The shared array's variable is left out of what the function may use.
Visible(D) == {p \in D : p[1] # G.var_shared}

\* What leaving out the shared array's variable changes.
LEMMA VisibleFacts ==
    ASSUME NEW D
    PROVE  /\ Visible(D) \subseteq D /\ Known(Visible(D)) = Known(D) \ {G.var_shared}
           /\ GlobalPairs \subseteq D => GlobalPairs \subseteq Visible(D)
           /\ Types \subseteq Known(D) => Types \subseteq Known(Visible(D))
           /\ \A H : Visible(D) \subseteq Visible(D \cup H)
<1>1. GlobalPairs \subseteq D => GlobalPairs \subseteq Visible(D)
    BY Ids DEF GlobalPairs, Visible
<1>2. Known(Visible(D)) = Known(D) \ {G.var_shared}
    BY DEF Known, Visible
<1>3. G.var_shared \notin Types
    BY Ids DEF Types
<1> QED
    BY <1>1, <1>2, <1>3 DEF Visible

\* A part uses what is known before it and what it defines.
LEMMA PartUses ==
    ASSUME NEW E, NEW t, Part(E, t), NEW x, x \notin Known(E), x \notin ResultIds(t)
    PROVE  \A k \in 1 .. Len(t) : x \notin Uses(t[k])
<1> SUFFICES ASSUME NEW k \in 1 .. Len(t)
             PROVE  x \notin Uses(t[k])
    OBVIOUS
<1>1. Uses(t[k]) \subseteq Known(E \cup Near(t, k))
    BY DEF Part, Grounded, Fit
<1>2. Known(E \cup Near(t, k)) = Known(E) \cup Known(Near(t, k))
    BY KnownUnion
<1>3. \A p \in Near(t, k) : p[1] \in ResultIds(t)
    <2>1. DOMAIN t = 1 .. Len(t)
        BY DEF Part
    <2> QED
        BY <2>1 DEF Near, NearAt, PairAt, ResultIds
<1>4. Known(Near(t, k)) \subseteq ResultIds(t)
    BY <1>3 DEF Known
<1> QED
    BY <1>1, <1>2, <1>4

\* The first words of the function.
OpenedPairs(e) == {<<G.func_main, G.type_void>>, <<e, 0>>}

\* The function's first words are a legal part.
LEMMA OpenedPart ==
    ASSUME NEW E, Types \subseteq Known(E), NEW e \in Nat, e > 38
    PROVE  /\ Part(E, Opened(e)) /\ Still(Opened(e)) /\ Adds(Opened(e), OpenedPairs(e))
           /\ Opened(e) \in Seq(Instruction) /\ Len(Opened(e)) = 2
<1> DEFINE t == Opened(e)
<1>1. FunctionWord \in Instruction
    <2>1. <<G.type_func>> \in Seq(Nat) /\ <<>> \in Seq(Nat \cup Words)
        BY Ids, SequencesOfOne, LiteralLabels
    <2>2. G.type_void \in Nat /\ G.func_main \in Nat
        BY Ids
    <2>3. "Function" \in BodyOps \cup OtherOps
        BY DEF OtherOps
    <2> QED
        BY <2>1, <2>2, <2>3 DEF FunctionWord, Instruction
<1>2. Label(e) \in Instruction
    BY ControlWords
<1>3. t \in Seq(Instruction) /\ Len(t) = 2 /\ t[1] = FunctionWord /\ t[2] = Label(e)
    BY <1>1, <1>2, SequencesOfTwo DEF Opened
<1>4. /\ FunctionWord.op = "Function" /\ FunctionWord.id = 38 /\ FunctionWord.type = 1
      /\ FunctionWord.args = <<G.type_func>> /\ FunctionWord.lits = <<>>
      /\ Label(e).op = "Label" /\ Label(e).id = e /\ Label(e).type = 0 /\ Label(e).args = <<>>
    BY Ids DEF FunctionWord, Label, Def
<1> HIDE DEF t
<1>5. Once(t)
    <2>1. \A k \in 1 .. 2 : k = 1 \/ k = 2
        OBVIOUS
    <2> QED
        BY <1>3, <1>4, <2>1 DEF Once
<1>6. Uses(FunctionWord) \subseteq Types
    <2>1. ToSet(<<G.type_func>>) = {G.type_func}
        BY Ids, SequencesOfOne
    <2>2. {G.type_func, 1} \subseteq Types
        BY Ids DEF Types
    <2>3. Uses(FunctionWord) \subseteq ToSet(<<G.type_func>>) \cup {1}
        BY <1>4 DEF Uses
    <2> QED
        BY <2>1, <2>2, <2>3
<1>7. \A H : Types \subseteq Known(H) => Fit(H, FunctionWord)
    <2>1. "Function" \notin BodyOps /\ "Function" # "BranchConditional"
        BY BodyOpsApart
    <2> QED
        BY <1>4, <1>6, <2>1 DEF Fit
<1>8. \A H : Fit(H, Label(e))
    <2>1. "Label" \notin BodyOps /\ "Label" # "BranchConditional"
        BY BodyOpsApart
    <2> QED
        BY <1>4, <2>1, NothingUsed
<1>9. Grounded(E, t)
    <2> SUFFICES ASSUME NEW u \in 1 .. 2
                 PROVE  Fit(E \cup Near(t, u), t[u])
        BY <1>3 DEF Grounded
    <2>1. Types \subseteq Known(E \cup Near(t, u))
        BY KnownUnion
    <2>2. u = 1 \/ u = 2
        OBVIOUS
    <2> QED
        BY <1>3, <1>7, <1>8, <2>1, <2>2
<1>10. \A k \in 1 .. 2 : t[k].op \notin Targeting /\ t[k].op \notin Jumping
    <2>1. \A k \in 1 .. 2 : k = 1 \/ k = 2
        OBVIOUS
    <2> QED
        BY <1>3, <1>4, <2>1 DEF Targeting, Jumping
<1>11. Resolved(t, {}) /\ Still(t)
    BY <1>3, <1>10 DEF Resolved, Still
<1>12. Adds(t, OpenedPairs(e))
    <2>1. {k \in 1 .. Len(t) : k < Len(t) + 1 /\ t[k].id # 0} = {1, 2}
        BY <1>3, <1>4
    <2>2. AddsTo(t, Len(t) + 1) = {<<t[d].id, t[d].type>> : d \in {1, 2}}
        BY <2>1 DEF AddsTo
    <2>3. {<<t[d].id, t[d].type>> : d \in {1, 2}} = {<<t[1].id, t[1].type>>, <<t[2].id, t[2].type>>}
        OBVIOUS
    <2>4. G.func_main = 38 /\ G.type_void = 1
        BY Ids
    <2> QED
        BY <1>3, <1>4, <2>2, <2>3, <2>4 DEF Adds, OpenedPairs
<1> QED
    BY <1>3, <1>5, <1>9, <1>11, <1>12 DEF Part, t

\* A row of variables of the function.
LEMMA RowOfVariables ==
    ASSUME NEW E, NEW m \in Nat \ {0}, NEW n \in Nat, NEW type,
           \A k \in 1 .. n : type[k] \in Nat \ {0} /\ type[k] \in Known(E) /\ type[k] # G.var_shared,
           NEW t, t = VariableRow(m, n, type)
    PROVE  /\ t \in Seq(Instruction) /\ Len(t) = n
           /\ Declares(E, t, Row(m, n, type))
           /\ \A k \in 1 .. Len(t) : t[k].op = "Variable" /\ G.var_shared \notin Uses(t[k])
<1>1. ASSUME NEW k \in 1 .. n
      PROVE  Word(t[k], "Variable", m + k - 1, type[k], {type[k]})
    <2>1. "Function" \in Words /\ m + k - 1 \in Nat
        BY DEF Words
    <2>2. Word(Variable(type[k], m + k - 1, "Function"), "Variable", m + k - 1, type[k], {type[k]})
        BY <2>1, VariableWord
    <2> QED
        BY <2>2 DEF VariableRow
<1>2. t \in [1 .. n -> Instruction]
    <2>1. \A k \in 1 .. n : t[k] \in Instruction
        BY <1>1 DEF Word
    <2>2. t = [k \in 1 .. n |-> t[k]]
        BY DEF VariableRow
    <2> QED
        BY <2>1, <2>2
<1>3. t \in Seq(Instruction) /\ Len(t) = n
    BY <1>2, FunctionSequence
<1>4. \A k \in 1 .. Len(t) : /\ t[k].op \in DeclaringOps /\ t[k].id = m + k - 1
                             /\ t[k].type = type[k] /\ Uses(t[k]) \subseteq Known(E)
    <2> SUFFICES ASSUME NEW k \in 1 .. n
                 PROVE  /\ t[k].op \in DeclaringOps /\ t[k].id = m + k - 1
                        /\ t[k].type = type[k] /\ Uses(t[k]) \subseteq Known(E)
        BY <1>3
    <2>1. Word(t[k], "Variable", m + k - 1, type[k], {type[k]})
        BY <1>1
    <2>2. type[k] \in Known(E)
        OBVIOUS
    <2> QED
        BY <2>1, <2>2 DEF Word
<1>5. ASSUME NEW k \in 1 .. n
      PROVE  t[k].op = "Variable" /\ G.var_shared \notin Uses(t[k])
    <2>1. Word(t[k], "Variable", m + k - 1, type[k], {type[k]})
        BY <1>1
    <2>2. type[k] # G.var_shared
        OBVIOUS
    <2> QED
        BY <2>1, <2>2 DEF Word
<1>6. Declares(E, t, Row(m, Len(t), type))
    BY <1>3, <1>4, RowDeclared
<1> QED
    BY <1>3, <1>5, <1>6

\* The beginning of a module that defines D, its function at f.
Writing(r, D, f) == Straight(r, D) /\ Shaped(r, f)

\* The header and the constants.
LEMMA ConstantsWritten ==
    ASSUME Accepted, NEW n, n = Cardinality(Needed)
    PROVE  /\ n \in Nat
           /\ Straight(Header \o Immediates, HeaderPairs \cup UintRow(n))
           /\ Known(HeaderPairs \cup UintRow(n)) = 1 .. 37 \cup 39 .. (38 + n)
<1>1. n \in Nat /\ Declares(HeaderPairs, Immediates, UintRow(n))
    BY ImmediatesDeclared
<1>2. Known(UintRow(n)) = 39 .. (38 + n)
    <2>1. 39 .. (39 + n - 1) = 39 .. (38 + n) /\ 39 \in Nat
        BY <1>1
    <2>2. Known(Row(39, n, [k \in 1 .. n |-> G.type_uint])) = 39 .. (39 + n - 1)
        BY <1>1, <2>1, RowKnown
    <2> QED
        BY <2>1, <2>2 DEF UintRow
<1>3. Apart(HeaderPairs, UintRow(n))
    <2>1. (1 .. 37) \cap (39 .. (38 + n)) = {}
        BY <1>1
    <2> QED
        BY <1>2, <2>1, HeaderKnown DEF Apart
<1>4. Straight(Header \o Immediates, HeaderPairs \cup UintRow(n))
    BY <1>1, <1>3, HeaderStraight, StraightDeclared
<1>5. Known(HeaderPairs \cup UintRow(n)) = 1 .. 37 \cup 39 .. (38 + n)
    <2>1. Known(HeaderPairs \cup UintRow(n)) = Known(HeaderPairs) \cup Known(UintRow(n))
        BY KnownUnion
    <2> QED
        BY <1>2, <2>1, HeaderKnown
<1> QED
    BY <1>1, <1>4, <1>5

\* The header and n constants.
Started(r, D, n) ==
    /\ n = Cardinality(Needed)
    /\ r = Header \o Immediates
    /\ D = HeaderPairs \cup UintRow(n)

\* The function is opened.
LEMMA FunctionWritten ==
    ASSUME Accepted, NEW n, NEW r, NEW D, Started(r, D, n), NEW e, e = 39 + n
    PROVE  /\ Writing(r \o Opened(e), D \cup OpenedPairs(e), 53 + n)
           /\ Declaring(r \o Opened(e), 53 + n)
           /\ Known(D \cup OpenedPairs(e)) = 1 .. e
<1>1. /\ n \in Nat /\ Straight(r, D) /\ Known(D) = 1 .. 37 \cup 39 .. (38 + n)
      /\ r \in Seq(Instruction)
    BY ConstantsWritten DEF Straight, Sound, Started
<1>2. /\ Immediates \in Seq(Instruction) /\ Len(Immediates) = n
      /\ \A k \in 1 .. Len(Immediates) : Immediates[k].op = "Constant"
    BY ImmediatesDeclared DEF Started
<1>3. e \in Nat /\ e > 38
    BY <1>1
<1>4. Types \subseteq Known(D)
    <2>1. 1 .. 22 \subseteq 1 .. 37
        OBVIOUS
    <2> QED
        BY <1>1, <2>1 DEF Types
<1>5. /\ Part(D, Opened(e)) /\ Still(Opened(e)) /\ Adds(Opened(e), OpenedPairs(e))
      /\ Opened(e) \in Seq(Instruction) /\ Len(Opened(e)) = 2
    BY <1>3, <1>4, OpenedPart
<1>6. Known(OpenedPairs(e)) = {38, e}
    BY Ids DEF Known, OpenedPairs
<1>7. Apart(D, OpenedPairs(e))
    <2>1. (1 .. 37 \cup 39 .. (38 + n)) \cap {38, e} = {}
        BY <1>1
    <2> QED
        BY <1>1, <1>6, <2>1 DEF Apart
<1>8. Straight(r \o Opened(e), D \cup OpenedPairs(e))
    <2>1. D \subseteq D
        OBVIOUS
    <2> QED
        BY <1>1, <1>5, <1>7, <2>1, StraightConcat
<1>9. Known(D \cup OpenedPairs(e)) = 1 .. e
    <2> DEFINE S == (1 .. 37 \cup 39 .. (38 + n)) \cup {38, e}
    <2>3. \A x \in S : x \in 1 .. e
        BY <1>1
    <2>4. \A x \in 1 .. e : x \in S
        BY <1>1
    <2>1. S = 1 .. e
        BY <2>3, <2>4
    <2>2. Known(D \cup OpenedPairs(e)) = Known(D) \cup Known(OpenedPairs(e))
        BY KnownUnion
    <2> QED
        BY <1>1, <1>6, <2>1, <2>2
<1> DEFINE s == r \o Opened(e)
<1>10. Glued(s, r, Opened(e)) /\ Glued(r, Header, Immediates)
    <2>1. Glued(Header \o Immediates, Header, Immediates)
        BY <1>2, HeaderParts, ConcatGlues
    <2> QED
        BY <1>1, <1>5, <2>1, ConcatGlues DEF Started
<1>11. Len(Header) = 52
    BY HeaderParts
<1> HIDE DEF s
<1>12. Len(r) = 52 + n /\ Len(s) = 54 + n /\ s \in Seq(Instruction)
    BY <1>1, <1>2, <1>5, <1>10, <1>11 DEF Glued
<1>13. Opened(e)[1] = FunctionWord /\ FunctionWord.op = "Function" /\ Opened(e)[2] = Label(e)
    BY DEF Opened, FunctionWord
<1>19. G.var_shared \notin Uses(FunctionWord)
    <2>1. ToSet(<<2>>) = {2}
        BY SequencesOfOne
    <2>2. FunctionWord.args = <<2>> /\ FunctionWord.type = 1 /\ FunctionWord.op \notin Forward
        BY Ids DEF FunctionWord, Forward
    <2>3. Uses(FunctionWord) = {1, 2}
        BY <2>1, <2>2 DEF Uses
    <2> QED
        BY <2>3, Ids
<1>14. s[53 + n] = FunctionWord /\ s[54 + n] = Label(e)
    <2>1. 1 \in 1 .. 2 /\ 2 \in 1 .. 2 /\ 52 + n + 1 = 53 + n /\ 52 + n + 2 = 54 + n
        BY <1>1
    <2>2. s[52 + n + 1] = Opened(e)[1] /\ s[52 + n + 2] = Opened(e)[2]
        BY <1>5, <1>10, <1>12, <2>1, ZenonT(60) DEF Glued
    <2> QED
        BY <1>13, <2>1, <2>2
<1> DEFINE f == 53 + n
<1>15. Leading(s, f)
    <2>1. Sits(Header, Header, 0)
        <3>1. \A k \in 1 .. 52 : 0 + k = k
            OBVIOUS
        <3> QED
            BY <1>11, <3>1 DEF Sits
    <2>2. Sits(s, Header, 0)
        BY <1>10, <2>1, SitsAgain
    <2>3. f \in 53 .. Len(s) /\ s[f].op = "Function" /\ G.var_shared \notin Uses(s[f])
        BY <1>1, <1>12, <1>13, <1>14, <1>19
    <2>4. ASSUME NEW k \in 53 .. (f - 1)
          PROVE  s[k].op = "Constant"
        <3> DEFINE j == k - 52
        <3>1. j \in 1 .. n /\ k = 52 + j /\ k \in 1 .. 52 + n
            BY <1>1
        <3> HIDE DEF j
        <3>2. s[k] = r[k]
            BY <1>10, <1>12, <3>1 DEF Glued
        <3>3. r[52 + j] = Immediates[j]
            BY <1>2, <1>10, <1>11, <3>1, ZenonT(60) DEF Glued
        <3> QED
            BY <1>2, <3>1, <3>2, <3>3
    <2> HIDE DEF f
    <2> QED
        BY <2>2, <2>3, <2>4 DEF Leading
<1>16. After("Function", Label(e))
    <2>1. Label(e).op = "Label" /\ Label(e).id = e /\ Uses(Label(e)) = {}
        <3>1. ToSet(<<>>) = {}
            BY DEF ToSet
        <3> QED
            BY <3>1 DEF Label, Def, Uses, Forward
    <2> QED
        BY <1>3, <2>1 DEF After, FunctionOps, Terminators
<1>17. Bodied(s, 53 + n)
    <2> SUFFICES ASSUME NEW k \in (53 + n + 1) .. Len(s)
                 PROVE  /\ After(s[k - 1].op, s[k])
                        /\ s[k].op = "Variable" => s[k - 1].op = "Variable" \/ k = 53 + n + 2
        BY DEF Bodied
    <2>1. k = 54 + n /\ k - 1 = 53 + n
        BY <1>1, <1>12
    <2>2. s[k].op # "Variable"
        BY <1>14, <2>1 DEF Label, Def
    <2> QED
        BY <1>13, <1>14, <1>16, <2>1, <2>2
<1>18. Declaring(s, 53 + n)
    <2>1. LastOp(s) = "Label"
        BY <1>12, <1>14 DEF LastOp, Label, Def
    <2>2. Len(s) = 53 + n + 1
        BY <1>1, <1>12
    <2> QED
        BY <2>1, <2>2 DEF Declaring
<1> QED
    BY <1>8, <1>9, <1>12, <1>15, <1>17, <1>18 DEF Writing, Shaped, s

\* A module that ends with variables, its ids those below m.
Below(r, D, f, m) == Writing(r, D, f) /\ Known(D) = 1 .. (m - 1)

\* Variables are added.
LEMMA VariablesWritten ==
    ASSUME NEW r, NEW D, NEW f, NEW m \in Nat, m > 22, Below(r, D, f, m), Declaring(r, f),
           NEW n \in Nat \ {0}, NEW type, \A k \in 1 .. n : type[k] \in Types
    PROVE  /\ Below(r \o VariableRow(m, n, type), D \cup Row(m, n, type), f, m + n)
           /\ LastOp(r \o VariableRow(m, n, type)) = "Variable"
<1> DEFINE t == VariableRow(m, n, type)
<1>0. m \in Nat \ {0} /\ Writing(r, D, f) /\ Known(D) = 1 .. (m - 1) /\ Types \subseteq Known(D)
    <2>1. 1 .. 22 \subseteq 1 .. (m - 1)
        OBVIOUS
    <2> QED
        BY <2>1 DEF Types, Below
<1>1. \A k \in 1 .. n : type[k] \in Nat \ {0} /\ type[k] \in Known(D) /\ type[k] # G.var_shared
    <2>1. \A x \in 1 .. 22 : x \in Nat \ {0} /\ x # 37
        OBVIOUS
    <2> QED
        BY <1>0, <2>1, Ids, ZenonT(60) DEF Types
<1>2. n \in Nat
    OBVIOUS
<1>3. /\ t \in Seq(Instruction) /\ Len(t) = n
      /\ Declares(D, t, Row(m, n, type))
      /\ \A k \in 1 .. Len(t) : t[k].op = "Variable" /\ G.var_shared \notin Uses(t[k])
    BY <1>0, <1>1, <1>2, RowOfVariables
<1> HIDE DEF t
<1>4. Known(Row(m, n, type)) = m .. (m + n - 1)
    BY RowKnown
<1>5. Apart(D, Row(m, n, type))
    <2>1. (1 .. (m - 1)) \cap (m .. (m + n - 1)) = {}
        OBVIOUS
    <2> QED
        BY <1>0, <1>4, <2>1 DEF Apart
<1>6. Straight(r \o t, D \cup Row(m, n, type))
    BY <1>0, <1>3, <1>5, StraightDeclared DEF Writing
<1>7. Shaped(r \o t, f) /\ LastOp(r \o t) = "Variable"
    <2>1. Len(t) # 0
        BY <1>3
    <2> QED
        BY <1>0, <1>3, <2>1, ShapedVariables DEF Writing
<1>8. Known(D \cup Row(m, n, type)) = 1 .. (m + n - 1)
    <2>1. (1 .. (m - 1)) \cup (m .. (m + n - 1)) = 1 .. (m + n - 1)
        OBVIOUS
    <2>2. Known(D \cup Row(m, n, type)) = Known(D) \cup Known(Row(m, n, type))
        BY KnownUnion
    <2> QED
        BY <1>0, <1>4, <2>1, <2>2
<1> QED
    BY <1>6, <1>7, <1>8 DEF Writing, Below, t

RegisterRow(m) == Row(m, 3 * NumRegs, RegisterTypes)
PredicateRow(m) == Row(m + 3 * NumRegs, 8, PredicateTypes)

\* The types of the variables of a register, by its number.
LEMMA ViewTypes ==
    /\ \A k \in 1 .. (3 * NumRegs) : RegisterTypes[k] \in Types
    /\ \A k \in 1 .. 8 : PredicateTypes[k] \in Types
    /\ \A r \in Registers :
          /\ {3 * r + 1, 3 * r + 2, 3 * r + 3} \subseteq 1 .. (3 * NumRegs)
          /\ RegisterTypes[3 * r + 1] = G.ptr_fn_uint /\ RegisterTypes[3 * r + 2] = G.ptr_fn_float
          /\ RegisterTypes[3 * r + 3] = G.ptr_fn_ulong
<1> DEFINE t == <<G.ptr_fn_uint, G.ptr_fn_float, G.ptr_fn_ulong>>
<1>1. t[1] = G.ptr_fn_uint /\ t[2] = G.ptr_fn_float /\ t[3] = G.ptr_fn_ulong
    OBVIOUS
<1>2. {G.ptr_fn_uint, G.ptr_fn_float, G.ptr_fn_ulong, G.ptr_fn_bool} \subseteq Types
    BY Ids DEF Types
<1> HIDE DEF t
<1>3. ASSUME NEW k \in 1 .. (3 * NumRegs)
      PROVE  RegisterTypes[k] = t[1 + ((k - 1) % 3)]
    BY DEF RegisterTypes, t
<1>4. ASSUME NEW k \in 1 .. (3 * NumRegs)
      PROVE  RegisterTypes[k] \in Types
    <2>1. 1 + ((k - 1) % 3) \in {1, 2, 3}
        BY NumRegsAssumption
    <2> QED
        BY <1>1, <1>2, <1>3, <2>1
<1>5. \A k \in 1 .. 8 : PredicateTypes[k] \in Types
    BY <1>2 DEF PredicateTypes
<1>6. ASSUME NEW r \in Registers
      PROVE  /\ {3 * r + 1, 3 * r + 2, 3 * r + 3} \subseteq 1 .. (3 * NumRegs)
             /\ RegisterTypes[3 * r + 1] = G.ptr_fn_uint /\ RegisterTypes[3 * r + 2] = G.ptr_fn_float
             /\ RegisterTypes[3 * r + 3] = G.ptr_fn_ulong
    <2>1. r \in Nat /\ r <= NumRegs - 1 /\ NumRegs \in Nat
        BY NumRegsAssumption DEF Registers
    <2>2. {3 * r + 1, 3 * r + 2, 3 * r + 3} \subseteq 1 .. (3 * NumRegs)
        BY <2>1
    <2> DEFINE x == 3 * r + 1
               y == 3 * r + 2
               z == 3 * r + 3
    <2>8. x \in 1 .. (3 * NumRegs) /\ y \in 1 .. (3 * NumRegs) /\ z \in 1 .. (3 * NumRegs)
        BY <2>2
    <2>9. (x - 1) % 3 = 0 /\ (y - 1) % 3 = 1 /\ (z - 1) % 3 = 2
        <3>1. x - 1 = 3 * r /\ y - 1 = 3 * r + 1 /\ z - 1 = 3 * r + 2
            BY <2>1
        <3>2. (3 * r) % 3 = 0 /\ (3 * r + 1) % 3 = 1 /\ (3 * r + 2) % 3 = 2
            BY <2>1
        <3> HIDE DEF x, y, z
        <3> QED
            BY <3>1, <3>2
    <2> HIDE DEF x, y, z
    <2>5. RegisterTypes[x] = t[1 + ((x - 1) % 3)]
        BY <1>3, <2>8
    <2>6. RegisterTypes[y] = t[1 + ((y - 1) % 3)]
        BY <1>3, <2>8
    <2>7. RegisterTypes[z] = t[1 + ((z - 1) % 3)]
        BY <1>3, <2>8
    <2>4. RegisterTypes[3 * r + 1] = t[1 + 0] /\ RegisterTypes[3 * r + 2] = t[1 + 1] /\ RegisterTypes[3 * r + 3] = t[1 + 2]
        BY <2>5, <2>6, <2>7, <2>9 DEF x, y, z
    <2> QED
        BY <1>1, <2>2, <2>4
<1> QED
    BY <1>4, <1>5, <1>6

\* What the prologue leaves in E: the registers from m, the predicates, and the parameters
\* from b.
Prepared(E, m, b) ==
    /\ \A r \in Registers : /\ <<m + 3 * r, G.ptr_fn_uint>> \in E /\ <<m + 3 * r + 1, G.ptr_fn_float>> \in E
                            /\ <<m + 3 * r + 2, G.ptr_fn_ulong>> \in E
    /\ \A p \in 0 .. 7 : <<m + 3 * NumRegs + p, G.ptr_fn_bool>> \in E
    /\ Loaded(E, b)
    /\ GlobalPairs \subseteq E /\ Types \subseteq Known(E)

\* The variables of registers and predicates are declared with their types.
LEMMA RegisterPairs ==
    ASSUME NEW m \in Nat
    PROVE  /\ \A r \in Registers : /\ <<m + 3 * r, G.ptr_fn_uint>> \in RegisterRow(m)
                                   /\ <<m + 3 * r + 1, G.ptr_fn_float>> \in RegisterRow(m)
                                   /\ <<m + 3 * r + 2, G.ptr_fn_ulong>> \in RegisterRow(m)
           /\ \A p \in 0 .. 7 : <<m + 3 * NumRegs + p, G.ptr_fn_bool>> \in PredicateRow(m)
<1>1. ASSUME NEW r \in Registers
      PROVE  /\ <<m + 3 * r, G.ptr_fn_uint>> \in RegisterRow(m)
             /\ <<m + 3 * r + 1, G.ptr_fn_float>> \in RegisterRow(m)
             /\ <<m + 3 * r + 2, G.ptr_fn_ulong>> \in RegisterRow(m)
    <2>1. /\ {3 * r + 1, 3 * r + 2, 3 * r + 3} \subseteq 1 .. (3 * NumRegs)
          /\ RegisterTypes[3 * r + 1] = G.ptr_fn_uint /\ RegisterTypes[3 * r + 2] = G.ptr_fn_float
          /\ RegisterTypes[3 * r + 3] = G.ptr_fn_ulong
        BY ViewTypes
    <2>2. r \in Nat
        BY DEF Registers
    <2>3. /\ m + 3 * r = m + (3 * r + 1) - 1 /\ m + 3 * r + 1 = m + (3 * r + 2) - 1
          /\ m + 3 * r + 2 = m + (3 * r + 3) - 1
        BY <2>2
    <2>4. \A k \in 1 .. (3 * NumRegs) : <<m + k - 1, RegisterTypes[k]>> \in RegisterRow(m)
        BY DEF RegisterRow, Row
    <2> HIDE DEF RegisterRow, RegisterTypes
    <2>5. <<m + (3 * r + 1) - 1, RegisterTypes[3 * r + 1]>> \in RegisterRow(m)
        BY <2>1, <2>4
    <2>6. <<m + (3 * r + 2) - 1, RegisterTypes[3 * r + 2]>> \in RegisterRow(m)
        BY <2>1, <2>4
    <2>7. <<m + (3 * r + 3) - 1, RegisterTypes[3 * r + 3]>> \in RegisterRow(m)
        BY <2>1, <2>4
    <2> QED
        BY <2>1, <2>3, <2>5, <2>6, <2>7
<1>2. ASSUME NEW p \in 0 .. 7
      PROVE  <<m + 3 * NumRegs + p, G.ptr_fn_bool>> \in PredicateRow(m)
    <2>1. p + 1 \in 1 .. 8 /\ m + 3 * NumRegs + (p + 1) - 1 = m + 3 * NumRegs + p
        BY NumRegsAssumption
    <2>2. PredicateTypes[p + 1] = G.ptr_fn_bool
        BY <2>1 DEF PredicateTypes
    <2>3. <<m + 3 * NumRegs + (p + 1) - 1, PredicateTypes[p + 1]>> \in PredicateRow(m)
        BY <2>1 DEF PredicateRow, Row
    <2> QED
        BY <2>1, <2>2, <2>3
<1> QED
    BY <1>1, <1>2

\* The module after the prologue, its function at f.
Prelude(r, D, f, m, b) ==
    /\ Writing(r, D, f)
    /\ Going(r)
    /\ Known(D) = 1 .. (m + 3 * NumRegs + 7) \cup b .. (b + 13)
    /\ Prepared(Visible(D), m, b)

\* After the prologue the module is legal and knows the registers and the parameters.
LEMMA PrologueWritten ==
    ASSUME Accepted, NEW n, n = Cardinality(Needed), NEW e, e = 39 + n, NEW m, m = e + 1, NEW b \in Nat,
           b > m + 3 * NumRegs + 7
    PROVE  \E D : /\ Prelude(((((Header \o Immediates) \o Opened(e)) \o VariableRow(m, 3 * NumRegs, RegisterTypes))
                                \o VariableRow(m + 3 * NumRegs, 8, PredicateTypes)) \o Parameters(m, b),
                             D, 53 + n, m, b)
                  /\ UintRow(n) \subseteq Visible(D)
<1> DEFINE r0 == Header \o Immediates
           D0 == HeaderPairs \cup UintRow(n)
           r1 == r0 \o Opened(e)
           D1 == D0 \cup OpenedPairs(e)
           c == 3 * NumRegs
           t2 == VariableRow(m, c, RegisterTypes)
           r2 == r1 \o t2
           D2 == D1 \cup RegisterRow(m)
           t3 == VariableRow(m + c, 8, PredicateTypes)
           r3 == r2 \o t3
           D3 == D2 \cup PredicateRow(m)
           t4 == Parameters(m, b)
           f == 53 + n
<1>1. n \in Nat /\ Known(D0) = 1 .. 37 \cup 39 .. (38 + n)
    BY ConstantsWritten
<1>2. e \in Nat /\ m \in Nat \ {0} /\ c \in Nat \ {0} /\ m > 39 /\ m - 1 = e /\ m + c \in Nat \ {0}
      /\ m + c + 8 - 1 = m + c + 7 /\ b \in Nat \ {0} /\ m \in Nat
    BY <1>1, NumRegsAssumption
<1>3. Started(r0, D0, n)
    BY DEF Started
<1> HIDE DEF r0, D0
<1>4. Below(r1, D1, f, m) /\ Declaring(r1, f)
    <2>1. /\ Writing(r0 \o Opened(e), D0 \cup OpenedPairs(e), 53 + n)
          /\ Declaring(r0 \o Opened(e), 53 + n)
          /\ Known(D0 \cup OpenedPairs(e)) = 1 .. e
        BY <1>3, FunctionWritten
    <2>2. 1 .. e = 1 .. (m - 1)
        BY <1>2
    <2> QED
        BY <2>1, <2>2 DEF Below
<1> HIDE DEF f, r1, D1, c, t4, RegisterTypes, PredicateTypes
<1>5. 1 .. 22 \subseteq 1 .. (m - 1) /\ 1 .. 22 \subseteq 1 .. (m + c - 1)
    BY <1>2
<1>6. Below(r2, D2, f, m + c) /\ LastOp(r2) = "Variable"
    <2>1. m > 22
        BY <1>2
    <2>2. \A k \in 1 .. c : RegisterTypes[k] \in Types
        BY ViewTypes DEF c
    <2>3. /\ Below(r1 \o VariableRow(m, c, RegisterTypes), D1 \cup Row(m, c, RegisterTypes), f, m + c)
          /\ LastOp(r1 \o VariableRow(m, c, RegisterTypes)) = "Variable"
        BY <1>2, <1>4, <2>1, <2>2, VariablesWritten
    <2> QED
        BY <2>3 DEF RegisterRow, c
<1> HIDE DEF r2, D2, t2
<1>7. Writing(r3, D3, f) /\ LastOp(r3) = "Variable" /\ Known(D3) = 1 .. (m + c + 7)
    <2>1. m + c > 22 /\ m + c \in Nat
        BY <1>2
    <2>2. \A k \in 1 .. 8 : PredicateTypes[k] \in Types
        BY ViewTypes
    <2>3. Declaring(r2, f)
        BY <1>6 DEF Declaring
    <2>4. 8 \in Nat \ {0}
        OBVIOUS
    <2>5. /\ Below(r2 \o VariableRow(m + c, 8, PredicateTypes), D2 \cup Row(m + c, 8, PredicateTypes), f, m + c + 8)
          /\ LastOp(r2 \o VariableRow(m + c, 8, PredicateTypes)) = "Variable"
        BY <1>6, <2>1, <2>2, <2>3, <2>4, VariablesWritten
    <2>6. Known(D2 \cup Row(m + c, 8, PredicateTypes)) = 1 .. (m + c + 7)
        BY <1>2, <2>5, SMTT(30) DEF Below
    <2> QED
        BY <2>5, <2>6 DEF PredicateRow, c, Below
<1> HIDE DEF r3, t3
<1>8. GlobalPairs \subseteq D3 /\ UintRow(n) \subseteq D3 /\ Types \subseteq Known(D3)
      /\ RegisterRow(m) \subseteq D3 /\ PredicateRow(m) \subseteq D3
    <2>1. 1 .. 22 \subseteq 1 .. (m + c + 7)
        BY <1>2
    <2>2. Types \subseteq Known(D3)
        BY <1>7, <2>1 DEF Types
    <2> QED
        BY <2>2, HeaderGlobals DEF D3, D2, D1, D0
<1> HIDE DEF D3
<1> DEFINE E == Visible(D3)
<1>9. GlobalPairs \subseteq E /\ Types \subseteq Known(E) /\ E \subseteq D3
      /\ Known(E) = Known(D3) \ {G.var_shared}
    BY <1>8, VisibleFacts
<1>10. G.var_shared = 37
    BY Ids
<1>11. /\ \A r \in Registers : /\ <<m + 3 * r, G.ptr_fn_uint>> \in E /\ <<m + 3 * r + 1, G.ptr_fn_float>> \in E
                               /\ <<m + 3 * r + 2, G.ptr_fn_ulong>> \in E
       /\ \A p \in 0 .. 7 : <<m + c + p, G.ptr_fn_bool>> \in E
    <2>1. \A x, y : <<x, y>> \in D3 /\ x # 37 => <<x, y>> \in E
        BY <1>10 DEF Visible
    <2> HIDE DEF E
    <2>2. ASSUME NEW r \in Registers
          PROVE  /\ <<m + 3 * r, G.ptr_fn_uint>> \in E /\ <<m + 3 * r + 1, G.ptr_fn_float>> \in E
                 /\ <<m + 3 * r + 2, G.ptr_fn_ulong>> \in E
        <3>1. r \in Nat
            BY DEF Registers
        <3>2. m + 3 * r # 37 /\ m + 3 * r + 1 # 37 /\ m + 3 * r + 2 # 37
            BY <1>2, <3>1
        <3>3. /\ <<m + 3 * r, G.ptr_fn_uint>> \in RegisterRow(m)
              /\ <<m + 3 * r + 1, G.ptr_fn_float>> \in RegisterRow(m)
              /\ <<m + 3 * r + 2, G.ptr_fn_ulong>> \in RegisterRow(m)
            BY <1>2, RegisterPairs
        <3> QED
            BY <1>8, <2>1, <3>2, <3>3
    <2>3. ASSUME NEW p \in 0 .. 7
          PROVE  <<m + c + p, G.ptr_fn_bool>> \in E
        <3>1. m + c + p # 37
            BY <1>2
        <3>2. <<m + c + p, G.ptr_fn_bool>> \in PredicateRow(m)
            BY <1>2, RegisterPairs DEF c
        <3> QED
            BY <1>8, <2>1, <3>1, <3>2
    <2> QED
        BY <2>2, <2>3
<1> HIDE DEF E
<1>12. Targets(E, m)
    <2>1. 0 \in Registers /\ 3 \in Registers
        BY NumRegsAssumption DEF Registers
    <2>2. m + 3 * 0 = m /\ m + 3 * 0 + 1 = m + 1 /\ m + 3 * 0 + 2 = m + 2
          /\ m + 3 * 3 = m + 9 /\ m + 3 * 3 + 1 = m + 10 /\ m + 3 * 3 + 2 = m + 11
        BY <1>2
    <2>3. <<m + 3 * 0, G.ptr_fn_uint>> \in E /\ <<m + 3 * 0 + 1, G.ptr_fn_float>> \in E
          /\ <<m + 3 * 0 + 2, G.ptr_fn_ulong>> \in E
        BY <1>11, <2>1
    <2>4. <<m + 3 * 3, G.ptr_fn_uint>> \in E /\ <<m + 3 * 3 + 1, G.ptr_fn_float>> \in E
          /\ <<m + 3 * 3 + 2, G.ptr_fn_ulong>> \in E
        BY <1>11, <2>1
    <2> QED
        BY <2>2, <2>3, <2>4 DEF Targets
<1>13. PICK H : Code(E, t4, H) /\ Leaves(H, b)
    BY <1>2, <1>9, <1>12, ParametersCode DEF t4
<1>14. Known(H) = b .. (b + 13) /\ Loaded(H, b) /\ 37 \notin b .. (b + 13)
    <2>1. 37 \notin b .. (b + 13)
        BY <1>2 DEF c
    <2> QED
        BY <1>13, <2>1 DEF Leaves
<1>15. Fragment(E, t4, Known(H)) /\ (\A k \in 1 .. Len(t4) : t4[k].op \in BodyOps)
    <2>1. Fragment(E, t4, Known(H))
        BY <1>9, <1>13, CodeFragment
    <2>2. \A k \in 1 .. Len(t4) : t4[k].op \in BodyOps
        BY <1>9, <1>13, CodeFragment
    <2> QED
        BY <2>1, <2>2
<1>16. Part(E, t4) /\ Chained(t4) /\ Begins(t4) /\ Ends(t4) /\ ResultIds(t4) = Known(H)
       /\ t4 \in Seq(Instruction) /\ Adds(t4, H)
    BY <1>13, <1>15 DEF Fragment, Stretch, Code, Part
<1>17. Still(t4)
    BY <1>15, BodyOpsApart DEF Still, Jumping
<1>18. Apart(D3, H)
    <2>1. (1 .. (m + c + 7)) \cap (b .. (b + 13)) = {}
        BY <1>2 DEF c
    <2> QED
        BY <1>7, <1>14, <2>1 DEF Apart
<1>19. Straight(r3 \o t4, D3 \cup H)
    BY <1>7, <1>9, <1>16, <1>17, <1>18, StraightConcat DEF Writing
<1>20. \A k \in 1 .. Len(t4) : G.var_shared \notin Uses(t4[k])
    <2>1. G.var_shared \notin Known(E) /\ G.var_shared \notin ResultIds(t4)
        BY <1>9, <1>10, <1>14, <1>16
    <2> QED
        BY <1>16, <2>1, PartUses
<1>21. Shaped(r3 \o t4, f) /\ Going(r3 \o t4)
    <2>1. Going(r3)
        BY <1>7 DEF Going
    <2>2. /\ Shaped(r3 \o t4, f)
          /\ Ends(t4) => Going(r3 \o t4)
        BY <1>7, <1>16, <1>20, <2>1, ShapedCode DEF Writing
    <2> QED
        BY <1>16, <2>2
<1> DEFINE D == D3 \cup H
<1>22. Known(D) = 1 .. (m + c + 7) \cup b .. (b + 13)
    <2>1. Known(D) = Known(D3) \cup Known(H)
        BY KnownUnion
    <2> QED
        BY <1>7, <1>14, <2>1
<1>23. E \subseteq Visible(D)
    BY VisibleFacts DEF E
<1>24. Loaded(Visible(D), b)
    <2>1. \A x, y : <<x, y>> \in H /\ x # 37 => <<x, y>> \in Visible(D)
        BY <1>10 DEF Visible
    <2>2. b + 1 # 37 /\ b + 5 # 37 /\ b + 9 # 37 /\ b + 11 # 37 /\ b + 13 # 37
        BY <1>2 DEF c
    <2> HIDE DEF D
    <2> QED
        BY <1>14, <2>1, <2>2 DEF Loaded
<1>25. UintRow(n) \subseteq Visible(D)
    <2>1. \A p \in UintRow(n) : p[1] # 37
        BY <1>1 DEF UintRow, Row
    <2> QED
        BY <1>8, <1>10, <2>1 DEF Visible
<1>26. Types \subseteq Known(Visible(D)) /\ GlobalPairs \subseteq Visible(D)
    <2>1. Types \subseteq Known(D) /\ GlobalPairs \subseteq D
        BY <1>8, KnownUnion
    <2> HIDE DEF D
    <2> QED
        BY <2>1, VisibleFacts
<1>27. Prepared(Visible(D), m, b)
    BY <1>11, <1>23, <1>24, <1>26 DEF Prepared, c
<1>28. Prelude(r3 \o t4, D, f, m, b)
    BY <1>19, <1>21, <1>22, <1>27 DEF Prelude, Writing, c
<1> QED
    BY <1>25, <1>28 DEF r3, r2, r1, r0, t4, t3, t2, c, f

-----------------------------------------------------------------------------
(***************************************************************************)
(* The emitter stage by stage.                                             *)
(***************************************************************************)

\* What is written in the body: E is what every path knows, f where the function begins.
Progress(E, f) ==
    /\ words \in Seq(Instruction)
    /\ Sound(Module) /\ Shaped(Module, f) /\ Going(Module)
    /\ E \subseteq Exports(Module) /\ G.var_shared \notin Known(E)
    /\ Provides(E) /\ Frames(E) /\ Types \subseteq Known(E)
    /\ ResultIds(Module) \subseteq (1 .. (next_id - 1)) \ {frame.body, frame.exit}

\* The ids of the two blocks of the epilogue are set aside.
Reserved ==
    /\ next_id \in Nat /\ next_id > 38 + Cardinality(Needed)
    /\ frame.body \in 39 .. (next_id - 1) /\ frame.exit \in 39 .. (next_id - 1)
    /\ frame.body # frame.exit

ImmediateIds == imm_consts = [v \in Needed |-> 39 + Rank(Needed, v)]

Untouched == words = <<>> /\ next_id = 39 /\ imm_consts = <<>> /\ at = 0

Constants ==
    /\ Accepted /\ ImmediateIds
    /\ words = Immediates /\ next_id = 39 + Cardinality(Needed) /\ at = 0

Body == Accepted /\ ImmediateIds /\ Reserved /\ at \in 0 .. N /\ \E E, f : Progress(E, f)

Finished ==
    /\ Accepted /\ ImmediateIds /\ at = N
    /\ next_id \in Nat /\ next_id > 38 + Cardinality(Needed)
    /\ \E f : /\ Sound(Module) /\ Shaped(Module, f) /\ LastOp(Module) = "FunctionEnd"
              /\ ResultIds(Module) \subseteq 1 .. (next_id - 1)

EmitInv ==
    /\ decoded \in Programs /\ ir = LowerStream(decoded)
    /\ stage \in {"build", "prologue", "body", "done"}
    /\ stage = "build" => Untouched
    /\ stage = "prologue" => Constants
    /\ stage = "body" => Body
    /\ stage = "done" => outcome \in {"error", "reduction", "module"}
    /\ stage # "done" => outcome = "none"
    /\ outcome \in {"error", "reduction"} => Untouched
    /\ outcome = "module" => Finished

\* The invariant holds in the initial states.
LEMMA InitEmitInv == EmitInit => EmitInv
<1> SUFFICES ASSUME EmitInit
             PROVE  EmitInv
    OBVIOUS
<1>1. decoded \in Programs /\ ir = LowerStream(decoded)
    BY DEF EmitInit, BuildCfg
<1>2. stage = "build" /\ at = 0 /\ next_id = 39 /\ words = <<>> /\ imm_consts = <<>> /\ outcome = "none"
    BY Ids DEF EmitInit
<1> QED
    BY <1>1, <1>2 DEF EmitInv, Untouched

\* What the immediates leave: their ids are known.
LEMMA ImmediatesProvided ==
    ASSUME Accepted, ImmediateIds
    PROVE  /\ DOMAIN imm_consts = Needed
           /\ \A v \in DOMAIN imm_consts :
                 /\ imm_consts[v] \in 39 .. (38 + Cardinality(Needed))
                 /\ <<imm_consts[v], G.type_uint>> \in UintRow(Cardinality(Needed))
<1>1. DOMAIN imm_consts = Needed
    BY DEF ImmediateIds
<1> SUFFICES ASSUME NEW v \in Needed
             PROVE  /\ imm_consts[v] \in 39 .. (38 + Cardinality(Needed))
                    /\ <<imm_consts[v], G.type_uint>> \in UintRow(Cardinality(Needed))
    BY <1>1
<1>2. imm_consts[v] = 39 + Rank(Needed, v)
    BY DEF ImmediateIds
<1> QED
    BY <1>2, ImmediateKnown

-----------------------------------------------------------------------------
\* The prologue.
LEMMA PrepassConstants ==
    ASSUME EmitInv, Prepass
    PROVE  EmitInv'
<1>1. decoded \in Programs /\ ir = LowerStream(decoded) /\ Untouched /\ outcome = "none"
    BY DEF EmitInv, Prepass
<1>2. Accepted
    <2>1. \A k \in Indices : Instr(k).op # "Unsupported"
        BY DEF Prepass, Refusable
    <2>2. \A k \in DOMAIN decoded : decoded[k].opcode \notin {"STS", "LDS", "BarSync"}
        BY DEF Prepass, HasSharedMemory
    <2> QED
        BY <1>1, <2>1, <2>2 DEF Accepted
<1>3. UNCHANGED <<decoded, at, frame, outcome, pc, ir, i, leaders, start, blocks>> /\ stage' = "prologue"
    BY DEF Prepass, vars
<1>4. Needed' = Needed
    BY <1>3 DEF Needed, Indices, N, Instr
<1>5. words' = Immediates
    BY <1>1 DEF Prepass, Immediates, NthNeeded, Rank, Untouched
<1>6. Immediates' = Immediates
    BY <1>4 DEF Immediates, NthNeeded
<1>7. next_id' = 39 + Cardinality(Needed)
    BY <1>1 DEF Prepass, Untouched
<1>8. ImmediateIds'
    <2>1. imm_consts' = [v \in Needed |-> 39 + Rank(Needed, v)]
        BY <1>1 DEF Prepass, Untouched, Rank
    <2> QED
        BY <1>4, <2>1 DEF ImmediateIds
<1>9. Accepted'
    BY <1>2, <1>3 DEF Accepted, Indices, N, Instr
<1>10. Constants'
    BY <1>1, <1>3, <1>4, <1>5, <1>6, <1>7, <1>8, <1>9 DEF Constants, Untouched
<1> QED
    BY <1>1, <1>3, <1>10 DEF EmitInv

\* Concatenations regrouped.
Associative(S) ==
    /\ \A a, b, c \in S : (a \o b) \o c = a \o (b \o c)
    /\ \A a, b \in S : a \o b \in S

\* Sequences of instructions are associative.
LEMMA SequencesAssociative ==
    Associative(Seq(Instruction))
<1>1. \A a, b, c \in Seq(Instruction) : (a \o b) \o c = a \o (b \o c)
    BY Associate
<1>2. \A a, b \in Seq(Instruction) : a \o b \in Seq(Instruction)
    BY ConcatProperties
<1> QED
    BY <1>1, <1>2 DEF Associative

\* A longer piece regrouped.
LEMMA Longer ==
    ASSUME NEW S, Associative(S), NEW h, h \in S, NEW p, p \in S, NEW w, w \in S, NEW q, q = p \o w
    PROVE  h \o q = (h \o p) \o w
<1>1. h \o (p \o w) = (h \o p) \o w
    BY SMTT(30) DEF Associative
<1> QED
    BY <1>1

\* A longer piece is a sequence too.
LEMMA LongerIn ==
    ASSUME NEW S, Associative(S), NEW p, p \in S, NEW w, w \in S, NEW q, q = p \o w
    PROVE  q \in S
BY DEF Associative

Regroups(h, w, o, u, v, x, y, z, s, t) ==
    h \o ((((((((w \o o) \o u) \o v) \o x) \o y) \o z) \o s) \o t)
        = ((((h \o w) \o o) \o u) \o v) \o ((((x \o y) \o z) \o s) \o t)

\* The pieces of the prologue regrouped.
LEMMA Regrouped ==
    ASSUME NEW S, Associative(S), NEW h \in S, NEW w \in S, NEW o \in S, NEW u \in S, NEW v \in S,
           NEW x \in S, NEW y \in S, NEW z \in S, NEW s \in S, NEW t \in S
    PROVE  Regroups(h, w, o, u, v, x, y, z, s, t)
<1> DEFINE p1 == w \o o
<1>p1. p1 = w \o o
    OBVIOUS
<1> HIDE DEF p1
<1>ip1. p1 \in S
    BY LongerIn, <1>p1
<1>ep1. h \o p1 = (h \o w) \o o
    BY Longer, <1>p1, SMTT(30)
<1> DEFINE p2 == p1 \o u
<1>p2. p2 = p1 \o u
    OBVIOUS
<1> HIDE DEF p2
<1>ip2. p2 \in S
    BY LongerIn, <1>p2, <1>ip1
<1>ep2. h \o p2 = (h \o p1) \o u
    BY Longer, <1>p2, <1>ip1, SMTT(30)
<1> DEFINE p3 == p2 \o v
<1>p3. p3 = p2 \o v
    OBVIOUS
<1> HIDE DEF p3
<1>ip3. p3 \in S
    BY LongerIn, <1>p3, <1>ip2
<1>ep3. h \o p3 = (h \o p2) \o v
    BY Longer, <1>p3, <1>ip2, SMTT(30)
<1> DEFINE p4 == p3 \o x
<1>p4. p4 = p3 \o x
    OBVIOUS
<1> HIDE DEF p4
<1>ip4. p4 \in S
    BY LongerIn, <1>p4, <1>ip3
<1>ep4. h \o p4 = (h \o p3) \o x
    BY Longer, <1>p4, <1>ip3, SMTT(30)
<1> DEFINE p5 == p4 \o y
<1>p5. p5 = p4 \o y
    OBVIOUS
<1> HIDE DEF p5
<1>ip5. p5 \in S
    BY LongerIn, <1>p5, <1>ip4
<1>ep5. h \o p5 = (h \o p4) \o y
    BY Longer, <1>p5, <1>ip4, SMTT(30)
<1> DEFINE p6 == p5 \o z
<1>p6. p6 = p5 \o z
    OBVIOUS
<1> HIDE DEF p6
<1>ip6. p6 \in S
    BY LongerIn, <1>p6, <1>ip5
<1>ep6. h \o p6 = (h \o p5) \o z
    BY Longer, <1>p6, <1>ip5, SMTT(30)
<1> DEFINE p7 == p6 \o s
<1>p7. p7 = p6 \o s
    OBVIOUS
<1> HIDE DEF p7
<1>ip7. p7 \in S
    BY LongerIn, <1>p7, <1>ip6
<1>ep7. h \o p7 = (h \o p6) \o s
    BY Longer, <1>p7, <1>ip6, SMTT(30)
<1> DEFINE p8 == p7 \o t
<1>p8. p8 = p7 \o t
    OBVIOUS
<1> HIDE DEF p8
<1>ip8. p8 \in S
    BY LongerIn, <1>p8, <1>ip7
<1>ep8. h \o p8 = (h \o p7) \o t
    BY Longer, <1>p8, <1>ip7, SMTT(30)
<1> DEFINE g == h \o p3
<1>g. g = h \o p3
    OBVIOUS
<1> HIDE DEF g
<1>ig. g \in S
    BY LongerIn, <1>g, <1>ip3
<1> DEFINE q1 == x \o y
<1>q1. q1 = x \o y
    OBVIOUS
<1> HIDE DEF q1
<1>iq1. q1 \in S
    BY LongerIn, <1>q1, <1>ig
<1>eq1. g \o q1 = (g \o x) \o y
    BY Longer, <1>q1, <1>ig, SMTT(30)
<1> DEFINE q2 == q1 \o z
<1>q2. q2 = q1 \o z
    OBVIOUS
<1> HIDE DEF q2
<1>iq2. q2 \in S
    BY LongerIn, <1>q2, <1>ig, <1>iq1
<1>eq2. g \o q2 = (g \o q1) \o z
    BY Longer, <1>q2, <1>ig, <1>iq1, SMTT(30)
<1> DEFINE q3 == q2 \o s
<1>q3. q3 = q2 \o s
    OBVIOUS
<1> HIDE DEF q3
<1>iq3. q3 \in S
    BY LongerIn, <1>q3, <1>ig, <1>iq2
<1>eq3. g \o q3 = (g \o q2) \o s
    BY Longer, <1>q3, <1>ig, <1>iq2, SMTT(30)
<1> DEFINE q4 == q3 \o t
<1>q4. q4 = q3 \o t
    OBVIOUS
<1> HIDE DEF q4
<1>iq4. q4 \in S
    BY LongerIn, <1>q4, <1>ig, <1>iq3
<1>eq4. g \o q4 = (g \o q3) \o t
    BY Longer, <1>q4, <1>ig, <1>iq3, SMTT(30)
<1>10. h \o p8 = g \o q4
    BY <1>ep4, <1>ep5, <1>ep6, <1>ep7, <1>ep8, <1>eq1, <1>eq2, <1>eq3, <1>eq4, <1>g
<1>11. g = (((h \o w) \o o) \o u) \o v
    BY <1>g, <1>ep1, <1>ep2, <1>ep3
<1>12. p8 = ((((((((w \o o) \o u) \o v) \o x) \o y) \o z) \o s) \o t)
    BY <1>p1, <1>p2, <1>p3, <1>p4, <1>p5, <1>p6, <1>p7, <1>p8
<1>13. q4 = (((x \o y) \o z) \o s) \o t
    BY <1>q1, <1>q2, <1>q3, <1>q4
<1> QED
    BY <1>10, <1>11, <1>12, <1>13, Zenon DEF Regroups

\* The pieces of the prologue are sequences of instructions.
LEMMA Pieces ==
    ASSUME NEW m \in Nat, NEW b \in Nat \ {0}
    PROVE  /\ GidLoad(b) \in Seq(Instruction) /\ CountLoad(b) \in Seq(Instruction)
           /\ StoreViews(m, b + 1, b + 2) \in Seq(Instruction)
           /\ StoreViews(m + 9, b + 5, b + 6) \in Seq(Instruction)
           /\ FlattenSeq(BufferLoads(b)) \in Seq(Instruction)
<1>1. /\ b + 1 \in Nat \ {0} /\ b + 2 \in Nat \ {0} /\ b + 4 \in Nat \ {0} /\ b + 5 \in Nat \ {0}
      /\ b + 6 \in Nat \ {0} /\ b # b + 1 /\ b + 4 # b + 5 /\ m + 9 \in Nat /\ b \in Nat
    OBVIOUS
<1>2. \A E, s, D : Code(E, s, D) => s \in Seq(Instruction)
    BY DEF Code
<1>3. {G.const_uint_0, G.const_uint_3, G.var_global_id, G.var_push_params} \subseteq Known(GlobalPairs)
    BY GlobalsKnown
<1>4. GidLoad(b) \in Seq(Instruction)
    <2>1. Code(GlobalPairs, GidLoad(b), {<<b, G.ptr_input_uint>>, <<b + 1, G.type_uint>>})
        BY <1>1, <1>3, ChainLoad, ChainSignatures, LoadSignatures DEF GidLoad
    <2> QED
        BY <1>2, <2>1
<1>5. CountLoad(b) \in Seq(Instruction)
    <2>1. Code(GlobalPairs, CountLoad(b), {<<b + 4, G.ptr_push_uint>>, <<b + 5, G.type_uint>>})
        BY <1>1, <1>3, ChainLoad, ChainSignatures, LoadSignatures DEF CountLoad
    <2> QED
        BY <1>2, <2>1
<1>6. ASSUME NEW u \in Nat, NEW v \in Nat, NEW c \in Nat \ {0}
      PROVE  StoreViews(u, v, c) \in Seq(Instruction)
    <2> DEFINE E == {<<u, G.ptr_fn_uint>>, <<u + 1, G.ptr_fn_float>>, <<u + 2, G.ptr_fn_ulong>>,
                     <<v, G.type_uint>>}
    <2>1. /\ <<u, G.ptr_fn_uint>> \in E /\ <<u + 1, G.ptr_fn_float>> \in E
          /\ <<u + 2, G.ptr_fn_ulong>> \in E /\ <<v, G.type_uint>> \in E
        OBVIOUS
    <2> HIDE DEF E
    <2>2. Code(E, StoreViews(u, v, c), {<<c, G.type_float>>, <<c + 1, G.type_ulong>>})
        BY <2>1, StoreViewsCode
    <2> QED
        BY <1>2, <2>2
<1>7. PICK D : Code(GlobalPairs, FlattenSeq(BufferLoads(b)), D)
    BY BuffersCode
<1>8. StoreViews(m, b + 1, b + 2) \in Seq(Instruction)
    BY <1>1, <1>6
<1>9. StoreViews(m + 9, b + 5, b + 6) \in Seq(Instruction)
    BY <1>1, <1>6
<1>10. FlattenSeq(BufferLoads(b)) \in Seq(Instruction)
    BY <1>2, <1>7
<1> QED
    BY <1>4, <1>5, <1>8, <1>9, <1>10

\* The ids of the prologue: the entry block, the first register, the first of the code.
EntryId == next_id
RegisterId == EntryId + 1
CodeId == RegisterId + 3 * NumRegs + 8 + 1 + 2 + (IF blocks = <<>> THEN 1 ELSE Len(blocks))

PrologueCode(e, m, b) ==
    (((((((words \o Opened(e)) \o VariableRow(m, 3 * NumRegs, RegisterTypes))
          \o VariableRow(m + 3 * NumRegs, 8, PredicateTypes)) \o GidLoad(b))
          \o StoreViews(m, b + 1, b + 2)) \o CountLoad(b))
          \o StoreViews(m + 9, b + 5, b + 6)) \o FlattenSeq(BufferLoads(b))

PrologueFrame(m, b) ==
    [reg0 |-> m, body |-> m + 3 * NumRegs + 8 + 1, exit |-> m + 3 * NumRegs + 8 + 1 + 1,
     gid |-> b + 1, n |-> b + 5, p |-> [k \in 0..2 |-> BufferId(b, k)]]

\* The prologue by its ids.
LEMMA PrologueWords ==
    ASSUME Prologue
    PROVE  /\ words' = PrologueCode(EntryId, RegisterId, CodeId)
           /\ frame' = PrologueFrame(RegisterId, CodeId)
           /\ next_id' = CodeId + 14
<1>1. words' = PrologueCode(EntryId, RegisterId, CodeId)
    BY Zenon DEF Prologue, PrologueCode, CodeId, RegisterId, EntryId
<1>2. frame' = PrologueFrame(RegisterId, CodeId) /\ next_id' = CodeId + 14
    BY Zenon DEF Prologue, PrologueFrame, CodeId, RegisterId, EntryId
<1> QED
    BY <1>1, <1>2

\* The three ids of the prologue.
Numbered(e, m, b) ==
    /\ e = EntryId /\ m = RegisterId /\ b = CodeId
    /\ e = 39 + Cardinality(Needed) /\ m = e + 1
    /\ e \in Nat /\ m \in Nat /\ b \in Nat /\ b > m + 3 * NumRegs + 10
    /\ Cardinality(Needed) \in Nat

\* The ids of the prologue follow the constants.
LEMMA PrologueIds ==
    ASSUME Constants, blocks \in Seq(Block)
    PROVE  Numbered(EntryId, RegisterId, CodeId)
<1>1. Cardinality(Needed) \in Nat /\ next_id = 39 + Cardinality(Needed)
    BY ImmediatesDeclared DEF Constants
<1>2. ASSUME NEW l, l = (IF blocks = <<>> THEN 1 ELSE Len(blocks))
      PROVE  l \in Nat /\ l > 0
    <2>1. CASE blocks = <<>>
        BY <1>2, <2>1
    <2>2. CASE blocks # <<>>
        BY <1>2, <2>2, LenProperties, EmptySeq
    <2> QED
        BY <2>1, <2>2
<1>3. PICK l : l = (IF blocks = <<>> THEN 1 ELSE Len(blocks))
    OBVIOUS
<1>4. l \in Nat /\ l > 0
    BY <1>2, <1>3
<1>5. /\ EntryId = next_id /\ RegisterId = next_id + 1
      /\ CodeId = next_id + 1 + 3 * NumRegs + 8 + 1 + 2 + l
    BY <1>3 DEF EntryId, RegisterId, CodeId
<1>6. PICK n : n = Cardinality(Needed) /\ n \in Nat
    BY <1>1
<1>7. PICK c : c = 3 * NumRegs /\ c \in Nat
    <2>1. NumRegs \in Nat
        BY NumRegsAssumption
    <2> QED
        BY <2>1
<1>8. next_id = 39 + n
    BY <1>1, <1>6
<1>9. EntryId = 39 + n /\ RegisterId = 40 + n /\ CodeId = 51 + n + c + l
    <2>1. 39 + n + 1 = 40 + n /\ 39 + n + 1 + c + 8 + 1 + 2 + l = 51 + n + c + l
        BY <1>4, <1>6, <1>7, SMTT(30)
    <2> QED
        BY <1>5, <1>7, <1>8, <2>1
<1>10. EntryId = 39 + Cardinality(Needed)
    BY <1>6, <1>9
<1>11. /\ 40 + n = (39 + n) + 1 /\ 39 + n \in Nat /\ 40 + n \in Nat /\ 51 + n + c + l \in Nat
       /\ 51 + n + c + l > (40 + n) + c + 10
    BY <1>4, <1>6, <1>7, SMTT(30)
<1>12. /\ RegisterId = EntryId + 1 /\ EntryId \in Nat /\ RegisterId \in Nat /\ CodeId \in Nat
       /\ CodeId > RegisterId + c + 10
    BY <1>9, <1>11, Zenon
<1>13. CodeId > RegisterId + 3 * NumRegs + 10
    BY <1>7, <1>12, Zenon
<1> QED
    BY <1>1, <1>10, <1>12, <1>13, Zenon DEF Numbered

\* The module before the parameters' code.
Declaration(e, m) ==
    (((Header \o Immediates) \o Opened(e)) \o VariableRow(m, 3 * NumRegs, RegisterTypes))
        \o VariableRow(m + 3 * NumRegs, 8, PredicateTypes)

\* The declarations are sequences of instructions.
LEMMA DeclaredPieces ==
    ASSUME Accepted, NEW e \in Nat, e > 38, NEW m \in Nat \ {0}
    PROVE  /\ Header \in Seq(Instruction) /\ Immediates \in Seq(Instruction)
           /\ Opened(e) \in Seq(Instruction)
           /\ VariableRow(m, 3 * NumRegs, RegisterTypes) \in Seq(Instruction)
           /\ VariableRow(m + 3 * NumRegs, 8, PredicateTypes) \in Seq(Instruction)
<1>1. Header \in Seq(Instruction)
    BY HeaderParts
<1>2. Immediates \in Seq(Instruction)
    BY ImmediatesDeclared
<1>3. Types \subseteq Known(HeaderPairs)
    BY HeaderKnown DEF Types
<1>4. Opened(e) \in Seq(Instruction)
    BY <1>3, OpenedPart
<1>5. \A x \in Types : x \in Nat \ {0} /\ x \in Known(HeaderPairs) /\ x # G.var_shared
    BY <1>3, Ids DEF Types
<1>6. ASSUME NEW k \in Nat \ {0}, NEW n \in Nat, NEW type, \A j \in 1 .. n : type[j] \in Types
      PROVE  VariableRow(k, n, type) \in Seq(Instruction)
    <2>1. PICK t : t = VariableRow(k, n, type)
        OBVIOUS
    <2>2. \A j \in 1 .. n : type[j] \in Nat \ {0} /\ type[j] \in Known(HeaderPairs) /\ type[j] # G.var_shared
        BY <1>5, <1>6
    <2>3. t \in Seq(Instruction)
        BY <2>1, <2>2, RowOfVariables
    <2> QED
        BY <2>1, <2>3
<1>7. 3 * NumRegs \in Nat /\ 8 \in Nat /\ m + 3 * NumRegs \in Nat \ {0}
    BY NumRegsAssumption
<1>8. VariableRow(m, 3 * NumRegs, RegisterTypes) \in Seq(Instruction)
    BY <1>6, <1>7, ViewTypes
<1>9. VariableRow(m + 3 * NumRegs, 8, PredicateTypes) \in Seq(Instruction)
    BY <1>6, <1>7, ViewTypes
<1> QED
    BY <1>1, <1>2, <1>4, <1>8, <1>9

\* The module after the prologue is the declarations and the parameters' code.
LEMMA PrologueModule ==
    ASSUME Accepted, words = Immediates, NEW e \in Nat, e > 38, NEW m \in Nat \ {0}, NEW b \in Nat \ {0}
    PROVE  Header \o PrologueCode(e, m, b) = Declaration(e, m) \o Parameters(m, b)
<1> DEFINE S == Seq(Instruction)
           o == Opened(e)
           u == VariableRow(m, 3 * NumRegs, RegisterTypes)
           v == VariableRow(m + 3 * NumRegs, 8, PredicateTypes)
           x == GidLoad(b)
           y == StoreViews(m, b + 1, b + 2)
           z == CountLoad(b)
           s == StoreViews(m + 9, b + 5, b + 6)
           t == FlattenSeq(BufferLoads(b))
<1>1. Associative(S)
    BY SequencesAssociative
<1>2. Header \in S /\ Immediates \in S /\ o \in S /\ u \in S /\ v \in S
    BY DeclaredPieces
<1>3. x \in S /\ y \in S /\ z \in S /\ s \in S /\ t \in S
    BY Pieces
<1>4. PrologueCode(e, m, b)
         = ((((((((Immediates \o o) \o u) \o v) \o x) \o y) \o z) \o s) \o t)
    BY Zenon DEF PrologueCode
<1>5. Declaration(e, m) \o Parameters(m, b)
         = ((((Header \o Immediates) \o o) \o u) \o v) \o ((((x \o y) \o z) \o s) \o t)
    BY Zenon DEF Declaration, Parameters
<1> HIDE DEF S, o, u, v, x, y, z, s, t
<1>6. Regroups(Header, Immediates, o, u, v, x, y, z, s, t)
    BY <1>1, <1>2, <1>3, Regrouped, Zenon
<1> QED
    BY <1>4, <1>5, <1>6, Zenon DEF Regroups

\* What the module is where the prologue ends.
Ready(r, E, f, m, b) ==
    /\ Sound(r) /\ Shaped(r, f) /\ Going(r)
    /\ E \subseteq Exports(r) /\ G.var_shared \notin Known(E)
    /\ Prepared(E, m, b)
    /\ UintRow(Cardinality(Needed)) \subseteq E
    /\ ResultIds(r) \subseteq 1 .. (m + 3 * NumRegs + 7) \cup b .. (b + 13)

\* That module is sound and shaped and provides what the body needs.
LEMMA PrologueReady ==
    ASSUME Accepted, NEW e, NEW m, NEW b, Numbered(e, m, b)
    PROVE  \E E, f : Ready(Declaration(e, m) \o Parameters(m, b), E, f, m, b)
<1>1. PICK n : n = Cardinality(Needed)
    OBVIOUS
<1>2. e = 39 + n /\ m = e + 1 /\ b \in Nat /\ b > m + 3 * NumRegs + 7
    BY <1>1, NumRegsAssumption DEF Numbered
<1>3. \E D : /\ Prelude(Declaration(e, m) \o Parameters(m, b), D, 53 + n, m, b)
             /\ UintRow(n) \subseteq Visible(D)
    BY <1>1, <1>2, PrologueWritten DEF Declaration
<1>4. PICK r : r = Declaration(e, m) \o Parameters(m, b)
    OBVIOUS
<1>5. PICK D : Prelude(r, D, 53 + n, m, b) /\ UintRow(n) \subseteq Visible(D)
    BY <1>3, <1>4
<1>6. Sound(r) /\ Still(r) /\ Adds(r, D) /\ Shaped(r, 53 + n) /\ Going(r) /\ Prepared(Visible(D), m, b)
      /\ Known(D) = 1 .. (m + 3 * NumRegs + 7) \cup b .. (b + 13)
    BY <1>5 DEF Prelude, Writing, Straight
<1>7. Exports(r) = D
    BY <1>6, StillOpen DEF Exports, Adds
<1>8. Visible(D) \subseteq D /\ G.var_shared \notin Known(Visible(D))
    BY VisibleFacts
<1>9. r \in Seq(Instruction)
    BY <1>6 DEF Sound
<1>10. ResultIds(r) = Known(D)
    BY <1>6, <1>9, AddsIds
<1>11. Ready(r, Visible(D), 53 + n, m, b)
    BY <1>1, <1>5, <1>6, <1>7, <1>8, <1>10 DEF Ready
<1> QED
    BY <1>4, <1>11

\* What the prologue writes is a sequence of instructions.
LEMMA PrologueSequence ==
    ASSUME Accepted, words = Immediates, NEW e \in Nat, e > 38, NEW m \in Nat \ {0}, NEW b \in Nat \ {0}
    PROVE  PrologueCode(e, m, b) \in Seq(Instruction)
<1> DEFINE S == Seq(Instruction)
           o == Opened(e)
           u == VariableRow(m, 3 * NumRegs, RegisterTypes)
           v == VariableRow(m + 3 * NumRegs, 8, PredicateTypes)
           x == GidLoad(b)
           y == StoreViews(m, b + 1, b + 2)
           z == CountLoad(b)
           s == StoreViews(m + 9, b + 5, b + 6)
           t == FlattenSeq(BufferLoads(b))
<1>1. \A p, q \in S : p \o q \in S
    BY ConcatProperties
<1>2. Immediates \in S /\ o \in S /\ u \in S /\ v \in S
    BY DeclaredPieces
<1>3. x \in S /\ y \in S /\ z \in S /\ s \in S /\ t \in S
    BY Pieces
<1>4. PrologueCode(e, m, b)
         = ((((((((Immediates \o o) \o u) \o v) \o x) \o y) \o z) \o s) \o t)
    BY Zenon DEF PrologueCode
<1> HIDE DEF S, o, u, v, x, y, z, s, t
<1>5. (Immediates \o o) \o u \in S
    BY <1>1, <1>2, Zenon
<1>6. (((Immediates \o o) \o u) \o v) \o x \in S
    BY <1>1, <1>2, <1>3, <1>5, Zenon
<1>7. (((((Immediates \o o) \o u) \o v) \o x) \o y) \o z \in S
    BY <1>1, <1>3, <1>6, Zenon
<1>8. (((((((Immediates \o o) \o u) \o v) \o x) \o y) \o z) \o s) \o t \in S
    BY <1>1, <1>3, <1>7, Zenon
<1> QED
    BY <1>4, <1>8, Zenon DEF S

\* The prologue establishes what the body needs.
LEMMA PrologueBody ==
    ASSUME EmitInv, CfgInv, Prologue
    PROVE  EmitInv'
<1>1. stage = "prologue" /\ Constants /\ outcome = "none" /\ decoded \in Programs /\ ir = LowerStream(decoded)
    BY DEF EmitInv, Prologue
<1>2. /\ UNCHANGED <<decoded, at, imm_consts, outcome, pc, ir, i, leaders, start, blocks>>
      /\ stage' = "body"
    BY DEF Prologue, vars
<1>3. /\ words' = PrologueCode(EntryId, RegisterId, CodeId)
      /\ frame' = PrologueFrame(RegisterId, CodeId)
      /\ next_id' = CodeId + 14
    BY PrologueWords
<1>4. Numbered(EntryId, RegisterId, CodeId)
    <2>1. blocks \in Seq(Block)
        BY DEF CfgInv, Cutting
    <2> QED
        BY <1>1, <2>1, PrologueIds
<1>5. PICK e, m, b : e = EntryId /\ m = RegisterId /\ b = CodeId
    OBVIOUS
<1>6. PICK n : n = Cardinality(Needed)
    OBVIOUS
<1>7. Accepted /\ ImmediateIds /\ words = Immediates /\ at = 0
    BY <1>1 DEF Constants
<1>8. Numbered(e, m, b)
    BY <1>4, <1>5
<1>9. /\ n \in Nat /\ e = 39 + n /\ m = e + 1 /\ e \in Nat /\ m \in Nat /\ b \in Nat
      /\ b > m + 3 * NumRegs + 10
    BY <1>6, <1>8 DEF Numbered
<1>10. PICK c : c = 3 * NumRegs /\ c \in Nat
    <2>1. NumRegs \in Nat
        BY NumRegsAssumption
    <2> QED
        BY <2>1
<1>11. b > m + c + 10
    BY <1>9, <1>10
<1>12. Module' = Declaration(e, m) \o Parameters(m, b) /\ words' \in Seq(Instruction)
    <2>1. words' = PrologueCode(e, m, b)
        BY <1>3, <1>5
    <2>2. e > 38 /\ m \in Nat \ {0} /\ b \in Nat \ {0}
        BY <1>9, <1>10, <1>11
    <2>3. Header \o PrologueCode(e, m, b) = Declaration(e, m) \o Parameters(m, b)
        BY <1>7, <1>9, <2>2, PrologueModule, ZenonT(60)
    <2>4. PrologueCode(e, m, b) \in Seq(Instruction)
        BY <1>7, <1>9, <2>2, PrologueSequence
    <2> QED
        BY <2>1, <2>3, <2>4 DEF Module
<1>13. PICK E, f : Ready(Declaration(e, m) \o Parameters(m, b), E, f, m, b)
    BY <1>7, <1>8, PrologueReady
<1>14. Ready(Module', E, f, m, b)
    BY <1>12, <1>13
<1>15. /\ frame'.reg0 = m /\ frame'.body = m + c + 9 /\ frame'.exit = m + c + 10
       /\ frame'.gid = b + 1 /\ frame'.n = b + 5
       /\ \A k \in 0 .. 2 : frame'.p[k] = b + 9 + 2 * k
       /\ next_id' = b + 14
    <2>1. frame' = PrologueFrame(m, b) /\ next_id' = b + 14
        BY <1>3, <1>5
    <2>2. m + 3 * NumRegs + 8 + 1 = m + c + 9 /\ m + 3 * NumRegs + 8 + 1 + 1 = m + c + 10
        BY <1>9, <1>10
    <2>3. frame' = [reg0 |-> m, body |-> m + c + 9, exit |-> m + c + 10,
                    gid |-> b + 1, n |-> b + 5, p |-> [k \in 0..2 |-> BufferId(b, k)]]
        BY <2>1, <2>2 DEF PrologueFrame
    <2> QED
        BY <2>1, <2>3 DEF BufferId
<1>16. /\ Prepared(E, m, b) /\ UintRow(n) \subseteq E /\ Types \subseteq Known(E)
       /\ ResultIds(Module') \subseteq 1 .. (m + c + 7) \cup b .. (b + 13)
    BY <1>6, <1>10, <1>14 DEF Ready, Prepared
<1>17. Provides(E)'
    <2>1. \A r \in Registers : RegisterPair(E, r)'
        <3> SUFFICES ASSUME NEW r \in Registers
                     PROVE  RegisterPair(E, r)'
            OBVIOUS
        <3>1. U(r)' = m + 3 * r /\ F(r)' = m + 3 * r + 1 /\ Q(r)' = m + 3 * r + 2
            BY <1>15 DEF U, F, Q
        <3>2. r \in Nat
            BY DEF Registers
        <3>3. m + 3 * r \in Nat
            BY <1>9, <3>2
        <3>4. /\ <<m + 3 * r, G.ptr_fn_uint>> \in E /\ <<m + 3 * r + 1, G.ptr_fn_float>> \in E
              /\ <<m + 3 * r + 2, G.ptr_fn_ulong>> \in E
            BY <1>16 DEF Prepared
        <3> QED
            BY <3>1, <3>3, <3>4 DEF RegisterPair
    <2>2. \A p \in 0 .. 7 : P(p)' \in Nat /\ <<P(p)', G.ptr_fn_bool>> \in E
        <3> SUFFICES ASSUME NEW p \in 0 .. 7
                     PROVE  P(p)' \in Nat /\ <<P(p)', G.ptr_fn_bool>> \in E
            OBVIOUS
        <3>1. P(p)' = m + 3 * NumRegs + p
            BY <1>15 DEF P
        <3>2. m + 3 * NumRegs + p \in Nat
            BY <1>9, <1>10
        <3> QED
            BY <1>16, <3>1, <3>2 DEF Prepared
    <2>3. \A v \in DOMAIN imm_consts : imm_consts[v] \in Nat /\ <<imm_consts[v], G.type_uint>> \in E
        <3> SUFFICES ASSUME NEW v \in DOMAIN imm_consts
                     PROVE  imm_consts[v] \in Nat /\ <<imm_consts[v], G.type_uint>> \in E
            OBVIOUS
        <3>1. imm_consts[v] \in 39 .. (38 + n) /\ <<imm_consts[v], G.type_uint>> \in UintRow(n)
            BY <1>6, <1>7, ImmediatesProvided
        <3> QED
            BY <1>9, <1>16, <3>1
    <2>4. \A v \in DOMAIN imm_consts' : imm_consts'[v] \in Nat /\ <<imm_consts'[v], G.type_uint>> \in E
        BY <1>2, <2>3
    <2>5. GlobalPairs \subseteq E
        BY <1>16 DEF Prepared
    <2> QED
        BY <2>1, <2>2, <2>4, <2>5 DEF Provides
<1>18. Frames(E)'
    <2>1. Loaded(E, b)
        BY <1>16 DEF Prepared
    <2>2. /\ frame'.gid \in Nat /\ <<frame'.gid, G.type_uint>> \in E
          /\ frame'.n \in Nat /\ <<frame'.n, G.type_uint>> \in E
        BY <1>9, <1>15, <2>1 DEF Loaded
    <2>3. ASSUME NEW k \in 0 .. 2
          PROVE  frame'.p[k] \in Nat /\ <<frame'.p[k], G.type_ulong>> \in E
        <3>1. frame'.p[k] = b + 9 + 2 * k
            BY <1>15
        <3>2. CASE k = 0
            BY <1>9, <2>1, <3>1, <3>2 DEF Loaded
        <3>3. CASE k = 1
            BY <1>9, <2>1, <3>1, <3>3 DEF Loaded
        <3>4. CASE k = 2
            BY <1>9, <2>1, <3>1, <3>4 DEF Loaded
        <3> QED
            BY <3>2, <3>3, <3>4
    <2> QED
        BY <2>2, <2>3 DEF Frames
<1>19. ResultIds(Module') \subseteq (1 .. (next_id' - 1)) \ {frame'.body, frame'.exit}
    <2>1. 1 .. (m + c + 7) \cup b .. (b + 13) \subseteq (1 .. ((b + 14) - 1)) \ {m + c + 9, m + c + 10}
        BY <1>9, <1>10, <1>11
    <2> QED
        BY <1>15, <1>16, <2>1
<1>20. Progress(E, f)'
    BY <1>12, <1>14, <1>16, <1>17, <1>18, <1>19 DEF Progress, Ready
<1>21. Needed' = Needed /\ N' = N /\ N \in Nat
    <2>1. N \in Nat
        BY DEF CfgInv, Streamed
    <2> QED
        BY <1>2, <2>1 DEF Needed, Indices, N, Instr
<1>22. Reserved'
    <2>1. b + 14 \in Nat /\ b + 14 > 38 + n /\ m + c + 9 \in 39 .. ((b + 14) - 1)
          /\ m + c + 10 \in 39 .. ((b + 14) - 1) /\ m + c + 9 # m + c + 10
        BY <1>9, <1>10, <1>11
    <2> QED
        BY <1>6, <1>15, <1>21, <2>1 DEF Reserved
<1>23. Accepted' /\ ImmediateIds'
    BY <1>2, <1>7, <1>21 DEF Accepted, Indices, N, Instr, ImmediateIds
<1>24. Body'
    BY <1>2, <1>7, <1>20, <1>21, <1>22, <1>23 DEF Body
<1> QED
    BY <1>1, <1>2, <1>24 DEF EmitInv

-----------------------------------------------------------------------------
\* The translation.
LEMMA ProvidesStays ==
    ASSUME NEW E, Provides(E), Frames(E), UNCHANGED <<frame, imm_consts>>
    PROVE  Provides(E)' /\ Frames(E)'
<1>1. frame' = frame /\ imm_consts' = imm_consts
    OBVIOUS
<1>2. \A r \in Registers : RegisterPair(E, r)'
    BY <1>1 DEF Provides, RegisterPair, U, F, Q
<1>3. \A p \in 0 .. 7 : P(p)' \in Nat /\ <<P(p)', G.ptr_fn_bool>> \in E
    BY <1>1 DEF Provides, P
<1>4. Provides(E)'
    BY <1>1, <1>2, <1>3 DEF Provides
<1>5. Frames(E)'
    BY <1>1 DEF Frames
<1> QED
    BY <1>4, <1>5

\* What the next piece t of the function does to the module.
LEMMA ModuleGrows ==
    ASSUME NEW E, NEW f, Progress(E, f), NEW t, Part(E, t), Chained(t), Begins(t),
           ResultIds(Module) \cap ResultIds(t) = {}, G.var_shared \notin ResultIds(t),
           NEW w, w = words \o t
    PROVE  /\ w \in Seq(Instruction)
           /\ Sound(Header \o w) /\ Shaped(Header \o w, f) /\ Exports(Module) \subseteq Exports(Header \o w)
           /\ Ends(t) => Going(Header \o w)
           /\ Len(t) # 0 => LastOp(Header \o w) = LastOp(t)
           /\ ResultIds(Header \o w) = ResultIds(Module) \cup ResultIds(t)
<1>1. t \in Seq(Instruction) /\ words \in Seq(Instruction) /\ Header \in Seq(Instruction)
    BY HeaderParts DEF Part, Progress
<1>2. words \o t \in Seq(Instruction) /\ Module \in Seq(Instruction)
    BY <1>1, ConcatProperties DEF Module
<1>3. Header \o w = Module \o t
    <2>1. (Header \o words) \o t = Header \o (words \o t)
        BY <1>1, Associate
    <2> QED
        BY <2>1 DEF Module
<1>4. Sound(Module) /\ Shaped(Module, f) /\ Going(Module) /\ E \subseteq Exports(Module)
      /\ G.var_shared \notin Known(E)
    BY DEF Progress
<1>5. Sound(Module \o t) /\ Exports(Module) \subseteq Exports(Module \o t)
    BY <1>4, SoundConcat
<1>6. \A k \in 1 .. Len(t) : G.var_shared \notin Uses(t[k])
    BY <1>4, PartUses
<1>7. /\ Shaped(Module \o t, f)
      /\ Ends(t) => Going(Module \o t)
      /\ Len(t) # 0 => LastOp(Module \o t) = LastOp(t)
    BY <1>1, <1>4, <1>6, ShapedCode
<1>8. ResultIds(Module \o t) = ResultIds(Module) \cup ResultIds(t)
    BY <1>1, <1>2, LabelsConcat
<1>9. w \in Seq(Instruction)
    BY <1>2
<1> HIDE DEF Module
<1> QED
    BY <1>3, <1>5, <1>7, <1>8, <1>9

\* A translated instruction keeps the module legal.
LEMMA TranslateBody ==
    ASSUME EmitInv, CfgInv, Translate
    PROVE  EmitInv'
<1>1. stage = "body" /\ Body /\ outcome = "none" /\ decoded \in Programs /\ ir = LowerStream(decoded)
    BY DEF EmitInv, Translate
<1>2. /\ UNCHANGED <<decoded, stage, imm_consts, frame, outcome, pc, ir, i, leaders, start, blocks>>
      /\ at' = at + 1 /\ at < N
      /\ words' = words \o LowerInstr(Instr(at), next_id).code
      /\ next_id' = next_id + LowerInstr(Instr(at), next_id).ids
    BY DEF Translate, vars
<1>3. Accepted /\ ImmediateIds /\ Reserved /\ at \in 0 .. N /\ N \in Nat
    BY <1>1 DEF Body, CfgInv, Streamed
<1>4. PICK E, f : Progress(E, f)
    BY <1>1 DEF Body
<1>5. at \in Indices
    BY <1>2, <1>3 DEF Indices
<1>6. DOMAIN imm_consts = Needed
    BY <1>3, ImmediatesProvided
<1>7. PICK x : x = LowerInstr(Instr(at), next_id)
    OBVIOUS
<1>8. Cardinality(Needed) \in Nat
    BY <1>3, ImmediatesDeclared
<1>9. next_id \in Nat /\ next_id > 38 /\ frame.body < next_id /\ frame.exit < next_id
      /\ frame.body \in Nat /\ frame.exit \in Nat
    BY <1>3, <1>8 DEF Reserved
<1>10. Lowers(E, x, next_id)
    <2>1. Legal(Instr(at)) /\ Instr(at).guard \in 0 .. 7 /\ Instr(at).inv \in BOOLEAN
        BY <1>3, <1>5, <1>6, LegalAt
    <2>2. Provides(E) /\ Types \subseteq Known(E) /\ next_id \in Nat \ {0}
        BY <1>4, <1>9 DEF Progress
    <2>3. Lowers(E, LowerInstr(Instr(at), next_id), next_id)
        BY <2>1, <2>2, LoweredFragment
    <2> QED
        BY <1>7, <2>3
<1>11. PICK S \in SUBSET (next_id .. (next_id + x.ids - 1)) : Fragment(E, x.code, S)
    BY <1>10 DEF Lowers
<1>12. PICK t, d : t = x.code /\ d = x.ids
    OBVIOUS
<1>13. Part(E, t) /\ Chained(t) /\ Begins(t) /\ Ends(t) /\ ResultIds(t) = S /\ d \in Nat
    BY <1>10, <1>11, <1>12 DEF Fragment, Stretch, Lowers
<1>14. words' = words \o t /\ next_id' = next_id + d /\ S \subseteq next_id .. (next_id + d - 1)
    BY <1>2, <1>7, <1>11, <1>12
<1>15. ResultIds(Module) \subseteq (1 .. (next_id - 1)) \ {frame.body, frame.exit}
    BY <1>4 DEF Progress
<1>16. ResultIds(Module) \cap ResultIds(t) = {} /\ G.var_shared \notin ResultIds(t)
    <2>1. (1 .. (next_id - 1)) \cap (next_id .. (next_id + d - 1)) = {}
          /\ 37 \notin next_id .. (next_id + d - 1)
        BY <1>9, <1>13
    <2>2. G.var_shared = 37
        BY Ids
    <2> QED
        BY <1>13, <1>14, <1>15, <2>1, <2>2
<1>17. /\ words' \in Seq(Instruction)
       /\ Sound(Module') /\ Shaped(Module', f) /\ Exports(Module) \subseteq Exports(Module')
       /\ Going(Module')
       /\ ResultIds(Module') = ResultIds(Module) \cup ResultIds(t)
    <2>1. PICK w : w = words'
        OBVIOUS
    <2>2. w = words \o t
        BY <1>14, <2>1
    <2>3. /\ w \in Seq(Instruction)
          /\ Sound(Header \o w) /\ Shaped(Header \o w, f) /\ Exports(Module) \subseteq Exports(Header \o w)
          /\ Going(Header \o w)
          /\ ResultIds(Header \o w) = ResultIds(Module) \cup ResultIds(t)
        BY <1>4, <1>13, <1>16, <2>2, ModuleGrows
    <2>4. Module' = Header \o w
        BY <2>1 DEF Module
    <2> QED
        BY <2>1, <2>3, <2>4
<1>18. Provides(E)' /\ Frames(E)'
    BY <1>2, <1>4, ProvidesStays DEF Progress
<1>19. ResultIds(Module') \subseteq (1 .. (next_id' - 1)) \ {frame'.body, frame'.exit}
    <2>1. /\ 1 .. (next_id - 1) \subseteq 1 .. ((next_id + d) - 1)
          /\ next_id .. (next_id + d - 1) \subseteq 1 .. ((next_id + d) - 1)
          /\ frame.body \notin next_id .. (next_id + d - 1)
          /\ frame.exit \notin next_id .. (next_id + d - 1)
        BY <1>9, <1>13
    <2>2. frame' = frame
        BY <1>2
    <2> QED
        BY <1>13, <1>14, <1>15, <1>17, <2>1, <2>2
<1>20. Progress(E, f)'
    <2>1. E \subseteq Exports(Module) /\ G.var_shared \notin Known(E) /\ Types \subseteq Known(E)
        BY <1>4 DEF Progress
    <2> QED
        BY <1>17, <1>18, <1>19, <2>1 DEF Progress
<1>21. Needed' = Needed /\ N' = N
    BY <1>2 DEF Needed, Indices, N, Instr
<1>22. Reserved'
    <2>1. /\ next_id + d \in Nat /\ next_id + d > 38 + Cardinality(Needed)
          /\ frame.body \in 39 .. ((next_id + d) - 1) /\ frame.exit \in 39 .. ((next_id + d) - 1)
        BY <1>3, <1>8, <1>9, <1>13 DEF Reserved
    <2>2. frame' = frame /\ frame.body # frame.exit
        BY <1>2, <1>3 DEF Reserved
    <2> QED
        BY <1>14, <1>21, <2>1, <2>2 DEF Reserved
<1>23. Accepted' /\ ImmediateIds'
    BY <1>2, <1>3, <1>21 DEF Accepted, Indices, N, Instr, ImmediateIds
<1>24. at' \in 0 .. N
    BY <1>2, <1>3
<1>25. Body'
    BY <1>20, <1>21, <1>22, <1>23, <1>24 DEF Body
<1> QED
    BY <1>1, <1>2, <1>25 DEF EmitInv

-----------------------------------------------------------------------------
\* The epilogue.
LEMMA EpilogueFinishes ==
    ASSUME EmitInv, CfgInv, Epilogue
    PROVE  EmitInv'
<1>1. stage = "body" /\ Body /\ decoded \in Programs /\ ir = LowerStream(decoded)
    BY DEF EmitInv, Epilogue
<1>2. /\ UNCHANGED <<decoded, at, imm_consts, frame, pc, ir, i, leaders, start, blocks>>
      /\ at = N /\ stage' = "done" /\ outcome' = "module"
      /\ words' = words \o EpilogueCode(next_id) /\ next_id' = next_id + 12
    BY DEF Epilogue, AllTranslated, vars
<1>3. Accepted /\ ImmediateIds /\ Reserved
    BY <1>1 DEF Body
<1>4. PICK E, f : Progress(E, f)
    BY <1>1 DEF Body
<1>5. Cardinality(Needed) \in Nat
    BY <1>3, ImmediatesDeclared
<1>6. /\ next_id \in Nat \ {0} /\ next_id > 38 + Cardinality(Needed)
      /\ frame.body \in 39 .. (next_id - 1) /\ frame.exit \in 39 .. (next_id - 1)
      /\ frame.body \in Nat \ {0} /\ frame.exit \in Nat \ {0}
      /\ frame.body < next_id /\ frame.exit < next_id /\ frame.body # frame.exit
    BY <1>3, <1>5 DEF Reserved
<1>7. PICK t : t = EpilogueCode(next_id)
    OBVIOUS
<1>8. PICK S : S = next_id .. (next_id + 11) \cup {frame.body, frame.exit}
    OBVIOUS
<1>9. Closing(E, t, S)
    <2>1. Provides(E) /\ Frames(E) /\ Types \subseteq Known(E)
        BY <1>4 DEF Progress
    <2>2. Closing(E, EpilogueCode(next_id), next_id .. (next_id + 11) \cup {frame.body, frame.exit})
        BY <1>6, <2>1, EpilogueCloses
    <2> QED
        BY <1>7, <1>8, <2>2
<1>10. Part(E, t) /\ Chained(t) /\ Begins(t) /\ ResultIds(t) = S /\ Len(t) # 0 /\ LastOp(t) = "FunctionEnd"
    BY <1>9 DEF Closing, LastOp
<1>11. ResultIds(Module) \subseteq (1 .. (next_id - 1)) \ {frame.body, frame.exit}
    BY <1>4 DEF Progress
<1>12. ResultIds(Module) \cap ResultIds(t) = {} /\ G.var_shared \notin ResultIds(t)
    <2>1. (1 .. (next_id - 1)) \cap (next_id .. (next_id + 11)) = {}
          /\ 37 \notin next_id .. (next_id + 11) /\ 37 # frame.body /\ 37 # frame.exit
        BY <1>5, <1>6
    <2>2. G.var_shared = 37
        BY Ids
    <2> QED
        BY <1>8, <1>10, <1>11, <2>1, <2>2
<1>13. /\ Sound(Module') /\ Shaped(Module', f) /\ LastOp(Module') = "FunctionEnd"
       /\ ResultIds(Module') = ResultIds(Module) \cup ResultIds(t)
    <2>1. PICK w : w = words'
        OBVIOUS
    <2>2. w = words \o t
        BY <1>2, <1>7, <2>1
    <2>3. /\ Sound(Header \o w) /\ Shaped(Header \o w, f) /\ LastOp(Header \o w) = LastOp(t)
          /\ ResultIds(Header \o w) = ResultIds(Module) \cup ResultIds(t)
        BY <1>4, <1>10, <1>12, <2>2, ModuleGrows
    <2>4. Module' = Header \o w
        BY <2>1 DEF Module
    <2> QED
        BY <1>10, <2>3, <2>4
<1>14. ResultIds(Module') \subseteq 1 .. (next_id' - 1)
    <2>1. /\ 1 .. (next_id - 1) \subseteq 1 .. ((next_id + 12) - 1)
          /\ next_id .. (next_id + 11) \subseteq 1 .. ((next_id + 12) - 1)
          /\ frame.body \in 1 .. ((next_id + 12) - 1) /\ frame.exit \in 1 .. ((next_id + 12) - 1)
        BY <1>6
    <2> QED
        BY <1>2, <1>8, <1>10, <1>11, <1>13, <2>1
<1>15. Needed' = Needed /\ N' = N
    BY <1>2 DEF Needed, Indices, N, Instr
<1>16. Accepted' /\ ImmediateIds'
    BY <1>2, <1>3, <1>15 DEF Accepted, Indices, N, Instr, ImmediateIds
<1>17. Finished'
    <2>1. next_id' \in Nat /\ next_id' > 38 + Cardinality(Needed')
        BY <1>2, <1>5, <1>6, <1>15
    <2> QED
        BY <1>2, <1>13, <1>14, <1>15, <1>16, <2>1 DEF Finished
<1> QED
    BY <1>1, <1>2, <1>17 DEF EmitInv

\* The other steps write nothing.
LEMMA SilentSteps ==
    ASSUME EmitInv, BuildBlocks \/ Refuse \/ FastPath \/ UNCHANGED <<vars, emitVars>>
    PROVE  EmitInv'
<1>1. CASE BuildBlocks
    <2>1. stage = "build" /\ UNCHANGED <<decoded, stage, at, next_id, words, imm_consts, frame, outcome, ir>>
        BY <1>1 DEF BuildBlocks, emitVars, Scan, EndScan, Cut, EndCut
    <2> QED
        BY <2>1 DEF EmitInv, Untouched
<1>2. CASE Refuse \/ FastPath
    <2>1. /\ stage = "build" /\ stage' = "done" /\ outcome' \in {"error", "reduction"}
          /\ UNCHANGED <<decoded, at, next_id, words, imm_consts, frame, ir>>
        BY <1>2 DEF Refuse, FastPath, Finish, vars
    <2> QED
        BY <2>1 DEF EmitInv, Untouched
<1>3. CASE UNCHANGED <<vars, emitVars>>
    <2>1. UNCHANGED <<decoded, stage, at, next_id, words, imm_consts, frame, outcome, ir>>
        BY <1>3 DEF vars, emitVars
    <2>2. Needed' = Needed /\ N' = N /\ Module' = Module
        BY <2>1 DEF Needed, Indices, N, Instr, Module
    <2>3. Accepted' = Accepted /\ ImmediateIds' = ImmediateIds
        BY <2>1, <2>2 DEF Accepted, Indices, N, Instr, ImmediateIds
    <2>4. Untouched => Untouched'
        BY <2>1 DEF Untouched
    <2>5. Constants => Constants'
        BY <2>1, <2>2, <2>3 DEF Constants, Immediates, NthNeeded
    <2>6. ASSUME Body
          PROVE  Body'
        <3>1. PICK E, f : Progress(E, f)
            BY <2>6 DEF Body
        <3>2. Provides(E)' /\ Frames(E)'
            BY <2>1, <3>1, ProvidesStays DEF Progress
        <3>3. Progress(E, f)'
            BY <2>1, <2>2, <3>1, <3>2 DEF Progress
        <3>4. Reserved'
            BY <2>1, <2>2, <2>6 DEF Body, Reserved
        <3> QED
            BY <2>1, <2>2, <2>3, <2>6, <3>3, <3>4 DEF Body
    <2>7. Finished => Finished'
        BY <2>1, <2>2, <2>3 DEF Finished
    <2> QED
        BY <2>1, <2>4, <2>5, <2>6, <2>7 DEF EmitInv
<1> QED
    BY <1>1, <1>2, <1>3

\* What is written is legal at every stage, whatever the program (lifter.rs:261-970).
THEOREM EmitInvariant == EmitSpec => []EmitInv
<1>1. EmitInit => EmitInv
    BY InitEmitInv
<1>2. EmitInv /\ CfgInv /\ [EmitNext]_<<vars, emitVars>> => EmitInv'
    <2> SUFFICES ASSUME EmitInv, CfgInv, [EmitNext]_<<vars, emitVars>>
                 PROVE  EmitInv'
        OBVIOUS
    <2>1. CASE Prepass
        BY <2>1, PrepassConstants
    <2>2. CASE Prologue
        BY <2>2, PrologueBody
    <2>3. CASE Translate
        BY <2>3, TranslateBody
    <2>4. CASE Epilogue
        BY <2>4, EpilogueFinishes
    <2>5. CASE BuildBlocks \/ Refuse \/ FastPath \/ UNCHANGED <<vars, emitVars>>
        BY <2>5, SilentSteps
    <2> QED
        BY <2>1, <2>2, <2>3, <2>4, <2>5 DEF EmitNext
<1>3. EmitSpec => []CfgInv
    BY EmitterBuildsCfg, CfgInvariant, PTL
<1> QED
    BY <1>1, <1>2, <1>3, PTL DEF EmitSpec
=============================================================================
