----------------------------- MODULE SpirvRules -----------------------------
(***************************************************************************)
(* What makes a sequence of instructions a valid module: the rules of the  *)
(* SPIR-V specification that spirv-val enforces on the instructions the    *)
(* lifter emits (docs/architecture.md:77 gates its output on spirv-val).   *)
(***************************************************************************)
EXTENDS SpirvModule, FiniteSets

Terminators == {"Branch", "BranchConditional", "Return"}

\* The logical layout: the sections in their order.
Sections ==
    <<{"Capability"}, {"Extension"}, {"MemoryModel"}, {"EntryPoint"}, {"ExecutionMode"},
      {"Decorate", "MemberDecorate"},
      {"TypeVoid", "TypeFunction", "TypeBool", "TypeInt", "TypeFloat", "TypeVector", "TypePointer",
       "TypeStruct", "TypeArray", "Constant", "Variable"}>>

FunctionStart(words) ==
    CHOOSE k \in DOMAIN words : words[k].op = "Function" /\ \A j \in 1..(k - 1) : words[j].op # "Function"

InLayout(words) ==
    LET start   == FunctionStart(words)
        rank(k) == CHOOSE s \in DOMAIN Sections : words[k].op \in Sections[s]
    IN  /\ \A k \in 1..(start - 1) : \E s \in DOMAIN Sections : words[k].op \in Sections[s]
        /\ \A k \in 2..(start - 1) : rank(k - 1) <= rank(k)
        /\ \A k \in start..Len(words) : words[k].op = "Variable" \/ \A s \in DOMAIN Sections :
                                                                     words[k].op \notin Sections[s]
        /\ Last(words).op = "FunctionEnd"

\* The body of the function is a sequence of blocks: a label, variables in the first
\* block only and first in it, and one terminator; a conditional branch follows a merge
\* instruction, one of its targets may be the merge block, and every target of a
\* branch is the label of one later block.
InBlocks(words) ==
    LET start == FunctionStart(words)
        later(k, label) == Cardinality({j \in (k + 1)..Len(words) :
                                            words[j].op = "Label" /\ words[j].id = label}) = 1
    IN  \A k \in (start + 1)..Len(words) :
            LET before == words[k - 1].op
                w == words[k]
            IN  /\ w.op \in {"Label", "FunctionEnd"} <=> before \in Terminators \cup {"Function"}
                /\ w.op = "Variable" => before = "Variable" \/ k = start + 2
                /\ w.op = "BranchConditional" => before = "SelectionMerge"
                /\ before = "SelectionMerge" => w.op = "BranchConditional"
                /\ w.op \in {"Branch", "BranchConditional", "SelectionMerge"} =>
                     \A x \in DOMAIN w.lits : later(k, w.lits[x])

-----------------------------------------------------------------------------
ResultIds(words) == {words[k].id : k \in DOMAIN words} \ {0}

DefinedOnce(words) ==
    Cardinality(ResultIds(words)) = Cardinality({k \in DOMAIN words : words[k].id # 0})

\* Instructions that name what is declared after them.
Forward == {"EntryPoint", "ExecutionMode", "Decorate", "MemberDecorate"}

Uses(w) ==
    IF w.op \in Forward THEN {}
    ELSE ToSet(w.args) \cup (IF w.type = 0 THEN {} ELSE {w.type})

\* The branches, from the place of each to that of a label it may go to.
Jumps(words) ==
    LET branches == {k \in DOMAIN words : words[k].op \in {"Branch", "BranchConditional"}}
        labels   == {k \in DOMAIN words : words[k].op = "Label"}
    IN  {j \in branches \X labels : words[j[2]].id \in ToSet(words[j[1]].lits)}

\* Every use is of an id defined earlier, on every path: as branches only go forward, no
\* branch passes over the definition on the way to the use.
DefsDominateUses(words) ==
    LET jumps == Jumps(words)
        Dominates(d, u) == \A j \in jumps : ~(j[1] < d /\ d < j[2] /\ j[2] <= u)
    IN  \A u \in DOMAIN words : \A x \in Uses(words[u]) :
            \E d \in 1..(u - 1) : words[d].id = x /\ Dominates(d, u)

-----------------------------------------------------------------------------
\* The instruction that defines each id.
Definitions(words) ==
    [x \in ResultIds(words) |-> words[CHOOSE k \in DOMAIN words : words[k].id = x]]

\* The type of x, and the operation, the storage class and the pointee of that type.
TypeOf(def, x)  == def[x].type
Kind(def, x)    == def[TypeOf(def, x)].op
Class(def, x)   == def[TypeOf(def, x)].lits[1]
Pointee(def, x) == def[TypeOf(def, x)].args[1]

\* The type of a component of a structure, by the value of a constant, or of an array.
Component(def, t, index) ==
    IF def[t].op = "TypeStruct" THEN def[t].args[def[index].lits[1] + 1] ELSE def[t].args[1]

Same(def, w) == \A x \in DOMAIN w.args : TypeOf(def, w.args[x]) = w.type

OperandsAgree(def, w) ==
    CASE w.op = "Load"        -> Pointee(def, w.args[1]) = w.type
      [] w.op = "Store"       -> Pointee(def, w.args[1]) = TypeOf(def, w.args[2])
      [] w.op \in {"IAdd", "IMul", "UMod"} -> Kind(def, w.id) = "TypeInt" /\ Same(def, w)
      [] w.op \in {"FAdd", "FMul"} -> Kind(def, w.id) = "TypeFloat" /\ Same(def, w)
      [] w.op \in {"INotEqual", "ULessThan"} ->
           /\ Kind(def, w.id) = "TypeBool" /\ Kind(def, w.args[1]) = "TypeInt"
           /\ TypeOf(def, w.args[1]) = TypeOf(def, w.args[2])
      [] w.op = "LogicalNot"  -> Kind(def, w.id) = "TypeBool" /\ Same(def, w)
      [] w.op = "ConvertUToF" -> Kind(def, w.id) = "TypeFloat" /\ Kind(def, w.args[1]) = "TypeInt"
      [] w.op = "ConvertFToU" -> Kind(def, w.id) = "TypeInt" /\ Kind(def, w.args[1]) = "TypeFloat"
      [] w.op = "UConvert"    ->
           /\ Kind(def, w.id) = "TypeInt" /\ Kind(def, w.args[1]) = "TypeInt"
           /\ TypeOf(def, w.args[1]) # w.type
      [] w.op = "ConvertUToPtr" ->
           Class(def, w.id) = "PhysicalStorageBuffer" /\ TypeOf(def, w.args[1]) = G.type_ulong
      [] w.op = "AccessChain" ->
           /\ Class(def, w.id) = Class(def, w.args[1])
           /\ Pointee(def, w.id) = Component(def, Pointee(def, w.args[1]), w.args[2])
      [] w.op = "BranchConditional" -> Kind(def, w.args[1]) = "TypeBool"
      [] OTHER -> TRUE

WellTyped(words) == \A k \in DOMAIN words : OperandsAgree(Definitions(words), words[k])

-----------------------------------------------------------------------------
\* From SPIR-V 1.4 on, an entry point lists every global variable its function uses.
InterfaceComplete(words) ==
    LET entry   == CHOOSE k \in DOMAIN words : words[k].op = "EntryPoint"
        start   == FunctionStart(words)
        globals == {words[k].id : k \in {j \in 1..(start - 1) : words[j].op = "Variable"}}
    IN  \A k \in start..Len(words) : Uses(words[k]) \cap globals \subseteq ToSet(words[entry].args)
=============================================================================
