--------------------------- MODULE SassLiftProofs ---------------------------
(***************************************************************************)
(* What the module is that try_lift gives out, and what it does when it    *)
(* runs, for every program: it is valid, and the registers, the predicates *)
(* and global memory end as the SASS program and the kernel ABI say.       *)
(***************************************************************************)
EXTENDS SassEmitProofs

-----------------------------------------------------------------------------
(***************************************************************************)
(* The module is valid.                                                    *)
(***************************************************************************)
\* The invariant implies the types.
LEMMA EmitTypesFromInv == EmitInv /\ CfgInv => EmitTypeOK
<1> SUFFICES ASSUME EmitInv, CfgInv
             PROVE  EmitTypeOK
    OBVIOUS
<1>1. TypeOK
    BY TypesFromInv
<1>2. N \in Nat
    BY DEF CfgInv, Streamed
<1>3. stage \in {"build", "prologue", "body", "done"} /\ (outcome = "none" <=> stage # "done")
    BY DEF EmitInv
<1>4. outcome \in {"none", "error", "reduction", "module"}
    BY DEF EmitInv
<1> DEFINE Good ==
        /\ at \in 0..N /\ next_id \in Nat /\ (\A v \in DOMAIN imm_consts : imm_consts[v] < next_id)
        /\ outcome = "module" => at = N
<1>5. ASSUME Accepted, ImmediateIds, next_id \in Nat, next_id > 38 + Cardinality(Needed)
      PROVE  \A v \in DOMAIN imm_consts : imm_consts[v] < next_id
    <2>1. Cardinality(Needed) \in Nat
        BY <1>5, ImmediatesDeclared
    <2>2. \A v \in DOMAIN imm_consts : imm_consts[v] \in 39 .. (38 + Cardinality(Needed))
        BY <1>5, ImmediatesProvided
    <2> QED
        BY <1>5, <2>1, <2>2
<1>6. CASE stage = "build" \/ outcome \in {"error", "reduction"}
    <2>1. next_id = 39 /\ imm_consts = <<>> /\ at = 0 /\ outcome # "module"
        BY <1>3, <1>6 DEF EmitInv, Untouched
    <2>2. Good
        BY <1>2, <2>1
    <2> QED
        BY <1>1, <1>3, <2>2 DEF EmitTypeOK
<1>7. CASE stage = "prologue"
    <2>1. Accepted /\ ImmediateIds /\ next_id = 39 + Cardinality(Needed) /\ at = 0 /\ outcome = "none"
        BY <1>7 DEF EmitInv, Constants
    <2>2. Cardinality(Needed) \in Nat
        BY <2>1, ImmediatesDeclared
    <2>3. next_id \in Nat /\ next_id > 38 + Cardinality(Needed)
        BY <2>1, <2>2
    <2>4. Good
        BY <1>2, <1>5, <2>1, <2>3
    <2> QED
        BY <1>1, <1>3, <2>4 DEF EmitTypeOK
<1>8. CASE stage = "body"
    <2>1. Accepted /\ ImmediateIds /\ Reserved /\ at \in 0..N /\ outcome = "none"
        BY <1>8 DEF EmitInv, Body
    <2>2. Good
        BY <1>5, <2>1 DEF Reserved
    <2> QED
        BY <1>1, <1>3, <2>2 DEF EmitTypeOK
<1>9. CASE outcome = "module"
    <2>1. /\ Accepted /\ ImmediateIds /\ at = N /\ next_id \in Nat
          /\ next_id > 38 + Cardinality(Needed)
        BY <1>9 DEF EmitInv, Finished
    <2>2. Good
        BY <1>2, <1>5, <2>1
    <2> QED
        BY <1>1, <1>3, <2>2 DEF EmitTypeOK
<1> QED
    BY <1>3, <1>4, <1>6, <1>7, <1>8, <1>9

\* The types hold in every reachable state.
THEOREM EmitterTypes == EmitSpec => []EmitTypeOK
<1>1. EmitSpec => []CfgInv
    BY EmitterBuildsCfg, CfgInvariant, PTL
<1> QED
    BY <1>1, EmitInvariant, EmitTypesFromInv, PTL

\* Once is the rules' DefinedOnce.
LEMMA OnceDefined ==
    ASSUME NEW s \in Seq(Instruction), Once(s)
    PROVE  DefinedOnce(s)
<1> DEFINE S == {k \in DOMAIN s : s[k].id # 0}
           T == ResultIds(s)
           h == [k \in S |-> s[k].id]
<1>1. DOMAIN s = 1 .. Len(s) /\ Len(s) \in Nat
    BY LenProperties
<1>2. IsFiniteSet(S)
    <2>1. IsFiniteSet(1 .. Len(s))
        BY <1>1, FS_Interval
    <2>2. S \in SUBSET (1 .. Len(s))
        BY <1>1
    <2> QED
        BY <2>1, <2>2, FS_Subset
<1>3. h \in [S -> T]
    BY DEF ResultIds
<1>4. \A x, y \in S : h[x] = h[y] => x = y
    BY <1>1 DEF Once
<1>5. \A x \in T : \E k \in S : h[k] = x
    BY DEF ResultIds
<1>6. h \in Bijection(S, T)
    BY <1>3, <1>4, <1>5 DEF Bijection, Injection, Surjection, IsInjective
<1>7. ExistsBijection(S, T)
    BY <1>6 DEF ExistsBijection
<1>8. Cardinality(T) = Cardinality(S)
    BY <1>2, <1>7, FS_Bijection
<1> QED
    BY <1>8 DEF DefinedOnce

\* A definition that is open or near dominates its uses.
LEMMA SoundDominates ==
    ASSUME NEW s, Sound(s)
    PROVE  DefsDominateUses(s)
<1>1. s \in Seq(Instruction) /\ \A u \in 1 .. Len(s) : Fit(Open(s, u) \cup Near(s, u), s[u])
    BY DEF Sound
<1>2. DOMAIN s = 1 .. Len(s) /\ Len(s) \in Nat
    BY <1>1, LenProperties
<1> SUFFICES ASSUME NEW u \in 1 .. Len(s), NEW x \in Uses(s[u])
             PROVE  \E d \in 1 .. (u - 1) :
                       s[d].id = x /\ \A j \in Jumps(s) : ~(j[1] < d /\ d < j[2] /\ j[2] <= u)
    BY <1>2 DEF DefsDominateUses
<1>3. x \in Known(Open(s, u) \cup Near(s, u))
    BY <1>1 DEF Fit
<1>4. \A j \in Jumps(s) : /\ j[1] \in 1 .. Len(s) /\ s[j[1]].op \in Jumping
                          /\ j[2] \in 1 .. Len(s) /\ s[j[2]].op = "Label"
    BY <1>2 DEF Jumps, Jumping
<1>5. PICK d \in OpenAt(s, u) \cup NearAt(s, u) : s[d].id = x
    BY <1>3 DEF Known, Open, Near, PairAt
<1>6. d \in 1 .. Len(s) /\ d < u
    BY <1>5 DEF OpenAt, NearAt
<1>7. d \in 1 .. (u - 1)
    BY <1>2, <1>6
<1>8. ASSUME NEW j \in Jumps(s), j[1] < d, d < j[2], j[2] <= u
      PROVE  FALSE
    BY <1>4, <1>5, <1>8 DEF OpenAt, NearAt
<1> QED
    BY <1>5, <1>7, <1>8

\* The invariant implies that no undefined id is consumed.
LEMMA NoUndefinedFromInv == EmitInv => NoUndefinedId
<1> SUFFICES ASSUME EmitInv, Translated
             PROVE  /\ DefinedOnce(Module) /\ \A x \in ResultIds(Module) : x < next_id
                    /\ DefsDominateUses(Module)
    BY DEF NoUndefinedId
<1>1. Finished
    BY DEF EmitInv, Translated
<1>2. Sound(Module) /\ ResultIds(Module) \subseteq 1 .. (next_id - 1) /\ next_id \in Nat
    BY <1>1 DEF Finished
<1>3. Module \in Seq(Instruction) /\ Once(Module)
    BY <1>2 DEF Sound
<1>4. DefinedOnce(Module)
    BY <1>3, OnceDefined
<1>5. DefsDominateUses(Module)
    BY <1>2, SoundDominates
<1>6. \A x \in ResultIds(Module) : x < next_id
    BY <1>2
<1> QED
    BY <1>4, <1>5, <1>6

\* lifter.rs:755-757: whatever the program, no undefined id is consumed on any path, none is
\* defined twice, and every id is below the header's bound.
THEOREM NoIdUndefined == EmitSpec => []NoUndefinedId
BY EmitInvariant, NoUndefinedFromInv, PTL

-----------------------------------------------------------------------------
(***************************************************************************)
(* The layout of the module.                                               *)
(***************************************************************************)
\* The sections of the layout.
LEMMA SectionsAre ==
    /\ DOMAIN Sections = 1 .. 7
    /\ Sections[1] = {"Capability"} /\ Sections[2] = {"Extension"} /\ Sections[3] = {"MemoryModel"}
    /\ Sections[4] = {"EntryPoint"} /\ Sections[5] = {"ExecutionMode"}
    /\ Sections[6] = {"Decorate", "MemberDecorate"}
    /\ Sections[7] = {"TypeVoid", "TypeFunction", "TypeBool", "TypeInt", "TypeFloat", "TypeVector",
                      "TypePointer", "TypeStruct", "TypeArray", "Constant", "Variable"}
BY DEF Sections

\* An operation is of one section at most.
LEMMA SectionsApart ==
    ASSUME NEW s \in 1 .. 7, NEW t \in 1 .. 7, NEW op \in Sections[s], op \in Sections[t]
    PROVE  s = t
<1> DEFINE Sec(x) == IF x = "Capability" THEN 1 ELSE IF x = "Extension" THEN 2
                     ELSE IF x = "MemoryModel" THEN 3 ELSE IF x = "EntryPoint" THEN 4
                     ELSE IF x = "ExecutionMode" THEN 5
                     ELSE IF x \in {"Decorate", "MemberDecorate"} THEN 6 ELSE 7
<1>1. ASSUME NEW k \in 1 .. 7, op \in Sections[k]
      PROVE  Sec(op) = k
    <2>1. CASE k = 1
        BY <1>1, <2>1, SectionsAre
    <2>2. CASE k = 2
        BY <1>1, <2>2, SectionsAre
    <2>3. CASE k = 3
        BY <1>1, <2>3, SectionsAre
    <2>4. CASE k = 4
        BY <1>1, <2>4, SectionsAre
    <2>5. CASE k = 5
        BY <1>1, <2>5, SectionsAre
    <2>6. CASE k = 6
        BY <1>1, <2>6, SectionsAre
    <2>7. CASE k = 7
        <3>1. op \in {"TypeVoid", "TypeFunction", "TypeBool", "TypeInt", "TypeFloat", "TypeVector",
                      "TypePointer", "TypeStruct", "TypeArray", "Constant", "Variable"}
            BY <1>1, <2>7, SectionsAre
        <3> QED
            BY <2>7, <3>1
    <2> QED
        BY <2>1, <2>2, <2>3, <2>4, <2>5, <2>6, <2>7
<1>2. Sec(op) = s /\ Sec(op) = t
    BY <1>1
<1> QED
    BY <1>2

\* The operations of a function are of no section, but for its variables.
LEMMA FunctionOpsApart ==
    ASSUME NEW op \in FunctionOps \cup {"Function"}
    PROVE  /\ op # "Variable" /\ op # "EntryPoint"
           /\ \A s \in 1 .. 7 : op \notin Sections[s]
<1>1. op \in BodyOps \cup {"Label", "SelectionMerge", "BranchConditional", "Branch", "Return",
                           "FunctionEnd", "Function"}
    BY DEF FunctionOps
<1>2. op \notin {"Capability", "Extension", "MemoryModel", "EntryPoint", "ExecutionMode", "Decorate",
                 "MemberDecorate", "TypeVoid", "TypeFunction", "TypeBool", "TypeInt", "TypeFloat",
                 "TypeVector", "TypePointer", "TypeStruct", "TypeArray", "Constant", "Variable"}
    <2>1. CASE op \in BodyOps
        BY <2>1 DEF BodyOps
    <2>2. CASE op \notin BodyOps
        BY <1>1, <2>2
    <2> QED
        BY <2>1, <2>2
<1>3. ASSUME NEW s \in 1 .. 7, op \in Sections[s]
      PROVE  FALSE
    <2>1. s = 1 \/ s = 2 \/ s = 3 \/ s = 4 \/ s = 5 \/ s = 6 \/ s = 7
        OBVIOUS
    <2>2. CASE s = 7
        BY <1>2, <1>3, <2>2, SectionsAre
    <2>3. CASE s # 7
        BY <1>2, <1>3, <2>1, <2>3, SectionsAre, SMTT(30)
    <2> QED
        BY <2>2, <2>3
<1> QED
    BY <1>2, <1>3

\* The section of the instruction at place k before the function.
Place(k) ==
    IF k \in 1 .. 3 THEN 1 ELSE IF k = 4 THEN 2 ELSE IF k = 5 THEN 3 ELSE IF k = 6 THEN 4
    ELSE IF k = 7 THEN 5 ELSE IF k \in 8 .. 15 THEN 6 ELSE 7

\* The declarations of types, one by one.
LEMMA TypeTable ==
    /\ Len(TypeDeclarations) = 20
    /\ TypeDeclarations[1] = Def("TypeVoid", G.type_void, <<>>, <<>>)
    /\ TypeDeclarations[2] = Def("TypeFunction", G.type_func, <<G.type_void>>, <<>>)
    /\ TypeDeclarations[3] = Def("TypeBool", G.type_bool, <<>>, <<>>)
    /\ TypeDeclarations[4] = Def("TypeInt", G.type_uint, <<>>, <<32>>)
    /\ TypeDeclarations[5] = Def("TypeInt", G.type_ulong, <<>>, <<64>>)
    /\ TypeDeclarations[6] = Def("TypeFloat", G.type_float, <<>>, <<32>>)
    /\ TypeDeclarations[7] = Def("TypeVector", G.type_v3uint, <<G.type_uint>>, <<3>>)
    /\ TypeDeclarations[8] = Pointer(G.ptr_input_v3uint, "Input", G.type_v3uint)
    /\ TypeDeclarations[9] = Pointer(G.ptr_input_uint, "Input", G.type_uint)
    /\ TypeDeclarations[10] = Pointer(G.ptr_psb_float, "PhysicalStorageBuffer", G.type_float)
    /\ TypeDeclarations[11] = Pointer(G.ptr_psb_uint, "PhysicalStorageBuffer", G.type_uint)
    /\ TypeDeclarations[12] = Pointer(G.ptr_workgroup_float, "Workgroup", G.type_float)
    /\ TypeDeclarations[13] =
          Def("TypeStruct", G.type_push_params, <<G.type_ulong, G.type_ulong, G.type_ulong, G.type_uint>>, <<>>)
    /\ TypeDeclarations[14] = Pointer(G.ptr_push_params, "PushConstant", G.type_push_params)
    /\ TypeDeclarations[15] = Pointer(G.ptr_push_ulong, "PushConstant", G.type_ulong)
    /\ TypeDeclarations[16] = Pointer(G.ptr_push_uint, "PushConstant", G.type_uint)
    /\ TypeDeclarations[17] = Pointer(G.ptr_fn_uint, "Function", G.type_uint)
    /\ TypeDeclarations[18] = Pointer(G.ptr_fn_ulong, "Function", G.type_ulong)
    /\ TypeDeclarations[19] = Pointer(G.ptr_fn_float, "Function", G.type_float)
    /\ TypeDeclarations[20] = Pointer(G.ptr_fn_bool, "Function", G.type_bool)
BY DEF TypeDeclarations

\* The constants of the header.
LEMMA ConstantTable ==
    /\ Len(ConstantDeclarations) = 10
    /\ ConstantDeclarations[1] = Constant(G.type_uint, G.const_uint_0, 0)
    /\ ConstantDeclarations[2] = Constant(G.type_uint, G.const_uint_1, 1)
    /\ ConstantDeclarations[3] = Constant(G.type_uint, G.const_uint_2, 2)
    /\ ConstantDeclarations[4] = Constant(G.type_uint, G.const_uint_3, 3)
    /\ \A k \in 1 .. 10 : ConstantDeclarations[k].op = "Constant"
BY DEF ConstantDeclarations, Constant

\* The shared array and the global variables of the header.
LEMMA VariableTable ==
    /\ Len(SharedArray) = 2 /\ Len(GlobalVariables) = 5
    /\ SharedArray[1].op = "TypeArray" /\ SharedArray[2].op = "TypePointer"
    /\ GlobalVariables[1] = Variable(G.ptr_input_v3uint, G.var_global_id, "Input")
    /\ GlobalVariables[2] = Variable(G.ptr_input_v3uint, G.var_local_id, "Input")
    /\ GlobalVariables[3] = Variable(G.ptr_input_v3uint, G.var_workgroup_id, "Input")
    /\ GlobalVariables[4] = Variable(G.ptr_push_params, G.var_push_params, "PushConstant")
    /\ GlobalVariables[5] = Variable(G.ptr_wg_arr, G.var_shared, "Workgroup")
BY DEF SharedArray, GlobalVariables, Def, Pointer

\* The operations of the type declarations.
LEMMA TypeTableOps ==
    \A k \in 1 .. 20 : TypeDeclarations[k].op \in TypeOps
<1> SUFFICES ASSUME NEW k \in 1 .. 20
             PROVE  TypeDeclarations[k].op \in TypeOps
    OBVIOUS
<1>1. CASE k \in 1 .. 7
    <2>1. k = 1 \/ k = 2 \/ k = 3 \/ k = 4 \/ k = 5 \/ k = 6 \/ k = 7
        BY <1>1
    <2> QED
        BY <2>1, TypeTable, SMTT(30) DEF Def, TypeOps
<1>2. CASE k \in 8 .. 13
    <2>1. k = 8 \/ k = 9 \/ k = 10 \/ k = 11 \/ k = 12 \/ k = 13
        BY <1>2
    <2> QED
        BY <2>1, TypeTable, SMTT(30) DEF Def, Pointer, TypeOps
<1>3. CASE k \in 14 .. 20
    <2>1. k = 14 \/ k = 15 \/ k = 16 \/ k = 17 \/ k = 18 \/ k = 19 \/ k = 20
        BY <1>3
    <2> QED
        BY <2>1, TypeTable, SMTT(30) DEF Def, Pointer, TypeOps
<1> QED
    BY <1>1, <1>2, <1>3

\* The ids of the global variables.
LEMMA GlobalIdTable ==
    \A k \in 1 .. 5 : GlobalVariables[k].op = "Variable" /\ GlobalVariables[k].id = 32 + k
<1> SUFFICES ASSUME NEW k \in 1 .. 5
             PROVE  GlobalVariables[k].op = "Variable" /\ GlobalVariables[k].id = 32 + k
    OBVIOUS
<1>1. \A t, x, c : Variable(t, x, c).op = "Variable" /\ Variable(t, x, c).id = x
    BY DEF Variable
<1>2. CASE k = 1
    BY <1>1, <1>2, VariableTable, Ids
<1>3. CASE k = 2
    BY <1>1, <1>3, VariableTable, Ids
<1>4. CASE k = 3
    BY <1>1, <1>4, VariableTable, Ids
<1>5. CASE k = 4
    BY <1>1, <1>5, VariableTable, Ids
<1>6. CASE k = 5
    BY <1>1, <1>6, VariableTable, Ids
<1> QED
    BY <1>2, <1>3, <1>4, <1>5, <1>6

\* What a module's first instructions are.
LEMMA LeadingPlaces ==
    ASSUME NEW r \in Seq(Instruction), NEW f, Leading(r, f)
    PROVE  /\ f \in Nat /\ f > 52 /\ f \in 1 .. Len(r) /\ Len(r) \in Nat
           /\ \A k \in 1 .. (f - 1) : r[k].op \in Sections[Place(k)]
           /\ r[6].op = "EntryPoint"
           /\ ToSet(r[6].args) = {G.func_main, G.var_global_id, G.var_local_id, G.var_workgroup_id,
                                  G.var_push_params}
           /\ \A k \in 1 .. (f - 1) : r[k].op = "Variable" => r[k].id \in 33 .. 37
           /\ \A k \in 1 .. 20 : r[15 + k] = TypeDeclarations[k]
           /\ \A k \in 1 .. 10 : r[35 + k] = ConstantDeclarations[k]
           /\ \A k \in 1 .. 5 : r[47 + k] = GlobalVariables[k]
<1>1. /\ Sits(r, Header, 0) /\ f \in 53 .. Len(r) /\ Len(r) \in Nat
      /\ \A k \in 53 .. (f - 1) : r[k].op = "Constant"
    BY LenProperties DEF Leading
<1>2. \A k \in 1 .. 52 : r[k] = Header[k]
    <2>1. \A k \in 1 .. 52 : 0 + k = k
        OBVIOUS
    <2> QED
        BY <1>1, <2>1, HeaderParts, ZenonT(60) DEF Sits
<1>3. \A k \in 1 .. 7 : r[k] = Preamble[k]
    <2> SUFFICES ASSUME NEW k \in 1 .. 7
                 PROVE  r[k] = Preamble[k]
        OBVIOUS
    <2>1. 0 + k = k /\ k \in 1 .. 52
        OBVIOUS
    <2>2. Header[0 + k] = Preamble[k]
        BY HeaderParts, PreambleFacts DEF Sits
    <2> QED
        BY <1>2, <2>1, <2>2
<1>4. \A k \in 1 .. 8 : r[7 + k] = Decorations[k]
    <2> SUFFICES ASSUME NEW k \in 1 .. 8
                 PROVE  r[7 + k] = Decorations[k]
        OBVIOUS
    <2>1. 7 + k \in 1 .. 52
        OBVIOUS
    <2>2. Header[7 + k] = Decorations[k]
        BY HeaderParts, DecorationsFacts DEF Sits
    <2> QED
        BY <1>2, <2>1, <2>2
<1>5. \A k \in 1 .. 20 : r[15 + k] = TypeDeclarations[k]
    <2> SUFFICES ASSUME NEW k \in 1 .. 20
                 PROVE  r[15 + k] = TypeDeclarations[k]
        OBVIOUS
    <2>1. 15 + k \in 1 .. 52
        OBVIOUS
    <2>2. Header[15 + k] = TypeDeclarations[k]
        BY HeaderParts, TypeTable DEF Sits
    <2> QED
        BY <1>2, <2>1, <2>2
<1>6. \A k \in 1 .. 10 : r[35 + k] = ConstantDeclarations[k]
    <2> SUFFICES ASSUME NEW k \in 1 .. 10
                 PROVE  r[35 + k] = ConstantDeclarations[k]
        OBVIOUS
    <2>1. 35 + k \in 1 .. 52
        OBVIOUS
    <2>2. Header[35 + k] = ConstantDeclarations[k]
        BY HeaderParts, ConstantTable DEF Sits
    <2> QED
        BY <1>2, <2>1, <2>2
<1>7. \A k \in 1 .. 2 : r[45 + k] = SharedArray[k]
    <2> SUFFICES ASSUME NEW k \in 1 .. 2
                 PROVE  r[45 + k] = SharedArray[k]
        OBVIOUS
    <2>1. 45 + k \in 1 .. 52
        OBVIOUS
    <2>2. Header[45 + k] = SharedArray[k]
        BY HeaderParts, VariableTable DEF Sits
    <2> QED
        BY <1>2, <2>1, <2>2
<1>8. \A k \in 1 .. 5 : r[47 + k] = GlobalVariables[k]
    <2> SUFFICES ASSUME NEW k \in 1 .. 5
                 PROVE  r[47 + k] = GlobalVariables[k]
        OBVIOUS
    <2>1. 47 + k \in 1 .. 52
        OBVIOUS
    <2>2. Header[47 + k] = GlobalVariables[k]
        BY HeaderParts, VariableTable DEF Sits
    <2> QED
        BY <1>2, <2>1, <2>2
<1>9. r[6].op = "EntryPoint"
      /\ r[6].args = <<G.func_main, G.var_global_id, G.var_local_id, G.var_workgroup_id, G.var_push_params>>
    BY <1>3, PreambleFacts
<1>10. ToSet(r[6].args) = {G.func_main, G.var_global_id, G.var_local_id, G.var_workgroup_id,
                           G.var_push_params}
    <2>1. ASSUME NEW x1, NEW x2, NEW x3, NEW x4, NEW x5
          PROVE  ToSet(<<x1, x2, x3, x4, x5>>) = {x1, x2, x3, x4, x5}
        <3>1. DOMAIN <<x1, x2, x3, x4, x5>> = 1 .. 5
            OBVIOUS
        <3>2. ToSet(<<x1, x2, x3, x4, x5>>) = {<<x1, x2, x3, x4, x5>>[k] : k \in 1 .. 5}
            BY <3>1 DEF ToSet
        <3>3. 1 .. 5 = {1, 2, 3, 4, 5}
            OBVIOUS
        <3> QED
            BY <3>2, <3>3
    <2> QED
        BY <1>9, <2>1
\* The place of an instruction and what it is.
<1>11. ASSUME NEW k \in 1 .. (f - 1)
       PROVE  /\ r[k].op \in Sections[Place(k)]
              /\ r[k].op = "Variable" => r[k].id \in 33 .. 37
    <2>1. CASE k \in 1 .. 7
        <3>1. k = 1 \/ k = 2 \/ k = 3 \/ k = 4 \/ k = 5 \/ k = 6 \/ k = 7
            BY <2>1
        <3>2. r[k].op \in Sections[Place(k)]
            BY <1>3, <3>1, PreambleFacts, SectionsAre, SMTT(30) DEF Place
        <3>3. r[k].op # "Variable"
            BY <1>3, <3>1, PreambleFacts, SMTT(30)
        <3> QED
            BY <3>2, <3>3
    <2>2. CASE k \in 8 .. 15
        <3> DEFINE j == k - 7
        <3>1. j \in 1 .. 8 /\ k = 7 + j /\ Place(k) = 6
            BY <2>2 DEF Place
        <3> HIDE DEF j
        <3>2. r[k].op \in {"Decorate", "MemberDecorate"}
            BY <1>4, <3>1, DecorationsFacts
        <3> QED
            BY <3>1, <3>2, SectionsAre
    <2>3. CASE k \in 16 .. 35
        <3> DEFINE j == k - 15
        <3>1. j \in 1 .. 20 /\ k = 15 + j /\ Place(k) = 7
            BY <2>3 DEF Place
        <3> HIDE DEF j
        <3>2. r[k].op \in TypeOps
            BY <1>5, <3>1, TypeTableOps
        <3> QED
            BY <3>1, <3>2, SectionsAre DEF TypeOps
    <2>4. CASE k \in 36 .. 45
        <3> DEFINE j == k - 35
        <3>1. j \in 1 .. 10 /\ k = 35 + j /\ Place(k) = 7
            BY <2>4 DEF Place
        <3> HIDE DEF j
        <3>2. r[k].op = "Constant"
            BY <1>6, <3>1, ConstantTable
        <3> QED
            BY <3>1, <3>2, SectionsAre
    <2>5. CASE k \in 46 .. 47
        <3> DEFINE j == k - 45
        <3>1. j \in 1 .. 2 /\ k = 45 + j /\ Place(k) = 7
            BY <2>5 DEF Place
        <3> HIDE DEF j
        <3>2. j = 1 \/ j = 2
            BY <3>1
        <3>3. r[k].op \in {"TypeArray", "TypePointer"}
            BY <1>7, <3>1, <3>2, VariableTable
        <3> QED
            BY <3>1, <3>3, SectionsAre
    <2>6. CASE k \in 48 .. 52
        <3> DEFINE j == k - 47
        <3>1. j \in 1 .. 5 /\ k = 47 + j /\ Place(k) = 7
            BY <2>6 DEF Place
        <3> HIDE DEF j
        <3>2. j = 1 \/ j = 2 \/ j = 3 \/ j = 4 \/ j = 5
            BY <3>1
        <3>3. r[k] = GlobalVariables[j]
            BY <1>8, <3>1
        <3>4. GlobalVariables[j].op = "Variable" /\ GlobalVariables[j].id \in 33 .. 37
            BY <3>2, GlobalIdTable
        <3> QED
            BY <3>1, <3>3, <3>4, SectionsAre
    <2>7. CASE k \in 53 .. (f - 1)
        <3>1. Place(k) = 7
            BY <1>1, <2>7 DEF Place
        <3> QED
            BY <1>1, <2>7, <3>1, SectionsAre
    <2>8. \/ k \in 1 .. 7 \/ k \in 8 .. 15 \/ k \in 16 .. 35 \/ k \in 36 .. 45 \/ k \in 46 .. 47
          \/ k \in 48 .. 52 \/ k \in 53 .. (f - 1)
        BY <1>1
    <2> QED
        BY <2>1, <2>2, <2>3, <2>4, <2>5, <2>6, <2>7, <2>8
<1>12. f \in Nat /\ f > 52 /\ f \in 1 .. Len(r) /\ Len(r) \in Nat
    BY <1>1
<1> QED
    BY <1>5, <1>6, <1>8, <1>9, <1>10, <1>11, <1>12

\* The function of a module starts where its first and only OpFunction is.
LEMMA FunctionStarts ==
    ASSUME NEW r \in Seq(Instruction), NEW f, Leading(r, f)
    PROVE  FunctionStart(r) = f
<1>1. f \in 1 .. Len(r) /\ f \in Nat /\ \A k \in 1 .. (f - 1) : r[k].op \in Sections[Place(k)]
    BY LeadingPlaces
<1>2. r[f].op = "Function" /\ DOMAIN r = 1 .. Len(r)
    BY LenProperties DEF Leading
<1>3. \A k \in 1 .. (f - 1) : r[k].op # "Function"
    <2> SUFFICES ASSUME NEW k \in 1 .. (f - 1), r[k].op = "Function"
                 PROVE  FALSE
        OBVIOUS
    <2>1. "Function" \in FunctionOps \cup {"Function"} /\ Place(k) \in 1 .. 7
        BY DEF Place
    <2> QED
        BY <1>1, <2>1, FunctionOpsApart
<1>4. ASSUME NEW k \in DOMAIN r, r[k].op = "Function", \A j \in 1 .. (k - 1) : r[j].op # "Function"
      PROVE  k = f
    <2>1. k \in Nat /\ ~ (k < f) /\ ~ (f < k)
        BY <1>1, <1>2, <1>3, <1>4
    <2> QED
        BY <1>1, <2>1
<1> QED
    BY <1>1, <1>2, <1>3, <1>4 DEF FunctionStart

\* A shaped module's sections are in their order.
LEMMA ShapedLayout ==
    ASSUME NEW r, NEW f, Shaped(r, f), LastOp(r) = "FunctionEnd"
    PROVE  InLayout(r)
<1>1. r \in Seq(Instruction) /\ Leading(r, f) /\ Bodied(r, f)
    BY DEF Shaped
<1>2. FunctionStart(r) = f
    BY <1>1, FunctionStarts
<1>3. /\ f \in Nat /\ f > 52 /\ f \in 1 .. Len(r) /\ Len(r) \in Nat
      /\ \A k \in 1 .. (f - 1) : r[k].op \in Sections[Place(k)]
    BY <1>1, LeadingPlaces
<1>4. \A k \in 1 .. (f - 1) : Place(k) \in DOMAIN Sections
    BY SectionsAre DEF Place
<1>5. \A k \in 1 .. (f - 1) : (CHOOSE s \in DOMAIN Sections : r[k].op \in Sections[s]) = Place(k)
    <2> SUFFICES ASSUME NEW k \in 1 .. (f - 1)
                 PROVE  (CHOOSE s \in DOMAIN Sections : r[k].op \in Sections[s]) = Place(k)
        OBVIOUS
    <2>1. Place(k) \in DOMAIN Sections /\ r[k].op \in Sections[Place(k)]
        BY <1>3, <1>4
    <2>2. \A s \in DOMAIN Sections : r[k].op \in Sections[s] => s = Place(k)
        BY <2>1, SectionsApart, SectionsAre
    <2> QED
        BY <2>1, <2>2
<1>6. \A k \in 2 .. (f - 1) : Place(k - 1) <= Place(k)
    BY <1>3 DEF Place
<1>7. \A k \in 2 .. (f - 1) :
         (CHOOSE s \in DOMAIN Sections : r[k - 1].op \in Sections[s])
            <= (CHOOSE s \in DOMAIN Sections : r[k].op \in Sections[s])
    <2> SUFFICES ASSUME NEW k \in 2 .. (f - 1)
                 PROVE  (CHOOSE s \in DOMAIN Sections : r[k - 1].op \in Sections[s])
                           <= (CHOOSE s \in DOMAIN Sections : r[k].op \in Sections[s])
        OBVIOUS
    <2>1. k \in 1 .. (f - 1) /\ k - 1 \in 1 .. (f - 1)
        BY <1>3
    <2> QED
        BY <1>5, <1>6, <2>1
<1>8. \A k \in f .. Len(r) : r[k].op = "Variable" \/ \A s \in DOMAIN Sections : r[k].op \notin Sections[s]
    <2> SUFFICES ASSUME NEW k \in f .. Len(r)
                 PROVE  r[k].op = "Variable" \/ \A s \in DOMAIN Sections : r[k].op \notin Sections[s]
        OBVIOUS
    <2>1. CASE k = f
        <3>1. r[k].op = "Function"
            BY <1>1, <2>1 DEF Leading
        <3>2. r[k].op \in FunctionOps \cup {"Function"}
            BY <3>1
        <3> QED
            BY <3>2, FunctionOpsApart, SectionsAre
    <2>2. CASE k # f
        <3>1. k \in (f + 1) .. Len(r)
            BY <1>3, <2>2
        <3>2. r[k].op \in FunctionOps \cup {"Variable"}
            BY <1>1, <3>1 DEF Bodied, After
        <3> QED
            BY <3>2, FunctionOpsApart, SectionsAre
    <2> QED
        BY <2>1, <2>2
<1>9. Last(r).op = "FunctionEnd"
    BY DEF Last, LastOp
<1>10. \A k \in 1 .. (f - 1) : \E s \in DOMAIN Sections : r[k].op \in Sections[s]
    BY <1>3, <1>4
<1> QED
    BY <1>2, <1>7, <1>8, <1>9, <1>10, Zenon DEF InLayout

\* Every target of a branch is the label of one later block.
LEMMA TargetsLater ==
    ASSUME NEW r, NEW f, Shaped(r, f), Sound(r), NEW k \in (f + 1) .. Len(r), r[k].op \in Targeting,
           NEW x \in DOMAIN r[k].lits
    PROVE  Cardinality({j \in (k + 1) .. Len(r) : r[j].op = "Label" /\ r[j].id = r[k].lits[x]}) = 1
<1>1. /\ r \in Seq(Instruction) /\ Leading(r, f) /\ Bodied(r, f) /\ Once(r) /\ Resolved(r, {})
    BY DEF Shaped, Sound
<1>2. f \in Nat /\ f \in 1 .. Len(r) /\ Len(r) \in Nat
    BY <1>1, LeadingPlaces
<1>3. k \in 1 .. Len(r) /\ k \in Nat /\ k > f
    BY <1>2
<1>4. PICK j \in 1 .. Len(r) : k < j /\ r[j].op = "Label" /\ r[j].id = r[k].lits[x]
    BY <1>1, <1>3 DEF Resolved
<1>5. j \in (k + 1) .. Len(r) /\ j \in (f + 1) .. Len(r)
    BY <1>2, <1>3, <1>4
<1>6. r[j].id # 0
    BY <1>1, <1>4, <1>5 DEF Bodied, After
<1>7. \A u \in (k + 1) .. Len(r) : u \in 1 .. Len(r)
    BY <1>2, <1>3
<1>8. {u \in (k + 1) .. Len(r) : r[u].op = "Label" /\ r[u].id = r[k].lits[x]} = {j}
    <2>1. ASSUME NEW u \in (k + 1) .. Len(r), r[u].id = r[k].lits[x]
          PROVE  u = j
        BY <1>1, <1>4, <1>6, <1>7, <2>1 DEF Once
    <2> QED
        BY <1>4, <1>5, <2>1
<1> QED
    BY <1>8, FS_Singleton

\* The body is a sequence of blocks.
LEMMA ShapedBlocks ==
    ASSUME NEW r, NEW f, Shaped(r, f), Sound(r)
    PROVE  InBlocks(r)
<1>1. r \in Seq(Instruction) /\ Leading(r, f) /\ Bodied(r, f)
    BY DEF Shaped
<1>2. FunctionStart(r) = f
    BY <1>1, FunctionStarts
<1>3. ASSUME NEW k \in (f + 1) .. Len(r)
      PROVE  /\ r[k].op \in {"Label", "FunctionEnd"} <=> r[k - 1].op \in Terminators \cup {"Function"}
             /\ r[k].op = "Variable" => r[k - 1].op = "Variable" \/ k = f + 2
             /\ r[k].op = "BranchConditional" => r[k - 1].op = "SelectionMerge"
             /\ r[k - 1].op = "SelectionMerge" => r[k].op = "BranchConditional"
             /\ r[k].op \in {"Branch", "BranchConditional", "SelectionMerge"} =>
                  \A x \in DOMAIN r[k].lits :
                     Cardinality({j \in (k + 1) .. Len(r) : r[j].op = "Label" /\ r[j].id = r[k].lits[x]}) = 1
    <2>1. After(r[k - 1].op, r[k]) /\ (r[k].op = "Variable" => r[k - 1].op = "Variable" \/ k = f + 2)
        BY <1>1 DEF Bodied
    <2>2. r[k].op \in {"Branch", "BranchConditional", "SelectionMerge"} => r[k].op \in Targeting
        BY DEF Targeting
    <2>3. r[k].op \in {"Branch", "BranchConditional", "SelectionMerge"} =>
            \A x \in DOMAIN r[k].lits :
               Cardinality({j \in (k + 1) .. Len(r) : r[j].op = "Label" /\ r[j].id = r[k].lits[x]}) = 1
        BY <2>2, TargetsLater
    <2> QED
        BY <2>1, <2>3 DEF After
<1> QED
    BY <1>2, <1>3, Zenon DEF InBlocks

\* The entry point lists what the function uses.
LEMMA ShapedInterface ==
    ASSUME NEW r, NEW f, Shaped(r, f)
    PROVE  InterfaceComplete(r)
<1>1. r \in Seq(Instruction) /\ Leading(r, f) /\ Bodied(r, f)
    BY DEF Shaped
<1>2. FunctionStart(r) = f
    BY <1>1, FunctionStarts
<1>3. /\ f \in Nat /\ f > 52 /\ f \in 1 .. Len(r) /\ Len(r) \in Nat
      /\ \A k \in 1 .. (f - 1) : r[k].op \in Sections[Place(k)]
      /\ r[6].op = "EntryPoint"
      /\ ToSet(r[6].args) = {G.func_main, G.var_global_id, G.var_local_id, G.var_workgroup_id,
                             G.var_push_params}
      /\ \A k \in 1 .. (f - 1) : r[k].op = "Variable" => r[k].id \in 33 .. 37
    BY <1>1, LeadingPlaces
<1>4. DOMAIN r = 1 .. Len(r) /\ 6 \in 1 .. (f - 1) /\ 6 \in 1 .. Len(r)
    BY <1>1, <1>3, LenProperties
<1>5. \A k \in 1 .. (f - 1) : r[k].op = "EntryPoint" => k = 6
    <2> SUFFICES ASSUME NEW k \in 1 .. (f - 1), r[k].op = "EntryPoint"
                 PROVE  k = 6
        OBVIOUS
    <2>1. Place(k) \in 1 .. 7 /\ 4 \in 1 .. 7
        BY DEF Place
    <2>2. r[k].op \in Sections[Place(k)] /\ r[k].op \in Sections[4]
        BY <1>3, SectionsAre
    <2>3. Place(k) = 4
        BY <2>1, <2>2, SectionsApart
    <2> QED
        BY <2>3 DEF Place
<1>6. \A k \in f .. Len(r) : r[k].op # "EntryPoint" /\ G.var_shared \notin Uses(r[k])
    <2> SUFFICES ASSUME NEW k \in f .. Len(r)
                 PROVE  r[k].op # "EntryPoint" /\ G.var_shared \notin Uses(r[k])
        OBVIOUS
    <2>1. CASE k = f
        BY <1>1, <2>1 DEF Leading
    <2>2. CASE k # f
        <3>1. k \in (f + 1) .. Len(r)
            BY <1>3, <2>2
        <3>2. r[k].op \in FunctionOps \cup {"Variable"} /\ G.var_shared \notin Uses(r[k])
            BY <1>1, <3>1 DEF Bodied, After
        <3>3. CASE r[k].op = "Variable"
            BY <3>2, <3>3
        <3>4. CASE r[k].op # "Variable"
            <4>1. r[k].op \in FunctionOps \cup {"Function"}
                BY <3>2, <3>4
            <4> QED
                BY <3>2, <4>1, FunctionOpsApart
        <3> QED
            BY <3>3, <3>4
    <2> QED
        BY <2>1, <2>2
<1>7. \A k \in DOMAIN r : r[k].op = "EntryPoint" => k = 6
    <2> SUFFICES ASSUME NEW k \in DOMAIN r, r[k].op = "EntryPoint"
                 PROVE  k = 6
        OBVIOUS
    <2>1. k \in 1 .. (f - 1) \/ k \in f .. Len(r)
        BY <1>3, <1>4
    <2> QED
        BY <1>5, <1>6, <2>1
<1>8. (CHOOSE k \in DOMAIN r : r[k].op = "EntryPoint") = 6
    BY <1>3, <1>4, <1>7
<1> DEFINE globals == {r[k].id : k \in {j \in 1 .. (f - 1) : r[j].op = "Variable"}}
<1>9. globals \subseteq 33 .. 37
    BY <1>3
<1>10. {33, 34, 35, 36} \subseteq ToSet(r[6].args) /\ G.var_shared = 37
    BY <1>3, Ids
<1>11. \A k \in f .. Len(r) : Uses(r[k]) \cap globals \subseteq ToSet(r[6].args)
    <2> SUFFICES ASSUME NEW k \in f .. Len(r), NEW x \in Uses(r[k]), x \in globals
                 PROVE  x \in ToSet(r[6].args)
        OBVIOUS
    <2>1. x \in 33 .. 37 /\ x # 37
        BY <1>6, <1>9, <1>10, SMTT(30)
    <2>2. x \in {33, 34, 35, 36}
        BY <2>1
    <2> QED
        BY <1>10, <2>2
<1> HIDE DEF globals
<1>12. \A k \in f .. Len(r) :
          Uses(r[k]) \cap {r[n].id : n \in {j \in 1 .. (f - 1) : r[j].op = "Variable"}}
             \subseteq ToSet(r[6].args)
    BY <1>11 DEF globals
<1> QED
    BY <1>2, <1>8, <1>12, Zenon DEF InterfaceComplete

\* The invariant implies that the module is well formed.
LEMMA WellFormedFromInv == EmitInv => WellFormed
<1> SUFFICES ASSUME EmitInv, Translated
             PROVE  InLayout(Module) /\ InBlocks(Module) /\ InterfaceComplete(Module)
    BY DEF WellFormed
<1>1. Finished
    BY DEF EmitInv, Translated
<1>2. PICK f : Sound(Module) /\ Shaped(Module, f) /\ LastOp(Module) = "FunctionEnd"
    BY <1>1 DEF Finished
<1> QED
    BY <1>2, ShapedLayout, ShapedBlocks, ShapedInterface

\* docs/architecture.md:75-77: whatever the program, the sections of the module are in their
\* order, its function is a sequence of blocks with structured branches, and the entry point
\* lists every variable the function uses.
THEOREM ModuleWellFormed == EmitSpec => []WellFormed
BY EmitInvariant, WellFormedFromInv, PTL

-----------------------------------------------------------------------------
(***************************************************************************)
(* The types of the operands.                                              *)
(***************************************************************************)
\* p is a pointer to t, of this storage class.
Points(def, p, class, t) == def[p].lits[1] = class /\ def[p].args[1] = t

\* What the header defines, as far as the types of the function's operands go.
Base(def) ==
    /\ def[3].op = "TypeBool" /\ def[4].op = "TypeInt" /\ def[5].op = "TypeInt" /\ def[6].op = "TypeFloat"
    /\ def[7].op = "TypeVector" /\ def[7].args[1] = 4
    /\ def[19].op = "TypeStruct" /\ def[19].args = <<5, 5, 5, 4>>
    /\ Points(def, 8, "Input", 7) /\ Points(def, 9, "Input", 4)
    /\ Points(def, 10, "PhysicalStorageBuffer", 6)
    /\ Points(def, 13, "Function", 4) /\ Points(def, 14, "Function", 5)
    /\ Points(def, 15, "Function", 6) /\ Points(def, 16, "Function", 3)
    /\ Points(def, 20, "PushConstant", 19) /\ Points(def, 21, "PushConstant", 5)
    /\ Points(def, 22, "PushConstant", 4)
    /\ def[23].lits[1] = 0 /\ def[24].lits[1] = 1 /\ def[25].lits[1] = 2 /\ def[26].lits[1] = 3
    /\ def[33].type = 8 /\ def[34].type = 8 /\ def[35].type = 8 /\ def[36].type = 20

Typed(def, E) == \A p \in E : TypeOf(def, p[1]) = p[2]

\* The instruction that defines an id is found.
LEMMA DefinitionsAt ==
    ASSUME NEW r \in Seq(Instruction), Once(r), NEW d \in 1 .. Len(r), r[d].id # 0
    PROVE  Definitions(r)[r[d].id] = r[d]
<1>1. DOMAIN r = 1 .. Len(r)
    BY LenProperties
<1>2. r[d].id \in ResultIds(r)
    BY <1>1 DEF ResultIds
<1>3. (CHOOSE k \in DOMAIN r : r[k].id = r[d].id) = d
    BY <1>1 DEF Once
<1> QED
    BY <1>2, <1>3 DEF Definitions

\* What is known has the type its definition gives it.
LEMMA KnownAreTyped ==
    ASSUME NEW r, Sound(r), NEW u
    PROVE  Typed(Definitions(r), Open(r, u) \cup Near(r, u))
<1>1. r \in Seq(Instruction) /\ Once(r)
    BY DEF Sound
<1> SUFFICES ASSUME NEW p \in Open(r, u) \cup Near(r, u)
             PROVE  TypeOf(Definitions(r), p[1]) = p[2]
    BY DEF Typed
<1>2. PICK d \in OpenAt(r, u) \cup NearAt(r, u) : p = PairAt(r, d)
    BY DEF Open, Near
<1>3. d \in 1 .. Len(r) /\ r[d].id # 0
    BY <1>2 DEF OpenAt, NearAt
<1>4. p[1] = r[d].id /\ p[2] = r[d].type
    BY <1>2 DEF PairAt
<1>5. Definitions(r)[r[d].id] = r[d]
    BY <1>1, <1>3, DefinitionsAt
<1> QED
    BY <1>4, <1>5 DEF TypeOf

\* A word of the header is the definition of its id.
LEMMA HeaderDefinition ==
    ASSUME NEW r \in Seq(Instruction), Once(r), NEW d \in 1 .. Len(r), NEW w, r[d] = w, NEW x,
           w.id = x, x # 0
    PROVE  Definitions(r)[x] = w
BY DefinitionsAt

\* The fields of declarations.
LEMMA TypeFields ==
    /\ \A op, x, a, l : /\ Def(op, x, a, l).op = op /\ Def(op, x, a, l).id = x
                        /\ Def(op, x, a, l).args = a /\ Def(op, x, a, l).lits = l
    /\ \A x, c, t : /\ Pointer(x, c, t).id = x /\ Pointer(x, c, t).args = <<t>>
                    /\ Pointer(x, c, t).lits = <<c>>
    /\ \A t, x, v : Constant(t, x, v).id = x /\ Constant(t, x, v).lits = <<v>>
    /\ \A t, x, c : Variable(t, x, c).id = x /\ Variable(t, x, c).type = t
BY DEF Def, Pointer, Constant, Variable

\* The declarations of the types that are not pointers.
LEMMA ScalarTable ==
    /\ TypeDeclarations[3].op = "TypeBool" /\ TypeDeclarations[3].id = 3
    /\ TypeDeclarations[4].op = "TypeInt" /\ TypeDeclarations[4].id = 4
    /\ TypeDeclarations[5].op = "TypeInt" /\ TypeDeclarations[5].id = 5
    /\ TypeDeclarations[6].op = "TypeFloat" /\ TypeDeclarations[6].id = 6
    /\ TypeDeclarations[7].op = "TypeVector" /\ TypeDeclarations[7].id = 7
    /\ TypeDeclarations[7].args = <<4>>
    /\ TypeDeclarations[13].op = "TypeStruct" /\ TypeDeclarations[13].id = 19
    /\ TypeDeclarations[13].args = <<5, 5, 5, 4>>
<1>1. ASSUME NEW w, NEW op, NEW x, NEW a, NEW l, w = Def(op, x, a, l)
      PROVE  w.op = op /\ w.id = x /\ w.args = a
    BY <1>1, TypeFields
<1>2. TypeDeclarations[3].op = "TypeBool" /\ TypeDeclarations[3].id = 3 /\ TypeDeclarations[3].args = <<>>
    <2>1. TypeDeclarations[3] = Def("TypeBool", 3, <<>>, <<>>)
        BY TypeTable, Ids, Zenon
    <2> QED
        BY <1>1, <2>1
<1>3. TypeDeclarations[4].op = "TypeInt" /\ TypeDeclarations[4].id = 4 /\ TypeDeclarations[4].args = <<>>
    <2>1. TypeDeclarations[4] = Def("TypeInt", 4, <<>>, <<32>>)
        BY TypeTable, Ids, Zenon
    <2> QED
        BY <1>1, <2>1
<1>4. TypeDeclarations[5].op = "TypeInt" /\ TypeDeclarations[5].id = 5 /\ TypeDeclarations[5].args = <<>>
    <2>1. TypeDeclarations[5] = Def("TypeInt", 5, <<>>, <<64>>)
        BY TypeTable, Ids, Zenon
    <2> QED
        BY <1>1, <2>1
<1>5. TypeDeclarations[6].op = "TypeFloat" /\ TypeDeclarations[6].id = 6 /\ TypeDeclarations[6].args = <<>>
    <2>1. TypeDeclarations[6] = Def("TypeFloat", 6, <<>>, <<32>>)
        BY TypeTable, Ids, Zenon
    <2> QED
        BY <1>1, <2>1
<1>6. TypeDeclarations[7].op = "TypeVector" /\ TypeDeclarations[7].id = 7 /\ TypeDeclarations[7].args = <<4>>
    <2>1. TypeDeclarations[7] = Def("TypeVector", 7, <<4>>, <<3>>)
        BY TypeTable, Ids, Zenon
    <2> QED
        BY <1>1, <2>1
<1>7. TypeDeclarations[13].op = "TypeStruct" /\ TypeDeclarations[13].id = 19 /\ TypeDeclarations[13].args = <<5, 5, 5, 4>>
    <2>1. TypeDeclarations[13] = Def("TypeStruct", 19, <<5, 5, 5, 4>>, <<>>)
        BY TypeTable, Ids, Zenon
    <2> QED
        BY <1>1, <2>1
<1> QED
    BY <1>2, <1>3, <1>4, <1>5, <1>6, <1>7

PointerAt(k, id, class, t) ==
    /\ TypeDeclarations[k].id = id
    /\ TypeDeclarations[k].args = <<t>> /\ TypeDeclarations[k].lits = <<class>>

\* The declarations of the pointer types.
LEMMA PointerTable ==
    /\ PointerAt(8, 8, "Input", 7) /\ PointerAt(9, 9, "Input", 4)
    /\ PointerAt(10, 10, "PhysicalStorageBuffer", 6)
    /\ PointerAt(14, 20, "PushConstant", 19) /\ PointerAt(15, 21, "PushConstant", 5)
    /\ PointerAt(16, 22, "PushConstant", 4) /\ PointerAt(17, 13, "Function", 4)
    /\ PointerAt(18, 14, "Function", 5) /\ PointerAt(19, 15, "Function", 6)
    /\ PointerAt(20, 16, "Function", 3)
<1>1. ASSUME NEW k, NEW id, NEW class, NEW t, TypeDeclarations[k] = Pointer(id, class, t)
      PROVE  PointerAt(k, id, class, t)
    BY <1>1, TypeFields DEF PointerAt
<1>2. PointerAt(8, 8, "Input", 7)
    <2>1. TypeDeclarations[8] = Pointer(8, "Input", 7)
        BY TypeTable, Ids, Zenon
    <2> QED
        BY <1>1, <2>1
<1>3. PointerAt(9, 9, "Input", 4)
    <2>1. TypeDeclarations[9] = Pointer(9, "Input", 4)
        BY TypeTable, Ids, Zenon
    <2> QED
        BY <1>1, <2>1
<1>4. PointerAt(10, 10, "PhysicalStorageBuffer", 6)
    <2>1. TypeDeclarations[10] = Pointer(10, "PhysicalStorageBuffer", 6)
        BY TypeTable, Ids, Zenon
    <2> QED
        BY <1>1, <2>1
<1>5. PointerAt(14, 20, "PushConstant", 19)
    <2>1. TypeDeclarations[14] = Pointer(20, "PushConstant", 19)
        BY TypeTable, Ids, Zenon
    <2> QED
        BY <1>1, <2>1
<1>6. PointerAt(15, 21, "PushConstant", 5)
    <2>1. TypeDeclarations[15] = Pointer(21, "PushConstant", 5)
        BY TypeTable, Ids, Zenon
    <2> QED
        BY <1>1, <2>1
<1>7. PointerAt(16, 22, "PushConstant", 4)
    <2>1. TypeDeclarations[16] = Pointer(22, "PushConstant", 4)
        BY TypeTable, Ids, Zenon
    <2> QED
        BY <1>1, <2>1
<1>8. PointerAt(17, 13, "Function", 4)
    <2>1. TypeDeclarations[17] = Pointer(13, "Function", 4)
        BY TypeTable, Ids, Zenon
    <2> QED
        BY <1>1, <2>1
<1>9. PointerAt(18, 14, "Function", 5)
    <2>1. TypeDeclarations[18] = Pointer(14, "Function", 5)
        BY TypeTable, Ids, Zenon
    <2> QED
        BY <1>1, <2>1
<1>10. PointerAt(19, 15, "Function", 6)
    <2>1. TypeDeclarations[19] = Pointer(15, "Function", 6)
        BY TypeTable, Ids, Zenon
    <2> QED
        BY <1>1, <2>1
<1>11. PointerAt(20, 16, "Function", 3)
    <2>1. TypeDeclarations[20] = Pointer(16, "Function", 3)
        BY TypeTable, Ids, Zenon
    <2> QED
        BY <1>1, <2>1
<1> QED
    BY <1>2, <1>3, <1>4, <1>5, <1>6, <1>7, <1>8, <1>9, <1>10, <1>11

\* The indices and the types of the global variables.
LEMMA ValueTable ==
    /\ ConstantDeclarations[1].id = 23 /\ ConstantDeclarations[1].lits = <<0>>
    /\ ConstantDeclarations[2].id = 24 /\ ConstantDeclarations[2].lits = <<1>>
    /\ ConstantDeclarations[3].id = 25 /\ ConstantDeclarations[3].lits = <<2>>
    /\ ConstantDeclarations[4].id = 26 /\ ConstantDeclarations[4].lits = <<3>>
    /\ GlobalVariables[1].id = 33 /\ GlobalVariables[1].type = 8
    /\ GlobalVariables[2].id = 34 /\ GlobalVariables[2].type = 8
    /\ GlobalVariables[3].id = 35 /\ GlobalVariables[3].type = 8
    /\ GlobalVariables[4].id = 36 /\ GlobalVariables[4].type = 20
<1>1. ConstantDeclarations[1].id = 23 /\ ConstantDeclarations[1].lits = <<0>>
    BY ConstantTable, TypeFields, Ids
<1>2. ConstantDeclarations[2].id = 24 /\ ConstantDeclarations[2].lits = <<1>>
    BY ConstantTable, TypeFields, Ids
<1>3. ConstantDeclarations[3].id = 25 /\ ConstantDeclarations[3].lits = <<2>>
    BY ConstantTable, TypeFields, Ids
<1>4. ConstantDeclarations[4].id = 26 /\ ConstantDeclarations[4].lits = <<3>>
    BY ConstantTable, TypeFields, Ids
<1>5. GlobalVariables[1].id = 33 /\ GlobalVariables[1].type = 8
    BY VariableTable, TypeFields, Ids
<1>6. GlobalVariables[2].id = 34 /\ GlobalVariables[2].type = 8
    BY VariableTable, TypeFields, Ids
<1>7. GlobalVariables[3].id = 35 /\ GlobalVariables[3].type = 8
    BY VariableTable, TypeFields, Ids
<1>8. GlobalVariables[4].id = 36 /\ GlobalVariables[4].type = 20
    BY VariableTable, TypeFields, Ids
<1> QED
    BY <1>1, <1>2, <1>3, <1>4, <1>5, <1>6, <1>7, <1>8

\* The header's definitions are those of every module.
LEMMA HeaderBase ==
    ASSUME NEW r, Sound(r), NEW f, Shaped(r, f)
    PROVE  Base(Definitions(r))
<1> DEFINE def == Definitions(r)
<1>1. r \in Seq(Instruction) /\ Once(r) /\ Leading(r, f)
    BY DEF Sound, Shaped
<1>2. /\ f \in Nat /\ f > 52 /\ f \in 1 .. Len(r) /\ Len(r) \in Nat
      /\ \A k \in 1 .. 20 : r[15 + k] = TypeDeclarations[k]
      /\ \A k \in 1 .. 10 : r[35 + k] = ConstantDeclarations[k]
      /\ \A k \in 1 .. 5 : r[47 + k] = GlobalVariables[k]
    BY <1>1, LeadingPlaces
<1>19. Len(r) \in Nat /\ Len(r) > 52
    BY <1>2
<1>20. 1 .. 52 \subseteq 1 .. Len(r)
    BY <1>19
<1>3. ASSUME NEW k \in 1 .. 20, NEW x, TypeDeclarations[k].id = x, x # 0
      PROVE  def[x] = TypeDeclarations[k]
    <2>0. 15 + k \in 1 .. 52
        OBVIOUS
    <2>1. 15 + k \in 1 .. Len(r) /\ r[15 + k] = TypeDeclarations[k]
        BY <1>2, <1>20, <2>0
    <2> QED
        BY <1>1, <1>3, <2>1, HeaderDefinition
<1>4. ASSUME NEW k \in 1 .. 10, NEW x, ConstantDeclarations[k].id = x, x # 0
      PROVE  def[x] = ConstantDeclarations[k]
    <2>0. 35 + k \in 1 .. 52
        OBVIOUS
    <2>1. 35 + k \in 1 .. Len(r) /\ r[35 + k] = ConstantDeclarations[k]
        BY <1>2, <1>20, <2>0
    <2> QED
        BY <1>1, <1>4, <2>1, HeaderDefinition
<1>5. ASSUME NEW k \in 1 .. 5, NEW x, GlobalVariables[k].id = x, x # 0
      PROVE  def[x] = GlobalVariables[k]
    <2>0. 47 + k \in 1 .. 52
        OBVIOUS
    <2>1. 47 + k \in 1 .. Len(r) /\ r[47 + k] = GlobalVariables[k]
        BY <1>2, <1>20, <2>0
    <2> QED
        BY <1>1, <1>5, <2>1, HeaderDefinition
<1> HIDE DEF def
<1>6. /\ def[3] = TypeDeclarations[3] /\ def[4] = TypeDeclarations[4] /\ def[5] = TypeDeclarations[5]
      /\ def[6] = TypeDeclarations[6] /\ def[7] = TypeDeclarations[7] /\ def[19] = TypeDeclarations[13]
    BY <1>3, ScalarTable
<1>7. ASSUME NEW k \in 1 .. 20, NEW x, NEW class, NEW t, PointerAt(k, x, class, t), x # 0
      PROVE  Points(def, x, class, t)
    <2>1. def[x] = TypeDeclarations[k]
        BY <1>3, <1>7 DEF PointerAt
    <2> QED
        BY <1>7, <2>1 DEF PointerAt, Points
<1>8. /\ Points(def, 8, "Input", 7) /\ Points(def, 9, "Input", 4)
      /\ Points(def, 10, "PhysicalStorageBuffer", 6)
      /\ Points(def, 13, "Function", 4) /\ Points(def, 14, "Function", 5)
      /\ Points(def, 15, "Function", 6) /\ Points(def, 16, "Function", 3)
      /\ Points(def, 20, "PushConstant", 19) /\ Points(def, 21, "PushConstant", 5)
      /\ Points(def, 22, "PushConstant", 4)
    BY <1>7, PointerTable
<1>9. /\ def[23] = ConstantDeclarations[1] /\ def[24] = ConstantDeclarations[2]
      /\ def[25] = ConstantDeclarations[3] /\ def[26] = ConstantDeclarations[4]
    BY <1>4, ValueTable
<1>10. /\ def[33] = GlobalVariables[1] /\ def[34] = GlobalVariables[2]
       /\ def[35] = GlobalVariables[3] /\ def[36] = GlobalVariables[4]
    BY <1>5, ValueTable
<1>11. /\ def[3].op = "TypeBool" /\ def[4].op = "TypeInt" /\ def[5].op = "TypeInt" /\ def[6].op = "TypeFloat"
       /\ def[7].op = "TypeVector" /\ def[7].args[1] = 4
       /\ def[19].op = "TypeStruct" /\ def[19].args = <<5, 5, 5, 4>>
    BY <1>6, ScalarTable
<1>12. def[23].lits[1] = 0 /\ def[24].lits[1] = 1 /\ def[25].lits[1] = 2 /\ def[26].lits[1] = 3
    BY <1>9, ValueTable
<1>13. def[33].type = 8 /\ def[34].type = 8 /\ def[35].type = 8 /\ def[36].type = 20
    BY <1>10, ValueTable
<1>14. Base(def)
    BY <1>8, <1>11, <1>12, <1>13 DEF Base
<1> QED
    BY <1>14 DEF def

\* What the signatures say of the types.
LEMMA UnaryTable ==
    ASSUME NEW def, Base(def), NEW s \in Unary
    PROVE  /\ s[1] \in {"Load", "ConvertUToF", "ConvertFToU", "UConvert", "ConvertUToPtr", "LogicalNot"}
           /\ s[1] = "Load" => def[s[3]].args[1] = s[2]
           /\ s[1] = "ConvertUToF" => def[s[2]].op = "TypeFloat" /\ def[s[3]].op = "TypeInt"
           /\ s[1] = "ConvertFToU" => def[s[2]].op = "TypeInt" /\ def[s[3]].op = "TypeFloat"
           /\ s[1] = "UConvert" => def[s[2]].op = "TypeInt" /\ def[s[3]].op = "TypeInt" /\ s[3] # s[2]
           /\ s[1] = "ConvertUToPtr" => def[s[2]].lits[1] = "PhysicalStorageBuffer" /\ s[3] = G.type_ulong
           /\ s[1] = "LogicalNot" => def[s[2]].op = "TypeBool" /\ s[3] = s[2]
<1>1. \/ s[1] = "Load" /\ <<s[2], s[3]>> \in {<<4, 13>>, <<6, 15>>, <<5, 14>>, <<3, 16>>, <<4, 9>>, <<4, 22>>,
                                              <<5, 21>>, <<6, 10>>}
      \/ s[1] = "ConvertUToF" /\ s[2] = 6 /\ s[3] = 4
      \/ s[1] = "ConvertFToU" /\ s[2] = 4 /\ s[3] = 6
      \/ s[1] = "UConvert" /\ s[2] = 5 /\ s[3] = 4
      \/ s[1] = "ConvertUToPtr" /\ s[2] = 10 /\ s[3] = 5
      \/ s[1] = "LogicalNot" /\ s[2] = 3 /\ s[3] = 3
    BY Ids DEF Unary
<1>2. CASE s[1] = "Load" /\ <<s[2], s[3]>> \in {<<4, 13>>, <<6, 15>>, <<5, 14>>, <<3, 16>>, <<4, 9>>, <<4, 22>>,
                                                <<5, 21>>, <<6, 10>>}
    <2>1. def[s[3]].args[1] = s[2]
        BY <1>2 DEF Base, Points
    <2> QED
        BY <1>2, <2>1
<1>3. CASE s[1] = "ConvertUToF" /\ s[2] = 6 /\ s[3] = 4
    BY <1>3 DEF Base
<1>4. CASE s[1] = "ConvertFToU" /\ s[2] = 4 /\ s[3] = 6
    BY <1>4 DEF Base
<1>5. CASE s[1] = "UConvert" /\ s[2] = 5 /\ s[3] = 4
    BY <1>5 DEF Base
<1>6. CASE s[1] = "ConvertUToPtr" /\ s[2] = 10 /\ s[3] = 5
    BY <1>6, Ids DEF Base, Points
<1>7. CASE s[1] = "LogicalNot" /\ s[2] = 3 /\ s[3] = 3
    BY <1>7 DEF Base
<1> QED
    BY <1>1, <1>2, <1>3, <1>4, <1>5, <1>6, <1>7

\* The operations on two values by their types.
LEMMA BinaryTable ==
    ASSUME NEW def, Base(def), NEW s \in Binary
    PROVE  \/ s[1] \in {"IAdd", "IMul"} /\ def[s[2]].op = "TypeInt" /\ s[3] = s[2]
           \/ s[1] \in {"FAdd", "FMul"} /\ def[s[2]].op = "TypeFloat" /\ s[3] = s[2]
           \/ s[1] \in {"INotEqual", "ULessThan"} /\ def[s[2]].op = "TypeBool" /\ def[s[3]].op = "TypeInt"
<1>1. \/ s[1] \in {"IAdd", "IMul"} /\ s[2] = 4 /\ s[3] = 4
      \/ s[1] \in {"IAdd", "IMul"} /\ s[2] = 5 /\ s[3] = 5
      \/ s[1] \in {"FAdd", "FMul"} /\ s[2] = 6 /\ s[3] = 6
      \/ s[1] \in {"INotEqual", "ULessThan"} /\ s[2] = 3 /\ s[3] = 4
    BY Ids DEF Binary
<1> QED
    BY <1>1 DEF Base

\* What is stored has the type its pointer points to.
LEMMA StoreTable ==
    ASSUME NEW def, Base(def), NEW s \in Stores
    PROVE  def[s[1]].args[1] = s[2]
<1>1. <<s[1], s[2]>> \in {<<13, 4>>, <<15, 6>>, <<14, 5>>, <<16, 3>>, <<10, 6>>}
    BY Ids DEF Stores
<1> QED
    BY <1>1 DEF Base, Points

\* A chain's pointer is of its variable's storage class, and to the component it selects.
LEMMA ChainTable ==
    ASSUME NEW def, Base(def), NEW c \in Chains
    PROVE  /\ def[c[1]].lits[1] = def[def[c[2]].type].lits[1]
           /\ def[c[1]].args[1] = Component(def, def[def[c[2]].type].args[1], c[3])
<1>1. \/ c[1] = 9 /\ c[2] \in {33, 34, 35}
      \/ c[1] = 21 /\ c[2] = 36 /\ c[3] \in {23, 24, 25}
      \/ c[1] = 22 /\ c[2] = 36 /\ c[3] = 26
    BY Ids DEF Chains
<1>2. CASE c[1] = 9 /\ c[2] \in {33, 34, 35}
    <2>1. def[c[2]].type = 8
        BY <1>2 DEF Base
    <2>2. def[8].lits[1] = "Input" /\ def[8].args[1] = 7 /\ def[9].lits[1] = "Input" /\ def[9].args[1] = 4
        BY DEF Base, Points
    <2>3. Component(def, 7, c[3]) = 4
        BY DEF Base, Component
    <2> QED
        BY <1>2, <2>1, <2>2, <2>3
<1>3. CASE c[1] = 21 /\ c[2] = 36 /\ c[3] \in {23, 24, 25}
    <2>1. def[36].type = 20 /\ def[20].lits[1] = "PushConstant" /\ def[20].args[1] = 19
        BY DEF Base, Points
    <2>2. def[21].lits[1] = "PushConstant" /\ def[21].args[1] = 5
        BY DEF Base, Points
    <2>3. def[c[3]].lits[1] \in {0, 1, 2}
        BY <1>3 DEF Base
    <2>4. def[19].args[def[c[3]].lits[1] + 1] = 5
        <3>1. def[19].args = <<5, 5, 5, 4>>
            BY DEF Base
        <3>2. def[c[3]].lits[1] + 1 \in {1, 2, 3}
            BY <2>3
        <3> QED
            BY <3>1, <3>2
    <2>5. Component(def, 19, c[3]) = 5
        BY <2>4 DEF Base, Component
    <2> QED
        BY <1>3, <2>1, <2>2, <2>5
<1>4. CASE c[1] = 22 /\ c[2] = 36 /\ c[3] = 26
    <2>1. def[36].type = 20 /\ def[20].lits[1] = "PushConstant" /\ def[20].args[1] = 19
        BY DEF Base, Points
    <2>2. def[22].lits[1] = "PushConstant" /\ def[22].args[1] = 4
        BY DEF Base, Points
    <2>3. def[19].args[def[c[3]].lits[1] + 1] = 4
        <3>1. def[19].args = <<5, 5, 5, 4>> /\ def[26].lits[1] = 3
            BY DEF Base
        <3>2. def[c[3]].lits[1] + 1 = 4
            BY <1>4, <3>1
        <3> QED
            BY <3>1, <3>2
    <2>4. Component(def, 19, c[3]) = 4
        BY <2>3 DEF Base, Component
    <2> QED
        BY <1>4, <2>1, <2>2, <2>4
<1> QED
    BY <1>1, <1>2, <1>3, <1>4

\* What an id's definition says of its type.
LEMMA TypeFacts ==
    ASSUME NEW def, NEW x, NEW t, TypeOf(def, x) = t
    PROVE  Kind(def, x) = def[t].op /\ Class(def, x) = def[t].lits[1] /\ Pointee(def, x) = def[t].args[1]
BY DEF Kind, Class, Pointee

\* An operation on one value gets an operand of the type it demands.
LEMMA UnaryAgrees ==
    ASSUME NEW def, Base(def), NEW s \in Unary, NEW x, TypeOf(def, x) = s[3], NEW w,
           w.op = s[1], w.type = s[2], w.args = <<x>>, TypeOf(def, w.id) = w.type
    PROVE  OperandsAgree(def, w)
<1>1. w.args[1] = x /\ DOMAIN w.args = {1}
    OBVIOUS
<1>2. Kind(def, x) = def[s[3]].op /\ Class(def, x) = def[s[3]].lits[1] /\ Pointee(def, x) = def[s[3]].args[1]
    BY TypeFacts
<1>3. Kind(def, w.id) = def[s[2]].op /\ Class(def, w.id) = def[s[2]].lits[1]
    BY TypeFacts
<1>4. s[3] = s[2] => Same(def, w)
    BY <1>1 DEF Same
<1>5. CASE w.op = "Load"
    <2>1. s[1] = "Load"
        BY <1>5
    <2>2. def[s[3]].args[1] = s[2]
        BY <2>1, UnaryTable
    <2>3. Pointee(def, w.args[1]) = w.type
        BY <1>1, <1>2, <2>2
    <2> QED
        BY <1>5, <2>3 DEF OperandsAgree
<1>6. CASE w.op = "ConvertUToF"
    <2>1. Kind(def, w.id) = "TypeFloat" /\ Kind(def, w.args[1]) = "TypeInt"
        BY <1>1, <1>2, <1>3, <1>6, UnaryTable
    <2> QED
        BY <1>6, <2>1 DEF OperandsAgree
<1>7. CASE w.op = "ConvertFToU"
    <2>1. Kind(def, w.id) = "TypeInt" /\ Kind(def, w.args[1]) = "TypeFloat"
        BY <1>1, <1>2, <1>3, <1>7, UnaryTable
    <2> QED
        BY <1>7, <2>1 DEF OperandsAgree
<1>8. CASE w.op = "UConvert"
    <2>1. Kind(def, w.id) = "TypeInt" /\ Kind(def, w.args[1]) = "TypeInt" /\ TypeOf(def, w.args[1]) # w.type
        <3>1. s[1] = "UConvert"
            BY <1>8
        <3>2. def[s[2]].op = "TypeInt" /\ def[s[3]].op = "TypeInt" /\ s[3] # s[2]
            BY <3>1, UnaryTable
        <3> QED
            BY <1>1, <1>2, <1>3, <3>2
    <2> QED
        BY <1>8, <2>1 DEF OperandsAgree
<1>9. CASE w.op = "ConvertUToPtr"
    <2>1. Class(def, w.id) = "PhysicalStorageBuffer" /\ TypeOf(def, w.args[1]) = G.type_ulong
        BY <1>1, <1>2, <1>3, <1>9, UnaryTable
    <2> QED
        BY <1>9, <2>1 DEF OperandsAgree
<1>10. CASE w.op = "LogicalNot"
    <2>1. Kind(def, w.id) = "TypeBool" /\ Same(def, w)
        BY <1>1, <1>2, <1>3, <1>4, <1>10, UnaryTable
    <2> QED
        BY <1>10, <2>1 DEF OperandsAgree
<1> QED
    BY <1>5, <1>6, <1>7, <1>8, <1>9, <1>10, UnaryTable

\* An operation on two values gets operands of the type it demands.
LEMMA BinaryAgrees ==
    ASSUME NEW def, Base(def), NEW s \in Binary, NEW x, TypeOf(def, x) = s[3], NEW y, TypeOf(def, y) = s[3],
           NEW w, w.op = s[1], w.type = s[2], w.args = <<x, y>>, TypeOf(def, w.id) = w.type
    PROVE  OperandsAgree(def, w)
<1>1. w.args[1] = x /\ w.args[2] = y /\ DOMAIN w.args = {1, 2}
    OBVIOUS
<1>2. Kind(def, x) = def[s[3]].op
    BY TypeFacts
<1>3. Kind(def, w.id) = def[s[2]].op
    BY TypeFacts
<1>4. s[3] = s[2] => Same(def, w)
    BY <1>1 DEF Same
<1>5. CASE w.op \in {"IAdd", "IMul"}
    <2>1. Kind(def, w.id) = "TypeInt" /\ Same(def, w)
        BY <1>3, <1>4, <1>5, BinaryTable
    <2> QED
        BY <1>5, <2>1 DEF OperandsAgree
<1>6. CASE w.op \in {"FAdd", "FMul"}
    <2>1. Kind(def, w.id) = "TypeFloat" /\ Same(def, w)
        BY <1>3, <1>4, <1>6, BinaryTable
    <2> QED
        BY <1>6, <2>1 DEF OperandsAgree
<1>7. CASE w.op \in {"INotEqual", "ULessThan"}
    <2>1. Kind(def, w.id) = "TypeBool" /\ Kind(def, w.args[1]) = "TypeInt"
        BY <1>1, <1>2, <1>3, <1>7, BinaryTable
    <2>2. TypeOf(def, w.args[1]) = TypeOf(def, w.args[2])
        BY <1>1
    <2> QED
        BY <1>7, <2>1, <2>2 DEF OperandsAgree
<1> QED
    BY <1>5, <1>6, <1>7, BinaryTable

\* A store gets a value of the type its pointer points to.
LEMMA StoreAgrees ==
    ASSUME NEW def, Base(def), NEW s \in Stores, NEW x, TypeOf(def, x) = s[1], NEW y, TypeOf(def, y) = s[2],
           NEW w, w.op = "Store", w.args = <<x, y>>
    PROVE  OperandsAgree(def, w)
<1>1. w.args[1] = x /\ w.args[2] = y
    OBVIOUS
<1>2. Pointee(def, x) = def[s[1]].args[1]
    BY TypeFacts
<1>3. Pointee(def, w.args[1]) = TypeOf(def, w.args[2])
    BY <1>1, <1>2, StoreTable
<1> QED
    BY <1>3 DEF OperandsAgree

\* An address is of the storage class and the component type of its variable.
LEMMA ChainAgrees ==
    ASSUME NEW def, Base(def), NEW c \in Chains, NEW w, w.op = "AccessChain", w.args = <<c[2], c[3]>>,
           w.type = c[1], TypeOf(def, w.id) = w.type
    PROVE  OperandsAgree(def, w)
<1>1. w.args[1] = c[2] /\ w.args[2] = c[3]
    OBVIOUS
<1>2. Class(def, w.id) = def[c[1]].lits[1] /\ Pointee(def, w.id) = def[c[1]].args[1]
    BY TypeFacts
<1>3. Class(def, c[2]) = def[def[c[2]].type].lits[1] /\ Pointee(def, c[2]) = def[def[c[2]].type].args[1]
    BY SMTT(30) DEF Class, Pointee, TypeOf
<1>4. Class(def, w.id) = Class(def, w.args[1])
    BY <1>1, <1>2, <1>3, ChainTable, SMTT(30)
<1>5. Pointee(def, w.id) = Component(def, Pointee(def, w.args[1]), w.args[2])
    BY <1>1, <1>2, <1>3, ChainTable
<1> QED
    BY <1>4, <1>5 DEF OperandsAgree

\* What obeys the signatures has operands of the types it demands.
LEMMA ObeyingAgrees ==
    ASSUME NEW def, Base(def), NEW E, Typed(def, E), NEW w, Obeys(E, w),
           w.id # 0 => TypeOf(def, w.id) = w.type
    PROVE  OperandsAgree(def, w)
<1>1. \A x, t : <<x, t>> \in E => TypeOf(def, x) = t
    BY DEF Typed
<1>2. ASSUME NEW s \in Unary, NEW id \in Nat \ {0}, NEW x \in Nat,
             w = Val(s[1], s[2], id, <<x>>), <<x, s[3]>> \in E
      PROVE  OperandsAgree(def, w)
    <2>1. w.op = s[1] /\ w.type = s[2] /\ w.args = <<x>> /\ w.id = id
        BY <1>2 DEF Val
    <2>2. TypeOf(def, x) = s[3] /\ TypeOf(def, w.id) = w.type
        BY <1>1, <1>2, <2>1
    <2> QED
        BY <2>1, <2>2, UnaryAgrees
<1>3. ASSUME NEW s \in Binary, NEW id \in Nat \ {0}, NEW x \in Nat, NEW y \in Nat,
             w = Val(s[1], s[2], id, <<x, y>>), <<x, s[3]>> \in E, <<y, s[3]>> \in E
      PROVE  OperandsAgree(def, w)
    <2>1. w.op = s[1] /\ w.type = s[2] /\ w.args = <<x, y>> /\ w.id = id
        BY <1>3 DEF Val
    <2>2. TypeOf(def, x) = s[3] /\ TypeOf(def, y) = s[3] /\ TypeOf(def, w.id) = w.type
        BY <1>1, <1>3, <2>1
    <2> QED
        BY <2>1, <2>2, BinaryAgrees
<1>4. ASSUME NEW s \in Stores, NEW x \in Nat, NEW y \in Nat,
             w = Store(x, y), <<x, s[1]>> \in E, <<y, s[2]>> \in E
      PROVE  OperandsAgree(def, w)
    <2>1. w.op = "Store" /\ w.args = <<x, y>>
        BY <1>4 DEF Store, Plain
    <2>2. TypeOf(def, x) = s[1] /\ TypeOf(def, y) = s[2]
        BY <1>1, <1>4
    <2> QED
        BY <2>1, <2>2, StoreAgrees
<1>5. ASSUME NEW c \in Chains, NEW id \in Nat \ {0}, w = Chain(c[1], id, c[2], c[3])
      PROVE  OperandsAgree(def, w)
    <2>1. w.op = "AccessChain" /\ w.type = c[1] /\ w.args = <<c[2], c[3]>> /\ w.id = id
        BY <1>5 DEF Chain, Val
    <2>2. TypeOf(def, w.id) = w.type
        BY <1>5, <2>1
    <2> QED
        BY <2>1, <2>2, ChainAgrees
<1>6. CASE w = Plain("Nop", <<>>, <<>>)
    <2>1. w.op = "Nop"
        BY <1>6 DEF Plain
    <2> QED
        BY <2>1 DEF OperandsAgree
<1>7. CASE w = Plain("ControlBarrier", <<G.const_uint_2, G.const_uint_2, G.const_uint_264>>, <<>>)
    <2>1. w.op = "ControlBarrier"
        BY <1>7 DEF Plain
    <2> QED
        BY <2>1 DEF OperandsAgree
<1> QED
    BY <1>2, <1>3, <1>4, <1>5, <1>6, <1>7 DEF Obeys

\* An instruction that fits has operands of the types it demands.
LEMMA FittingAgrees ==
    ASSUME NEW def, Base(def), NEW E, Typed(def, E), NEW w \in Instruction, Fit(E, w),
           w.id # 0 => TypeOf(def, w.id) = w.type
    PROVE  OperandsAgree(def, w)
<1>1. CASE w.op \in BodyOps
    BY <1>1, ObeyingAgrees DEF Fit
<1>2. CASE w.op = "BranchConditional"
    <2>1. PICK c \in Nat : w.args = <<c>> /\ <<c, G.type_bool>> \in E
        BY <1>2 DEF Fit
    <2>2. TypeOf(def, c) = 3 /\ w.args[1] = c
        BY <2>1, Ids DEF Typed
    <2>3. Kind(def, w.args[1]) = "TypeBool"
        BY <2>2 DEF Kind, Base
    <2> QED
        BY <1>2, <2>3 DEF OperandsAgree
<1>3. CASE w.op \notin BodyOps \cup {"BranchConditional"}
    <2>1. w.op \notin {"Load", "Store", "IAdd", "IMul", "FAdd", "FMul", "INotEqual", "ULessThan",
                       "LogicalNot", "ConvertUToF", "ConvertFToU", "UConvert", "ConvertUToPtr",
                       "AccessChain", "BranchConditional"}
        BY <1>3 DEF BodyOps
    <2>2. w.op # "UMod"
        BY DEF Instruction, BodyOps, OtherOps
    <2> QED
        BY <2>1, <2>2 DEF OperandsAgree
<1> QED
    BY <1>1, <1>2, <1>3

\* A sound module is well typed.
LEMMA SoundAgrees ==
    ASSUME NEW r, Sound(r), NEW f, Shaped(r, f)
    PROVE  WellTyped(r)
<1>1. /\ r \in Seq(Instruction) /\ Once(r)
      /\ \A u \in 1 .. Len(r) : Fit(Open(r, u) \cup Near(r, u), r[u])
    BY DEF Sound
<1>2. DOMAIN r = 1 .. Len(r)
    BY <1>1, LenProperties
<1>3. Base(Definitions(r))
    BY HeaderBase
<1> SUFFICES ASSUME NEW u \in 1 .. Len(r)
             PROVE  OperandsAgree(Definitions(r), r[u])
    BY <1>2 DEF WellTyped
<1>4. r[u].id # 0 => TypeOf(Definitions(r), r[u].id) = r[u].type
    BY <1>1, DefinitionsAt DEF TypeOf
<1>5. r[u] \in Instruction
    BY <1>1, ElementOfSeq
<1>6. Typed(Definitions(r), Open(r, u) \cup Near(r, u))
    BY KnownAreTyped
<1>7. Fit(Open(r, u) \cup Near(r, u), r[u])
    BY <1>1
<1> QED
    BY <1>3, <1>4, <1>5, <1>6, <1>7, FittingAgrees

\* The invariant implies that the types agree.
LEMMA TypesAgreeFromInv == EmitInv => TypesAgree
<1> SUFFICES ASSUME EmitInv, Translated
             PROVE  WellTyped(Module)
    BY DEF TypesAgree
<1>1. Finished
    BY DEF EmitInv, Translated
<1>2. PICK f : Sound(Module) /\ Shaped(Module, f)
    BY <1>1 DEF Finished
<1> QED
    BY <1>2, SoundAgrees

\* lifter.rs:261-970: whatever the program, every operand in the module has the type that its
\* instruction demands, across the three views of a register.
THEOREM OperandTypes == EmitSpec => []TypesAgree
BY EmitInvariant, TypesAgreeFromInv, PTL

-----------------------------------------------------------------------------
(***************************************************************************)
(* Execution.  Code leads from one state of the machine to another.        *)
(***************************************************************************)

Listing(c) == \E S : c \in Seq(S)

\* g is the run of code from s.
Traces(g, s, seed, code) ==
    /\ g = [k \in 0 .. Len(code) |-> g[k]]
    /\ g[0] = s
    /\ \A k \in 1 .. Len(code) : g[k] = Step(g[k - 1], seed, code[k])

Leads(s, seed, code, t) == \E g : Traces(g, s, seed, code) /\ g[Len(code)] = t

\* A sequence has a length.
LEMMA ListingLength ==
    ASSUME NEW c, Listing(c)
    PROVE  Len(c) \in Nat
<1>1. PICK S : c \in Seq(S)
    BY DEF Listing
<1> QED
    BY <1>1, LenProperties

\* A sequence and one more element.
LEMMA ListingAppend ==
    ASSUME NEW c, Listing(c), NEW w
    PROVE  /\ Listing(Append(c, w)) /\ Len(Append(c, w)) = Len(c) + 1
           /\ \A k \in 1 .. Len(c) : Append(c, w)[k] = c[k]
           /\ Append(c, w)[Len(c) + 1] = w
<1>1. PICK S : c \in Seq(S)
    BY DEF Listing
<1>2. c \in Seq(S \cup {w}) /\ w \in S \cup {w}
    BY <1>1
<1>3. Append(c, w) \in Seq(S \cup {w})
    BY <1>2
<1> QED
    BY <1>2, <1>3 DEF Listing

\* Two sequences joined.
LEMMA ListingConcat ==
    ASSUME NEW c, Listing(c), NEW d, Listing(d)
    PROVE  Listing(c \o d) /\ Joins(c \o d, c, d)
<1>1. PICK S : c \in Seq(S)
    BY DEF Listing
<1>2. PICK T : d \in Seq(T)
    BY DEF Listing
<1>3. c \in Seq(S \cup T) /\ d \in Seq(S \cup T)
    BY <1>1, <1>2
<1>4. c \o d \in Seq(S \cup T)
    BY <1>3
<1>5. Joins(c \o d, c, d)
    BY <1>3, ConcatParts
<1> QED
    BY <1>4, <1>5 DEF Listing

\* The empty code leads nowhere else.
LEMMA LeadsNone ==
    ASSUME NEW s, NEW seed
    PROVE  Leads(s, seed, <<>>, s)
<1> DEFINE g == [k \in 0 .. 0 |-> s]
<1>1. Len(<<>>) = 0
    OBVIOUS
<1>2. g = [k \in 0 .. 0 |-> g[k]] /\ g[0] = s
    OBVIOUS
<1> HIDE DEF g
<1>3. Traces(g, s, seed, <<>>)
    BY <1>1, <1>2 DEF Traces
<1> QED
    BY <1>1, <1>2, <1>3 DEF Leads

\* Code and one more instruction.
LEMMA LeadsAppend ==
    ASSUME NEW c, Listing(c), NEW w, NEW s, NEW seed, NEW t, Leads(s, seed, c, t)
    PROVE  Leads(s, seed, Append(c, w), Step(t, seed, w))
<1> DEFINE d == Append(c, w)
           n == Len(c)
           u == Step(t, seed, w)
<1>1. n \in Nat /\ Len(d) = n + 1 /\ (\A k \in 1 .. n : d[k] = c[k]) /\ d[n + 1] = w
    BY ListingLength, ListingAppend
<1>2. PICK g : Traces(g, s, seed, c) /\ g[n] = t
    BY DEF Leads
<1> DEFINE h == [k \in 0 .. n + 1 |-> IF k = n + 1 THEN u ELSE g[k]]
<1> HIDE DEF d, n, u
<1>3. h[n + 1] = u /\ (\A k \in 0 .. n : h[k] = g[k]) /\ h = [k \in 0 .. n + 1 |-> h[k]]
    BY <1>1
<1> HIDE DEF h
<1>4. h[0] = s
    <2>1. 0 \in 0 .. n /\ g[0] = s
        BY <1>1, <1>2 DEF Traces
    <2> QED
        BY <1>3, <2>1
<1>5. ASSUME NEW k \in 1 .. n + 1
      PROVE  h[k] = Step(h[k - 1], seed, d[k])
    <2>1. CASE k = n + 1
        <3>1. k - 1 = n /\ n \in 0 .. n
            BY <1>1, <2>1
        <3>2. h[k - 1] = t /\ d[k] = w
            BY <1>1, <1>2, <1>3, <2>1, <3>1
        <3> QED
            BY <1>3, <2>1, <3>2 DEF u
    <2>2. CASE k # n + 1
        <3>1. k \in 1 .. n /\ k \in 0 .. n /\ k - 1 \in 0 .. n
            BY <1>1, <2>2
        <3>2. g[k] = Step(g[k - 1], seed, c[k])
            BY <1>2, <3>1 DEF Traces, n
        <3> QED
            BY <1>1, <1>3, <3>1, <3>2
    <2> QED
        BY <2>1, <2>2
<1>6. Traces(h, s, seed, d)
    BY <1>1, <1>3, <1>4, <1>5 DEF Traces
<1> QED
    BY <1>1, <1>3, <1>6 DEF Leads, d, u

\* Code and then more code.
LEMMA LeadsConcat ==
    ASSUME NEW c, Listing(c), NEW d, Listing(d), NEW s, NEW t, NEW u, NEW seed,
           Leads(s, seed, c, t), Leads(t, seed, d, u)
    PROVE  Leads(s, seed, c \o d, u)
<1> DEFINE r == c \o d
           n == Len(c)
           m == Len(d)
<1>1. n \in Nat /\ m \in Nat /\ Len(r) = n + m
    BY ListingLength, ListingConcat DEF Joins
<1>2. (\A k \in 1 .. n : r[k] = c[k]) /\ (\A k \in 1 .. m : r[n + k] = d[k])
    BY ListingConcat DEF Joins
<1>3. PICK g : Traces(g, s, seed, c) /\ g[n] = t
    BY DEF Leads
<1>4. PICK f : Traces(f, t, seed, d) /\ f[m] = u
    BY DEF Leads
<1> DEFINE h == [k \in 0 .. n + m |-> IF k <= n THEN g[k] ELSE f[k - n]]
<1>5. \A k \in 1 .. n : g[k] = Step(g[k - 1], seed, c[k])
    BY <1>3 DEF Traces
<1>6. \A k \in 1 .. m : f[k] = Step(f[k - 1], seed, d[k])
    BY <1>4 DEF Traces
<1>7. f[0] = t /\ g[0] = s
    BY <1>3, <1>4 DEF Traces
<1> HIDE DEF r, n, m
<1>8. (\A k \in 0 .. n : h[k] = g[k]) /\ h = [k \in 0 .. n + m |-> h[k]]
    BY <1>1
<1>9. ASSUME NEW k \in 0 .. m
      PROVE  h[n + k] = f[k]
    <2>1. CASE k = 0
        BY <1>1, <1>3, <1>7, <1>8, <2>1
    <2>2. CASE k # 0
        <3>1. n + k \in 0 .. n + m /\ ~(n + k <= n) /\ (n + k) - n = k
            BY <1>1, <2>2
        <3> QED
            BY <3>1
    <2> QED
        BY <2>1, <2>2
<1> HIDE DEF h
<1>10. ASSUME NEW k \in 1 .. n + m
       PROVE  h[k] = Step(h[k - 1], seed, r[k])
    <2>1. CASE k <= n
        <3>1. k \in 1 .. n /\ k \in 0 .. n /\ k - 1 \in 0 .. n
            BY <1>1, <2>1
        <3> QED
            BY <1>2, <1>5, <1>8, <3>1
    <2>2. CASE ~(k <= n)
        <3>1. PICK j : j = k - n
            OBVIOUS
        <3>2. j \in 1 .. m /\ j \in 0 .. m /\ j - 1 \in 0 .. m /\ k = n + j /\ k - 1 = n + (j - 1)
            BY <1>1, <2>2, <3>1
        <3>3. h[n + j] = f[j] /\ h[n + (j - 1)] = f[j - 1] /\ r[n + j] = d[j] /\ f[j] = Step(f[j - 1], seed, d[j])
            BY <1>2, <1>6, <1>9, <3>2
        <3> QED
            BY <3>2, <3>3
    <2> QED
        BY <2>1, <2>2
<1>11. 0 \in 0 .. n /\ m \in 0 .. m
    BY <1>1
<1>12. h[0] = s /\ h[n + m] = u
    BY <1>4, <1>7, <1>8, <1>9, <1>11
<1>13. Traces(h, s, seed, r)
    BY <1>1, <1>8, <1>10, <1>12 DEF Traces
<1> QED
    BY <1>1, <1>12, <1>13 DEF Leads, r

\* Code leads to one state only.
LEMMA LeadsUnique ==
    ASSUME NEW c, Listing(c), NEW s, NEW seed, NEW g, Traces(g, s, seed, c), NEW h, Traces(h, s, seed, c)
    PROVE  g = h
<1> DEFINE n == Len(c)
           T == {k \in Nat : k \in 0 .. n => g[k] = h[k]}
<1>1. n \in Nat
    BY ListingLength
<1>2. 0 \in T
    BY DEF Traces
<1>3. ASSUME NEW k \in 0 .. n - 1, k \in T
      PROVE  k + 1 \in T
    <2>1. k + 1 \in 1 .. n /\ (k + 1) - 1 = k /\ k \in 0 .. n
        BY <1>1
    <2>2. g[k + 1] = Step(g[(k + 1) - 1], seed, c[k + 1]) /\ h[k + 1] = Step(h[(k + 1) - 1], seed, c[k + 1])
        BY <2>1 DEF Traces
    <2>3. g[k] = h[k]
        BY <1>3, <2>1
    <2> HIDE DEF n
    <2>4. g[k + 1] = h[k + 1]
        BY <2>1, <2>2, <2>3
    <2> QED
        BY <2>1, <2>4
<1>4. \A k \in 0 .. n : k \in T
    <2> HIDE DEF T, n
    <2> QED
        BY <1>1, <1>2, <1>3, BoundedInduction
<1>5. \A k \in 0 .. n : g[k] = h[k]
    BY <1>4
<1>6. g = [k \in 0 .. n |-> g[k]] /\ h = [k \in 0 .. n |-> h[k]]
    BY DEF Traces
<1> HIDE DEF T, n
<1> QED
    BY <1>5, <1>6

\* The states an invocation starts from.
Initial(m) == [env |-> [id \in Nat |-> 0], m |-> m, next |-> 0]

\* g passes through the words from a + 1 to b.
Passes(g, c, seed, a, b) ==
    /\ a \in Nat /\ b \in Nat /\ a <= b
    /\ \A k \in (a + 1) .. b : g[k] = Step(g[k - 1], seed, c[k])

\* What is computed between two words is what a run goes through.
LEMMA BetweenStates ==
    ASSUME NEW c, NEW seed, NEW g, NEW a, NEW b, Passes(g, c, seed, a, b)
    PROVE  Between(c, seed, g[a], a, b) = g[b]
<1> DEFINE V(h, k) == IF k = a THEN g[a] ELSE Step(h[k - 1], seed, c[k])
           Is(h) == h = [k \in a .. b |-> V(h, k)]
           after == CHOOSE h : Is(h)
           T == {j \in Nat : j \in 0 .. (b - a) => after[a + j] = g[a + j]}
<1>0. a \in Nat /\ b \in Nat /\ a <= b /\ \A k \in (a + 1) .. b : g[k] = Step(g[k - 1], seed, c[k])
    BY DEF Passes
<1>1. Between(c, seed, g[a], a, b) = after[b]
    BY Zenon DEF Between
<1>2. \E h : Is(h)
    <2> DEFINE h == [k \in a .. b |-> g[k]]
    <2>1. ASSUME NEW k \in a .. b
          PROVE  g[k] = V(h, k)
        <3>1. CASE k = a
            BY <3>1
        <3>2. CASE k # a
            <4>1. k \in (a + 1) .. b /\ k - 1 \in a .. b
                BY <1>0, <3>2
            <4>2. h[k - 1] = g[k - 1]
                BY <4>1
            <4>3. g[k] = Step(g[k - 1], seed, c[k])
                BY <1>0, <4>1
            <4> HIDE DEF h
            <4> QED
                BY <3>2, <4>2, <4>3
        <3> QED
            BY <3>1, <3>2
    <2>2. h = [k \in a .. b |-> V(h, k)]
        <3> DEFINE W(k) == V(h, k)
        <3>1. \A k \in a .. b : g[k] = W(k)
            BY <2>1
        <3> HIDE DEF W
        <3>2. [k \in a .. b |-> g[k]] = [k \in a .. b |-> W(k)]
            BY <3>1
        <3> QED
            BY <3>2 DEF W
    <2> QED
        BY <2>2, Zenon
<1>3. Is(after)
    <2> HIDE DEF Is
    <2> QED
        BY <1>2
<1> HIDE DEF after
<1>4. \A k \in a .. b : after[k] = V(after, k)
    BY <1>3, Zenon
<1> HIDE DEF Is
<1>5. 0 \in T
    <2>1. a \in a .. b /\ a + 0 = a
        BY <1>0
    <2>2. after[a] = g[a]
        BY <1>4, <2>1
    <2> QED
        BY <2>1, <2>2
<1>6. ASSUME NEW j \in 0 .. (b - a) - 1, j \in T
      PROVE  j + 1 \in T
    <2>1. PICK k : k = a + j /\ k \in a .. b /\ k + 1 \in a .. b /\ k + 1 # a /\ k + 1 \in (a + 1) .. b
                   /\ (k + 1) - 1 = k /\ a + (j + 1) = k + 1 /\ j \in 0 .. (b - a)
        BY <1>0
    <2>2. after[k] = g[k]
        BY <1>6, <2>1
    <2>3. after[k + 1] = Step(after[(k + 1) - 1], seed, c[k + 1])
        BY <1>4, <2>1
    <2>4. g[k + 1] = Step(g[(k + 1) - 1], seed, c[k + 1])
        BY <1>0, <2>1
    <2>5. after[k + 1] = g[k + 1]
        BY <2>1, <2>2, <2>3, <2>4
    <2> QED
        BY <2>1, <2>5
<1>7. \A j \in 0 .. (b - a) : j \in T
    <2>1. b - a \in Nat
        BY <1>0
    <2> HIDE DEF T
    <2> QED
        BY <1>5, <1>6, <2>1, BoundedInduction
<1>8. b - a \in 0 .. (b - a) /\ a + (b - a) = b
    BY <1>0
<1>9. after[a + (b - a)] = g[a + (b - a)]
    BY <1>7, <1>8
<1> QED
    BY <1>1, <1>8, <1>9

\* The memory that Run answers with is that of the state the module leads to.
LEMMA RunLeads ==
    ASSUME NEW c, Listing(c), NEW m, NEW seed, NEW t, Leads(Initial(m), seed, c, t)
    PROVE  Run(c, m, seed) = t.m
<1>1. PICK g : Traces(g, Initial(m), seed, c) /\ g[Len(c)] = t
    BY DEF Leads
<1>2. PICK n : n = Len(c) /\ n \in Nat
    BY ListingLength
<1>3. PICK h : h = n \div 2 /\ h \in Nat /\ h <= n
    BY <1>2
<1>4. g[0] = Initial(m) /\ \A k \in 1 .. n : g[k] = Step(g[k - 1], seed, c[k])
    BY <1>1, <1>2 DEF Traces
<1>5. Between(c, seed, g[0], 0, h) = g[h]
    <2>1. Passes(g, c, seed, 0, h)
        BY <1>2, <1>3, <1>4 DEF Passes
    <2> QED
        BY <2>1, BetweenStates
<1>6. Between(c, seed, g[h], h, n) = g[n]
    <2>1. Passes(g, c, seed, h, n)
        BY <1>2, <1>3, <1>4 DEF Passes
    <2> QED
        BY <2>1, BetweenStates
<1>7. Run(c, m, seed) = Between(c, seed, Between(c, seed, Initial(m), 0, Len(c) \div 2), Len(c) \div 2, Len(c)).m
    BY Zenon DEF Run, Initial
<1>8. Run(c, m, seed) = Between(c, seed, Between(c, seed, g[0], 0, h), h, n).m
    BY <1>2, <1>3, <1>4, <1>7
<1> QED
    BY <1>1, <1>2, <1>5, <1>6, <1>8

-----------------------------------------------------------------------------
(***************************************************************************)
(* What one instruction does to the state.                                 *)
(***************************************************************************)

\* A state inside a block.
InBlock(s) == s = [env |-> s.env, m |-> s.m, next |-> 0] /\ s.env = [x \in Nat |-> s.env[x]]

\* From s to t only ids from b on get a value.
Spares(b, s, t) == \A x \in Nat : x < b => t.env[x] = s.env[x]

\* The location of a variable.
Slot(x) == <<x, 0>>

\* From m to n only the variables of X changed.
Keeps(m, n, X) ==
    \A p : (\A x \in X : p # Slot(x)) => (p \in DOMAIN n <=> p \in DOMAIN m) /\ (p \in DOMAIN m => n[p] = m[p])

Holds(m, x, v) == Slot(x) \in DOMAIN m /\ m[Slot(x)] = v

\* The code takes s to t, and only the ids from b on and the variables of X change.
Runs(s, seed, code, t, b, X) ==
    /\ Listing(code) /\ Leads(s, seed, code, t) /\ InBlock(t)
    /\ Spares(b, s, t) /\ Keeps(s.m, t.m, X)

\* The instruction w gives the id a value and does nothing else.
Gives(s, seed, w, id, v) ==
    /\ InBlock(Step(s, seed, w))
    /\ Step(s, seed, w).m = s.m
    /\ Step(s, seed, w).env[id] = v
    /\ \A x \in Nat : x # id => Step(s, seed, w).env[x] = s.env[x]

\* The operations that do not give their id a value.
Acting == {"Store", "Branch", "BranchConditional", "Return", "Function"}

\* An instruction with a type gives its id a value.
LEMMA ValueGiven ==
    ASSUME NEW s, InBlock(s), NEW seed, NEW w, w.op \notin Acting, w.type # 0, w.id \in Nat
    PROVE  Gives(s, seed, w, w.id, Value(s, seed, w))
<1> DEFINE v == Value(s, seed, w)
           t == Step(s, seed, w)
<1>0. s.next = 0
    <2>1. [env |-> s.env, m |-> s.m, next |-> 0].next = 0
        OBVIOUS
    <2> QED
        BY <2>1 DEF InBlock
<1>1. t = Execute(s, seed, w)
    BY <1>0 DEF Step
<1>2. t = [s EXCEPT !.env[w.id] = v]
    BY <1>1 DEF Execute, Acting
<1> HIDE DEF v, t
<1>3. s = [env |-> s.env, m |-> s.m, next |-> 0]
    BY DEF InBlock
<1>4. PICK e, m : e = s.env /\ m = s.m
    OBVIOUS
<1>5. s = [env |-> e, m |-> m, next |-> 0] /\ e = [x \in Nat |-> e[x]]
    BY <1>3, <1>4 DEF InBlock
<1>6. PICK f : f = [e EXCEPT ![w.id] = v]
    OBVIOUS
<1>7. t = [env |-> f, m |-> m, next |-> 0]
    BY <1>2, <1>5, <1>6
<1>8. t.env = f /\ t.m = m
    BY <1>7
<1>9. f = [x \in Nat |-> f[x]] /\ f[w.id] = v /\ \A x \in Nat : x # w.id => f[x] = e[x]
    BY <1>5, <1>6
<1>10. InBlock(t)
    BY <1>7, <1>8, <1>9 DEF InBlock
<1> QED
    BY <1>4, <1>8, <1>9, <1>10 DEF Gives, t, v

\* What is written to a variable is there, and nothing else changes.
LEMMA WrittenHolds ==
    ASSUME NEW m, NEW x, NEW v
    PROVE  Holds(Written(m, Slot(x), v), x, v) /\ Keeps(m, Written(m, Slot(x), v), {x})
<1> DEFINE n == Written(m, Slot(x), v)
           q == Slot(x)
<1>1. n = [p \in DOMAIN m \cup {q} |-> IF p = q THEN v ELSE m[p]]
    BY DEF Written
<1> HIDE DEF n, q
<1>2. q \in DOMAIN n /\ n[q] = v
    BY <1>1
<1>3. ASSUME NEW p, p # q
      PROVE  (p \in DOMAIN n <=> p \in DOMAIN m) /\ (p \in DOMAIN m => n[p] = m[p])
    BY <1>1, <1>3
<1> QED
    BY <1>2, <1>3 DEF Holds, Keeps, n, q

\* Variables that are not the same have different locations.
LEMMA SlotsDiffer ==
    ASSUME NEW x, NEW y, x # y
    PROVE  Slot(x) # Slot(y)
BY DEF Slot

\* What a variable holds stays while others change.
LEMMA HoldsStays ==
    ASSUME NEW m, NEW n, NEW X, Keeps(m, n, X), NEW x, x \notin X, NEW v, Holds(m, x, v)
    PROVE  Holds(n, x, v)
<1>1. \A y \in X : Slot(x) # Slot(y)
    BY SlotsDiffer
<1> QED
    BY <1>1 DEF Keeps, Holds

\* What is read from a variable is what it holds.
LEMMA ReadHeld ==
    ASSUME NEW m, NEW x, NEW v, Holds(m, x, v), NEW seed, NEW type
    PROVE  Read(m, seed, type, Slot(x)) = v
BY DEF Holds, Read

\* What is read from a variable stays the same while others change.
LEMMA ReadStays ==
    ASSUME NEW m, NEW n, NEW X, Keeps(m, n, X), NEW x, x \notin X, NEW seed, NEW type
    PROVE  Read(n, seed, type, Slot(x)) = Read(m, seed, type, Slot(x))
<1>1. \A y \in X : Slot(x) # Slot(y)
    BY SlotsDiffer
<1> QED
    BY <1>1 DEF Keeps, Read

\* Changes add up.
LEMMA KeepsAdd ==
    ASSUME NEW m, NEW n, NEW o, NEW X, NEW Y, Keeps(m, n, X), Keeps(n, o, Y)
    PROVE  Keeps(m, o, X \cup Y)
BY DEF Keeps

\* No change.
LEMMA KeepsSame ==
    ASSUME NEW m, NEW X
    PROVE  Keeps(m, m, X)
BY DEF Keeps

\* What is kept outside X is kept outside a larger set.
LEMMA KeepsMore ==
    ASSUME NEW m, NEW n, NEW X, NEW Y, Keeps(m, n, X), X \subseteq Y
    PROVE  Keeps(m, n, Y)
BY DEF Keeps

\* No code does nothing.
LEMMA RunsNone ==
    ASSUME NEW s, InBlock(s), NEW seed, NEW b
    PROVE  Runs(s, seed, <<>>, s, b, {})
<1>1. <<>> \in Seq({})
    OBVIOUS
<1> QED
    BY <1>1, LeadsNone, KeepsSame DEF Runs, Spares, Listing

\* The state u is t but for the value v of an id.
Adds1(t, u, id, v) ==
    u.m = t.m /\ u.env[id] = v /\ \A x \in Nat : x # id => u.env[x] = t.env[x]

\* Code and an instruction that gives an id a value.
LEMMA RunsValue ==
    ASSUME NEW c, NEW s, NEW seed, NEW t, NEW b \in Nat, NEW X, Runs(s, seed, c, t, b, X),
           NEW w, NEW id \in Nat, id >= b, NEW v, Gives(t, seed, w, id, v)
    PROVE  \E u : Runs(s, seed, Append(c, w), u, b, X) /\ Adds1(t, u, id, v)
<1> DEFINE u == Step(t, seed, w)
<1>1. Leads(s, seed, Append(c, w), u) /\ Listing(Append(c, w))
    BY LeadsAppend, ListingAppend DEF Runs
<1>2. InBlock(u) /\ Adds1(t, u, id, v)
    BY DEF Gives, Adds1
<1> HIDE DEF u
<1>3. Spares(b, s, u)
    BY <1>2 DEF Runs, Spares, Adds1
<1>4. Keeps(s.m, u.m, X)
    BY <1>2 DEF Runs, Adds1
<1> QED
    BY <1>1, <1>2, <1>3, <1>4 DEF Runs, u

\* The state u is t but for the value v of a variable.
Puts(t, u, x, v) ==
    u.env = t.env /\ Holds(u.m, x, v) /\ Keeps(t.m, u.m, {x})

\* Code and a store.
LEMMA RunsStore ==
    ASSUME NEW c, NEW s, NEW seed, NEW t, NEW b \in Nat, NEW X, Runs(s, seed, c, t, b, X),
           NEW a, NEW x, t.env[a] = Slot(x), NEW k, NEW v, t.env[k] = v
    PROVE  \E u : Runs(s, seed, Append(c, Store(a, k)), u, b, X \cup {x}) /\ Puts(t, u, x, v)
<1> DEFINE w == Store(a, k)
           u == Step(t, seed, w)
<1>1. Leads(s, seed, Append(c, w), u) /\ Listing(Append(c, w))
    BY LeadsAppend, ListingAppend DEF Runs
<1>2. w.op = "Store" /\ w.type = 0 /\ w.args[1] = a /\ w.args[2] = k
    BY DEF Store, Plain
<1> HIDE DEF w
<1>3. t = [env |-> t.env, m |-> t.m, next |-> 0] /\ t.env = [y \in Nat |-> t.env[y]]
    BY DEF Runs, InBlock
<1>4. PICK e, m : e = t.env /\ m = t.m
    OBVIOUS
<1>5. t = [env |-> e, m |-> m, next |-> 0] /\ e = [y \in Nat |-> e[y]]
    BY <1>3, <1>4
<1>6. PICK n : n = Written(m, Slot(x), v)
    OBVIOUS
<1>7. u = [env |-> e, m |-> n, next |-> 0]
    <2>1. t.next = 0
        BY <1>5
    <2>20. u = Execute(t, seed, w)
        BY <2>1 DEF Step
    <2>21. w.op = "Store" /\ w.type = 0
        BY <1>2
    <2>22. Execute(t, seed, w) = [t EXCEPT !.m = Written(t.m, t.env[w.args[1]], t.env[w.args[2]])]
        BY <2>21 DEF Execute
    <2>2. u = [t EXCEPT !.m = Written(t.m, t.env[w.args[1]], t.env[w.args[2]])]
        BY <2>20, <2>22
    <2>3. u = [t EXCEPT !.m = n]
        BY <1>2, <1>4, <1>5, <1>6, <2>2
    <2> HIDE DEF u
    <2> QED
        BY <1>5, <2>3
<1> HIDE DEF u
<1>8. u.env = e /\ u.m = n
    BY <1>7
<1>9. InBlock(u)
    BY <1>5, <1>7, <1>8 DEF InBlock
<1>10. Puts(t, u, x, v)
    BY <1>4, <1>6, <1>8, WrittenHolds DEF Puts
<1>11. Spares(b, s, u)
    BY <1>4, <1>8 DEF Runs, Spares
<1>12. Keeps(s.m, u.m, X \cup {x})
    BY <1>10, KeepsAdd DEF Runs, Puts
<1> QED
    BY <1>1, <1>9, <1>10, <1>11, <1>12 DEF Runs, u, w

\* Code and more code.
LEMMA RunsConcat ==
    ASSUME NEW c, NEW d, NEW s, NEW t, NEW u, NEW seed, NEW b \in Nat, NEW e \in Nat, b <= e, NEW X, NEW Y,
           Runs(s, seed, c, t, b, X), Runs(t, seed, d, u, e, Y)
    PROVE  Runs(s, seed, c \o d, u, b, X \cup Y)
<1>1. Leads(s, seed, c \o d, u) /\ Listing(c \o d)
    BY LeadsConcat, ListingConcat DEF Runs
<1>2. Keeps(s.m, u.m, X \cup Y)
    BY KeepsAdd DEF Runs
<1>3. Spares(b, s, u)
    BY DEF Runs, Spares
<1> QED
    BY <1>1, <1>2, <1>3 DEF Runs

-----------------------------------------------------------------------------
\* What the operations of the body come to.
LEMMA LoadGives ==
    ASSUME NEW s, InBlock(s), NEW seed, NEW type, type # 0, NEW id \in Nat, NEW a
    PROVE  Gives(s, seed, Load(type, id, a), id, Read(s.m, seed, type, s.env[a]))
<1> DEFINE w == Load(type, id, a)
<1>1. w.op = "Load" /\ w.type = type /\ w.id = id /\ w.args[1] = a
    BY DEF Load, Val
<1> HIDE DEF w
<1>2. Value(s, seed, w) = Read(s.m, seed, type, s.env[a])
    BY <1>1 DEF Value
<1>3. w.op \notin Acting
    BY <1>1 DEF Acting
<1>4. Gives(s, seed, w, w.id, Value(s, seed, w))
    BY <1>1, <1>3, ValueGiven
<1> QED
    BY <1>1, <1>2, <1>4 DEF w

\* A pointer to an element.
LEMMA ChainGives ==
    ASSUME NEW s, InBlock(s), NEW seed, NEW type, type # 0, NEW id \in Nat, NEW a, NEW c
    PROVE  Gives(s, seed, Chain(type, id, a, c), id, Element(s.env[a], s.env[c]))
<1> DEFINE w == Chain(type, id, a, c)
<1>1. w.op = "AccessChain" /\ w.type = type /\ w.id = id /\ w.args[1] = a /\ w.args[2] = c
    BY DEF Chain, Val
<1> HIDE DEF w
<1>2. Value(s, seed, w) = Element(s.env[a], s.env[c])
    BY <1>1 DEF Value
<1>3. w.op \notin Acting
    BY <1>1 DEF Acting
<1>4. Gives(s, seed, w, w.id, Value(s, seed, w))
    BY <1>1, <1>3, ValueGiven
<1> QED
    BY <1>1, <1>2, <1>4 DEF w

\* An operation on one value.
LEMMA UnaryGives ==
    ASSUME NEW s, InBlock(s), NEW seed, NEW type, type # 0, NEW id \in Nat, NEW a, NEW op, NEW v,
           \/ op = "UConvert" /\ v = Wrap(type, s.env[a])
           \/ op = "ConvertUToF" /\ v = Rounded(s.env[a])
           \/ op = "LogicalNot" /\ v = 1 - s.env[a]
           \/ op = "ConvertUToPtr" /\ v = <<0, s.env[a]>>
    PROVE  Gives(s, seed, Val(op, type, id, <<a>>), id, v)
<1> DEFINE w == Val(op, type, id, <<a>>)
<1>1. w.op = op /\ w.type = type /\ w.id = id /\ w.args[1] = a
    BY DEF Val
<1> HIDE DEF w
<1>2. Value(s, seed, w) = v
    BY <1>1 DEF Value
<1>3. w.op \notin Acting
    BY <1>1 DEF Acting
<1>4. Gives(s, seed, w, w.id, Value(s, seed, w))
    BY <1>1, <1>3, ValueGiven
<1> QED
    BY <1>1, <1>2, <1>4 DEF w

\* An operation on two values.
LEMMA BinaryGives ==
    ASSUME NEW s, InBlock(s), NEW seed, NEW type, type # 0, NEW id \in Nat, NEW a, NEW c, NEW op, NEW v,
           \/ op = "IAdd" /\ v = Wrap(type, s.env[a] + s.env[c])
           \/ op = "IMul" /\ v = Wrap(type, s.env[a] * s.env[c])
           \/ op = "FAdd" /\ v = Rounded(s.env[a] + s.env[c])
           \/ op = "INotEqual" /\ v = Truth(s.env[a] # s.env[c])
           \/ op = "ULessThan" /\ v = Truth(s.env[a] < s.env[c])
    PROVE  Gives(s, seed, Val(op, type, id, <<a, c>>), id, v)
<1> DEFINE w == Val(op, type, id, <<a, c>>)
<1>1. w.op = op /\ w.type = type /\ w.id = id /\ w.args[1] = a /\ w.args[2] = c
    BY DEF Val
<1> HIDE DEF w
<1>2. Value(s, seed, w) = v
    BY <1>1 DEF Value
<1>3. w.op \notin Acting
    BY <1>1 DEF Acting
<1>4. Gives(s, seed, w, w.id, Value(s, seed, w))
    BY <1>1, <1>3, ValueGiven
<1> QED
    BY <1>1, <1>2, <1>4 DEF w

\* Code and a load from a variable.
LEMMA RunsLoad ==
    ASSUME NEW c, NEW s, NEW seed, NEW t, NEW b \in Nat, NEW X, Runs(s, seed, c, t, b, X),
           NEW type, type # 0, NEW id \in Nat, id >= b, NEW a, NEW x, t.env[a] = Slot(x)
    PROVE  \E u : Runs(s, seed, Append(c, Load(type, id, a)), u, b, X)
                  /\ Adds1(t, u, id, Read(t.m, seed, type, Slot(x)))
<1>1. Gives(t, seed, Load(type, id, a), id, Read(t.m, seed, type, t.env[a]))
    BY LoadGives DEF Runs
<1>2. Gives(t, seed, Load(type, id, a), id, Read(t.m, seed, type, Slot(x)))
    BY <1>1
<1> QED
    BY <1>2, RunsValue

\* Code and a conversion of one number to another type.
LEMMA RunsConversion ==
    ASSUME NEW c, NEW s, NEW seed, NEW t, NEW b \in Nat, NEW X, Runs(s, seed, c, t, b, X),
           NEW type, type # 0, type # G.type_uint, NEW id \in Nat, id >= b, NEW a, NEW v, NEW op,
           \/ op = "UConvert" /\ v = t.env[a]
           \/ op = "ConvertUToF" /\ v = Rounded(t.env[a])
    PROVE  \E u : Runs(s, seed, Append(c, Val(op, type, id, <<a>>)), u, b, X) /\ Adds1(t, u, id, v)
<1>1. \/ op = "UConvert" /\ v = Wrap(type, t.env[a])
      \/ op = "ConvertUToF" /\ v = Rounded(t.env[a])
    BY DEF Wrap
<1>2. Gives(t, seed, Val(op, type, id, <<a>>), id, v)
    BY <1>1, UnaryGives DEF Runs
<1> QED
    BY <1>2, RunsValue

\* Code and an operation on two numbers.
LEMMA RunsBinary ==
    ASSUME NEW c, NEW s, NEW seed, NEW t, NEW b \in Nat, NEW X, Runs(s, seed, c, t, b, X),
           NEW type, type # 0, NEW id \in Nat, id >= b, NEW x, NEW y, NEW op, NEW v,
           \/ op = "IAdd" /\ v = Wrap(type, t.env[x] + t.env[y])
           \/ op = "IMul" /\ v = Wrap(type, t.env[x] * t.env[y])
           \/ op = "FAdd" /\ v = Rounded(t.env[x] + t.env[y])
           \/ op = "INotEqual" /\ v = Truth(t.env[x] # t.env[y])
           \/ op = "ULessThan" /\ v = Truth(t.env[x] < t.env[y])
    PROVE  \E u : Runs(s, seed, Append(c, Val(op, type, id, <<x, y>>)), u, b, X) /\ Adds1(t, u, id, v)
<1>1. InBlock(t)
    BY DEF Runs
<1>2. Gives(t, seed, Val(op, type, id, <<x, y>>), id, v)
    BY <1>1, BinaryGives
<1> QED
    BY <1>2, RunsValue

\* A number in the three views of the register whose uint view is u.
Stored(m, u, v) == Holds(m, u, v) /\ Holds(m, u + 1, Rounded(v)) /\ Holds(m, u + 2, v)

\* The variables from u on are where they are declared.
Viewed(s, u) == s.env[u] = Slot(u) /\ s.env[u + 1] = Slot(u + 1) /\ s.env[u + 2] = Slot(u + 2)

\* StoreViews stores one number in three views.
LEMMA StoreViewsRun ==
    ASSUME NEW s, InBlock(s), NEW seed, NEW u \in Nat, NEW b \in Nat, u + 2 < b, Viewed(s, u),
           NEW v \in Nat, v < b
    PROVE  \E t : Runs(s, seed, StoreViews(u, v, b), t, b, {u, u + 1, u + 2}) /\ Stored(t.m, u, s.env[v])
<1> DEFINE x == s.env[v]
           y == Rounded(x)
           w1 == Store(u, v)
           w2 == Val("ConvertUToF", G.type_float, b, <<v>>)
           w3 == Store(u + 1, b)
           w4 == Val("UConvert", G.type_ulong, b + 1, <<v>>)
           w5 == Store(u + 2, b + 1)
           c1 == Append(<<>>, w1)
           c2 == Append(c1, w2)
           c3 == Append(c2, w3)
           c4 == Append(c3, w4)
           c5 == Append(c4, w5)
<1>0. /\ u # u + 1 /\ u # u + 2 /\ u + 1 # u + 2 /\ u + 1 \in Nat /\ u + 2 \in Nat /\ b + 1 \in Nat
      /\ b # u /\ b # u + 1 /\ b # u + 2 /\ b # v /\ b + 1 # u + 2 /\ b + 1 # v /\ b + 1 # b
      /\ b >= b /\ b + 1 >= b
    OBVIOUS
<1>00. G.type_float # 0 /\ G.type_ulong # 0 /\ G.type_float # G.type_uint /\ G.type_ulong # G.type_uint
    BY Ids
<1>1. Runs(s, seed, <<>>, s, b, {})
    BY RunsNone
<1>2. s.env[u] = Slot(u) /\ s.env[u + 1] = Slot(u + 1) /\ s.env[u + 2] = Slot(u + 2) /\ s.env[v] = x
    BY DEF Viewed
<1> HIDE DEF x
<1>3. PICK t1 : Runs(s, seed, c1, t1, b, {} \cup {u}) /\ Puts(s, t1, u, x)
    BY <1>1, <1>2, RunsStore
<1>4. t1.env[u + 1] = Slot(u + 1) /\ t1.env[u + 2] = Slot(u + 2) /\ t1.env[v] = x /\ Holds(t1.m, u, x)
    BY <1>2, <1>3 DEF Puts
<1> HIDE DEF c1
<1>5. PICK t2 : Runs(s, seed, c2, t2, b, {} \cup {u}) /\ Adds1(t1, t2, b, y)
    BY <1>0, <1>00, <1>3, <1>4, RunsConversion
<1>6. /\ t2.env[u + 1] = Slot(u + 1) /\ t2.env[u + 2] = Slot(u + 2) /\ t2.env[v] = x /\ t2.env[b] = y
      /\ Holds(t2.m, u, x)
    BY <1>0, <1>4, <1>5 DEF Adds1
<1> HIDE DEF c2
<1>7. PICK t3 : Runs(s, seed, c3, t3, b, ({} \cup {u}) \cup {u + 1}) /\ Puts(t2, t3, u + 1, y)
    BY <1>5, <1>6, RunsStore
<1>8. t3.env[u + 2] = Slot(u + 2) /\ t3.env[v] = x /\ Holds(t3.m, u + 1, y) /\ Keeps(t2.m, t3.m, {u + 1})
    BY <1>6, <1>7 DEF Puts
<1>9. Holds(t3.m, u, x)
    BY <1>0, <1>6, <1>8, HoldsStays
<1> HIDE DEF c3
<1>10. PICK t4 : Runs(s, seed, c4, t4, b, ({} \cup {u}) \cup {u + 1}) /\ Adds1(t3, t4, b + 1, x)
    BY <1>0, <1>00, <1>7, <1>8, RunsConversion
<1>11. t4.env[u + 2] = Slot(u + 2) /\ t4.env[b + 1] = x /\ Holds(t4.m, u, x) /\ Holds(t4.m, u + 1, y)
    BY <1>0, <1>8, <1>9, <1>10 DEF Adds1
<1> HIDE DEF c4
<1>12. PICK t5 : Runs(s, seed, c5, t5, b, (({} \cup {u}) \cup {u + 1}) \cup {u + 2}) /\ Puts(t4, t5, u + 2, x)
    BY <1>10, <1>11, RunsStore
<1>13. Holds(t5.m, u + 2, x) /\ Keeps(t4.m, t5.m, {u + 2})
    BY <1>12 DEF Puts
<1>14. Holds(t5.m, u, x) /\ Holds(t5.m, u + 1, y)
    BY <1>0, <1>11, <1>13, HoldsStays
<1>15. (({} \cup {u}) \cup {u + 1}) \cup {u + 2} = {u, u + 1, u + 2}
    OBVIOUS
<1>16. StoreViews(u, v, b) = c5
    BY DEF StoreViews, c5, c4, c3, c2, c1
<1> HIDE DEF c5
<1>17. Runs(s, seed, StoreViews(u, v, b), t5, b, {u, u + 1, u + 2})
    BY <1>12, <1>15, <1>16
<1> QED
    BY <1>13, <1>14, <1>17 DEF Stored, x

-----------------------------------------------------------------------------
(***************************************************************************)
(* The arms of the emitter, run.                                           *)
(***************************************************************************)

\* The ids that code from b on may use lie below b.
Under(b) ==
    /\ b \in Nat /\ b > 38
    /\ frame.reg0 \in Nat /\ frame.reg0 > 38 /\ frame.reg0 + 3 * NumRegs + 8 <= b
    /\ frame.gid \in Nat /\ frame.gid < b /\ frame.n \in Nat /\ frame.n < b
    /\ \A k \in 0 .. 2 : frame.p[k] \in Nat /\ frame.p[k] < b
    /\ \A v \in DOMAIN imm_consts : imm_consts[v] \in Nat /\ imm_consts[v] < b

\* The ids an arm uses have the values their declarations give them.
Located(s) ==
    /\ \A r \in Registers : Viewed(s, U(r))
    /\ \A p \in 0 .. 7 : s.env[P(p)] = Slot(P(p))
    /\ s.env[G.const_uint_0] = 0 /\ s.env[G.const_uint_1] = 1 /\ s.env[G.const_uint_2] = 2
    /\ s.env[G.var_local_id] = Slot(G.var_local_id)
    /\ s.env[G.var_workgroup_id] = Slot(G.var_workgroup_id)
    /\ \A v \in DOMAIN imm_consts : s.env[imm_consts[v]] = v

\* An arm may run from s.
Armed(s, b) == InBlock(s) /\ Located(s) /\ Under(b)

\* The variables of a register.
Views(r) == {U(r), U(r) + 1, U(r) + 2}

\* The variables of the registers lie between the header's ids and the code's.
LEMMA ViewsBelow ==
    ASSUME NEW b, Under(b), NEW r \in Registers
    PROVE  U(r) \in Nat /\ U(r) > 38 /\ U(r) + 2 < b /\ F(r) = U(r) + 1 /\ Q(r) = U(r) + 2
<1>1. NumRegs \in Nat /\ r \in Nat /\ r <= NumRegs - 1
    BY NumRegsAssumption DEF Registers
<1>2. frame.reg0 \in Nat /\ frame.reg0 > 38 /\ frame.reg0 + 3 * NumRegs + 8 <= b /\ b \in Nat
    BY DEF Under
<1> QED
    BY <1>1, <1>2 DEF U, F, Q

\* So do those of the predicates, which are no register's.
LEMMA PredicatesBelow ==
    ASSUME NEW b, Under(b), NEW p \in 0 .. 7
    PROVE  /\ P(p) \in Nat /\ P(p) > 38 /\ P(p) < b
           /\ \A r \in Registers : U(r) # P(p) /\ U(r) + 1 # P(p) /\ U(r) + 2 # P(p)
           /\ \A q \in 0 .. 7 : q # p => P(q) # P(p)
<1>1. NumRegs \in Nat
    BY NumRegsAssumption
<1>2. frame.reg0 \in Nat /\ frame.reg0 > 38 /\ frame.reg0 + 3 * NumRegs + 8 <= b /\ b \in Nat
    BY DEF Under
<1>3. P(p) \in Nat /\ P(p) > 38 /\ P(p) < b
    BY <1>1, <1>2 DEF P
<1>4. ASSUME NEW r \in Registers
      PROVE  U(r) # P(p) /\ U(r) + 1 # P(p) /\ U(r) + 2 # P(p)
    <2>1. r \in Nat /\ r <= NumRegs - 1
        BY <1>1 DEF Registers
    <2> QED
        BY <1>1, <1>2, <2>1 DEF U, P
<1>5. \A q \in 0 .. 7 : q # p => P(q) # P(p)
    BY <1>1, <1>2 DEF P
<1> QED
    BY <1>3, <1>4, <1>5

\* Different views are different variables.
LEMMA ViewsDiffer ==
    ASSUME NEW b, Under(b), NEW r \in Registers, NEW d \in Registers
    PROVE  /\ U(r) # U(d) + 1 /\ U(r) # U(d) + 2 /\ U(r) + 1 # U(d) /\ U(r) + 1 # U(d) + 2
           /\ U(r) + 2 # U(d) /\ U(r) + 2 # U(d) + 1
           /\ r # d => U(r) # U(d) /\ U(r) + 1 # U(d) + 1 /\ U(r) + 2 # U(d) + 2
<1>1. frame.reg0 \in Nat
    BY DEF Under
<1>2. r \in Nat /\ d \in Nat
    BY NumRegsAssumption DEF Registers
<1> QED
    BY <1>1, <1>2 DEF U

\* Code that starts later starts.
LEMMA RunsEarlier ==
    ASSUME NEW c, NEW s, NEW seed, NEW t, NEW e \in Nat, NEW X, Runs(s, seed, c, t, e, X),
           NEW b \in Nat, b <= e
    PROVE  Runs(s, seed, c, t, b, X)
BY DEF Runs, Spares

\* The types are no id 0.
LEMMA TypesNotNull ==
    /\ G.type_uint # 0 /\ G.type_float # 0 /\ G.type_ulong # 0 /\ G.type_bool # 0
    /\ G.ptr_input_uint # 0 /\ G.ptr_push_uint # 0 /\ G.ptr_push_ulong # 0 /\ G.ptr_psb_float # 0
    /\ G.type_float # G.type_uint /\ G.type_ulong # G.type_uint /\ G.type_bool # G.type_uint
    /\ G.type_bool # G.type_float /\ G.type_bool # G.type_ulong
BY Ids

\* The views of a register in memory.
UintOf(m, seed, r) == Read(m, seed, G.type_uint, Slot(U(r)))
FloatOf(m, seed, r) == Read(m, seed, G.type_float, Slot(U(r) + 1))
UlongOf(m, seed, r) == Read(m, seed, G.type_ulong, Slot(U(r) + 2))

\* A MOV of an immediate stores it in three views.
LEMMA MovImmediateRun ==
    ASSUME NEW s, NEW seed, NEW b, Armed(s, b), NEW ins, Legal(ins), ins.op = "Mov", ins.imm # None
    PROVE  \E t : /\ Runs(s, seed, EmitMov(ins, b).code, t, b, Views(ins.dst))
                  /\ Stored(t.m, U(ins.dst), Numeral(ins.imm[1]))
<1> DEFINE n == Numeral(ins.imm[1])
           v == imm_consts[n]
           u == U(ins.dst)
<1>1. n \in DOMAIN imm_consts /\ ins.dst \in Registers
    BY DEF Legal
<1>2. v \in Nat /\ v < b /\ b \in Nat /\ s.env[v] = n
    BY <1>1 DEF Armed, Under, Located
<1>3. u \in Nat /\ u + 2 < b /\ Viewed(s, u)
    BY <1>1, ViewsBelow DEF Armed, Located
<1>4. EmitMov(ins, b).code = StoreViews(u, v, b + 1)
    BY DEF EmitMov, Emitted
<1> HIDE DEF n, v, u
<1>5. b + 1 \in Nat /\ u + 2 < b + 1 /\ v < b + 1 /\ b <= b + 1 /\ InBlock(s)
    BY <1>2, <1>3 DEF Armed
<1>6. PICK t : Runs(s, seed, StoreViews(u, v, b + 1), t, b + 1, {u, u + 1, u + 2}) /\ Stored(t.m, u, s.env[v])
    BY <1>2, <1>3, <1>5, StoreViewsRun
<1>7. Runs(s, seed, StoreViews(u, v, b + 1), t, b, {u, u + 1, u + 2})
    BY <1>2, <1>5, <1>6, RunsEarlier
<1> QED
    BY <1>2, <1>4, <1>6, <1>7 DEF Views, u, n

\* One view is copied.
LEMMA CopyRun ==
    ASSUME NEW c, NEW s, NEW seed, NEW t, NEW b \in Nat, NEW X, Runs(s, seed, c, t, b, X),
           NEW type, type # 0, NEW id \in Nat, id >= b,
           NEW x \in Nat, t.env[x] = Slot(x), NEW y \in Nat, y < b, t.env[y] = Slot(y)
    PROVE  \E u : /\ Runs(s, seed, Append(Append(c, Load(type, id, x)), Store(y, id)), u, b, X \cup {y})
                  /\ Holds(u.m, y, Read(t.m, seed, type, Slot(x))) /\ Keeps(t.m, u.m, {y})
                  /\ Spares(b, t, u)
<1>1. PICK v : v = Read(t.m, seed, type, Slot(x))
    OBVIOUS
<1>2. PICK t1 : Runs(s, seed, Append(c, Load(type, id, x)), t1, b, X) /\ Adds1(t, t1, id, v)
    BY <1>1, RunsLoad
<1>3. t1.env[y] = Slot(y) /\ t1.env[id] = v /\ t1.m = t.m
    BY <1>2 DEF Adds1
<1>4. PICK u : /\ Runs(s, seed, Append(Append(c, Load(type, id, x)), Store(y, id)), u, b, X \cup {y})
               /\ Puts(t1, u, y, v)
    BY <1>2, <1>3, RunsStore
<1>5. Spares(b, t, u)
    BY <1>2, <1>4 DEF Puts, Adds1, Spares
<1> QED
    BY <1>1, <1>3, <1>4, <1>5 DEF Puts

\* The views of register d hold what those of r did.
Copied(m, n, seed, r, d) ==
    /\ Holds(n, U(d), UintOf(m, seed, r))
    /\ Holds(n, U(d) + 1, FloatOf(m, seed, r))
    /\ Holds(n, U(d) + 2, UlongOf(m, seed, r))

\* A MOV of a register copies its views.
LEMMA MovCopyRun ==
    ASSUME NEW s, NEW seed, NEW b, Armed(s, b), NEW ins, Legal(ins), ins.op = "Mov", ins.imm = None
    PROVE  \E t : /\ Runs(s, seed, EmitMov(ins, b).code, t, b, Views(ins.dst))
                  /\ Copied(s.m, t.m, seed, ins.srcs[1], ins.dst)
<1> DEFINE d == ins.dst
<1>1. PICK x \in Registers : ins.srcs = <<x>>
    BY DEF Legal
<1>2. d \in Registers /\ ins.srcs[1] = x
    BY <1>1 DEF Legal
<1> DEFINE a == U(x)
           u == U(d)
           s1 == Append(Append(<<>>, Load(G.type_uint, b, a)), Store(u, b))
           s2 == Append(Append(s1, Load(G.type_float, b + 1, a + 1)), Store(u + 1, b + 1))
           s3 == Append(Append(s2, Load(G.type_ulong, b + 2, a + 2)), Store(u + 2, b + 2))
<1>3. a \in Nat /\ a + 2 < b /\ u \in Nat /\ u + 2 < b /\ Viewed(s, a) /\ Viewed(s, u) /\ b \in Nat
    BY <1>2, ViewsBelow DEF Armed, Located, Under
<1>4. /\ a # u + 1 /\ a # u + 2 /\ a + 1 # u /\ a + 1 # u + 2 /\ a + 2 # u /\ a + 2 # u + 1
    BY <1>2, ViewsDiffer DEF Armed
<1>5. F(x) = a + 1 /\ Q(x) = a + 2 /\ F(d) = u + 1 /\ Q(d) = u + 2
    BY <1>2, ViewsBelow DEF Armed
<1>6. EmitMov(ins, b).code = s3
    <2>1. EmitMov(ins, b).code =
            <<Load(G.type_uint, b, a), Store(u, b), Load(G.type_float, b + 1, F(x)), Store(F(d), b + 1),
              Load(G.type_ulong, b + 2, Q(x)), Store(Q(d), b + 2)>>
        BY <1>2 DEF EmitMov, Emitted
    <2> HIDE DEF a, u, d
    <2> QED
        BY <1>5, <2>1
<1>7. /\ a + 1 \in Nat /\ a + 2 \in Nat /\ u + 1 \in Nat /\ u + 2 \in Nat /\ u < b /\ u + 1 < b
      /\ a < b /\ a + 1 < b /\ b + 1 \in Nat /\ b + 2 \in Nat /\ b >= b /\ b + 1 >= b /\ b + 2 >= b
      /\ u # u + 1 /\ u # u + 2 /\ u + 1 # u + 2
    BY <1>3
<1>8. /\ s.env[a] = Slot(a) /\ s.env[a + 1] = Slot(a + 1) /\ s.env[a + 2] = Slot(a + 2)
      /\ s.env[u] = Slot(u) /\ s.env[u + 1] = Slot(u + 1) /\ s.env[u + 2] = Slot(u + 2)
    BY <1>3 DEF Viewed
<1>9. Runs(s, seed, <<>>, s, b, {})
    BY RunsNone DEF Armed
<1>10. PICK A1, A2, A3 : A1 = UintOf(s.m, seed, x) /\ A2 = FloatOf(s.m, seed, x) /\ A3 = UlongOf(s.m, seed, x)
    OBVIOUS
<1>11. /\ A1 = Read(s.m, seed, G.type_uint, Slot(a)) /\ A2 = Read(s.m, seed, G.type_float, Slot(a + 1))
       /\ A3 = Read(s.m, seed, G.type_ulong, Slot(a + 2))
    BY <1>10 DEF UintOf, FloatOf, UlongOf
<1> HIDE DEF a, u, d
<1>12. PICK t1 : Runs(s, seed, s1, t1, b, {} \cup {u}) /\ Holds(t1.m, u, A1) /\ Keeps(s.m, t1.m, {u})
                 /\ Spares(b, s, t1)
    BY <1>3, <1>7, <1>8, <1>9, <1>11, CopyRun, TypesNotNull
<1> HIDE DEF s1
<1>13. /\ t1.env[a + 1] = Slot(a + 1) /\ t1.env[a + 2] = Slot(a + 2)
       /\ t1.env[u + 1] = Slot(u + 1) /\ t1.env[u + 2] = Slot(u + 2)
    BY <1>3, <1>7, <1>8, <1>12 DEF Spares
<1>14. /\ Read(t1.m, seed, G.type_float, Slot(a + 1)) = A2
       /\ Read(t1.m, seed, G.type_ulong, Slot(a + 2)) = A3
    BY <1>4, <1>11, <1>12, ReadStays
<1>15. PICK t2 : Runs(s, seed, s2, t2, b, ({} \cup {u}) \cup {u + 1}) /\ Holds(t2.m, u + 1, A2)
                 /\ Keeps(t1.m, t2.m, {u + 1}) /\ Spares(b, t1, t2)
    BY <1>3, <1>7, <1>12, <1>13, <1>14, CopyRun, TypesNotNull
<1> HIDE DEF s2
<1>16. t2.env[a + 2] = Slot(a + 2) /\ t2.env[u + 2] = Slot(u + 2)
    BY <1>3, <1>7, <1>13, <1>15 DEF Spares
<1>17. Holds(t2.m, u, A1)
    BY <1>7, <1>12, <1>15, HoldsStays
<1>18. Read(t2.m, seed, G.type_ulong, Slot(a + 2)) = A3
    BY <1>4, <1>14, <1>15, ReadStays
<1>19. PICK t3 : Runs(s, seed, s3, t3, b, (({} \cup {u}) \cup {u + 1}) \cup {u + 2}) /\ Holds(t3.m, u + 2, A3)
                 /\ Keeps(t2.m, t3.m, {u + 2})
    BY <1>3, <1>7, <1>15, <1>16, <1>18, CopyRun, TypesNotNull
<1> HIDE DEF s3
<1>20. Holds(t3.m, u, A1) /\ Holds(t3.m, u + 1, A2)
    BY <1>7, <1>15, <1>17, <1>19, HoldsStays
<1>21. (({} \cup {u}) \cup {u + 1}) \cup {u + 2} = Views(d)
    BY DEF Views, u
<1>22. Copied(s.m, t3.m, seed, x, d)
    BY <1>10, <1>19, <1>20 DEF Copied, u
<1>23. Runs(s, seed, EmitMov(ins, b).code, t3, b, Views(d))
    BY <1>6, <1>19, <1>21
<1> QED
    BY <1>2, <1>22, <1>23 DEF d

\* Two words, one by one.
LEMMA PairAppended ==
    ASSUME NEW v, NEW w
    PROVE  Append(Append(<<>>, v), w) = <<v, w>>
BY Tuple1, Tuple2

\* Two or three registers are loaded.
LoadPair(type, b, x, y) == <<Load(type, b, x), Load(type, b + 1, y)>>
LoadTriple(type, b, x, y, z) == <<Load(type, b, x), Load(type, b + 1, y), Load(type, b + 2, z)>>

\* An operation on two values, then one on the result and a third.
StepPair(op, pq, type, b) == <<Val(op, type, b + 3, <<b, b + 1>>), Val(pq, type, b + 4, <<b + 3, b + 2>>)>>

\* From s the two, or three, loads come to what is read.
PairLoads(s, seed, type, b, x, y) ==
    \E t : /\ Runs(s, seed, LoadPair(type, b, x, y), t, b, {}) /\ t.m = s.m
           /\ t.env[b] = Read(s.m, seed, type, Slot(x)) /\ t.env[b + 1] = Read(s.m, seed, type, Slot(y))

TripleLoads(s, seed, type, b, x, y, z) ==
    \E t : /\ Runs(s, seed, LoadTriple(type, b, x, y, z), t, b, {}) /\ t.m = s.m
           /\ t.env[b] = Read(s.m, seed, type, Slot(x)) /\ t.env[b + 1] = Read(s.m, seed, type, Slot(y))
           /\ t.env[b + 2] = Read(s.m, seed, type, Slot(z))

\* What an operation on two values computes.
Computed(op, type, x, y) == Wrap(type, IF op = "IAdd" THEN x + y ELSE x * y)

\* From s the two operations come to a value.
StepsGive(s, seed, op, pq, type, b, v) ==
    \E t : /\ Runs(s, seed, StepPair(op, pq, type, b), t, b, {}) /\ t.m = s.m /\ t.env[b + 4] = v

\* Two registers are loaded.
LEMMA TwoLoadsRun ==
    ASSUME NEW s, NEW seed, NEW b \in Nat, InBlock(s), NEW type, type # 0,
           NEW x, s.env[x] = Slot(x), NEW y \in Nat, y < b, s.env[y] = Slot(y)
    PROVE  PairLoads(s, seed, type, b, x, y)
<1> DEFINE w1 == Load(type, b, x)
           w2 == Load(type, b + 1, y)
           c1 == Append(<<>>, w1)
           c2 == Append(c1, w2)
<1>1. Runs(s, seed, <<>>, s, b, {})
    BY RunsNone
<1>2. b + 1 \in Nat /\ b >= b /\ b + 1 >= b /\ b # y /\ b # b + 1
    OBVIOUS
<1>3. PICK v, w : v = Read(s.m, seed, type, Slot(x)) /\ w = Read(s.m, seed, type, Slot(y))
    OBVIOUS
<1>4. PICK t1 : Runs(s, seed, c1, t1, b, {}) /\ Adds1(s, t1, b, v)
    BY <1>1, <1>2, <1>3, RunsLoad
<1>5. t1.env[y] = Slot(y) /\ t1.m = s.m /\ t1.env[b] = v
    BY <1>2, <1>4 DEF Adds1
<1> HIDE DEF c1
<1>6. PICK t2 : Runs(s, seed, c2, t2, b, {}) /\ Adds1(t1, t2, b + 1, w)
    BY <1>2, <1>3, <1>4, <1>5, RunsLoad
<1>7. t2.m = s.m /\ t2.env[b] = v /\ t2.env[b + 1] = w
    BY <1>2, <1>5, <1>6 DEF Adds1
<1>8. c2 = LoadPair(type, b, x, y)
    <2>1. LoadPair(type, b, x, y) = <<w1, w2>>
        BY DEF LoadPair
    <2> HIDE DEF w1, w2
    <2> QED
        BY <2>1, PairAppended DEF c1
<1> HIDE DEF c2
<1> QED
    BY <1>3, <1>6, <1>7, <1>8 DEF PairLoads

\* Three registers are loaded.
LEMMA ThreeLoadsRun ==
    ASSUME NEW s, NEW seed, NEW b \in Nat, InBlock(s), NEW type, type # 0,
           NEW x, s.env[x] = Slot(x), NEW y \in Nat, y < b, s.env[y] = Slot(y),
           NEW z \in Nat, z < b, s.env[z] = Slot(z)
    PROVE  TripleLoads(s, seed, type, b, x, y, z)
<1> DEFINE c2 == LoadPair(type, b, x, y)
           w3 == Load(type, b + 2, z)
           c3 == Append(c2, w3)
<1>2. b + 2 \in Nat /\ b + 2 >= b /\ b + 2 # z /\ b + 2 # b + 1 /\ b + 2 # b
    OBVIOUS
<1>3. PICK t2 : /\ Runs(s, seed, c2, t2, b, {}) /\ t2.m = s.m
                /\ t2.env[b] = Read(s.m, seed, type, Slot(x))
                /\ t2.env[b + 1] = Read(s.m, seed, type, Slot(y))
    <2>1. PairLoads(s, seed, type, b, x, y)
        BY TwoLoadsRun
    <2> QED
        BY <2>1 DEF PairLoads
<1>4. t2.env[z] = Slot(z)
    BY <1>3 DEF Runs, Spares
<1>5. c3 = LoadTriple(type, b, x, y, z)
    BY Tuple3 DEF LoadPair, LoadTriple
<1> HIDE DEF c2
<1>6. PICK t3 : Runs(s, seed, c3, t3, b, {}) /\ Adds1(t2, t3, b + 2, Read(t2.m, seed, type, Slot(z)))
    BY <1>2, <1>3, <1>4, RunsLoad
<1>7. /\ t3.m = s.m /\ t3.env[b] = t2.env[b] /\ t3.env[b + 1] = t2.env[b + 1]
      /\ t3.env[b + 2] = Read(s.m, seed, type, Slot(z))
    BY <1>2, <1>3, <1>6 DEF Adds1
<1> HIDE DEF c3
<1> QED
    BY <1>3, <1>5, <1>6, <1>7 DEF TripleLoads

\* An operation on two values, then one on the result and a third.
LEMMA TwoStepsRun ==
    ASSUME NEW s, NEW seed, NEW b \in Nat, InBlock(s), NEW type, type # 0,
           NEW op \in {"IAdd", "IMul"}
    PROVE  StepsGive(s, seed, op, "IAdd", type, b,
                     Wrap(type, Computed(op, type, s.env[b], s.env[b + 1]) + s.env[b + 2]))
<1> DEFINE w1 == Val(op, type, b + 3, <<b, b + 1>>)
           w2 == Val("IAdd", type, b + 4, <<b + 3, b + 2>>)
           c1 == Append(<<>>, w1)
           c2 == Append(c1, w2)
<1>1. Runs(s, seed, <<>>, s, b, {})
    BY RunsNone
<1>2. b + 3 \in Nat /\ b + 4 \in Nat /\ b + 3 >= b /\ b + 4 >= b /\ b + 3 # b + 2
    OBVIOUS
<1>3. PICK v : v = Computed(op, type, s.env[b], s.env[b + 1])
    OBVIOUS
<1>30. \/ op = "IAdd" /\ v = Wrap(type, s.env[b] + s.env[b + 1])
       \/ op = "IMul" /\ v = Wrap(type, s.env[b] * s.env[b + 1])
    BY <1>3 DEF Computed
<1>4. PICK t1 : Runs(s, seed, c1, t1, b, {}) /\ Adds1(s, t1, b + 3, v)
    BY <1>1, <1>2, <1>30, RunsBinary
<1>5. t1.env[b + 2] = s.env[b + 2] /\ t1.m = s.m /\ t1.env[b + 3] = v
    BY <1>2, <1>4 DEF Adds1
<1>50. PICK w : w = Wrap(type, t1.env[b + 3] + t1.env[b + 2])
    OBVIOUS
<1> HIDE DEF c1
<1>6. PICK t2 : Runs(s, seed, c2, t2, b, {}) /\ Adds1(t1, t2, b + 4, w)
    BY <1>2, <1>4, <1>50, RunsBinary
<1>7. t2.m = s.m /\ t2.env[b + 4] = w
    BY <1>5, <1>6 DEF Adds1
<1>8. c2 = StepPair(op, "IAdd", type, b)
    <2>1. StepPair(op, "IAdd", type, b) = <<w1, w2>>
        BY DEF StepPair
    <2> HIDE DEF w1, w2
    <2> QED
        BY <2>1, PairAppended DEF c1
<1> HIDE DEF c2
<1> QED
    BY <1>3, <1>5, <1>50, <1>6, <1>7, <1>8 DEF StepsGive

\* What an integer operation of three sources computes.
Combined(op, x, y, z) == Wrap(G.type_uint, Computed(op, G.type_uint, x, y) + z)

\* The uint views of three registers.
CombinedOf(m, seed, op, srcs) ==
    Combined(op, UintOf(m, seed, srcs[1]), UintOf(m, seed, srcs[2]), UintOf(m, seed, srcs[3]))

\* The arms of IADD3 and IMAD.
LEMMA IntegerRun ==
    ASSUME NEW s, NEW seed, NEW b, Armed(s, b), NEW ins, Legal(ins), ins.op \in {"IAdd3", "IMad"},
           NEW op \in {"IAdd", "IMul"}
    PROVE  \E t : /\ Runs(s, seed, EmitInteger(op, ins, b).code, t, b, Views(ins.dst))
                  /\ Stored(t.m, U(ins.dst), CombinedOf(s.m, seed, op, ins.srcs))
<1> DEFINE d == ins.dst
           type == G.type_uint
<1>1. PICK x \in Registers, y \in Registers, z \in Registers : ins.srcs = <<x, y, z>>
    BY DEF Legal
<1>2. d \in Registers /\ ins.srcs[1] = x /\ ins.srcs[2] = y /\ ins.srcs[3] = z
    BY <1>1 DEF Legal
<1>3. b \in Nat /\ InBlock(s)
    BY DEF Armed, Under
<1>4. \A r \in Registers : U(r) \in Nat /\ U(r) + 2 < b /\ U(r) < b /\ Viewed(s, U(r)) /\ s.env[U(r)] = Slot(U(r))
    <2> TAKE r \in Registers
    <2>1. U(r) \in Nat /\ U(r) + 2 < b /\ Viewed(s, U(r))
        BY ViewsBelow DEF Armed, Located
    <2> QED
        BY <1>3, <2>1 DEF Viewed
<1> DEFINE c1 == LoadTriple(type, b, U(x), U(y), U(z))
           c2 == StepPair(op, "IAdd", type, b)
           c3 == StoreViews(U(d), b + 4, b + 5)
<1>5. EmitInteger(op, ins, b).code = (c1 \o c2) \o c3
    <2>1. LoadsU(b, ins.srcs) = c1
        BY <1>1, <1>3, LoadsOfThreeU DEF LoadTriple
    <2>2. EmitInteger(op, ins, b).code = (LoadsU(b, ins.srcs) \o c2) \o c3
        BY DEF EmitInteger, Emitted, StepPair
    <2> QED
        BY <2>1, <2>2
<1>6. PICK A1, A2, A3 : A1 = UintOf(s.m, seed, x) /\ A2 = UintOf(s.m, seed, y) /\ A3 = UintOf(s.m, seed, z)
    OBVIOUS
<1>7. type # 0
    BY TypesNotNull
<1>8. PICK t1 : /\ Runs(s, seed, c1, t1, b, {}) /\ t1.m = s.m
                /\ t1.env[b] = A1 /\ t1.env[b + 1] = A2 /\ t1.env[b + 2] = A3
    <2>1. TripleLoads(s, seed, type, b, U(x), U(y), U(z))
        BY <1>3, <1>4, <1>7, ThreeLoadsRun
    <2> QED
        BY <1>6, <2>1 DEF TripleLoads, UintOf
<1>9. PICK w : w = Wrap(type, Computed(op, type, t1.env[b], t1.env[b + 1]) + t1.env[b + 2])
    OBVIOUS
<1>11. w = CombinedOf(s.m, seed, op, ins.srcs)
    BY <1>2, <1>6, <1>8, <1>9 DEF CombinedOf, Combined
<1> HIDE DEF type, c1, d
<1>14. PICK t2 : Runs(t1, seed, c2, t2, b, {}) /\ t2.m = t1.m /\ t2.env[b + 4] = w
    <2>1. InBlock(t1)
        BY <1>8 DEF Runs
    <2>3. StepsGive(t1, seed, op, "IAdd", type, b, w)
        BY <1>3, <1>7, <1>9, <2>1, TwoStepsRun
    <2> QED
        BY <1>3, <2>3 DEF StepsGive
<1> HIDE DEF c2
<1>15. Runs(s, seed, c1 \o c2, t2, b, {} \cup {})
    BY <1>3, <1>8, <1>14, RunsConcat
<1>16. Viewed(t2, U(d))
    <2>1. U(d) \in Nat /\ U(d) + 1 \in Nat /\ U(d) + 2 \in Nat /\ U(d) < b /\ U(d) + 1 < b /\ U(d) + 2 < b
        BY <1>2, <1>3, <1>4
    <2>2. Viewed(s, U(d))
        BY <1>2, <1>4
    <2>3. Spares(b, s, t2)
        BY <1>15 DEF Runs
    <2> QED
        BY <2>1, <2>2, <2>3 DEF Viewed, Spares
<1>17. PICK t3 : Runs(t2, seed, c3, t3, b + 5, {U(d), U(d) + 1, U(d) + 2}) /\ Stored(t3.m, U(d), w)
    <2>1. InBlock(t2) /\ U(d) \in Nat /\ b + 5 \in Nat /\ U(d) + 2 < b + 5 /\ b + 4 \in Nat /\ b + 4 < b + 5
        BY <1>2, <1>3, <1>4, <1>15 DEF Runs
    <2>2. \E t : Runs(t2, seed, c3, t, b + 5, {U(d), U(d) + 1, U(d) + 2}) /\ Stored(t.m, U(d), t2.env[b + 4])
        BY <1>16, <2>1, StoreViewsRun
    <2> QED
        BY <1>14, <2>2
<1> HIDE DEF c3
<1>18. Runs(s, seed, (c1 \o c2) \o c3, t3, b, ({} \cup {}) \cup {U(d), U(d) + 1, U(d) + 2})
    <2>1. b + 5 \in Nat /\ b <= b + 5
        BY <1>3
    <2> QED
        BY <1>3, <1>15, <1>17, <2>1, RunsConcat
<1>19. ({} \cup {}) \cup {U(d), U(d) + 1, U(d) + 2} = Views(d)
    BY DEF Views
<1> QED
    BY <1>5, <1>11, <1>17, <1>18, <1>19 DEF d

\* The arm of ISETP compares the uint views of two registers.
LEMMA ISetPRun ==
    ASSUME NEW s, NEW seed, NEW b, Armed(s, b), NEW ins, Legal(ins), ins.op = "ISetP"
    PROVE  \E t : /\ Runs(s, seed, EmitISetP(ins, b).code, t, b, {P(ins.dst)})
                  /\ Holds(t.m, P(ins.dst),
                           Truth(UintOf(s.m, seed, ins.srcs[1]) # UintOf(s.m, seed, ins.srcs[2])))
<1> DEFINE p == ins.dst
           type == G.type_uint
           bool == G.type_bool
<1>1. PICK x \in Registers, y \in Registers : ins.srcs = <<x, y>>
    BY DEF Legal
<1>2. p \in 0 .. 7 /\ ins.srcs[1] = x /\ ins.srcs[2] = y
    BY <1>1 DEF Legal
<1>3. b \in Nat /\ InBlock(s)
    BY DEF Armed, Under
<1>4. \A r \in Registers : U(r) \in Nat /\ U(r) < b /\ s.env[U(r)] = Slot(U(r))
    <2> TAKE r \in Registers
    <2>1. U(r) \in Nat /\ U(r) + 2 < b /\ Viewed(s, U(r))
        BY ViewsBelow DEF Armed, Located
    <2> QED
        BY <1>3, <2>1 DEF Viewed
<1>5. P(p) \in Nat /\ P(p) < b /\ s.env[P(p)] = Slot(P(p))
    BY <1>2, PredicatesBelow DEF Armed, Located
<1> DEFINE c1 == LoadPair(type, b, U(x), U(y))
           w1 == Val("INotEqual", bool, b + 2, <<b, b + 1>>)
           w2 == Store(P(p), b + 2)
           c2 == Append(<<>>, w1)
           c3 == Append(c2, w2)
<1>6. EmitISetP(ins, b).code = c1 \o c3
    <2>1. LoadsU(b, ins.srcs) = c1
        BY <1>1, <1>3, LoadsOfTwoU DEF LoadPair
    <2>2. EmitISetP(ins, b).code = LoadsU(b, ins.srcs) \o <<w1, w2>>
        BY DEF EmitISetP, Emitted
    <2> HIDE DEF w1, w2, c1
    <2>3. c3 = <<w1, w2>>
        BY PairAppended DEF c3, c2
    <2> QED
        BY <2>1, <2>2, <2>3
<1>7. PICK A1, A2 : A1 = UintOf(s.m, seed, x) /\ A2 = UintOf(s.m, seed, y)
    OBVIOUS
<1>8. type # 0 /\ bool # 0
    BY TypesNotNull
<1>9. PICK t1 : Runs(s, seed, c1, t1, b, {}) /\ t1.m = s.m /\ t1.env[b] = A1 /\ t1.env[b + 1] = A2
    <2>1. PairLoads(s, seed, type, b, U(x), U(y))
        BY <1>3, <1>4, <1>8, TwoLoadsRun
    <2> QED
        BY <1>7, <2>1 DEF PairLoads, UintOf
<1>10. PICK v : v = Truth(A1 # A2)
    OBVIOUS
<1> HIDE DEF type, bool, c1, p
<1>11. Runs(t1, seed, <<>>, t1, b, {})
    BY <1>9, RunsNone DEF Runs
<1>12. b + 2 \in Nat /\ b + 2 >= b /\ v = Truth(t1.env[b] # t1.env[b + 1])
    BY <1>3, <1>9, <1>10
<1>13. PICK t2 : Runs(t1, seed, c2, t2, b, {}) /\ Adds1(t1, t2, b + 2, v)
    BY <1>3, <1>8, <1>11, <1>12, RunsBinary, ZenonT(60)
<1>14. t2.env[b + 2] = v /\ t2.env[P(p)] = Slot(P(p))
    BY <1>3, <1>5, <1>9, <1>13 DEF Adds1, Spares, Runs
<1> HIDE DEF c2
<1>15. PICK t3 : Runs(t1, seed, c3, t3, b, {} \cup {P(p)}) /\ Puts(t2, t3, P(p), v)
    BY <1>3, <1>13, <1>14, RunsStore
<1> HIDE DEF c3
<1>16. Runs(s, seed, c1 \o c3, t3, b, {} \cup ({} \cup {P(p)}))
    BY <1>3, <1>9, <1>15, RunsConcat
<1>17. {} \cup ({} \cup {P(p)}) = {P(p)} /\ Holds(t3.m, P(p), v)
    BY <1>15 DEF Puts
<1> QED
    BY <1>2, <1>6, <1>7, <1>10, <1>16, <1>17 DEF p

\* The word w gives an id from b on a value, or stores to a variable of X, or does nothing.
Mild(s, w, b, X) ==
    \/ w.op \notin Acting /\ w.type # 0 /\ w.id \in Nat /\ w.id >= b
    \/ w.op \in {"Nop", "ControlBarrier"} /\ w.type = 0
    \/ \E x, y \in Nat : w = Store(x, y) /\ x < b /\ x \in X /\ s.env[x] = Slot(x)

Milds(s, c, b, X) == Listing(c) /\ \A k \in 1 .. Len(c) : Mild(s, c[k], b, X)

\* An operation without effect.
LEMMA IdleStep ==
    ASSUME NEW s, InBlock(s), NEW seed, NEW w, w.op \notin {"Store", "Branch", "BranchConditional", "Return"},
           w.type = 0 \/ w.op = "Function"
    PROVE  Step(s, seed, w) = s
<1>0. s.next = 0
    <2>1. [env |-> s.env, m |-> s.m, next |-> 0].next = 0
        OBVIOUS
    <2> QED
        BY <2>1 DEF InBlock
<1>1. Step(s, seed, w) = Execute(s, seed, w)
    BY <1>0 DEF Step
<1>2. Execute(s, seed, w) = s
    BY DEF Execute
<1> QED
    BY <1>1, <1>2

\* Code and a word without effect.
LEMMA RunsIdle ==
    ASSUME NEW c, NEW s, NEW seed, NEW t, NEW b, NEW X, Runs(s, seed, c, t, b, X), NEW w,
           Step(t, seed, w) = t
    PROVE  Runs(s, seed, Append(c, w), t, b, X)
<1>1. Leads(s, seed, Append(c, w), Step(t, seed, w)) /\ Listing(Append(c, w))
    BY LeadsAppend, ListingAppend DEF Runs
<1> QED
    BY <1>1 DEF Runs

\* Code and a mild word.
LEMMA RunsMild ==
    ASSUME NEW c, NEW s, NEW seed, NEW t, NEW b \in Nat, NEW X, Runs(s, seed, c, t, b, X),
           NEW w, Mild(s, w, b, X)
    PROVE  \E u : Runs(s, seed, Append(c, w), u, b, X)
<1>0. InBlock(t)
    BY DEF Runs
<1>1. CASE w.op \notin Acting /\ w.type # 0 /\ w.id \in Nat /\ w.id >= b
    <2>1. PICK id, v : id = w.id /\ v = Value(t, seed, w)
        OBVIOUS
    <2>2. Gives(t, seed, w, id, v)
        BY <1>0, <1>1, <2>1, ValueGiven
    <2> QED
        BY <1>1, <2>1, <2>2, RunsValue
<1>2. CASE w.op \in {"Nop", "ControlBarrier"} /\ w.type = 0
    <2>1. Step(t, seed, w) = t
        BY <1>0, <1>2, IdleStep
    <2> QED
        BY <2>1, RunsIdle
<1>3. CASE \E x, y \in Nat : w = Store(x, y) /\ x < b /\ x \in X /\ s.env[x] = Slot(x)
    <2>1. PICK x \in Nat, y \in Nat : w = Store(x, y) /\ x < b /\ x \in X /\ s.env[x] = Slot(x)
        BY <1>3
    <2>2. t.env[x] = Slot(x)
        BY <2>1 DEF Runs, Spares
    <2>3. PICK v : v = t.env[y]
        OBVIOUS
    <2>4. PICK u : Runs(s, seed, Append(c, Store(x, y)), u, b, X \cup {x})
        BY <2>2, <2>3, RunsStore
    <2>5. X \cup {x} = X
        BY <2>1
    <2> QED
        BY <2>1, <2>4, <2>5
<1> QED
    BY <1>1, <1>2, <1>3 DEF Mild

\* Mild code runs.
LEMMA MildRun ==
    ASSUME NEW s, InBlock(s), NEW seed, NEW b \in Nat, NEW X, NEW c, Milds(s, c, b, X)
    PROVE  \E t : Runs(s, seed, c, t, b, X)
<1>1. PICK S : c \in Seq(S)
    BY DEF Milds, Listing
<1> DEFINE n == Len(c)
           UpTo(k) == [j \in 1 .. k |-> c[j]]
           T == {k \in Nat : k \in 0 .. n => \E t : Runs(s, seed, UpTo(k), t, b, X)}
<1>2. n \in Nat /\ c = [j \in 1 .. n |-> c[j]] /\ \A j \in 1 .. n : c[j] \in S
    BY <1>1, LenProperties
<1>3. 0 \in T
    <2>1. UpTo(0) = <<>>
        OBVIOUS
    <2>2. Runs(s, seed, <<>>, s, b, {})
        BY RunsNone
    <2>3. Runs(s, seed, <<>>, s, b, X)
        BY <2>2, KeepsMore DEF Runs
    <2> QED
        BY <2>1, <2>3
<1>4. ASSUME NEW k \in 0 .. n - 1, k \in T
      PROVE  k + 1 \in T
    <2>1. k \in Nat /\ k \in 0 .. n /\ k + 1 \in 1 .. n
        BY <1>2
    <2>2. PICK t : Runs(s, seed, UpTo(k), t, b, X)
        BY <1>4, <2>1
    <2>3. Mild(s, c[k + 1], b, X)
        BY <2>1 DEF Milds
    <2>4. PICK u : Runs(s, seed, Append(UpTo(k), c[k + 1]), u, b, X)
        BY <2>2, <2>3, RunsMild
    <2>5. UpTo(k + 1) = Append(UpTo(k), c[k + 1])
        <3>1. UpTo(k) \in Seq(S) /\ Len(UpTo(k)) = k /\ c[k + 1] \in S
            BY <1>2, <2>1
        <3>2. Append(UpTo(k), c[k + 1]) = [j \in 1 .. k + 1 |-> IF j = k + 1 THEN c[k + 1] ELSE UpTo(k)[j]]
            BY <2>1, <3>1, AppendProperties
        <3> QED
            BY <2>1, <3>2
    <2> HIDE DEF UpTo
    <2>6. Runs(s, seed, UpTo(k + 1), u, b, X)
        BY <2>4, <2>5
    <2> QED
        BY <2>1, <2>6
<1>5. \A k \in 0 .. n : k \in T
    <2> HIDE DEF T, n
    <2> QED
        BY <1>2, <1>3, <1>4, BoundedInduction
<1>6. n \in 0 .. n /\ UpTo(n) = c
    BY <1>2
<1> QED
    BY <1>5, <1>6

\* Mild code and more mild code.
LEMMA MildConcat ==
    ASSUME NEW s, NEW b, NEW X, NEW c, Milds(s, c, b, X), NEW d, Milds(s, d, b, X)
    PROVE  Milds(s, c \o d, b, X)
<1>1. Listing(c \o d) /\ Joins(c \o d, c, d)
    BY ListingConcat DEF Milds
<1> QED
    BY <1>1 DEF Milds, Joins

\* One, two or three mild words are mild.
LEMMA MildTuple ==
    ASSUME NEW s, NEW b, NEW X, NEW w1, Mild(s, w1, b, X), NEW w2, Mild(s, w2, b, X), NEW w3, Mild(s, w3, b, X)
    PROVE  Milds(s, <<w1>>, b, X) /\ Milds(s, <<w1, w2>>, b, X) /\ Milds(s, <<w1, w2, w3>>, b, X)
<1>1. ASSUME NEW c \in Seq({w1, w2, w3})
      PROVE  Milds(s, c, b, X)
    <2>1. \A k \in 1 .. Len(c) : c[k] \in {w1, w2, w3}
        BY LenProperties
    <2>2. \A k \in 1 .. Len(c) : c[k] = w1 \/ c[k] = w2 \/ c[k] = w3
        BY <2>1
    <2>3. \A k \in 1 .. Len(c) : Mild(s, c[k], b, X)
        BY <2>2
    <2> QED
        BY <2>3 DEF Milds, Listing
<1>2. <<w1>> \in Seq({w1, w2, w3}) /\ <<w1, w2>> \in Seq({w1, w2, w3}) /\ <<w1, w2, w3>> \in Seq({w1, w2, w3})
    OBVIOUS
<1> QED
    BY <1>1, <1>2

\* The loads, the operations and the stores of an arm are mild.
LEMMA MildWords ==
    ASSUME NEW s, NEW b \in Nat, NEW X
    PROVE  /\ \A type, id, a : type # 0 /\ id \in Nat /\ id >= b => Mild(s, Load(type, id, a), b, X)
           /\ \A op, type, id, a : op \notin Acting /\ type # 0 /\ id \in Nat /\ id >= b =>
                 Mild(s, Val(op, type, id, a), b, X)
           /\ \A x, y \in Nat : x < b /\ x \in X /\ s.env[x] = Slot(x) => Mild(s, Store(x, y), b, X)
<1>1. \A op, type, id, a : Val(op, type, id, a).op = op /\ Val(op, type, id, a).type = type /\ Val(op, type, id, a).id = id
    BY DEF Val
<1>2. \A op, type, id, a : op \notin Acting /\ type # 0 /\ id \in Nat /\ id >= b =>
          Mild(s, Val(op, type, id, a), b, X)
    BY <1>1 DEF Mild
<1>3. \A type, id, a : Load(type, id, a) = Val("Load", type, id, <<a>>) /\ "Load" \notin Acting
    BY DEF Load, Acting
<1>4. \A type, id, a : type # 0 /\ id \in Nat /\ id >= b => Mild(s, Load(type, id, a), b, X)
    BY <1>2, <1>3
<1>5. \A x, y \in Nat : x < b /\ x \in X /\ s.env[x] = Slot(x) => Mild(s, Store(x, y), b, X)
    <2> TAKE x, y \in Nat
    <2> HAVE x < b /\ x \in X /\ s.env[x] = Slot(x)
    <2>1. PICK w : w = Store(x, y)
        OBVIOUS
    <2>2. Mild(s, w, b, X)
        BY <2>1 DEF Mild
    <2> QED
        BY <2>1, <2>2
<1> QED
    BY <1>2, <1>4, <1>5

\* The stores of a float result are mild.
LEMMA MildFloatStores ==
    ASSUME NEW s, NEW b, Armed(s, b), NEW d \in Registers, NEW r \in Nat, r >= b
    PROVE  Milds(s, StoreFloat(d, r), b, Views(d))
<1>1. U(d) \in Nat /\ U(d) + 2 < b /\ F(d) = U(d) + 1 /\ Viewed(s, U(d)) /\ b \in Nat
    BY ViewsBelow DEF Armed, Located, Under
<1>2. F(d) \in Nat /\ F(d) < b /\ F(d) \in Views(d) /\ s.env[F(d)] = Slot(F(d))
    BY <1>1 DEF Viewed, Views
<1>3. U(d) < b /\ U(d) \in Views(d) /\ s.env[U(d)] = Slot(U(d))
    BY <1>1 DEF Viewed, Views
<1>4. r + 1 \in Nat /\ r + 1 >= b /\ G.type_uint # 0 /\ "ConvertFToU" \notin Acting
    BY <1>1, TypesNotNull DEF Acting
<1> DEFINE w1 == Store(F(d), r)
           w2 == Val("ConvertFToU", G.type_uint, r + 1, <<r>>)
           w3 == Store(U(d), r + 1)
<1>5. Mild(s, w1, b, Views(d)) /\ Mild(s, w2, b, Views(d)) /\ Mild(s, w3, b, Views(d))
    BY <1>1, <1>2, <1>3, <1>4, MildWords
<1>6. StoreFloat(d, r) = <<w1, w2, w3>>
    BY DEF StoreFloat
<1> HIDE DEF w1, w2, w3
<1> QED
    BY <1>5, <1>6, MildTuple

\* The arms of FADD and FMUL.
LEMMA FloatRun ==
    ASSUME NEW s, NEW seed, NEW b, Armed(s, b), NEW ins, Legal(ins), ins.op \in {"FAdd", "FMul"},
           NEW op \in {"FAdd", "FMul"}
    PROVE  \E t : Runs(s, seed, EmitFloat(op, ins, b).code, t, b, Views(ins.dst))
<1> DEFINE d == ins.dst
           X == Views(d)
<1>1. PICK x \in Registers, y \in Registers : ins.srcs = <<x, y>>
    BY DEF Legal
<1>2. d \in Registers /\ InBlock(s) /\ b \in Nat /\ G.type_float # 0
    BY TypesNotNull DEF Legal, Armed, Under
<1> DEFINE w1 == Load(G.type_float, b, F(x))
           w2 == Load(G.type_float, b + 1, F(y))
           w3 == Val(op, G.type_float, b + 2, <<b, b + 1>>)
<1>3. EmitFloat(op, ins, b).code = (<<w1, w2>> \o <<w3>>) \o StoreFloat(d, b + 2)
    BY <1>1, <1>2, LoadsOfTwoF DEF EmitFloat, Emitted
<1>4. Mild(s, w1, b, X) /\ Mild(s, w2, b, X) /\ Mild(s, w3, b, X)
    <2>1. b + 1 \in Nat /\ b + 2 \in Nat /\ b >= b /\ b + 1 >= b /\ b + 2 >= b /\ op \notin Acting
        BY <1>2 DEF Acting
    <2> QED
        BY <1>2, <2>1, MildWords
<1>5. Milds(s, StoreFloat(d, b + 2), b, X)
    BY <1>2, MildFloatStores
<1> HIDE DEF w1, w2, w3, X, d
<1>6. Milds(s, <<w1, w2>>, b, X) /\ Milds(s, <<w3>>, b, X)
    BY <1>4, MildTuple
<1>7. Milds(s, (<<w1, w2>> \o <<w3>>) \o StoreFloat(d, b + 2), b, X)
    BY <1>5, <1>6, MildConcat
<1> QED
    BY <1>2, <1>3, <1>7, MildRun DEF X, d

\* The arm of FFMA.
LEMMA FFmaRun ==
    ASSUME NEW s, NEW seed, NEW b, Armed(s, b), NEW ins, Legal(ins), ins.op = "FFma"
    PROVE  \E t : Runs(s, seed, EmitFFma(ins, b).code, t, b, Views(ins.dst))
<1> DEFINE d == ins.dst
           X == Views(d)
<1>1. PICK x \in Registers, y \in Registers, z \in Registers : ins.srcs = <<x, y, z>>
    BY DEF Legal
<1>2. d \in Registers /\ InBlock(s) /\ b \in Nat /\ G.type_float # 0
    BY TypesNotNull DEF Legal, Armed, Under
<1> DEFINE w1 == Load(G.type_float, b, F(x))
           w2 == Load(G.type_float, b + 1, F(y))
           w3 == Load(G.type_float, b + 2, F(z))
           w4 == Val("FMul", G.type_float, b + 3, <<b, b + 1>>)
           w5 == Val("FAdd", G.type_float, b + 4, <<b + 3, b + 2>>)
<1>3. EmitFFma(ins, b).code = (<<w1, w2, w3>> \o <<w4, w5>>) \o StoreFloat(d, b + 4)
    BY <1>1, <1>2, LoadsOfThreeF, ZenonT(60) DEF EmitFFma, Emitted
<1>4. Mild(s, w1, b, X) /\ Mild(s, w2, b, X) /\ Mild(s, w3, b, X) /\ Mild(s, w4, b, X) /\ Mild(s, w5, b, X)
    <2>1. /\ b + 1 \in Nat /\ b + 2 \in Nat /\ b >= b /\ b + 1 >= b /\ b + 2 >= b
          /\ b + 3 \in Nat /\ b + 4 \in Nat /\ b + 3 >= b /\ b + 4 >= b
          /\ "FMul" \notin Acting /\ "FAdd" \notin Acting
        BY <1>2 DEF Acting
    <2> QED
        BY <1>2, <2>1, MildWords
<1>5. Milds(s, StoreFloat(d, b + 4), b, X)
    BY <1>2, MildFloatStores
<1> HIDE DEF w1, w2, w3, w4, w5, X, d
<1>6. Milds(s, <<w1, w2, w3>>, b, X) /\ Milds(s, <<w4, w5>>, b, X)
    BY <1>4, MildTuple
<1>7. Milds(s, (<<w1, w2, w3>> \o <<w4, w5>>) \o StoreFloat(d, b + 4), b, X)
    BY <1>5, <1>6, MildConcat
<1> QED
    BY <1>2, <1>3, <1>7, MildRun DEF X, d

\* An operation that stands for nothing, and a barrier.
LEMMA IdleRun ==
    ASSUME NEW s, InBlock(s), NEW seed, NEW b \in Nat, NEW w, w.op \in {"Nop", "ControlBarrier"}, w.type = 0
    PROVE  Runs(s, seed, <<w>>, s, b, {})
<1>1. Runs(s, seed, <<>>, s, b, {})
    BY RunsNone
<1>2. Step(s, seed, w) = s
    BY IdleStep
<1>3. <<w>> = Append(<<>>, w)
    BY Tuple1
<1> QED
    BY <1>1, <1>2, <1>3, RunsIdle

\* Where a special register is read from.
SourceOf(sr) == <<Builtin[sr][1], Builtin[sr][2] - G.const_uint_0>>

\* What S2R stores.
SpecialOf(m, seed, sr) ==
    IF sr \in DOMAIN Builtin THEN Read(m, seed, G.type_uint, SourceOf(sr)) ELSE 0

\* From s a pointer is made and read through.
ReadsThrough(s, seed, pt, type, h, j, a, c, b, v) ==
    \E t : /\ Runs(s, seed, <<Chain(pt, h, a, c), Load(type, j, h)>>, t, b, {})
           /\ t.m = s.m /\ t.env[j] = v

\* A pointer is made and read through.
LEMMA ReadThrough ==
    ASSUME NEW s, InBlock(s), NEW seed, NEW pt, pt # 0, NEW type, type # 0, NEW b \in Nat,
           NEW h \in Nat, h >= b, NEW j \in Nat, j >= b, NEW a, NEW c
    PROVE  ReadsThrough(s, seed, pt, type, h, j, a, c, b, Read(s.m, seed, type, Element(s.env[a], s.env[c])))
<1> DEFINE p == Element(s.env[a], s.env[c])
           v == Read(s.m, seed, type, p)
           w1 == Chain(pt, h, a, c)
           w2 == Load(type, j, h)
           c1 == Append(<<>>, w1)
           c2 == Append(c1, w2)
<1>1. Runs(s, seed, <<>>, s, b, {})
    BY RunsNone
<1>2. Gives(s, seed, w1, h, p)
    BY ChainGives
<1> HIDE DEF p, w1
<1>3. PICK t1 : Runs(s, seed, c1, t1, b, {}) /\ Adds1(s, t1, h, p)
    BY <1>1, <1>2, RunsValue
<1>4. t1.m = s.m /\ t1.env[h] = p /\ InBlock(t1)
    BY <1>3 DEF Adds1, Runs
<1>5. Gives(t1, seed, w2, j, v)
    <2>1. Gives(t1, seed, w2, j, Read(t1.m, seed, type, t1.env[h]))
        BY <1>4, LoadGives
    <2> QED
        BY <1>4, <2>1
<1> HIDE DEF c1, w2, v
<1>6. PICK t2 : Runs(s, seed, c2, t2, b, {}) /\ Adds1(t1, t2, j, v)
    BY <1>3, <1>5, RunsValue
<1>7. t2.m = s.m /\ t2.env[j] = v
    BY <1>4, <1>6 DEF Adds1
<1>8. c2 = <<w1, w2>>
    BY PairAppended DEF c1
<1> HIDE DEF c2
<1>9. Runs(s, seed, <<w1, w2>>, t2, b, {})
    BY <1>6, <1>8
<1> QED
    BY <1>7, <1>9 DEF ReadsThrough, w1, w2, v, p

\* The builtins by their places.
LEMMA BuiltinTable ==
    ASSUME NEW sr \in DOMAIN Builtin
    PROVE  /\ Builtin[sr][1] \in {G.var_local_id, G.var_workgroup_id}
           /\ Builtin[sr][2] \in {G.const_uint_0, G.const_uint_1, G.const_uint_2}
           /\ sr = "TidX" => Builtin[sr] = <<G.var_local_id, G.const_uint_0>>
           /\ sr = "TidY" => Builtin[sr] = <<G.var_local_id, G.const_uint_1>>
           /\ sr = "TidZ" => Builtin[sr] = <<G.var_local_id, G.const_uint_2>>
           /\ sr = "CtaIdX" => Builtin[sr] = <<G.var_workgroup_id, G.const_uint_0>>
           /\ sr = "CtaIdY" => Builtin[sr] = <<G.var_workgroup_id, G.const_uint_1>>
           /\ sr = "CtaIdZ" => Builtin[sr] = <<G.var_workgroup_id, G.const_uint_2>>
           /\ sr \in {"TidX", "TidY", "TidZ", "CtaIdX", "CtaIdY", "CtaIdZ", "LaneId"}
BY DEF Builtin

\* The small constants are numbered in their order.
LEMMA SmallConstants ==
    /\ G.const_uint_0 = 23 /\ G.const_uint_1 = 24 /\ G.const_uint_2 = 25
    /\ G.var_local_id = 34 /\ G.var_workgroup_id = 35
BY Ids

\* The arm of S2R.
LEMMA S2RRun ==
    ASSUME NEW s, NEW seed, NEW b, Armed(s, b), NEW ins, Legal(ins), ins.op = "S2R"
    PROVE  \E t : /\ Runs(s, seed, EmitS2R(ins, b).code, t, b, Views(ins.dst))
                  /\ Stored(t.m, U(ins.dst), SpecialOf(s.m, seed, ins.sr))
<1> DEFINE u == U(ins.dst)
<1>1. ins.dst \in Registers /\ b \in Nat /\ b > 38 /\ InBlock(s)
    BY DEF Legal, Armed, Under
<1>2. u \in Nat /\ u + 2 < b /\ Viewed(s, u)
    BY <1>1, ViewsBelow DEF Armed, Located
<1>3. Views(ins.dst) = {u, u + 1, u + 2}
    BY DEF Views
<1> HIDE DEF u
<1>4. CASE ins.sr \in DOMAIN Builtin
    <2> DEFINE a == Builtin[ins.sr][1]
               c == Builtin[ins.sr][2]
               c1 == <<Chain(G.ptr_input_uint, b + 1, a, c), Load(G.type_uint, b, b + 1)>>
               c2 == StoreViews(u, b, b + 2)
               v == SpecialOf(s.m, seed, ins.sr)
    <2>1. EmitS2R(ins, b).code = c1 \o c2
        BY <1>4 DEF EmitS2R, Emitted, u
    <2>2. Element(s.env[a], s.env[c]) = SourceOf(ins.sr)
        <3>1. a \in {G.var_local_id, G.var_workgroup_id} /\ c \in {G.const_uint_0, G.const_uint_1, G.const_uint_2}
            BY <1>4, BuiltinTable
        <3>2. s.env[a] = <<a, 0>>
            BY <3>1 DEF Armed, Located, Slot
        <3>3. s.env[c] = c - G.const_uint_0
            BY <3>1, SmallConstants DEF Armed, Located
        <3> QED
            BY <3>2, <3>3 DEF Element, SourceOf
    <2>3. v = Read(s.m, seed, G.type_uint, Element(s.env[a], s.env[c]))
        BY <1>4, <2>2 DEF SpecialOf
    <2> HIDE DEF a, c, v
    <2>4. ReadsThrough(s, seed, G.ptr_input_uint, G.type_uint, b + 1, b, a, c, b, v)
        <3>1. b + 1 \in Nat /\ b + 1 >= b /\ b >= b
            BY <1>1
        <3> QED
            BY <1>1, <2>3, <3>1, ReadThrough, TypesNotNull
    <2>5. PICK t1 : Runs(s, seed, c1, t1, b, {}) /\ t1.m = s.m /\ t1.env[b] = v
        BY <2>4 DEF ReadsThrough
    <2>6. Viewed(t1, u) /\ InBlock(t1)
        BY <1>1, <1>2, <2>5 DEF Runs, Spares, Viewed
    <2>7. PICK t2 : Runs(t1, seed, c2, t2, b + 2, {u, u + 1, u + 2}) /\ Stored(t2.m, u, t1.env[b])
        <3>1. b + 2 \in Nat /\ u + 2 < b + 2 /\ b < b + 2
            BY <1>1, <1>2
        <3> QED
            BY <1>1, <1>2, <2>6, <3>1, StoreViewsRun
    <2> HIDE DEF c1, c2
    <2>8. Runs(s, seed, c1 \o c2, t2, b, {} \cup {u, u + 1, u + 2})
        <3>1. b + 2 \in Nat /\ b <= b + 2
            BY <1>1
        <3> QED
            BY <1>1, <2>5, <2>7, <3>1, RunsConcat
    <2>9. {} \cup {u, u + 1, u + 2} = Views(ins.dst)
        BY <1>3
    <2> QED
        BY <2>1, <2>5, <2>7, <2>8, <2>9 DEF v, u
<1>5. CASE ins.sr \notin DOMAIN Builtin
    <2>1. EmitS2R(ins, b).code = StoreViews(u, G.const_uint_0, b + 1)
        BY <1>5 DEF EmitS2R, Emitted, u
    <2>2. s.env[G.const_uint_0] = 0 /\ SpecialOf(s.m, seed, ins.sr) = 0
        BY <1>5 DEF Armed, Located, SpecialOf
    <2>3. PICK z : z = G.const_uint_0
        OBVIOUS
    <2>4. z \in Nat /\ z < b + 1 /\ b + 1 \in Nat /\ u + 2 < b + 1 /\ b <= b + 1
        BY <1>1, <1>2, <2>3, SmallConstants
    <2>5. PICK t : Runs(s, seed, StoreViews(u, z, b + 1), t, b + 1, {u, u + 1, u + 2}) /\ Stored(t.m, u, s.env[z])
        BY <1>1, <1>2, <2>4, StoreViewsRun
    <2>6. Runs(s, seed, StoreViews(u, z, b + 1), t, b, {u, u + 1, u + 2})
        BY <1>1, <2>4, <2>5, RunsEarlier
    <2> QED
        BY <1>3, <2>1, <2>2, <2>3, <2>5, <2>6 DEF u
<1> QED
    BY <1>4, <1>5

\* Three words, one by one.
LEMMA TripleAppended ==
    ASSUME NEW v, NEW w, NEW x
    PROVE  Append(Append(Append(<<>>, v), w), x) = <<v, w, x>>
<1>1. Append(Append(<<>>, v), w) = <<v, w>>
    BY PairAppended
<1>2. <<v, w, x>> = Append(<<v, w>>, x)
    BY Tuple3
<1> QED
    BY <1>1, <1>2, Zenon

\* From s the value of v goes to the uint and the float view from u on.
StoresTwo(s, seed, u, v, f, b) ==
    \E t : /\ Runs(s, seed, <<Store(u, v), Val("ConvertUToF", G.type_float, f, <<v>>), Store(u + 1, f)>>, t, b,
                   {u, u + 1})
           /\ Holds(t.m, u, s.env[v])

\* A value goes to two views.
LEMMA TwoViewsRun ==
    ASSUME NEW s, InBlock(s), NEW seed, NEW u \in Nat, NEW b \in Nat, u + 2 < b, Viewed(s, u),
           NEW v \in Nat, NEW f \in Nat, f >= b, f # v
    PROVE  StoresTwo(s, seed, u, v, f, b)
<1> DEFINE x == s.env[v]
           y == Rounded(x)
           w1 == Store(u, v)
           w2 == Val("ConvertUToF", G.type_float, f, <<v>>)
           w3 == Store(u + 1, f)
           c1 == Append(<<>>, w1)
           c2 == Append(c1, w2)
           c3 == Append(c2, w3)
<1>0. u # u + 1 /\ u + 1 \in Nat /\ f # u /\ f # u + 1 /\ G.type_float # 0 /\ G.type_float # G.type_uint
    BY TypesNotNull
<1>1. Runs(s, seed, <<>>, s, b, {})
    BY RunsNone
<1>2. s.env[u] = Slot(u) /\ s.env[u + 1] = Slot(u + 1) /\ s.env[v] = x
    BY DEF Viewed
<1> HIDE DEF x
<1>3. PICK t1 : Runs(s, seed, c1, t1, b, {} \cup {u}) /\ Puts(s, t1, u, x)
    BY <1>1, <1>2, RunsStore
<1>4. t1.env[u + 1] = Slot(u + 1) /\ t1.env[v] = x /\ Holds(t1.m, u, x)
    BY <1>2, <1>3 DEF Puts
<1> HIDE DEF c1
<1>5. PICK t2 : Runs(s, seed, c2, t2, b, {} \cup {u}) /\ Adds1(t1, t2, f, y)
    BY <1>0, <1>3, <1>4, RunsConversion
<1>6. t2.env[u + 1] = Slot(u + 1) /\ t2.env[f] = y /\ Holds(t2.m, u, x)
    BY <1>0, <1>4, <1>5 DEF Adds1
<1> HIDE DEF c2
<1>7. PICK t3 : Runs(s, seed, c3, t3, b, ({} \cup {u}) \cup {u + 1}) /\ Puts(t2, t3, u + 1, y)
    BY <1>5, <1>6, RunsStore
<1>8. Holds(t3.m, u, x)
    BY <1>0, <1>6, <1>7, HoldsStays DEF Puts
<1>9. ({} \cup {u}) \cup {u + 1} = {u, u + 1}
    OBVIOUS
<1> HIDE DEF w1, w2, w3
<1>10. c3 = <<w1, w2, w3>>
    BY TripleAppended DEF c3, c2, c1
<1> HIDE DEF c3
<1>11. Runs(s, seed, <<w1, w2, w3>>, t3, b, {u, u + 1})
    BY <1>7, <1>9, <1>10
<1> QED
    BY <1>8, <1>11 DEF StoresTwo, w1, w2, w3, x

\* What LDC stores.
ParameterOf(m, seed, offset) == IF offset = 24 THEN UintOf(m, seed, 3) ELSE 0

\* The arm of LDC.
LEMMA LdcRun ==
    ASSUME NEW s, NEW seed, NEW b, Armed(s, b), NEW ins, Legal(ins), ins.op = "Ldc"
    PROVE  \E t : /\ Runs(s, seed, EmitLdc(ins, b).code, t, b, {U(ins.dst), U(ins.dst) + 1})
                  /\ Holds(t.m, U(ins.dst), ParameterOf(s.m, seed, ins.offset))
<1> DEFINE u == U(ins.dst)
<1>1. ins.dst \in Registers /\ b \in Nat /\ b > 38 /\ InBlock(s)
    BY DEF Legal, Armed, Under
<1>2. u \in Nat /\ u + 2 < b /\ Viewed(s, u) /\ F(ins.dst) = u + 1
    BY <1>1, ViewsBelow DEF Armed, Located
<1>3. U(3) \in Nat /\ U(3) + 2 < b /\ Viewed(s, U(3))
    BY <1>1, ViewsBelow, Threes DEF Armed, Located
<1> HIDE DEF u
<1>4. CASE ins.offset = 24
    <2> DEFINE y == U(3)
               w == Load(G.type_uint, b, y)
               f == b + 1
               c == <<Store(u, b), Val("ConvertUToF", G.type_float, f, <<b>>), Store(u + 1, f)>>
               v == UintOf(s.m, seed, 3)
    <2>1. EmitLdc(ins, b).code = <<w>> \o c
        BY <1>2, <1>4 DEF EmitLdc, Emitted, u
    <2>2. s.env[y] = Slot(y) /\ v = Read(s.m, seed, G.type_uint, Slot(y))
        BY <1>3 DEF Viewed, UintOf
    <2> HIDE DEF y, v
    <2>3. Runs(s, seed, <<>>, s, b, {})
        BY <1>1, RunsNone
    <2>4. b >= b /\ f \in Nat /\ f >= b /\ f # b
        BY <1>1
    <2>5. PICK t1 : Runs(s, seed, Append(<<>>, w), t1, b, {}) /\ Adds1(s, t1, b, v)
        BY <1>1, <2>2, <2>3, <2>4, RunsLoad, TypesNotNull
    <2> HIDE DEF w, f
    <2>6. Runs(s, seed, <<w>>, t1, b, {}) /\ t1.env[b] = v
        BY <2>5, Tuple1 DEF Adds1
    <2>7. Viewed(t1, u) /\ InBlock(t1)
        BY <1>1, <1>2, <2>6 DEF Runs, Spares, Viewed
    <2>8. StoresTwo(t1, seed, u, b, f, b)
        BY <1>1, <1>2, <2>4, <2>7, TwoViewsRun
    <2>9. PICK t2 : Runs(t1, seed, c, t2, b, {u, u + 1}) /\ Holds(t2.m, u, v)
        BY <2>6, <2>8 DEF StoresTwo
    <2> HIDE DEF c
    <2>10. Runs(s, seed, <<w>> \o c, t2, b, {} \cup {u, u + 1})
        <3>1. b <= b
            BY <1>1
        <3> QED
            BY <1>1, <2>6, <2>9, <3>1, RunsConcat
    <2>11. {} \cup {u, u + 1} = {u, u + 1} /\ v = ParameterOf(s.m, seed, ins.offset)
        BY <1>4 DEF ParameterOf, v
    <2> QED
        BY <2>1, <2>9, <2>10, <2>11 DEF u
<1>5. CASE ins.offset # 24
    <2> DEFINE z == G.const_uint_0
               c == <<Store(u, z), Val("ConvertUToF", G.type_float, b, <<z>>), Store(u + 1, b)>>
    <2>1. EmitLdc(ins, b).code = <<>> \o c
        BY <1>2, <1>5 DEF EmitLdc, Emitted, u
    <2>2. <<>> \o c = c
        <3>1. \A S : \A q \in Seq(S) : <<>> \o q = q
            OBVIOUS
        <3>2. Listing(c)
            <4> DEFINE w1 == Store(u, z)
                       w2 == Val("ConvertUToF", G.type_float, b, <<z>>)
                       w3 == Store(u + 1, b)
            <4>1. c = <<w1, w2, w3>>
                OBVIOUS
            <4> HIDE DEF w1, w2, w3
            <4>2. <<w1, w2, w3>> \in Seq({w1, w2, w3})
                OBVIOUS
            <4> QED
                BY <4>1, <4>2 DEF Listing
        <3> QED
            BY <3>1, <3>2 DEF Listing
    <2>3. s.env[z] = 0 /\ z \in Nat /\ z # b /\ b >= b
        BY <1>1, SmallConstants DEF Armed, Located
    <2>4. ParameterOf(s.m, seed, ins.offset) = 0
        BY <1>5 DEF ParameterOf
    <2> HIDE DEF z
    <2>5. StoresTwo(s, seed, u, z, b, b)
        BY <1>1, <1>2, <2>3, TwoViewsRun
    <2>6. PICK t : Runs(s, seed, c, t, b, {u, u + 1}) /\ Holds(t.m, u, 0)
        BY <2>3, <2>5 DEF StoresTwo
    <2> HIDE DEF c
    <2> QED
        BY <2>1, <2>2, <2>4, <2>6 DEF u
<1> QED
    BY <1>4, <1>5

(***************************************************************************)
(* The program as the lifter takes it: what its IR says of registers and   *)
(* predicates, whatever SASS means.                                        *)
(***************************************************************************)

\* The instructions that write a register.
IrWrites == {"Mov", "IAdd3", "IMad", "FAdd", "FMul", "FFma", "S2R", "Ldc"}

\* What an integer instruction writes.
IrResult(x, l, ins) ==
    LET v(k) == x.r[ins.srcs[k]]
    IN  CASE ins.op = "Mov"   -> IF ins.imm # None THEN Numeral(ins.imm[1]) ELSE v(1)
          [] ins.op = "IAdd3" -> v(1) + v(2) + v(3)
          [] ins.op = "IMad"  -> v(1) * v(2) + v(3)
          [] ins.op = "S2R"   -> Special(l, ins.sr)
          [] ins.op = "Ldc"   -> IF ins.offset = 24 THEN l.n ELSE 0

IrGuard(x, ins) == (IF ins.guard = PT THEN TRUE ELSE x.p[ins.guard]) # ins.inv

\* One instruction.
IrStep(x, l, ins) ==
    IF ins.address < x.skip \/ ~IrGuard(x, ins) THEN x
    ELSE IF ins.op = "Exit" THEN [x EXCEPT !.skip = PastEnd]
    ELSE IF ins.op = "Bra" THEN [x EXCEPT !.skip = ins.target[1]]
    ELSE IF ins.op = "ISetP"
    THEN [x EXCEPT !.p[ins.dst] = x.r[ins.srcs[1]] # x.r[ins.srcs[2]]]
    ELSE IF ins.op \in IrWrites
    THEN [x EXCEPT !.r[ins.dst] = IrResult(x, l, ins) % UintSize,
                   !.known = IF ins.op = "Mov" /\ ins.imm = None /\ ins.srcs[1] \notin @
                             THEN @ \ {ins.dst} ELSE @ \cup {ins.dst}]
    ELSE x

\* The variables an instruction may change.
Touched(ins) ==
    IF ins.op = "ISetP" THEN {P(ins.dst)}
    ELSE IF ins.op \in IrWrites THEN Views(ins.dst)
    ELSE {}

\* What the code of an instruction does to the memory m, which becomes n.
Effect(ins, m, n, seed) ==
    /\ ins.op = "Mov" /\ ins.imm # None => Stored(n, U(ins.dst), Numeral(ins.imm[1]))
    /\ ins.op = "Mov" /\ ins.imm = None => Copied(m, n, seed, ins.srcs[1], ins.dst)
    /\ ins.op = "IAdd3" => Stored(n, U(ins.dst), CombinedOf(m, seed, "IAdd", ins.srcs))
    /\ ins.op = "IMad" => Stored(n, U(ins.dst), CombinedOf(m, seed, "IMul", ins.srcs))
    /\ ins.op = "ISetP" =>
          Holds(n, P(ins.dst), Truth(UintOf(m, seed, ins.srcs[1]) # UintOf(m, seed, ins.srcs[2])))
    /\ ins.op = "S2R" => Stored(n, U(ins.dst), SpecialOf(m, seed, ins.sr))
    /\ ins.op = "Ldc" => Holds(n, U(ins.dst), ParameterOf(m, seed, ins.offset))

\* The code runs, and does so.
Does(s, seed, ins, b, code) ==
    \E t : Runs(s, seed, code, t, b, Touched(ins)) /\ Effect(ins, s.m, t.m, seed)

\* The arm of every instruction runs and has its effect.
LEMMA ArmRun ==
    ASSUME NEW s, NEW seed, NEW b, Armed(s, b), NEW ins, Legal(ins)
    PROVE  Does(s, seed, ins, b, EmitOp(ins, b).code)
<1>0. ins.op \in Translatable
    BY DEF Legal
<1>1. CASE ins.op = "Mov"
    <2>1. EmitOp(ins, b) = EmitMov(ins, b)
        BY <1>1 DEF EmitOp
    <2>2. Touched(ins) = Views(ins.dst)
        BY <1>1 DEF Touched, IrWrites
    <2>3. CASE ins.imm # None
        <3>1. PICK t : /\ Runs(s, seed, EmitMov(ins, b).code, t, b, Views(ins.dst))
                       /\ Stored(t.m, U(ins.dst), Numeral(ins.imm[1]))
            BY <1>1, <2>3, MovImmediateRun
        <3>2. Effect(ins, s.m, t.m, seed)
            BY <1>1, <2>3, <3>1 DEF Effect
        <3> QED
            BY <2>1, <2>2, <3>1, <3>2 DEF Does
    <2>4. CASE ins.imm = None
        <3>1. PICK t : /\ Runs(s, seed, EmitMov(ins, b).code, t, b, Views(ins.dst))
                       /\ Copied(s.m, t.m, seed, ins.srcs[1], ins.dst)
            BY <1>1, <2>4, MovCopyRun
        <3>2. Effect(ins, s.m, t.m, seed)
            BY <1>1, <2>4, <3>1 DEF Effect
        <3> QED
            BY <2>1, <2>2, <3>1, <3>2 DEF Does
    <2> QED
        BY <2>3, <2>4
<1>2. CASE ins.op \in {"IAdd3", "IMad"}
    <2>1. PICK op \in {"IAdd", "IMul"} : op = IF ins.op = "IAdd3" THEN "IAdd" ELSE "IMul"
        OBVIOUS
    <2>2. EmitOp(ins, b) = EmitInteger(op, ins, b)
        BY <1>2, <2>1 DEF EmitOp
    <2>3. Touched(ins) = Views(ins.dst)
        BY <1>2 DEF Touched, IrWrites
    <2>4. PICK t : /\ Runs(s, seed, EmitInteger(op, ins, b).code, t, b, Views(ins.dst))
                   /\ Stored(t.m, U(ins.dst), CombinedOf(s.m, seed, op, ins.srcs))
        BY <1>2, IntegerRun
    <2>5. Effect(ins, s.m, t.m, seed)
        BY <1>2, <2>1, <2>4 DEF Effect
    <2> QED
        BY <2>2, <2>3, <2>4, <2>5 DEF Does
<1>3. CASE ins.op = "ISetP"
    <2>1. EmitOp(ins, b) = EmitISetP(ins, b)
        BY <1>3 DEF EmitOp
    <2>2. Touched(ins) = {P(ins.dst)}
        BY <1>3 DEF Touched
    <2>3. PICK t : /\ Runs(s, seed, EmitISetP(ins, b).code, t, b, {P(ins.dst)})
                   /\ Holds(t.m, P(ins.dst),
                            Truth(UintOf(s.m, seed, ins.srcs[1]) # UintOf(s.m, seed, ins.srcs[2])))
        BY <1>3, ISetPRun
    <2>4. Effect(ins, s.m, t.m, seed)
        BY <1>3, <2>3 DEF Effect
    <2> QED
        BY <2>1, <2>2, <2>3, <2>4 DEF Does
<1>4. CASE ins.op \in {"FAdd", "FMul"}
    <2>1. EmitOp(ins, b) = EmitFloat(ins.op, ins, b)
        BY <1>4 DEF EmitOp
    <2>2. Touched(ins) = Views(ins.dst)
        BY <1>4 DEF Touched, IrWrites
    <2>3. PICK t : Runs(s, seed, EmitFloat(ins.op, ins, b).code, t, b, Views(ins.dst))
        BY <1>4, FloatRun
    <2>4. Effect(ins, s.m, t.m, seed)
        BY <1>4 DEF Effect
    <2> QED
        BY <2>1, <2>2, <2>3, <2>4 DEF Does
<1>5. CASE ins.op = "FFma"
    <2>1. EmitOp(ins, b) = EmitFFma(ins, b)
        BY <1>5 DEF EmitOp
    <2>2. Touched(ins) = Views(ins.dst)
        BY <1>5 DEF Touched, IrWrites
    <2>3. PICK t : Runs(s, seed, EmitFFma(ins, b).code, t, b, Views(ins.dst))
        BY <1>5, FFmaRun
    <2>4. Effect(ins, s.m, t.m, seed)
        BY <1>5 DEF Effect
    <2> QED
        BY <2>1, <2>2, <2>3, <2>4 DEF Does
<1>6. CASE ins.op = "S2R"
    <2>1. EmitOp(ins, b) = EmitS2R(ins, b)
        BY <1>6 DEF EmitOp
    <2>2. Touched(ins) = Views(ins.dst)
        BY <1>6 DEF Touched, IrWrites
    <2>3. PICK t : /\ Runs(s, seed, EmitS2R(ins, b).code, t, b, Views(ins.dst))
                   /\ Stored(t.m, U(ins.dst), SpecialOf(s.m, seed, ins.sr))
        BY <1>6, S2RRun
    <2>4. Effect(ins, s.m, t.m, seed)
        BY <1>6, <2>3 DEF Effect
    <2> QED
        BY <2>1, <2>2, <2>3, <2>4 DEF Does
<1>7. CASE ins.op = "Ldc"
    <2>1. EmitOp(ins, b) = EmitLdc(ins, b)
        BY <1>7 DEF EmitOp
    <2>2. Touched(ins) = Views(ins.dst)
        BY <1>7 DEF Touched, IrWrites
    <2>3. PICK t : /\ Runs(s, seed, EmitLdc(ins, b).code, t, b, {U(ins.dst), U(ins.dst) + 1})
                   /\ Holds(t.m, U(ins.dst), ParameterOf(s.m, seed, ins.offset))
        BY <1>7, LdcRun
    <2>4. Runs(s, seed, EmitLdc(ins, b).code, t, b, Views(ins.dst))
        <3>1. {U(ins.dst), U(ins.dst) + 1} \subseteq Views(ins.dst)
            BY DEF Views
        <3> QED
            BY <2>3, <3>1, KeepsMore DEF Runs
    <2>5. Effect(ins, s.m, t.m, seed)
        BY <1>7, <2>3 DEF Effect
    <2> QED
        BY <2>1, <2>2, <2>4, <2>5 DEF Does
<1>8. CASE ins.op \in {"Barrier", "Ldg", "Stg", "Bra", "Exit", "Nop"}
    <2>1. \E w : EmitOp(ins, b).code = <<w>> /\ w.op \in {"Nop", "ControlBarrier"} /\ w.type = 0
        <3>1. CASE ins.op = "Barrier"
            BY <3>1 DEF EmitOp, EmitBarrier, Emitted, Plain
        <3>2. CASE ins.op # "Barrier"
            BY <1>8, <3>2 DEF EmitOp, EmitNop, Emitted, Plain
        <3> QED
            BY <3>1, <3>2
    <2>2. Touched(ins) = {}
        BY <1>8 DEF Touched, IrWrites
    <2>3. b \in Nat /\ InBlock(s)
        BY DEF Armed, Under
    <2>4. Runs(s, seed, EmitOp(ins, b).code, s, b, {})
        BY <2>1, <2>3, IdleRun
    <2>5. Effect(ins, s.m, s.m, seed)
        BY <1>8 DEF Effect
    <2> QED
        BY <2>2, <2>4, <2>5 DEF Does
<1> QED
    BY <1>0, <1>1, <1>2, <1>3, <1>4, <1>5, <1>6, <1>7, <1>8 DEF Translatable

\* The state s on its way to a label.
Jumped(s, l) == [env |-> s.env, m |-> s.m, next |-> l]

\* Words on the way to a label are passed over.
LEMMA SkipLeads ==
    ASSUME NEW s, NEW seed, s.next # 0, NEW c, Listing(c),
           \A k \in 1 .. Len(c) : c[k].op = "Label" => c[k].id # s.next
    PROVE  Leads(s, seed, c, s)
<1> DEFINE g == [k \in 0 .. Len(c) |-> s]
<1>1. Len(c) \in Nat
    BY ListingLength
<1>2. \A k \in 0 .. Len(c) : g[k] = s
    OBVIOUS
<1>3. g = [k \in 0 .. Len(c) |-> g[k]]
    OBVIOUS
<1> HIDE DEF g
<1>4. ASSUME NEW k \in 1 .. Len(c)
      PROVE  g[k] = Step(g[k - 1], seed, c[k])
    <2>1. k \in 0 .. Len(c) /\ k - 1 \in 0 .. Len(c)
        BY <1>1
    <2>2. Step(s, seed, c[k]) = s
        BY DEF Step
    <2> QED
        BY <1>2, <2>1, <2>2
<1>5. 0 \in 0 .. Len(c) /\ Len(c) \in 0 .. Len(c)
    BY <1>1
<1> QED
    BY <1>2, <1>3, <1>4, <1>5 DEF Leads, Traces

\* One word leads one step on.
LEMMA LeadsOne ==
    ASSUME NEW s, NEW seed, NEW w
    PROVE  Leads(s, seed, Append(<<>>, w), Step(s, seed, w)) /\ Listing(Append(<<>>, w)) /\ Listing(<<>>)
<1>1. Listing(<<>>)
    <2>1. <<>> \in Seq({})
        OBVIOUS
    <2> QED
        BY <2>1 DEF Listing
<1> QED
    BY <1>1, LeadsNone, LeadsAppend, ListingAppend

\* A state inside a block is its memory and its values.
LEMMA InBlockNext ==
    ASSUME NEW s, InBlock(s)
    PROVE  s.next = 0 /\ Jumped(s, 0) = s
<1>1. [env |-> s.env, m |-> s.m, next |-> 0].next = 0
    OBVIOUS
<1> QED
    BY <1>1 DEF InBlock, Jumped

\* A branch jumps.
LEMMA BranchStep ==
    ASSUME NEW s, InBlock(s), NEW seed, NEW l
    PROVE  Step(s, seed, Branch(l)) = Jumped(s, l)
<1> DEFINE w == Branch(l)
<1>1. w.op = "Branch" /\ w.type = 0 /\ w.lits[1] = l
    BY DEF Branch, Plain
<1> HIDE DEF w
<1>2. Step(s, seed, w) = Execute(s, seed, w)
    BY InBlockNext DEF Step
<1>3. Execute(s, seed, w) = [s EXCEPT !.next = l]
    BY <1>1 DEF Execute
<1>4. PICK e, m : e = s.env /\ m = s.m
    OBVIOUS
<1>5. s = [env |-> e, m |-> m, next |-> 0]
    BY <1>4 DEF InBlock
<1>6. [s EXCEPT !.next = l] = [env |-> e, m |-> m, next |-> l]
    BY <1>5
<1> QED
    BY <1>2, <1>3, <1>4, <1>6 DEF Jumped, w

\* A conditional branch jumps to one of two labels.
LEMMA ConditionalStep ==
    ASSUME NEW s, InBlock(s), NEW seed, NEW c, NEW x, NEW y
    PROVE  Step(s, seed, Plain("BranchConditional", <<c>>, <<x, y>>))
              = Jumped(s, IF s.env[c] = 1 THEN x ELSE y)
<1> DEFINE w == Plain("BranchConditional", <<c>>, <<x, y>>)
<1>1. w.op = "BranchConditional" /\ w.type = 0 /\ w.lits[1] = x /\ w.lits[2] = y /\ w.args[1] = c
    BY DEF Plain
<1> HIDE DEF w
<1>0. PICK l : l = IF s.env[c] = 1 THEN x ELSE y
    OBVIOUS
<1>2. Step(s, seed, w) = Execute(s, seed, w)
    BY InBlockNext DEF Step
<1>3. Execute(s, seed, w) = [s EXCEPT !.next = l]
    BY <1>0, <1>1 DEF Execute
<1>4. PICK e, m : e = s.env /\ m = s.m
    OBVIOUS
<1>5. s = [env |-> e, m |-> m, next |-> 0]
    BY <1>4 DEF InBlock
<1>6. [s EXCEPT !.next = l] = [env |-> e, m |-> m, next |-> l]
    BY <1>5
<1> QED
    BY <1>0, <1>2, <1>3, <1>4, <1>6 DEF Jumped, w

\* At its label the state is inside a block again; other labels are passed over.
LEMMA LabelStep ==
    ASSUME NEW s, InBlock(s), NEW seed, NEW l, l # 0, NEW x
    PROVE  Step(Jumped(s, l), seed, Label(x)) = IF x = l THEN s ELSE Jumped(s, l)
<1> DEFINE w == Label(x)
<1>1. w.op = "Label" /\ w.id = x
    BY DEF Label, Def
<1> HIDE DEF w
<1>2. PICK e, m : e = s.env /\ m = s.m
    OBVIOUS
<1>3. s = [env |-> e, m |-> m, next |-> 0]
    BY <1>2 DEF InBlock
<1>4. PICK t : t = Jumped(s, l)
    OBVIOUS
<1>5. t = [env |-> e, m |-> m, next |-> l] /\ t.next = l
    BY <1>2, <1>4 DEF Jumped
<1>6. Step(t, seed, w) = IF x = l THEN [t EXCEPT !.next = 0] ELSE t
    BY <1>1, <1>5 DEF Step
<1>7. [t EXCEPT !.next = 0] = s
    BY <1>3, <1>5
<1> QED
    BY <1>4, <1>6, <1>7 DEF w

\* A branch on the way to a label is passed over.
LEMMA BranchPassed ==
    ASSUME NEW s, NEW seed, NEW l, l # 0, NEW x
    PROVE  Step(Jumped(s, l), seed, Branch(x)) = Jumped(s, l)
<1> DEFINE w == Branch(x)
<1>1. w.op = "Branch"
    BY DEF Branch, Plain
<1> HIDE DEF w
<1>2. PICK t : t = Jumped(s, l)
    OBVIOUS
<1>3. t.next = l
    BY <1>2 DEF Jumped
<1>4. Step(t, seed, w) = t
    BY <1>1, <1>3 DEF Step
<1> QED
    BY <1>2, <1>4 DEF w

\* A selection goes on inside, or to where the blocks merge.
LEMMA SelectionLeads ==
    ASSUME NEW s, InBlock(s), NEW seed, NEW c, NEW then, NEW merge, then # 0, merge # 0, then # merge
    PROVE  /\ Leads(s, seed, Selection(c, then, merge), IF s.env[c] = 1 THEN s ELSE Jumped(s, merge))
           /\ Listing(Selection(c, then, merge))
<1> DEFINE w1 == Plain("SelectionMerge", <<>>, <<merge>>)
           w2 == Plain("BranchConditional", <<c>>, <<then, merge>>)
           w3 == Label(then)
           l == IF s.env[c] = 1 THEN then ELSE merge
           t == Jumped(s, l)
           r == IF s.env[c] = 1 THEN s ELSE Jumped(s, merge)
<1>1. Step(s, seed, w1) = s
    BY IdleStep DEF Plain
<1>2. Step(s, seed, w2) = t
    BY ConditionalStep
<1>3. Step(t, seed, w3) = r
    <2>1. l # 0 /\ (then = l <=> s.env[c] = 1)
        OBVIOUS
    <2>2. Step(t, seed, w3) = IF then = l THEN s ELSE t
        <3> HIDE DEF l
        <3> QED
            BY <2>1, LabelStep
    <2> QED
        BY <2>1, <2>2
<1>4. Selection(c, then, merge) = <<w1, w2, w3>>
    BY DEF Selection
<1> HIDE DEF w1, w2, w3, t, l, r
<1> DEFINE c1 == Append(<<>>, w1)
           c2 == Append(c1, w2)
           c3 == Append(c2, w3)
<1>5. Leads(s, seed, c1, s) /\ Listing(c1)
    BY <1>1, LeadsOne
<1> HIDE DEF c1
<1>6. Leads(s, seed, c2, t) /\ Listing(c2)
    BY <1>2, <1>5, LeadsAppend, ListingAppend
<1> HIDE DEF c2
<1>7. Leads(s, seed, c3, r) /\ Listing(c3)
    BY <1>3, <1>6, LeadsAppend, ListingAppend
<1>8. c3 = <<w1, w2, w3>>
    BY TripleAppended DEF c2, c1
<1> HIDE DEF c3
<1> QED
    BY <1>4, <1>7, <1>8 DEF r

\* At the end of a block that branches to the next one both ways meet.
LEMMA MergeLeads ==
    ASSUME NEW s, InBlock(s), NEW seed, NEW l, l # 0
    PROVE  /\ Leads(s, seed, <<Branch(l), Label(l)>>, s)
           /\ Leads(Jumped(s, l), seed, <<Branch(l), Label(l)>>, s)
           /\ Listing(<<Branch(l), Label(l)>>)
<1> DEFINE w1 == Branch(l)
           w2 == Label(l)
           t == Jumped(s, l)
<1>1. Step(s, seed, w1) = t /\ Step(t, seed, w1) = t /\ Step(t, seed, w2) = s
    BY BranchStep, BranchPassed, LabelStep
<1> HIDE DEF w1, w2, t
<1> DEFINE c1 == Append(<<>>, w1)
           c2 == Append(c1, w2)
<1>2. Leads(s, seed, c1, t) /\ Leads(t, seed, c1, t) /\ Listing(c1)
    BY <1>1, LeadsOne
<1> HIDE DEF c1
<1>3. Leads(s, seed, c2, s) /\ Leads(t, seed, c2, s) /\ Listing(c2)
    BY <1>1, <1>2, LeadsAppend, ListingAppend
<1>4. c2 = <<w1, w2>>
    BY PairAppended DEF c1
<1> HIDE DEF c2
<1> QED
    BY <1>3, <1>4 DEF w1, w2, t

\* What lies below the code's ids is still where it was.
LEMMA LocatedStays ==
    ASSUME NEW s, NEW t, NEW b, Under(b), Located(s), Spares(b, s, t)
    PROVE  Located(t)
<1>1. ASSUME NEW r \in Registers
      PROVE  Viewed(t, U(r))
    <2>1. U(r) \in Nat /\ U(r) + 2 < b /\ b \in Nat /\ Viewed(s, U(r))
        BY ViewsBelow DEF Located, Under
    <2> QED
        BY <2>1 DEF Viewed, Spares
<1>2. ASSUME NEW p \in 0 .. 7
      PROVE  t.env[P(p)] = Slot(P(p))
    <2>1. P(p) \in Nat /\ P(p) < b /\ s.env[P(p)] = Slot(P(p))
        BY PredicatesBelow DEF Located
    <2> QED
        BY <2>1 DEF Spares
<1>3. \A x \in Nat : x <= 38 => t.env[x] = s.env[x]
    BY DEF Under, Spares
<1>4. /\ t.env[G.const_uint_0] = 0 /\ t.env[G.const_uint_1] = 1 /\ t.env[G.const_uint_2] = 2
      /\ t.env[G.var_local_id] = Slot(G.var_local_id)
      /\ t.env[G.var_workgroup_id] = Slot(G.var_workgroup_id)
    <2>1. /\ t.env[G.const_uint_0] = s.env[G.const_uint_0] /\ t.env[G.const_uint_1] = s.env[G.const_uint_1]
          /\ t.env[G.const_uint_2] = s.env[G.const_uint_2]
          /\ t.env[G.var_local_id] = s.env[G.var_local_id]
          /\ t.env[G.var_workgroup_id] = s.env[G.var_workgroup_id]
        BY <1>3, SmallConstants
    <2> QED
        BY <2>1 DEF Located
<1>5. \A v \in DOMAIN imm_consts : t.env[imm_consts[v]] = v
    BY DEF Under, Spares, Located
<1> QED
    BY <1>1, <1>2, <1>4, <1>5 DEF Located

\* More ids leave what lies under them.
LEMMA UnderMore ==
    ASSUME NEW b, Under(b), NEW e \in Nat, b <= e
    PROVE  Under(e)
<1>1. frame.reg0 \in Nat /\ frame.reg0 + 3 * NumRegs + 8 <= e
    <2>1. NumRegs \in Nat
        BY NumRegsAssumption
    <2> QED
        BY <2>1 DEF Under
<1> QED
    BY <1>1 DEF Under

\* The code has no label.
Unlabelled(c) == \A k \in 1 .. Len(c) : c[k].op # "Label"

\* The guard lets the instruction run.
Allowed(m, seed, ins) ==
    \/ ins.guard = PT
    \/ ins.inv /\ Read(m, seed, G.type_bool, Slot(P(ins.guard))) # 1
    \/ ~ins.inv /\ Read(m, seed, G.type_bool, Slot(P(ins.guard))) = 1

\* The code runs and has the effect of the instruction, or none.
Obeyed(s, seed, ins, b, code) ==
    \E t : /\ Runs(s, seed, code, t, b, Touched(ins))
           /\ IF Allowed(s.m, seed, ins) THEN Effect(ins, s.m, t.m, seed) ELSE t.m = s.m

\* The id of the condition of a guard, and the code that computes it.
Condition(ins, b) == IF ins.inv THEN b + 1 ELSE b

GuardCode(ins, b) ==
    <<Load(G.type_bool, b, P(ins.guard))>>
        \o (IF ins.inv THEN <<Val("LogicalNot", G.type_bool, Condition(ins, b), <<b>>)>> ELSE <<>>)

\* From s the code of a guard comes to its condition.
GuardLoads(s, seed, ins, b) ==
    \E t : /\ Runs(s, seed, GuardCode(ins, b), t, b, {}) /\ t.m = s.m
           /\ t.env[Condition(ins, b)] = 1 <=> Allowed(s.m, seed, ins)

\* A guard is a bit.
Bit(m, seed, p) == Read(m, seed, G.type_bool, Slot(P(p))) \in {0, 1}

\* One word and one more.
LEMMA PairJoined ==
    ASSUME NEW v, NEW w
    PROVE  <<v>> \o <<w>> = <<v, w>>
<1>1. <<v>> \in Seq({v, w}) /\ <<w>> \in Seq({v, w})
    OBVIOUS
<1>2. <<v>> \o <<w>> = Append(<<v>>, w)
    BY <1>1
<1> QED
    BY <1>2, Tuple2

\* The code of a guard computes it.
LEMMA GuardLoaded ==
    ASSUME NEW s, NEW seed, NEW b, Armed(s, b), NEW ins, ins.guard \in 0 .. 7, ins.guard # PT,
           ins.inv \in BOOLEAN, Bit(s.m, seed, ins.guard)
    PROVE  GuardLoads(s, seed, ins, b)
<1> DEFINE x == P(ins.guard)
           v == Read(s.m, seed, G.type_bool, Slot(x))
           w1 == Load(G.type_bool, b, x)
           c1 == Append(<<>>, w1)
<1>1. b \in Nat /\ InBlock(s) /\ b + 1 \in Nat /\ b >= b /\ b + 1 >= b
    BY DEF Armed, Under
<1>2. x \in Nat /\ x < b /\ s.env[x] = Slot(x)
    BY PredicatesBelow DEF Armed, Located
<1>3. v \in {0, 1}
    BY DEF Bit
<1>4. Allowed(s.m, seed, ins) <=> (IF ins.inv THEN v # 1 ELSE v = 1)
    BY DEF Allowed
<1> HIDE DEF x
<1>5. PICK z : z = v
    OBVIOUS
<1>6. z = Read(s.m, seed, G.type_bool, Slot(x)) /\ z \in {0, 1} /\ (Allowed(s.m, seed, ins) <=> (IF ins.inv THEN z # 1 ELSE z = 1))
    BY <1>3, <1>4, <1>5
<1> HIDE DEF v
<1>7. Runs(s, seed, <<>>, s, b, {})
    BY <1>1, RunsNone
<1>8. PICK t1 : Runs(s, seed, c1, t1, b, {}) /\ Adds1(s, t1, b, z)
    BY <1>1, <1>2, <1>6, <1>7, RunsLoad, TypesNotNull
<1>9. t1.m = s.m /\ t1.env[b] = z /\ InBlock(t1)
    BY <1>8 DEF Adds1, Runs
<1>10. CASE ~ins.inv
    <2>1. Condition(ins, b) = b
        BY <1>10 DEF Condition
    <2>2. GuardCode(ins, b) = <<w1>> \o <<>>
        BY <1>10 DEF GuardCode, x
    <2> HIDE DEF w1
    <2>3. <<w1>> \o <<>> = c1
        <3>1. <<w1>> \in Seq({w1})
            OBVIOUS
        <3> QED
            BY <3>1, Tuple1
    <2> HIDE DEF c1
    <2>4. t1.env[b] = 1 <=> Allowed(s.m, seed, ins)
        BY <1>6, <1>9, <1>10
    <2>5. Runs(s, seed, GuardCode(ins, b), t1, b, {})
        BY <1>8, <2>2, <2>3
    <2> QED
        BY <1>9, <2>1, <2>4, <2>5 DEF GuardLoads
<1>11. CASE ins.inv
    <2> DEFINE w2 == Val("LogicalNot", G.type_bool, b + 1, <<b>>)
               c2 == Append(c1, w2)
    <2>1. Condition(ins, b) = b + 1
        BY <1>11 DEF Condition
    <2>2. GuardCode(ins, b) = <<w1>> \o <<w2>>
        BY <1>11, <2>1 DEF GuardCode, x
    <2>3. PICK y : y = 1 - z
        OBVIOUS
    <2>4. y = 1 <=> Allowed(s.m, seed, ins)
        BY <1>6, <1>11, <2>3
    <2>5. Gives(t1, seed, w2, b + 1, y)
        <3>1. y = 1 - t1.env[b]
            BY <1>9, <2>3
        <3> QED
            BY <1>1, <1>9, <3>1, UnaryGives, TypesNotNull
    <2> HIDE DEF w1, w2, c1
    <2>6. PICK t2 : Runs(s, seed, c2, t2, b, {}) /\ Adds1(t1, t2, b + 1, y)
        BY <1>1, <1>8, <2>5, RunsValue
    <2>7. t2.m = s.m /\ (t2.env[b + 1] = 1 <=> Allowed(s.m, seed, ins))
        BY <1>9, <2>4, <2>6 DEF Adds1
    <2>8. <<w1>> \o <<w2>> = <<w1, w2>>
        BY PairJoined
    <2>9. c2 = <<w1, w2>>
        BY PairAppended DEF c2, c1
    <2> HIDE DEF c2
    <2>10. Runs(s, seed, GuardCode(ins, b), t2, b, {})
        BY <2>2, <2>6, <2>8, <2>9
    <2> QED
        BY <2>1, <2>7, <2>10 DEF GuardLoads
<1> QED
    BY <1>10, <1>11

\* An instruction under a guard runs, and has its effect when the guard lets it.
LEMMA GuardedRun ==
    ASSUME NEW s, NEW seed, NEW b, Armed(s, b), NEW ins, Legal(ins), ins.guard \in 0 .. 7, ins.guard # PT,
           ins.inv \in BOOLEAN, Bit(s.m, seed, ins.guard),
           \A e \in Nat \ {0} : Unlabelled(EmitOp(ins, e).code)
    PROVE  Obeyed(s, seed, ins, b, Guarded(ins, b).code)
<1> DEFINE cond == Condition(ins, b)
           then == cond + 1
           merge == cond + 2
           e == merge + 1
           X == Touched(ins)
           c0 == GuardCode(ins, b)
           c1 == Selection(cond, then, merge)
           c2 == EmitOp(ins, e).code
           c3 == <<Branch(merge), Label(merge)>>
           yes == Allowed(s.m, seed, ins)
<1>1. b \in Nat /\ b > 38 /\ InBlock(s) /\ Under(b) /\ Located(s)
    BY DEF Armed, Under
<1>2. cond \in Nat /\ b <= cond
    BY <1>1, SMTT(30) DEF Condition
<1>3. Guarded(ins, b).code = ((c0 \o c1) \o c2) \o c3
    BY DEF Guarded, Emitted, GuardCode, Condition
<1> HIDE DEF cond
<1>4. /\ then # 0 /\ merge # 0 /\ then # merge /\ e \in Nat /\ e \in Nat \ {0} /\ b <= e
    BY <1>1, <1>2
<1> HIDE DEF then, e, yes
<1>5. PICK t : Runs(s, seed, c0, t, b, {}) /\ t.m = s.m /\ (t.env[cond] = 1 <=> yes)
    BY GuardLoaded DEF GuardLoads, yes, cond
<1>6. InBlock(t) /\ Spares(b, s, t) /\ Leads(s, seed, c0, t) /\ Listing(c0)
    BY <1>5 DEF Runs
<1>7. Listing(c1) /\ Leads(t, seed, c1, IF t.env[cond] = 1 THEN t ELSE Jumped(t, merge))
    <2> HIDE DEF merge
    <2> QED
        BY <1>4, <1>6, SelectionLeads
<1>8. Unlabelled(c2)
    BY <1>4
<1>9. Armed(t, e)
    BY <1>1, <1>4, <1>6, LocatedStays, UnderMore DEF Armed
<1>10. PICK u : Runs(t, seed, c2, u, e, X) /\ Effect(ins, t.m, u.m, seed)
    BY <1>9, ArmRun DEF Does
<1>11. Listing(c2) /\ Leads(t, seed, c2, u) /\ InBlock(u) /\ Spares(e, t, u) /\ Keeps(t.m, u.m, X)
    BY <1>10 DEF Runs
<1>12. Listing(c0 \o c1) /\ Listing((c0 \o c1) \o c2) /\ Listing(c3)
    <2> HIDE DEF c0, c1, c2, merge
    <2> QED
        BY <1>4, <1>6, <1>7, <1>11, MergeLeads, ListingConcat
<1>13. Listing(((c0 \o c1) \o c2) \o c3)
    BY <1>12, ListingConcat
<1>14. CASE yes
    <2>1. Leads(s, seed, c0 \o c1, t)
        BY <1>5, <1>6, <1>7, <1>14, LeadsConcat
    <2>2. Leads(s, seed, (c0 \o c1) \o c2, u)
        BY <1>11, <1>12, <2>1, LeadsConcat
    <2>3. Leads(u, seed, c3, u)
        <3> HIDE DEF merge
        <3> QED
            BY <1>4, <1>11, MergeLeads
    <2>4. Leads(s, seed, ((c0 \o c1) \o c2) \o c3, u)
        BY <1>12, <2>2, <2>3, LeadsConcat
    <2>5. Spares(b, s, u)
        BY <1>1, <1>4, <1>6, <1>11 DEF Spares
    <2>6. Keeps(s.m, u.m, X) /\ Effect(ins, s.m, u.m, seed)
        BY <1>5, <1>10, <1>11
    <2>7. Runs(s, seed, Guarded(ins, b).code, u, b, X)
        BY <1>3, <1>11, <1>13, <2>4, <2>5, <2>6 DEF Runs
    <2> QED
        BY <1>14, <2>6, <2>7 DEF Obeyed, yes
<1>15. CASE ~yes
    <2> DEFINE j == Jumped(t, merge)
    <2>1. Leads(s, seed, c0 \o c1, j)
        BY <1>5, <1>6, <1>7, <1>15, LeadsConcat
    <2>2. Leads(j, seed, c2, j)
        <3>1. j.next = merge
            BY DEF Jumped
        <3> HIDE DEF j, c2, merge
        <3> QED
            BY <1>4, <1>8, <1>11, <3>1, SkipLeads DEF Unlabelled
    <2>3. Leads(s, seed, (c0 \o c1) \o c2, j)
        BY <1>11, <1>12, <2>1, <2>2, LeadsConcat
    <2>4. Leads(j, seed, c3, t)
        <3> HIDE DEF merge
        <3> QED
            BY <1>4, <1>6, MergeLeads
    <2>5. Leads(s, seed, ((c0 \o c1) \o c2) \o c3, t)
        BY <1>12, <2>3, <2>4, LeadsConcat
    <2>6. Keeps(s.m, t.m, X)
        BY <1>5, KeepsSame
    <2>7. Runs(s, seed, Guarded(ins, b).code, t, b, X)
        BY <1>3, <1>6, <1>13, <2>5, <2>6 DEF Runs
    <2> QED
        BY <1>5, <1>15, <2>7 DEF Obeyed, yes
<1> QED
    BY <1>14, <1>15

\* So does every instruction.
LEMMA LowerRun ==
    ASSUME NEW s, NEW seed, NEW b, Armed(s, b), NEW ins, Legal(ins), ins.guard \in 0 .. 7,
           ins.inv \in BOOLEAN, Bit(s.m, seed, ins.guard),
           \A e \in Nat \ {0} : Unlabelled(EmitOp(ins, e).code)
    PROVE  Obeyed(s, seed, ins, b, LowerInstr(ins, b).code)
<1>1. CASE ins.guard # PT
    <2>1. LowerInstr(ins, b) = Guarded(ins, b)
        BY <1>1 DEF LowerInstr
    <2> QED
        BY <1>1, <2>1, GuardedRun
<1>2. CASE ins.guard = PT
    <2>1. LowerInstr(ins, b) = EmitOp(ins, b) /\ Allowed(s.m, seed, ins)
        BY <1>2 DEF LowerInstr, Allowed
    <2>2. Does(s, seed, ins, b, EmitOp(ins, b).code)
        BY ArmRun
    <2> QED
        BY <2>1, <2>2 DEF Does, Obeyed
<1> QED
    BY <1>1, <1>2

-----------------------------------------------------------------------------
(***************************************************************************)
(* The SASS program, step by step.                                         *)
(***************************************************************************)

\* A multiple of a positive number is no smaller.
LEMMA MultipleNotLess ==
    ASSUME NEW q \in Nat \ {0}, NEW d \in Int, d >= 1
    PROVE  q * d >= q
OBVIOUS

\* Quotient and remainder.
LEMMA Division ==
    ASSUME NEW q \in Nat \ {0}, NEW a \in Nat
    PROVE  a \div q \in Int /\ a % q \in 0 .. (q - 1) /\ a = q * (a \div q) + (a % q)
OBVIOUS

\* There is only one remainder.
LEMMA OneRemainder ==
    ASSUME NEW q \in Nat \ {0}, NEW a \in Nat, NEW d \in Int, NEW r \in 0 .. (q - 1), a = q * d + r
    PROVE  a % q = r
<1>1. PICK e \in Int, s \in 0 .. (q - 1) : a = q * e + s /\ s = a % q
    BY Division
<1>2. PICK x \in Int, y \in Int : x = q * d /\ y = q * e
    OBVIOUS
<1>3. q * (d - e) = s - r /\ q * (e - d) = r - s
    <2>1. q * (d - e) = q * d - q * e /\ q * (e - d) = q * e - q * d
        OBVIOUS
    <2>2. a = x + r /\ a = y + s
        BY <1>1, <1>2
    <2>3. x - y = s - r /\ y - x = r - s
        BY <1>2, <2>2
    <2> QED
        BY <1>2, <2>1, <2>3
<1>4. ~(d - e >= 1)
    BY <1>1, <1>3, MultipleNotLess
<1>5. ~(e - d >= 1)
    BY <1>1, <1>3, MultipleNotLess
<1>6. d = e
    BY <1>4, <1>5
<1> QED
    BY <1>1, <1>6, SMTT(30)

\* A sum may be reduced before another number is added.
LEMMA RemainderOfSum ==
    ASSUME NEW q \in Nat \ {0}, NEW a \in Nat, NEW c \in Nat
    PROVE  ((a % q) + c) % q = (a + c) % q
<1>1. PICK d \in Int, r \in 0 .. (q - 1) : a = q * d + r /\ r = a % q
    BY Division
<1>2. r + c \in Nat /\ a + c \in Nat
    OBVIOUS
<1>3. PICK e \in Int, s \in 0 .. (q - 1) : r + c = q * e + s /\ s = (r + c) % q
    BY <1>2, Division
<1>4. a + c = q * (d + e) + s
    <2>1. q * (d + e) = q * d + q * e
        OBVIOUS
    <2> QED
        BY <1>1, <1>3, <2>1
<1>5. (a + c) % q = s
    <2>1. PICK n \in Nat, f \in Int : n = a + c /\ f = d + e
        OBVIOUS
    <2>2. n = q * f + s
        BY <1>4, <2>1
    <2>3. n % q = s
        BY <2>2, OneRemainder
    <2> QED
        BY <2>1, <2>3
<1> QED
    BY <1>1, <1>3, <1>5

\* A number below the modulus is its own remainder.
LEMMA SmallRemainder ==
    ASSUME NEW q \in Nat \ {0}, NEW r \in 0 .. (q - 1)
    PROVE  r % q = r
<1>1. r = q * 0 + r /\ r \in Nat
    OBVIOUS
<1> QED
    BY <1>1, OneRemainder

\* A remainder is a value of the type.
LEMMA UintRemainder ==
    /\ \A a \in Nat : a % UintSize \in Uint
    /\ \A a \in Uint : a \in Nat /\ a % UintSize = a
    /\ 0 \in Uint
<1>1. UintSize \in Nat \ {0}
    BY UintSizeAssumption
<1>2. ASSUME NEW a \in Nat
      PROVE  a % UintSize \in Uint
    BY <1>1, Division DEF Uint
<1>3. ASSUME NEW a \in Uint
      PROVE  a \in Nat /\ a % UintSize = a
    <2>1. a \in 0 .. (UintSize - 1) /\ a \in Nat
        BY <1>1, <1>3 DEF Uint
    <2> QED
        BY <1>1, <2>1, SmallRemainder
<1>4. 0 \in Uint
    BY <1>1 DEF Uint
<1> QED
    BY <1>2, <1>3, <1>4

\* The sum or the product of two numbers, and a third, in one reduction or in two.
LEMMA CombinedOnce ==
    ASSUME NEW x \in Uint, NEW y \in Uint, NEW z \in Uint
    PROVE  /\ Combined("IAdd", x, y, z) = (x + y + z) % UintSize
           /\ Combined("IMul", x, y, z) = (x * y + z) % UintSize
           /\ x + y + z \in Nat /\ x * y + z \in Nat
<1>1. UintSize \in Nat \ {0} /\ x \in Nat /\ y \in Nat /\ z \in Nat
    BY UintSizeAssumption, UintRemainder
<1>2. x + y \in Nat /\ x * y \in Nat
    BY <1>1
<1>3. Combined("IAdd", x, y, z) = (((x + y) % UintSize) + z) % UintSize
    BY DEF Combined, Computed, Wrap
<1>4. Combined("IMul", x, y, z) = (((x * y) % UintSize) + z) % UintSize
    BY DEF Combined, Computed, Wrap
<1>5. (((x + y) % UintSize) + z) % UintSize = (x + y + z) % UintSize
    BY <1>1, <1>2, RemainderOfSum
<1>6. (((x * y) % UintSize) + z) % UintSize = (x * y + z) % UintSize
    BY <1>1, <1>2, RemainderOfSum
<1> QED
    BY <1>1, <1>2, <1>3, <1>4, <1>5, <1>6

\* The state of the program.
Machine(x) ==
    /\ x = [r |-> x.r, p |-> x.p, known |-> x.known, skip |-> x.skip]
    /\ x.r \in [Registers -> Uint] /\ x.p \in [0 .. 7 -> BOOLEAN] /\ x.known \in SUBSET Registers

\* The memory m holds the registers and the predicates of x.
Agrees(x, m, seed) ==
    /\ \A k \in Registers : UintOf(m, seed, k) = x.r[k]
    /\ \A k \in 0 .. 7 : Read(m, seed, G.type_bool, Slot(P(k))) = 1 <=> x.p[k]

\* The views of register k are its number, the float view rounded.
ViewsMatch(m, seed, k) ==
    FloatOf(m, seed, k) = Rounded(UintOf(m, seed, k)) /\ UlongOf(m, seed, k) = UintOf(m, seed, k)

\* So are the views of every register that holds a value.
Coherent(x, m, seed) == \A k \in x.known : ViewsMatch(m, seed, k)

\* The special registers the ABI gives.
SpecialNames == {"TidX", "TidY", "TidZ", "CtaIdX", "CtaIdY", "CtaIdZ"}

\* The operations whose meaning is kept.
IntegerOps == {"Mov", "IAdd3", "IMad", "ISetP", "S2R", "Ldc", "Nop", "Barrier", "Exit", "Bra"}

\* An instruction of a program whose meaning is kept.
Usual(ins) ==
    /\ Legal(ins) /\ ins.op \in IntegerOps /\ ins.guard \in 0 .. 7 /\ ins.inv \in BOOLEAN
    /\ ~(ins.guard = PT /\ ins.inv) /\ ins.address \in Nat
    /\ ins.imm # None => Numeral(ins.imm[1]) \in Uint
    /\ ins.op = "S2R" => ins.sr \in SpecialNames

\* The result of an instruction that writes a register.
Written32(x, l, ins) == IrResult(x, l, ins) % UintSize

\* The registers that hold a value after it.
KnownAfter(x, ins) ==
    IF ins.op = "Mov" /\ ins.imm = None /\ ins.srcs[1] \notin x.known
    THEN x.known \ {ins.dst} ELSE x.known \cup {ins.dst}

\* One step, by its kinds.
SteppedTo(x, l, ins, y) ==
    /\ ~IrGuard(x, ins) => y = x
    /\ IrGuard(x, ins) /\ ins.op \in {"Exit", "Bra"} =>
          y.r = x.r /\ y.p = x.p /\ y.known = x.known
    /\ IrGuard(x, ins) /\ ins.op = "ISetP" =>
          /\ y.r = x.r /\ y.known = x.known /\ y.skip = x.skip
          /\ y.p = [x.p EXCEPT ![ins.dst] = x.r[ins.srcs[1]] # x.r[ins.srcs[2]]]
    /\ IrGuard(x, ins) /\ ins.op \in IrWrites =>
          /\ y.p = x.p /\ y.skip = x.skip /\ y.known = KnownAfter(x, ins)
          /\ y.r = [x.r EXCEPT ![ins.dst] = Written32(x, l, ins)]
    /\ IrGuard(x, ins) /\ ins.op \in {"Nop", "Barrier"} => y = x

\* A step is of one of these kinds.
LEMMA StepKinds ==
    ASSUME NEW x, Machine(x), x.skip = 0, NEW l, NEW ins, Usual(ins)
    PROVE  /\ SteppedTo(x, l, ins, IrStep(x, l, ins))
           /\ LET y == IrStep(x, l, ins) IN y = [r |-> y.r, p |-> y.p, known |-> y.known, skip |-> y.skip]
<1> DEFINE y == IrStep(x, l, ins)
<1>1. ~(ins.address < x.skip)
    BY DEF Usual
<1>2. x = [r |-> x.r, p |-> x.p, known |-> x.known, skip |-> x.skip]
    BY DEF Machine
<1> DEFINE e == [x EXCEPT !.skip = PastEnd]
           b == [x EXCEPT !.skip = ins.target[1]]
           c == [x EXCEPT !.p[ins.dst] = x.r[ins.srcs[1]] # x.r[ins.srcs[2]]]
           w == [x EXCEPT !.r[ins.dst] = IrResult(x, l, ins) % UintSize,
                          !.known = IF ins.op = "Mov" /\ ins.imm = None /\ ins.srcs[1] \notin @
                                    THEN @ \ {ins.dst} ELSE @ \cup {ins.dst}]
<1>3. y = IF ~IrGuard(x, ins) THEN x
          ELSE IF ins.op = "Exit" THEN e
          ELSE IF ins.op = "Bra" THEN b
          ELSE IF ins.op = "ISetP" THEN c
          ELSE IF ins.op \in IrWrites THEN w
          ELSE x
    BY <1>1 DEF IrStep
<1>4. e = [r |-> x.r, p |-> x.p, known |-> x.known, skip |-> PastEnd]
    BY <1>2
<1>5. b = [r |-> x.r, p |-> x.p, known |-> x.known, skip |-> ins.target[1]]
    BY <1>2
<1>6. c = [r |-> x.r, p |-> [x.p EXCEPT ![ins.dst] = x.r[ins.srcs[1]] # x.r[ins.srcs[2]]],
           known |-> x.known, skip |-> x.skip]
    BY <1>2
<1>7. w = [r |-> [x.r EXCEPT ![ins.dst] = Written32(x, l, ins)], p |-> x.p,
           known |-> KnownAfter(x, ins), skip |-> x.skip]
    <2>1. PICK v, K, t : v = Written32(x, l, ins) /\ K = KnownAfter(x, ins) /\ t = [x.r EXCEPT ![ins.dst] = v]
        OBVIOUS
    <2>2. w = [x EXCEPT !.r[ins.dst] = v, !.known = K]
        BY <1>2, <2>1 DEF Written32, KnownAfter
    <2> HIDE DEF w
    <2>3. [x EXCEPT !.r[ins.dst] = v, !.known = K] = [r |-> t, p |-> x.p, known |-> K, skip |-> x.skip]
        <3>1. PICK z : z = [x EXCEPT !.r[ins.dst] = v]
            OBVIOUS
        <3>2. z = [r |-> t, p |-> x.p, known |-> x.known, skip |-> x.skip]
            BY <1>2, <2>1, <3>1
        <3>3. [x EXCEPT !.r[ins.dst] = v, !.known = K] = [z EXCEPT !.known = K]
            BY <3>1
        <3>4. [z EXCEPT !.known = K] = [r |-> t, p |-> x.p, known |-> K, skip |-> x.skip]
            BY <3>2
        <3> QED
            BY <3>3, <3>4
    <2> QED
        BY <2>1, <2>2, <2>3
<1> HIDE DEF e, b, c, w, y
<1>8. SteppedTo(x, l, ins, y)
    BY <1>3, <1>4, <1>5, <1>6, <1>7 DEF SteppedTo, IrWrites
<1>9. y = [r |-> y.r, p |-> y.p, known |-> y.known, skip |-> y.skip]
    BY <1>2, <1>3, <1>4, <1>5, <1>6, <1>7
<1> QED
    BY <1>8, <1>9 DEF y

\* The guard holds in the program when the shader's lets the instruction run.
LEMMA GuardsAgree ==
    ASSUME NEW x, Machine(x), NEW m, NEW seed, Agrees(x, m, seed), NEW ins, Usual(ins)
    PROVE  Allowed(m, seed, ins) <=> IrGuard(x, ins)
<1>1. ins.guard \in 0 .. 7 /\ ins.inv \in BOOLEAN /\ ~(ins.guard = PT /\ ins.inv)
    BY DEF Usual
<1>2. CASE ins.guard = PT
    BY <1>1, <1>2 DEF Allowed, IrGuard
<1>3. CASE ins.guard # PT
    <2>1. Read(m, seed, G.type_bool, Slot(P(ins.guard))) = 1 <=> x.p[ins.guard]
        BY <1>1 DEF Agrees
    <2>2. x.p[ins.guard] \in BOOLEAN
        BY <1>1 DEF Machine
    <2>3. IrGuard(x, ins) <=> x.p[ins.guard] # ins.inv
        BY <1>3 DEF IrGuard
    <2>4. PICK q \in BOOLEAN : q = x.p[ins.guard]
        BY <2>2
    <2>5. Allowed(m, seed, ins) <=> (ins.inv /\ ~q) \/ (~ins.inv /\ q)
        BY <1>3, <2>1, <2>4 DEF Allowed
    <2>6. IrGuard(x, ins) <=> (ins.inv /\ ~q) \/ (~ins.inv /\ q)
        BY <1>1, <2>3, <2>4
    <2> QED
        BY <2>5, <2>6
<1> QED
    BY <1>2, <1>3

\* From m to n the registers of X and the predicates of Y are kept.
RegistersSame(m, n, seed, X) ==
    \A k \in X :
        /\ UintOf(n, seed, k) = UintOf(m, seed, k) /\ FloatOf(n, seed, k) = FloatOf(m, seed, k)
        /\ UlongOf(n, seed, k) = UlongOf(m, seed, k)
PredicatesSame(m, n, seed, Y) ==
    \A p \in Y : Read(n, seed, G.type_bool, Slot(P(p))) = Read(m, seed, G.type_bool, Slot(P(p)))

\* The variables of other registers are kept.
LEMMA OthersKept ==
    ASSUME NEW b, Under(b), NEW m, NEW n, NEW seed, NEW d \in Registers, Keeps(m, n, Views(d))
    PROVE  RegistersSame(m, n, seed, Registers \ {d}) /\ PredicatesSame(m, n, seed, 0 .. 7)
<1>1. ASSUME NEW k \in Registers, k # d
      PROVE  U(k) \notin Views(d) /\ U(k) + 1 \notin Views(d) /\ U(k) + 2 \notin Views(d)
    BY <1>1, ViewsDiffer, ViewsBelow DEF Views
<1>2. ASSUME NEW p \in 0 .. 7
      PROVE  P(p) \notin Views(d)
    BY PredicatesBelow DEF Views
<1> QED
    BY <1>1, <1>2, ReadStays DEF UintOf, FloatOf, UlongOf, RegistersSame, PredicatesSame

\* The variables of all registers are kept.
LEMMA RegistersKept ==
    ASSUME NEW b, Under(b), NEW m, NEW n, NEW seed, NEW d \in 0 .. 7, Keeps(m, n, {P(d)})
    PROVE  RegistersSame(m, n, seed, Registers) /\ PredicatesSame(m, n, seed, (0 .. 7) \ {d})
<1>1. ASSUME NEW k \in Registers
      PROVE  U(k) \notin {P(d)} /\ U(k) + 1 \notin {P(d)} /\ U(k) + 2 \notin {P(d)}
    BY PredicatesBelow
<1>2. ASSUME NEW p \in 0 .. 7, p # d
      PROVE  P(p) \notin {P(d)}
    BY <1>2, PredicatesBelow
<1> QED
    BY <1>1, <1>2, ReadStays DEF UintOf, FloatOf, UlongOf, RegistersSame, PredicatesSame

\* Nothing is changed.
LEMMA AllKept ==
    ASSUME NEW m, NEW n, NEW seed, Keeps(m, n, {})
    PROVE  RegistersSame(m, n, seed, Registers) /\ PredicatesSame(m, n, seed, 0 .. 7)
BY ReadStays DEF UintOf, FloatOf, UlongOf, RegistersSame, PredicatesSame

\* With the value v in register d, y agrees with n as x did with m.
AgreesAfter(b, x, m, n, seed, d, v, y) == Agrees(y, n, seed) /\ y.r \in [Registers -> Uint]

\* A register is written on both sides.
LEMMA RegisterWritten ==
    ASSUME NEW b, Under(b), NEW x, Machine(x), NEW m, NEW n, NEW seed, Agrees(x, m, seed),
           NEW d \in Registers, Keeps(m, n, Views(d)), NEW v \in Uint, Holds(n, U(d), v),
           NEW y, y.r = [x.r EXCEPT ![d] = v], y.p = x.p
    PROVE  AgreesAfter(b, x, m, n, seed, d, v, y)
<1>1. x.r \in [Registers -> Uint]
    BY DEF Machine
<1>2. UintOf(n, seed, d) = v
    BY ReadHeld DEF UintOf
<1>6. /\ \A k \in Registers : k # d => UintOf(n, seed, k) = UintOf(m, seed, k)
      /\ \A p \in 0 .. 7 : Read(n, seed, G.type_bool, Slot(P(p))) = Read(m, seed, G.type_bool, Slot(P(p)))
    <2>1. RegistersSame(m, n, seed, Registers \ {d}) /\ PredicatesSame(m, n, seed, 0 .. 7)
        BY OthersKept
    <2> QED
        BY <2>1 DEF RegistersSame, PredicatesSame
<1>3. \A k \in Registers : UintOf(n, seed, k) = y.r[k]
    <2>1. ASSUME NEW k \in Registers, k # d
          PROVE  UintOf(n, seed, k) = y.r[k]
        <3>1. UintOf(n, seed, k) = UintOf(m, seed, k) /\ UintOf(m, seed, k) = x.r[k] /\ y.r[k] = x.r[k]
            BY <1>1, <1>6, <2>1 DEF Agrees
        <3> QED
            BY <3>1
    <2>2. y.r[d] = v
        BY <1>1
    <2> QED
        BY <1>2, <2>1, <2>2
<1>4. \A p \in 0 .. 7 : Read(n, seed, G.type_bool, Slot(P(p))) = 1 <=> y.p[p]
    BY <1>6 DEF Agrees
<1>5. y.r \in [Registers -> Uint]
    BY <1>1
<1> QED
    BY <1>3, <1>4, <1>5 DEF Agrees, AgreesAfter

\* The invocations by their parts.
LEMMA LaunchParts ==
    ASSUME NEW l \in Launches
    PROVE  /\ l.gid \in Uint /\ l.n \in Uint
           /\ \A k \in 0 .. 2 : l.tid[k] \in Uint /\ l.cta[k] \in Uint
BY LaunchesAssumption

\* What S2R gives.
LEMMA SpecialUint ==
    ASSUME NEW l \in Launches, NEW sr \in SpecialNames
    PROVE  Special(l, sr) \in Uint
BY LaunchParts DEF Special, SpecialNames

\* What the shader stores is what the instruction writes.
LEMMA ResultStored ==
    ASSUME NEW l \in Launches, NEW x, Machine(x), NEW m, NEW n, NEW seed, Agrees(x, m, seed), NEW ins, Usual(ins),
           ins.op \in IrWrites, Effect(ins, m, n, seed),
           ins.op = "S2R" => SpecialOf(m, seed, ins.sr) = Special(l, ins.sr),
           ins.op = "Ldc" => x.r[3] = l.n
    PROVE  /\ Written32(x, l, ins) \in Uint /\ Holds(n, U(ins.dst), Written32(x, l, ins))
           /\ ins.op # "Ldc" => \/ Stored(n, U(ins.dst), Written32(x, l, ins))
                                \/ ins.op = "Mov" /\ ins.imm = None /\ Copied(m, n, seed, ins.srcs[1], ins.dst)
<1>1. x.r \in [Registers -> Uint]
    BY DEF Machine
<1>2. \A k \in Registers : UintOf(m, seed, k) = x.r[k] /\ x.r[k] \in Uint /\ x.r[k] % UintSize = x.r[k]
    BY <1>1, UintRemainder DEF Agrees
<1>3. ins.op \in {"Mov", "IAdd3", "IMad", "S2R", "Ldc"} /\ Legal(ins)
    BY DEF Usual, IntegerOps, IrWrites
<1> DEFINE v == Written32(x, l, ins)
           d == ins.dst
<1>4. CASE ins.op = "Mov" /\ ins.imm # None
    <2>1. Stored(n, U(d), Numeral(ins.imm[1])) /\ Numeral(ins.imm[1]) \in Uint
        BY <1>4 DEF Effect, Usual
    <2>2. IrResult(x, l, ins) = Numeral(ins.imm[1])
        BY <1>4 DEF IrResult
    <2>3. v = Numeral(ins.imm[1])
        BY <2>1, <2>2, UintRemainder DEF Written32
    <2> QED
        BY <2>1, <2>3 DEF Stored
<1>5. CASE ins.op = "Mov" /\ ins.imm = None
    <2>1. Copied(m, n, seed, ins.srcs[1], d)
        BY <1>5 DEF Effect
    <2>2. ins.srcs[1] \in Registers
        BY <1>5 DEF Usual, Legal
    <2>3. IrResult(x, l, ins) = x.r[ins.srcs[1]]
        BY <1>5 DEF IrResult
    <2>4. v = UintOf(m, seed, ins.srcs[1]) /\ v \in Uint
        BY <1>2, <2>2, <2>3 DEF Written32
    <2> QED
        BY <1>5, <2>1, <2>4 DEF Copied
<1>6. CASE ins.op \in {"IAdd3", "IMad"}
    <2>1. PICK h, j, k \in Registers : ins.srcs = <<h, j, k>>
        BY <1>6 DEF Usual, Legal
    <2>2. ins.srcs[1] = h /\ ins.srcs[2] = j /\ ins.srcs[3] = k
        BY <2>1
    <2>3. PICK p, q, r \in Uint : p = x.r[h] /\ q = x.r[j] /\ r = x.r[k]
        BY <1>2
    <2>4. UintOf(m, seed, h) = p /\ UintOf(m, seed, j) = q /\ UintOf(m, seed, k) = r
        BY <1>2, <2>3
    <2>5. \A op : CombinedOf(m, seed, op, ins.srcs) = Combined(op, p, q, r)
        BY <2>2, <2>4 DEF CombinedOf
    <2>6. CASE ins.op = "IAdd3"
        <3>1. IrResult(x, l, ins) = p + q + r
            BY <2>2, <2>3, <2>6 DEF IrResult
        <3>2. v = Combined("IAdd", p, q, r) /\ v \in Uint
            BY <3>1, CombinedOnce, UintRemainder DEF Written32
        <3>3. Stored(n, U(d), v)
            BY <2>5, <2>6, <3>2 DEF Effect
        <3> QED
            BY <3>2, <3>3 DEF Stored
    <2>7. CASE ins.op = "IMad"
        <3>1. IrResult(x, l, ins) = p * q + r
            BY <2>2, <2>3, <2>7 DEF IrResult
        <3>2. v = Combined("IMul", p, q, r) /\ v \in Uint
            BY <3>1, CombinedOnce, UintRemainder DEF Written32
        <3>3. Stored(n, U(d), v)
            BY <2>5, <2>7, <3>2 DEF Effect
        <3> QED
            BY <3>2, <3>3 DEF Stored
    <2> QED
        BY <1>6, <2>6, <2>7
<1>7. CASE ins.op = "S2R"
    <2>1. IrResult(x, l, ins) = Special(l, ins.sr)
        BY <1>7 DEF IrResult
    <2>2. v = Special(l, ins.sr) /\ v \in Uint
        BY <1>7, <2>1, SpecialUint, UintRemainder DEF Written32, Usual
    <2>3. Stored(n, U(d), v)
        BY <1>7, <2>2 DEF Effect
    <2> QED
        BY <2>2, <2>3 DEF Stored
<1>8. CASE ins.op = "Ldc"
    <2>1. IrResult(x, l, ins) = IF ins.offset = 24 THEN l.n ELSE 0
        BY <1>8 DEF IrResult
    <2>2. v = (IF ins.offset = 24 THEN l.n ELSE 0) /\ v \in Uint
        BY <2>1, LaunchParts, UintRemainder DEF Written32
    <2>3. Holds(n, U(d), ParameterOf(m, seed, ins.offset))
        BY <1>8 DEF Effect
    <2>4. ParameterOf(m, seed, ins.offset) = v
        BY <1>2, <1>8, <2>2, Threes DEF ParameterOf
    <2> QED
        BY <1>8, <2>2, <2>3, <2>4
<1> QED
    BY <1>3, <1>4, <1>5, <1>6, <1>7, <1>8

\* What one step does to both sides.
Simulated(x, m, y, n, seed, ins) ==
    /\ Machine(y) /\ Agrees(y, n, seed)
    /\ ins.op \notin {"Exit", "Bra"} => y.skip = 0
    /\ ~(ins.op \in IrWrites /\ ins.dst = 3) => y.r[3] = x.r[3]
    /\ ins.op # "Ldc" /\ Coherent(x, m, seed) => Coherent(y, n, seed)

\* When nothing is changed both sides still agree.
LEMMA IdleSimulated ==
    ASSUME NEW x, Machine(x), x.skip = 0, NEW m, NEW n, NEW seed, Agrees(x, m, seed), Keeps(m, n, {}),
           NEW ins, NEW y, y = [r |-> y.r, p |-> y.p, known |-> y.known, skip |-> y.skip],
           y.r = x.r, y.p = x.p, y.known = x.known, ins.op \notin {"Exit", "Bra"} => y.skip = 0
    PROVE  Simulated(x, m, y, n, seed, ins)
<1>1. RegistersSame(m, n, seed, Registers) /\ PredicatesSame(m, n, seed, 0 .. 7)
    BY AllKept
<1>2. Machine(y)
    BY DEF Machine
<1>3. Agrees(y, n, seed)
    BY <1>1 DEF Agrees, RegistersSame, PredicatesSame
<1>4. Coherent(x, m, seed) => Coherent(y, n, seed)
    BY <1>1 DEF Coherent, ViewsMatch, RegistersSame, Machine
<1> QED
    BY <1>2, <1>3, <1>4 DEF Simulated

\* A comparison on both sides.
LEMMA CompareSimulated ==
    ASSUME NEW b, Under(b), NEW x, Machine(x), x.skip = 0, NEW m, NEW n, NEW seed, Agrees(x, m, seed),
           NEW ins, Legal(ins), ins.op = "ISetP", Keeps(m, n, {P(ins.dst)}), Effect(ins, m, n, seed),
           NEW y, y = [r |-> y.r, p |-> y.p, known |-> y.known, skip |-> y.skip],
           y.r = x.r, y.known = x.known, y.skip = x.skip,
           y.p = [x.p EXCEPT ![ins.dst] = x.r[ins.srcs[1]] # x.r[ins.srcs[2]]]
    PROVE  Simulated(x, m, y, n, seed, ins)
<1>1. PICK d \in 0 .. 7 : d = ins.dst
    BY DEF Legal
<1>2. PICK h, j \in Registers : ins.srcs = <<h, j>>
    BY DEF Legal
<1>3. ins.srcs[1] = h /\ ins.srcs[2] = j
    BY <1>2
<1>4. PICK q \in BOOLEAN : q <=> x.r[h] # x.r[j]
    OBVIOUS
<1>5. RegistersSame(m, n, seed, Registers) /\ PredicatesSame(m, n, seed, (0 .. 7) \ {d})
    BY <1>1, RegistersKept
<1>6. UintOf(m, seed, h) = x.r[h] /\ UintOf(m, seed, j) = x.r[j]
    BY DEF Agrees
<1>7. Holds(n, P(d), Truth(q))
    <2>1. Holds(n, P(d), Truth(UintOf(m, seed, h) # UintOf(m, seed, j)))
        BY <1>1, <1>3 DEF Effect
    <2>2. Truth(UintOf(m, seed, h) # UintOf(m, seed, j)) = Truth(q)
        BY <1>4, <1>6 DEF Truth
    <2> QED
        BY <2>1, <2>2
<1>8. Read(n, seed, G.type_bool, Slot(P(d))) = 1 <=> q
    <2>1. Read(n, seed, G.type_bool, Slot(P(d))) = Truth(q)
        BY <1>7, ReadHeld
    <2> QED
        BY <2>1 DEF Truth
<1>9. x.p \in [0 .. 7 -> BOOLEAN]
    BY DEF Machine
<1>10. y.p = [x.p EXCEPT ![d] = q]
    <2>1. (x.r[ins.srcs[1]] # x.r[ins.srcs[2]]) = q
        BY <1>3, <1>4
    <2> QED
        BY <1>1, <2>1
<1>11. y.p \in [0 .. 7 -> BOOLEAN]
    BY <1>9, <1>10, ZenonT(60)
<1>12. Machine(y)
    BY <1>11 DEF Machine
<1>13. \A p \in 0 .. 7 : Read(n, seed, G.type_bool, Slot(P(p))) = 1 <=> y.p[p]
    <2>1. ASSUME NEW p \in 0 .. 7, p # d
          PROVE  Read(n, seed, G.type_bool, Slot(P(p))) = 1 <=> y.p[p]
        <3>1. y.p[p] = x.p[p]
            BY <1>9, <1>10, <2>1
        <3>2. Read(n, seed, G.type_bool, Slot(P(p))) = Read(m, seed, G.type_bool, Slot(P(p)))
            BY <1>5, <2>1 DEF PredicatesSame
        <3> QED
            BY <3>1, <3>2 DEF Agrees
    <2>2. y.p[d] = q
        BY <1>9, <1>10
    <2> QED
        BY <1>8, <2>1, <2>2
<1>14. Agrees(y, n, seed)
    BY <1>5, <1>13 DEF Agrees, RegistersSame
<1>15. Coherent(x, m, seed) => Coherent(y, n, seed)
    BY <1>5 DEF Coherent, ViewsMatch, RegistersSame, Machine
<1> QED
    BY <1>12, <1>14, <1>15 DEF Simulated, IrWrites

\* A register is written on both sides.
LEMMA WriteSimulated ==
    ASSUME NEW b, Under(b), NEW l \in Launches, NEW x, Machine(x), x.skip = 0, NEW m, NEW n, NEW seed,
           Agrees(x, m, seed), NEW ins, Usual(ins), ins.op \in IrWrites,
           Keeps(m, n, Views(ins.dst)), Effect(ins, m, n, seed),
           ins.op = "S2R" => SpecialOf(m, seed, ins.sr) = Special(l, ins.sr),
           ins.op = "Ldc" => x.r[3] = l.n,
           NEW y, y = [r |-> y.r, p |-> y.p, known |-> y.known, skip |-> y.skip],
           y.p = x.p, y.skip = x.skip, y.known = KnownAfter(x, ins),
           y.r = [x.r EXCEPT ![ins.dst] = Written32(x, l, ins)]
    PROVE  Simulated(x, m, y, n, seed, ins)
<1>1. PICK d \in Registers : d = ins.dst
    BY DEF Usual, Legal, IrWrites
<1>2. PICK v \in Uint : v = Written32(x, l, ins)
    BY ResultStored
<1>3. Holds(n, U(d), v) /\ Keeps(m, n, Views(d)) /\ y.r = [x.r EXCEPT ![d] = v]
    BY <1>1, <1>2, ResultStored
<1>4. Agrees(y, n, seed) /\ y.r \in [Registers -> Uint]
    <2>1. AgreesAfter(b, x, m, n, seed, d, v, y)
        BY <1>3, RegisterWritten
    <2> QED
        BY <2>1 DEF AgreesAfter
<1>5. y.known \in SUBSET Registers
    BY <1>1 DEF KnownAfter, Machine
<1>6. Machine(y)
    BY <1>4, <1>5 DEF Machine
<1>7. 3 # d => y.r[3] = x.r[3]
    BY <1>3 DEF Machine
<1>8. ASSUME ins.op # "Ldc", Coherent(x, m, seed)
      PROVE  Coherent(y, n, seed)
    <2>1. RegistersSame(m, n, seed, Registers \ {d})
        BY <1>3, OthersKept
    <2>2. ASSUME NEW k \in y.known, k # d
          PROVE  ViewsMatch(n, seed, k)
        <3>1. k \in x.known /\ k \in Registers
            BY <1>1, <1>5, <2>2 DEF KnownAfter
        <3> QED
            BY <1>8, <2>1, <2>2, <3>1 DEF RegistersSame, Coherent, ViewsMatch
    <2>3. ASSUME d \in y.known
          PROVE  ViewsMatch(n, seed, d)
        <3>1. \/ Stored(n, U(d), v)
              \/ ins.op = "Mov" /\ ins.imm = None /\ Copied(m, n, seed, ins.srcs[1], d)
            BY <1>1, <1>2, <1>8, ResultStored
        <3>2. CASE Stored(n, U(d), v)
            BY <3>2, ReadHeld DEF Stored, FloatOf, UintOf, UlongOf, ViewsMatch
        <3>3. CASE ins.op = "Mov" /\ ins.imm = None /\ Copied(m, n, seed, ins.srcs[1], d)
            <4>1. PICK h : h = ins.srcs[1]
                OBVIOUS
            <4>2. h \in x.known
                BY <1>1, <2>3, <3>3, <4>1 DEF KnownAfter
            <4>3. FloatOf(m, seed, h) = Rounded(UintOf(m, seed, h)) /\ UlongOf(m, seed, h) = UintOf(m, seed, h)
                BY <1>8, <4>2 DEF Coherent, ViewsMatch
            <4>4. PICK w : w = UintOf(m, seed, h)
                OBVIOUS
            <4>5. Holds(n, U(d), w) /\ Holds(n, U(d) + 1, Rounded(w)) /\ Holds(n, U(d) + 2, w)
                BY <3>3, <4>1, <4>3, <4>4 DEF Copied
            <4> QED
                BY <4>5, ReadHeld DEF FloatOf, UintOf, UlongOf, ViewsMatch
        <3> QED
            BY <3>1, <3>2, <3>3
    <2> QED
        BY <2>2, <2>3 DEF Coherent
<1>9. ins.op \notin {"Exit", "Bra"}
    BY DEF IrWrites
<1> QED
    BY <1>1, <1>4, <1>6, <1>7, <1>8, <1>9 DEF Simulated

\* One instruction does the same on both sides.
LEMMA StepSimulated ==
    ASSUME NEW b, Under(b), NEW l \in Launches, NEW x, Machine(x), x.skip = 0, NEW m, NEW n, NEW seed,
           Agrees(x, m, seed), NEW ins, Usual(ins), Keeps(m, n, Touched(ins)),
           IF Allowed(m, seed, ins) THEN Effect(ins, m, n, seed) ELSE n = m,
           ins.op = "S2R" => SpecialOf(m, seed, ins.sr) = Special(l, ins.sr),
           ins.op = "Ldc" => x.r[3] = l.n
    PROVE  Simulated(x, m, IrStep(x, l, ins), n, seed, ins)
<1>1. PICK y : y = IrStep(x, l, ins)
    OBVIOUS
<1>2. SteppedTo(x, l, ins, y) /\ y = [r |-> y.r, p |-> y.p, known |-> y.known, skip |-> y.skip]
    <2>1. /\ SteppedTo(x, l, ins, IrStep(x, l, ins))
          /\ LET z == IrStep(x, l, ins) IN z = [r |-> z.r, p |-> z.p, known |-> z.known, skip |-> z.skip]
        BY StepKinds
    <2> QED
        BY <1>1, <2>1
<1>3. Allowed(m, seed, ins) <=> IrGuard(x, ins)
    BY GuardsAgree
<1>4. CASE ~IrGuard(x, ins)
    <2>1. y = x /\ n = m
        BY <1>2, <1>3, <1>4 DEF SteppedTo
    <2> QED
        BY <1>1, <1>2, <2>1, IdleSimulated, KeepsSame
<1>5. CASE IrGuard(x, ins) /\ ins.op \in IrWrites
    <2>1. /\ y.p = x.p /\ y.skip = x.skip /\ y.known = KnownAfter(x, ins)
          /\ y.r = [x.r EXCEPT ![ins.dst] = Written32(x, l, ins)]
        BY <1>2, <1>5 DEF SteppedTo
    <2>2. Effect(ins, m, n, seed)
        BY <1>3, <1>5
    <2>3. Touched(ins) = Views(ins.dst)
        BY <1>5 DEF Touched, IrWrites
    <2>4. Keeps(m, n, Views(ins.dst))
        BY <2>3
    <2>5. Simulated(x, m, y, n, seed, ins)
        BY <1>2, <1>5, <2>1, <2>2, <2>4, WriteSimulated
    <2> QED
        BY <1>1, <2>5
<1>6. CASE IrGuard(x, ins) /\ ins.op = "ISetP"
    <2>1. /\ y.r = x.r /\ y.known = x.known /\ y.skip = x.skip
          /\ y.p = [x.p EXCEPT ![ins.dst] = x.r[ins.srcs[1]] # x.r[ins.srcs[2]]]
        BY <1>2, <1>6 DEF SteppedTo
    <2>2. Effect(ins, m, n, seed) /\ Legal(ins)
        BY <1>3, <1>6 DEF Usual
    <2>3. Keeps(m, n, {P(ins.dst)})
        BY <1>6 DEF Touched
    <2>4. Simulated(x, m, y, n, seed, ins)
        BY <1>2, <1>6, <2>1, <2>2, <2>3, CompareSimulated
    <2> QED
        BY <1>1, <2>4
<1>7. CASE IrGuard(x, ins) /\ ins.op \in {"Exit", "Bra", "Nop", "Barrier"}
    <2>1. y.r = x.r /\ y.p = x.p /\ y.known = x.known /\ (ins.op \notin {"Exit", "Bra"} => y = x)
        BY <1>2, <1>7 DEF SteppedTo
    <2>2. Keeps(m, n, {})
        BY <1>7 DEF Touched, IrWrites
    <2> QED
        BY <1>1, <1>2, <2>1, <2>2, IdleSimulated
<1>8. ins.op \in IrWrites \/ ins.op = "ISetP" \/ ins.op \in {"Exit", "Bra", "Nop", "Barrier"}
    BY DEF Usual, IntegerOps, IrWrites
<1> QED
    BY <1>4, <1>5, <1>6, <1>7, <1>8

(***************************************************************************)
(* The SASS program, step by step beside the IR.                           *)
(***************************************************************************)

\* The state s of the SASS program is the state x of the program as the lifter takes it, in
\* all that a SASS program sees.
Twin(s, x) ==
    /\ s = [r |-> s.r, p |-> s.p, known |-> s.known, skip |-> s.skip]
    /\ \A k \in Registers \ {RZ} : s.r[k] = x.r[k]
    /\ \A q \in 0 .. (PT - 1) : s.p[q] = x.p[q]
    /\ s.known = x.known \ {RZ}

\* What an instruction that keeps its meaning is lowered to.
Lowered(d, ins) ==
    /\ ins.guard = d.pred_reg /\ ins.inv = d.pred_inv
    /\ \/ d.opcode = "MOV" /\ ins.op = "Mov"
       \/ d.opcode = "IADD3" /\ ins.op = "IAdd3"
       \/ d.opcode = "IMAD" /\ ins.op = "IMad"
       \/ d.opcode = "ISETP" /\ ins.op = "ISetP"
       \/ d.opcode = "S2R" /\ ins.op = "S2R"
       \/ d.opcode = "LDC" /\ ins.op = "Ldc"
       \/ d.opcode = "EXIT" /\ ins.op = "Exit"
       \/ d.opcode = "BRA" /\ ins.op = "Bra"
       \/ d.opcode = "Nop" /\ ins.op = "Nop"
       \/ d.opcode \in {"BSSY", "BSYNC"} /\ ins.op = "Barrier"
    /\ ins.op = "ISetP" => ins.dst = PredicateTo(d) /\ ins.srcs = <<d.src0, d.src1>>
    /\ ins.op # "ISetP" => ins.dst = d.dst
    /\ ins.op \in {"IAdd3", "IMad"} => ins.srcs = <<d.src0, d.src1, d.src2>>
    /\ ins.op = "Mov" => /\ ins.srcs = <<d.src0>>
                         /\ Form(d) = 4 => ins.imm = Some(d.imm32)
                         /\ Form(d) # 4 => ins.imm = None
    /\ ins.sr = d.special_reg /\ ins.offset = d.offset

LEMMA KeptLowered ==
    ASSUME NEW d, Kept(d), NEW a
    PROVE  Lowered(d, LowerToIr(d, a))
<1>1. PICK ins : ins = LowerToIr(d, a)
    OBVIOUS
<1>2. d.opcode \in {"MOV", "IADD3", "IMAD", "ISETP", "S2R", "LDC", "Nop", "BSSY", "BSYNC", "EXIT", "BRA"}
    BY DEF Kept, Described, WritesRegister
<1>3. d.opcode = "S2R" => d.special_reg # "Unknown"
    BY DEF Kept, Described
<1>4. \/ d.opcode = "MOV" /\ LoweredOp(d) = "Mov"
      \/ d.opcode = "IADD3" /\ LoweredOp(d) = "IAdd3"
      \/ d.opcode = "IMAD" /\ LoweredOp(d) = "IMad"
      \/ d.opcode = "ISETP" /\ LoweredOp(d) = "ISetP"
      \/ d.opcode = "S2R" /\ LoweredOp(d) = "S2R"
      \/ d.opcode = "LDC" /\ LoweredOp(d) = "Ldc"
      \/ d.opcode = "EXIT" /\ LoweredOp(d) = "Exit"
      \/ d.opcode = "BRA" /\ LoweredOp(d) = "Bra"
      \/ d.opcode = "Nop" /\ LoweredOp(d) = "Nop"
      \/ d.opcode \in {"BSSY", "BSYNC"} /\ LoweredOp(d) = "Barrier"
    BY <1>2, <1>3 DEF LoweredOp, LoweredOps
<1>5. /\ ins.op = LoweredOp(d) /\ ins.guard = d.pred_reg /\ ins.inv = d.pred_inv
      /\ ins.dst = (IF ins.op = "ISetP" THEN PredDst(d.dst) ELSE d.dst)
      /\ ins.srcs = SourcesOf(ins.op, d) /\ ins.sr = d.special_reg /\ ins.offset = d.offset
      /\ ins.imm = IF ins.op = "Mov" /\ d.imm32 # {} THEN Some(d.imm32) ELSE None
    BY <1>1 DEF LowerToIr
<1>6. ins.op = "ISetP" => ins.dst = PredicateTo(d) /\ ins.srcs = <<d.src0, d.src1>>
    BY <1>4, <1>5 DEF Kept, SourcesOf
<1>7. ins.op \in {"IAdd3", "IMad"} => ins.srcs = <<d.src0, d.src1, d.src2>>
    BY <1>5 DEF SourcesOf
<1>8. ins.op = "Mov" => /\ ins.srcs = <<d.src0>>
                        /\ Form(d) = 4 => ins.imm = Some(d.imm32)
                        /\ Form(d) # 4 => ins.imm = None
    BY <1>4, <1>5 DEF Kept, SourcesOf
<1> QED
    BY <1>1, <1>4, <1>5, <1>6, <1>7, <1>8 DEF Lowered

\* A register that is not RZ reads the same on both sides.
LEMMA SameReg ==
    ASSUME NEW s, NEW x, Twin(s, x), NEW k \in Registers, k # RZ
    PROVE  Reg(s, k) = x.r[k]
BY DEF Twin, Reg

\* An instruction that keeps its meaning computes the same on both sides.
LEMMA SameResult ==
    ASSUME NEW l, NEW d, Kept(d), NEW ins, Lowered(d, ins), Legal(ins), NEW s, NEW x, Twin(s, x)
    PROVE  /\ d.opcode \in WritesRegister => IrResult(x, l, ins) = ResultOf(s, l, d)
           /\ d.opcode = "ISETP" => /\ ins.srcs[1] = d.src0 /\ Reg(s, d.src0) = x.r[d.src0]
                                    /\ ins.srcs[2] = d.src1 /\ Second(s, d) = x.r[d.src1]
                                    /\ d.src0 \in Registers /\ d.src1 \in Registers
<1>1. CASE d.opcode = "MOV" /\ Form(d) = 4
    <2>1. ins.op = "Mov" /\ ins.imm # None /\ ins.imm[1] = d.imm32
        BY <1>1 DEF Lowered, Some, None
    <2> QED
        BY <1>1, <2>1 DEF IrResult, ResultOf, Second
<1>2. CASE d.opcode = "MOV" /\ Form(d) # 4
    <2>1. ins.op = "Mov" /\ ins.imm = None /\ ins.srcs = <<d.src0>>
        BY <1>2 DEF Lowered
    <2>2. d.src1 = d.src0 /\ d.src0 # RZ
        BY <1>2 DEF Kept
    <2>3. ins.srcs[1] = d.src0 /\ d.src0 \in Registers
        BY <2>1 DEF Legal
    <2>4. Reg(s, d.src0) = x.r[d.src0]
        BY <2>2, <2>3, SameReg
    <2> QED
        BY <1>2, <2>1, <2>2, <2>3, <2>4 DEF IrResult, ResultOf, Second
<1>3. CASE d.opcode \in {"IADD3", "IMAD"}
    <2>1. ins.op = (IF d.opcode = "IADD3" THEN "IAdd3" ELSE "IMad") /\ ins.srcs = <<d.src0, d.src1, d.src2>>
        BY <1>3 DEF Lowered
    <2>2. Form(d) # 4 /\ d.src0 # RZ /\ d.src1 # RZ /\ d.src2 # RZ
        BY <1>3 DEF Kept
    <2>3. \E h, j, k \in Registers : ins.srcs = <<h, j, k>>
        BY <2>1 DEF Legal
    <2>4. d.src0 \in Registers /\ d.src1 \in Registers /\ d.src2 \in Registers
        BY <2>1, <2>3
    <2>5. ins.srcs[1] = d.src0 /\ ins.srcs[2] = d.src1 /\ ins.srcs[3] = d.src2
        BY <2>1
    <2>6. Reg(s, d.src0) = x.r[d.src0] /\ Second(s, d) = x.r[d.src1] /\ Reg(s, d.src2) = x.r[d.src2]
        BY <2>2, <2>4, SameReg DEF Second
    <2> QED
        BY <1>3, <2>1, <2>5, <2>6 DEF IrResult, ResultOf
<1>4. CASE d.opcode = "S2R"
    BY <1>4 DEF Lowered, IrResult, ResultOf
<1>5. CASE d.opcode = "LDC"
    BY <1>5 DEF Lowered, IrResult, ResultOf, Kept, Described
<1>6. CASE d.opcode = "ISETP"
    <2>1. ins.op = "ISetP" /\ ins.srcs = <<d.src0, d.src1>>
        BY <1>6 DEF Lowered
    <2>2. Form(d) # 4 /\ d.src0 # RZ /\ d.src1 # RZ
        BY <1>6 DEF Kept
    <2>3. \E h, j \in Registers : ins.srcs = <<h, j>>
        BY <2>1 DEF Legal
    <2>4. d.src0 \in Registers /\ d.src1 \in Registers
        BY <2>1, <2>3
    <2>5. Reg(s, d.src0) = x.r[d.src0] /\ Second(s, d) = x.r[d.src1]
        BY <2>2, <2>4, SameReg DEF Second
    <2> QED
        BY <1>6, <2>1, <2>4, <2>5 DEF WritesRegister
<1> QED
    BY <1>1, <1>2, <1>3, <1>4, <1>5, <1>6 DEF WritesRegister, Kept

\* What both sides do with an instruction that keeps its meaning.
StepsAlike(s, x, l, d, ins, address) ==
    /\ Twin(SassStep(s, l, d, address), IrStep(x, l, ins))
    /\ ins.op \notin {"Exit", "Bra"} => SassStep(s, l, d, address).skip = 0

LEMMA StepMatches ==
    ASSUME NEW l, NEW d, Kept(d), NEW ins, Lowered(d, ins), Usual(ins), NEW address \in Nat,
           NEW x, Machine(x), x.skip = 0, NEW s, Twin(s, x), s.skip = 0
    PROVE  StepsAlike(s, x, l, d, ins, address)
<1>1. PICK t, y : t = SassStep(s, l, d, address) /\ y = IrStep(x, l, ins)
    OBVIOUS
<1>2. SteppedTo(x, l, ins, y)
    BY <1>1, StepKinds
<1>3. PICK r, p, K : r = s.r /\ p = s.p /\ K = s.known
    OBVIOUS
<1>4. s = [r |-> r, p |-> p, known |-> K, skip |-> 0]
    BY <1>3 DEF Twin
<1>5. t = IF ~GuardHolds(s, d) THEN s
          ELSE IF d.opcode = "EXIT" THEN [s EXCEPT !.skip = PastEnd]
          ELSE IF d.opcode = "BRA" THEN [s EXCEPT !.skip = address + d.target_offset]
          ELSE IF d.opcode = "ISETP"
          THEN [s EXCEPT !.p = [q \in 0..7 |->
                    IF q = PredicateTo(d) /\ q # PT
                    THEN Relation(Reg(s, d.src0), Second(s, d)) \in Comparison(d) ELSE s.p[q]]]
          ELSE IF d.opcode \in WritesRegister
          THEN [s EXCEPT !.r = [k \in Registers |->
                                    IF k \in Destinations(d) THEN WordOf(ResultOf(s, l, d), d, k) ELSE s.r[k]],
                         !.known = IF CopiesUnknown(s, d) THEN @ \ Destinations(d) ELSE @ \cup Destinations(d)]
          ELSE s
    <2>1. ~(address < s.skip)
        OBVIOUS
    <2> QED
        BY <1>1, <2>1 DEF SassStep
<1>6. GuardHolds(s, d) <=> IrGuard(x, ins)
    <2>1. ins.guard = d.pred_reg /\ ins.inv = d.pred_inv /\ ins.guard \in 0 .. 7
        BY DEF Lowered, Usual
    <2>2. CASE ins.guard = PT
        BY <2>1, <2>2 DEF GuardHolds, IrGuard
    <2>3. CASE ins.guard # PT
        <3>1. ins.guard \in 0 .. (PT - 1)
            BY <2>1, <2>3 DEF PT
        <3>2. s.p[ins.guard] = x.p[ins.guard]
            BY <3>1 DEF Twin
        <3> QED
            BY <2>1, <2>3, <3>2 DEF GuardHolds, IrGuard
    <2> QED
        BY <2>2, <2>3
<1>7. CASE ~GuardHolds(s, d)
    <2>1. t = s /\ y = x
        BY <1>2, <1>5, <1>6, <1>7 DEF SteppedTo
    <2> QED
        BY <1>1, <2>1 DEF StepsAlike
<1>8. CASE GuardHolds(s, d) /\ d.opcode \in {"EXIT", "BRA"}
    <2>1. ins.op \in {"Exit", "Bra"}
        BY <1>8 DEF Lowered
    <2>2. y.r = x.r /\ y.p = x.p /\ y.known = x.known
        BY <1>2, <1>6, <1>8, <2>1 DEF SteppedTo
    <2>3. PICK a : t = [r |-> r, p |-> p, known |-> K, skip |-> a]
        <3>1. \A a : [s EXCEPT !.skip = a] = [r |-> r, p |-> p, known |-> K, skip |-> a]
            BY <1>4
        <3> QED
            BY <1>5, <1>8, <3>1
    <2>4. t = [r |-> t.r, p |-> t.p, known |-> t.known, skip |-> t.skip] /\ t.r = s.r /\ t.p = s.p /\ t.known = s.known
        BY <1>3, <2>3
    <2>5. Twin(t, y)
        BY <2>2, <2>4 DEF Twin
    <2> QED
        BY <1>1, <2>1, <2>5 DEF StepsAlike
<1>9. CASE GuardHolds(s, d) /\ d.opcode = "ISETP"
    <2>1. ins.op = "ISetP" /\ ins.dst = PredicateTo(d)
        BY <1>9 DEF Lowered
    <2>2. PICK f : f = [q \in 0..7 |->
                    IF q = PredicateTo(d) /\ q # PT
                    THEN Relation(Reg(s, d.src0), Second(s, d)) \in Comparison(d) ELSE s.p[q]]
        OBVIOUS
    <2>3. t = [r |-> r, p |-> f, known |-> K, skip |-> 0]
        <3>1. t = [s EXCEPT !.p = f]
            BY <1>5, <1>9, <2>2
        <3> QED
            BY <1>4, <3>1
    <2>4. /\ t = [r |-> t.r, p |-> t.p, known |-> t.known, skip |-> t.skip]
          /\ t.r = s.r /\ t.p = f /\ t.known = s.known /\ t.skip = 0
        BY <1>3, <2>3
    <2>5. /\ y.r = x.r /\ y.known = x.known
          /\ y.p = [x.p EXCEPT ![ins.dst] = x.r[ins.srcs[1]] # x.r[ins.srcs[2]]]
        BY <1>2, <1>6, <1>9, <2>1 DEF SteppedTo
    <2>6. PICK u, v : u = x.r[d.src0] /\ v = x.r[d.src1] /\ u \in Nat /\ v \in Nat
        <3>1. d.src0 \in Registers /\ d.src1 \in Registers
            BY <1>9, SameResult DEF Usual
        <3> QED
            BY <3>1, UintRemainder DEF Machine
    <2>7. ins.srcs[1] = d.src0 /\ ins.srcs[2] = d.src1 /\ Reg(s, d.src0) = u /\ Second(s, d) = v
        BY <1>9, <2>6, SameResult DEF Usual
    <2>8. Relation(u, v) \in Comparison(d) <=> u # v
        <3>1. Comparison(d) = {0, 2}
            BY <1>9 DEF Kept
        <3> QED
            BY <2>6, <3>1 DEF Relation
    <2>9. PICK b \in BOOLEAN : b <=> u # v
        OBVIOUS
    <2>10. f = [q \in 0..7 |-> IF q = ins.dst /\ q # PT THEN b ELSE s.p[q]]
        <3>1. (Relation(Reg(s, d.src0), Second(s, d)) \in Comparison(d)) = b
            BY <2>7, <2>8, <2>9
        <3> QED
            BY <2>1, <2>2, <3>1
    <2>11. y.p = [x.p EXCEPT ![ins.dst] = b]
        <3>1. (x.r[ins.srcs[1]] # x.r[ins.srcs[2]]) = b
            BY <2>6, <2>7, <2>9
        <3> QED
            BY <2>5, <3>1
    <2>12. ASSUME NEW q \in 0 .. (PT - 1)
           PROVE  t.p[q] = y.p[q]
        <3>1. q \in 0 .. 7 /\ q # PT /\ s.p[q] = x.p[q]
            BY DEF PT, Twin
        <3>2. DOMAIN x.p = 0 .. 7
            BY DEF Machine
        <3>3. t.p[q] = IF q = ins.dst THEN b ELSE s.p[q]
            BY <2>4, <2>10, <3>1
        <3>4. y.p[q] = IF q = ins.dst THEN b ELSE x.p[q]
            BY <2>11, <3>1, <3>2
        <3> QED
            BY <3>1, <3>3, <3>4
    <2>13. Twin(t, y)
        BY <2>4, <2>5, <2>12 DEF Twin
    <2> QED
        BY <1>1, <2>4, <2>13 DEF StepsAlike
<1>10. CASE GuardHolds(s, d) /\ d.opcode \in WritesRegister
    <2>1. ins.op \in IrWrites /\ ins.dst = d.dst /\ d.dst \in Registers
        <3>1. ins.op \in IrWrites /\ ins.op # "ISetP"
            BY <1>10 DEF Lowered, WritesRegister, IrWrites, Kept
        <3> QED
            BY <3>1 DEF Lowered, Usual, Legal
    <2>2. Destinations(d) = {d.dst} \ {RZ}
        BY <1>10, <2>1 DEF Destinations, Kept
    <2>3. PICK v : v = ResultOf(s, l, d) % UintSize
        OBVIOUS
    <2>4. PICK f, J : /\ f = [k \in Registers |->
                            IF k \in Destinations(d) THEN WordOf(ResultOf(s, l, d), d, k) ELSE s.r[k]]
                      /\ J = IF CopiesUnknown(s, d) THEN K \ Destinations(d) ELSE K \cup Destinations(d)
        OBVIOUS
    <2>5. t = [r |-> f, p |-> p, known |-> J, skip |-> 0]
        <3>1. t = [s EXCEPT !.r = f, !.known = J]
            BY <1>3, <1>5, <1>10, <2>4 DEF WritesRegister
        <3> QED
            BY <1>4, <3>1
    <2>6. /\ t = [r |-> t.r, p |-> t.p, known |-> t.known, skip |-> t.skip]
          /\ t.r = f /\ t.p = s.p /\ t.known = J /\ t.skip = 0
        BY <1>3, <2>5
    <2>7. y.p = x.p /\ y.known = KnownAfter(x, ins) /\ y.r = [x.r EXCEPT ![d.dst] = v]
        <3>1. Written32(x, l, ins) = v
            BY <1>10, <2>3, SameResult DEF Written32, Usual
        <3> QED
            BY <1>2, <1>6, <1>10, <2>1, <3>1 DEF SteppedTo
    <2>8. ASSUME NEW k \in Registers \ {RZ}
          PROVE  t.r[k] = y.r[k]
        <3>1. DOMAIN x.r = Registers /\ s.r[k] = x.r[k]
            BY DEF Machine, Twin
        <3>2. t.r[k] = IF k = d.dst THEN v ELSE s.r[k]
            BY <2>2, <2>3, <2>4, <2>6, <2>8 DEF WordOf
        <3> QED
            BY <2>7, <2>8, <3>1, <3>2
    <2>9. CopiesUnknown(s, d) <=> ins.op = "Mov" /\ ins.imm = None /\ ins.srcs[1] \notin x.known
        <3>1. CASE d.opcode = "MOV" /\ Form(d) # 4
            <4>1. ins.op = "Mov" /\ ins.imm = None /\ ins.srcs[1] = d.src0 /\ d.src1 = d.src0 /\ d.src0 # RZ
                BY <3>1 DEF Lowered, Kept
            <4>2. s.known = x.known \ {RZ}
                BY DEF Twin
            <4> QED
                BY <3>1, <4>1, <4>2 DEF CopiesUnknown
        <3>2. CASE d.opcode = "MOV" /\ Form(d) = 4
            BY <3>2 DEF Lowered, CopiesUnknown, Some, None
        <3>3. CASE d.opcode # "MOV"
            BY <3>3 DEF Lowered, CopiesUnknown
        <3> QED
            BY <3>1, <3>2, <3>3
    <2>10. t.known = y.known \ {RZ}
        <3>1. K = x.known \ {RZ}
            BY <1>3 DEF Twin
        <3>2. CASE CopiesUnknown(s, d)
            BY <2>1, <2>2, <2>4, <2>6, <2>7, <2>9, <3>1, <3>2 DEF KnownAfter
        <3>3. CASE ~CopiesUnknown(s, d)
            BY <2>1, <2>2, <2>4, <2>6, <2>7, <2>9, <3>1, <3>3 DEF KnownAfter
        <3> QED
            BY <3>2, <3>3
    <2>11. Twin(t, y)
        BY <2>6, <2>7, <2>8, <2>10 DEF Twin
    <2> QED
        BY <1>1, <2>6, <2>11 DEF StepsAlike
<1>11. CASE GuardHolds(s, d) /\ d.opcode \in {"Nop", "BSSY", "BSYNC"}
    <2>1. ins.op \in {"Nop", "Barrier"}
        BY <1>11 DEF Lowered
    <2>2. t = s /\ y = x
        BY <1>2, <1>5, <1>6, <1>11, <2>1 DEF SteppedTo, WritesRegister
    <2> QED
        BY <1>1, <2>2 DEF StepsAlike
<1> QED
    BY <1>7, <1>8, <1>9, <1>10, <1>11 DEF Kept, Described

\* The k-th instruction of the program.
SassNext(x, l, k) == SassStep(x, l, decoded[k], 16 * (k - 1))

\* g is the run of the first k instructions of the SASS program.
SassTraces(g, l, seed, k) ==
    /\ g = [j \in 0 .. k |-> g[j]]
    /\ g[0] = SassStart(l, seed)
    /\ \A j \in 1 .. k : g[j] = SassNext(g[j - 1], l, j)

\* The first k instructions lead to x.
SassLeads(l, seed, k, x) == \E g : SassTraces(g, l, seed, k) /\ g[k] = x

\* No instruction leads nowhere else.
LEMMA SassLeadsNone ==
    ASSUME NEW l, NEW seed
    PROVE  SassLeads(l, seed, 0, SassStart(l, seed))
<1> DEFINE g == [j \in 0 .. 0 |-> SassStart(l, seed)]
<1>1. g = [j \in 0 .. 0 |-> g[j]] /\ g[0] = SassStart(l, seed)
    OBVIOUS
<1> HIDE DEF g
<1>2. SassTraces(g, l, seed, 0)
    BY <1>1 DEF SassTraces
<1> QED
    BY <1>1, <1>2 DEF SassLeads

\* One more instruction.
LEMMA SassLeadsOn ==
    ASSUME NEW l, NEW seed, NEW n \in Nat, NEW x, SassLeads(l, seed, n, x)
    PROVE  SassLeads(l, seed, n + 1, SassNext(x, l, n + 1))
<1> DEFINE u == SassNext(x, l, n + 1)
<1>1. PICK g : SassTraces(g, l, seed, n) /\ g[n] = x
    BY DEF SassLeads
<1> DEFINE h == [k \in 0 .. n + 1 |-> IF k = n + 1 THEN u ELSE g[k]]
<1> HIDE DEF u
<1>2. h[n + 1] = u /\ (\A k \in 0 .. n : h[k] = g[k]) /\ h = [k \in 0 .. n + 1 |-> h[k]]
    OBVIOUS
<1> HIDE DEF h
<1>3. h[0] = SassStart(l, seed)
    BY <1>1, <1>2, SMTT(30) DEF SassTraces
<1>4. ASSUME NEW k \in 1 .. n + 1
      PROVE  h[k] = SassNext(h[k - 1], l, k)
    <2>1. CASE k = n + 1
        <3>1. k - 1 = n /\ n \in 0 .. n
            BY <2>1
        <3>2. h[k - 1] = x
            BY <1>1, <1>2, <3>1
        <3> QED
            BY <1>2, <2>1, <3>2 DEF u
    <2>2. CASE k # n + 1
        <3>1. k \in 1 .. n /\ k \in 0 .. n /\ k - 1 \in 0 .. n
            BY <2>2
        <3>2. g[k] = SassNext(g[k - 1], l, k)
            BY <1>1, <3>1 DEF SassTraces
        <3> QED
            BY <1>2, <3>1, <3>2
    <2> QED
        BY <2>1, <2>2
<1>5. SassTraces(h, l, seed, n + 1)
    BY <1>2, <1>3, <1>4 DEF SassTraces
<1> QED
    BY <1>2, <1>5 DEF SassLeads, u

\* The program leads to one state only.
LEMMA SassUnique ==
    ASSUME NEW n \in Nat, NEW l, NEW seed, NEW g, SassTraces(g, l, seed, n), NEW h, SassTraces(h, l, seed, n)
    PROVE  g = h
<1> DEFINE T == {k \in Nat : k \in 0 .. n => g[k] = h[k]}
<1>1. 0 \in T
    BY DEF SassTraces
<1>2. ASSUME NEW k \in 0 .. n - 1, k \in T
      PROVE  k + 1 \in T
    <2>1. k + 1 \in 1 .. n /\ (k + 1) - 1 = k /\ k \in 0 .. n
        OBVIOUS
    <2>2. g[k + 1] = SassNext(g[(k + 1) - 1], l, k + 1) /\ h[k + 1] = SassNext(h[(k + 1) - 1], l, k + 1)
        BY <2>1 DEF SassTraces
    <2>3. g[k] = h[k]
        BY <1>2, <2>1
    <2>4. g[k + 1] = h[k + 1]
        BY <2>1, <2>2, <2>3
    <2> QED
        BY <2>1, <2>4
<1>3. \A k \in 0 .. n : k \in T
    <2> HIDE DEF T
    <2> QED
        BY <1>1, <1>2, BoundedInduction
<1>4. \A k \in 0 .. n : g[k] = h[k]
    BY <1>3
<1>5. g = [k \in 0 .. n |-> g[k]] /\ h = [k \in 0 .. n |-> h[k]]
    BY DEF SassTraces
<1> HIDE DEF T
<1> QED
    BY <1>4, <1>5

\* The state SassRun answers with is the one the program leads to.
LEMMA SassRunLeads ==
    ASSUME N \in Nat, NEW l, NEW seed, NEW x, SassLeads(l, seed, N, x)
    PROVE  SassRun(l, seed) = x
<1> DEFINE Is(g) == g = [k \in 0 .. N |-> IF k = 0 THEN SassStart(l, seed) ELSE SassNext(g[k - 1], l, k)]
           after == CHOOSE g : Is(g)
<1>1. SassRun(l, seed) = after[N]
    BY Zenon DEF SassRun, SassNext
<1>2. PICK g : SassTraces(g, l, seed, N) /\ g[N] = x
    BY DEF SassLeads
<1>3. ASSUME NEW k \in 0 .. N
      PROVE  g[k] = IF k = 0 THEN SassStart(l, seed) ELSE SassNext(g[k - 1], l, k)
    <2>1. k # 0 => k \in 1 .. N
        OBVIOUS
    <2> QED
        BY <1>2, <2>1 DEF SassTraces
<1>4. Is(g)
    <2>1. g = [k \in 0 .. N |-> g[k]]
        BY <1>2 DEF SassTraces
    <2>2. [k \in 0 .. N |-> g[k]]
            = [k \in 0 .. N |-> IF k = 0 THEN SassStart(l, seed) ELSE SassNext(g[k - 1], l, k)]
        BY <1>3
    <2> QED
        BY <2>1, <2>2
<1>5. Is(after)
    <2> HIDE DEF Is
    <2> QED
        BY <1>4
<1> HIDE DEF after
<1>6. SassTraces(after, l, seed, N)
    <2>1. \A k \in 0 .. N : after[k] = IF k = 0 THEN SassStart(l, seed) ELSE SassNext(after[k - 1], l, k)
        BY <1>5, Zenon
    <2>2. after = [k \in 0 .. N |-> after[k]]
        <3> DEFINE V(k) == IF k = 0 THEN SassStart(l, seed) ELSE SassNext(after[k - 1], l, k)
        <3>1. after = [k \in 0 .. N |-> V(k)] /\ \A k \in 0 .. N : after[k] = V(k)
            BY <1>5, <2>1
        <3> HIDE DEF V, Is
        <3> QED
            BY <3>1
    <2>3. after[0] = SassStart(l, seed)
        BY <2>1
    <2>4. ASSUME NEW k \in 1 .. N
          PROVE  after[k] = SassNext(after[k - 1], l, k)
        <3>1. k \in 0 .. N /\ k # 0
            OBVIOUS
        <3> QED
            BY <2>1, <3>1
    <2> QED
        BY <2>2, <2>3, <2>4 DEF SassTraces
<1>7. after = g
    BY <1>2, <1>6, SassUnique
<1> QED
    BY <1>1, <1>2, <1>7

\* The arms have no label.
LEMMA ArmsUnlabelled ==
    ASSUME NEW E, Provides(E), Types \subseteq Known(E), NEW ins, Legal(ins)
    PROVE  \A e \in Nat \ {0} : Unlabelled(EmitOp(ins, e).code)
<1> SUFFICES ASSUME NEW e \in Nat \ {0}
             PROVE  Unlabelled(EmitOp(ins, e).code)
    OBVIOUS
<1>1. PICK c : c = EmitOp(ins, e).code
    OBVIOUS
<1>2. Emits(E, EmitOp(ins, e), e)
    BY ArmCode
<1>3. PICK D : Code(E, c, D)
    BY <1>1, <1>2 DEF Emits
<1>4. \A k \in 1 .. Len(c) : c[k].op \in BodyOps
    BY <1>3, CodeFragment
<1> QED
    BY <1>1, <1>4 DEF Unlabelled, BodyOps

\* The instruction at k, as the decoder read it and as it is lowered.
DecodedAt(k, d) == d = decoded[k + 1] /\ k + 1 \in DOMAIN decoded /\ Kept(d) /\ Lowered(d, Instr(k))

\* Every instruction of a program whose meaning is kept.
LEMMA DecodedKept ==
    ASSUME Accepted, Modelled, NEW k \in Indices
    PROVE  \E d : DecodedAt(k, d)
<1>1. k + 1 \in DOMAIN decoded /\ Kept(decoded[k + 1])
    BY LoweredAt DEF Accepted, Modelled
<1>2. PICK a : Instr(k) = LowerToIr(decoded[k + 1], a)
    BY LoweredAt DEF Accepted
<1> QED
    BY <1>1, <1>2, KeptLowered DEF DecodedAt

\* The immediates are numbers of the type.
LEMMA ImmediateUint ==
    ASSUME Accepted, NEW k, NEW d, DecodedAt(k, d), Instr(k).op = "Mov", Instr(k).imm # None
    PROVE  Numeral(Instr(k).imm[1]) \in Uint
<1>1. k + 1 \in DOMAIN decoded /\ decoded \in Programs /\ d = decoded[k + 1]
    BY DEF Accepted, DecodedAt
<1>2. d.opcode = "MOV" /\ Instr(k).imm = Some(d.imm32)
    BY DEF DecodedAt, Lowered
<1>3. Instr(k).imm[1] = d.imm32
    BY <1>2 DEF Some
<1> QED
    BY <1>1, <1>2, <1>3, ImmediatesAssumption

\* The variables of the function.
Own == frame.reg0 .. (frame.reg0 + 3 * NumRegs + 7)

\* An instruction changes variables of the function only.
LEMMA TouchedOwn ==
    ASSUME NEW b, Under(b), NEW ins, Legal(ins)
    PROVE  Touched(ins) \subseteq Own
<1>1. NumRegs \in Nat /\ frame.reg0 \in Nat
    BY NumRegsAssumption DEF Under
<1>2. ASSUME NEW r \in Registers
      PROVE  Views(r) \subseteq Own
    <2>1. r \in Nat /\ r <= NumRegs - 1
        BY <1>1 DEF Registers
    <2> QED
        BY <1>1, <2>1 DEF Views, Own, U
<1>3. ASSUME NEW p \in 0 .. 7
      PROVE  P(p) \in Own
    BY <1>1 DEF Own, P
<1>4. ins.op = "ISetP" => ins.dst \in 0 .. 7
    BY DEF Legal
<1>5. ins.op # "ISetP" => ins.dst \in Registers
    BY DEF Legal
<1> QED
    BY <1>2, <1>3, <1>4, <1>5 DEF Touched

\* The state of the shader in its body, started from the memory of l.
Settled(s, l, seed) ==
    /\ InBlock(s) /\ Located(s)
    /\ s.env[frame.gid] = l.gid /\ s.env[frame.n] = l.n
    /\ \A k \in 0 .. 2 : s.env[frame.p[k]] = Buffers[k + 1]
    /\ s.env[G.const_ulong_4] = 4
    /\ Keeps(Memory(l), s.m, Own)
    /\ \A p \in 0 .. 7 : Bit(s.m, seed, p)

\* The inputs of S2R.
LEMMA InputsAre ==
    ASSUME NEW l, NEW k \in 0 .. 2
    PROVE  /\ <<G.var_local_id, k>> \in DOMAIN Memory(l) /\ Memory(l)[<<G.var_local_id, k>>] = l.tid[k]
           /\ <<G.var_workgroup_id, k>> \in DOMAIN Memory(l) /\ Memory(l)[<<G.var_workgroup_id, k>>] = l.cta[k]
<1>1. G.var_global_id = 33 /\ G.var_local_id = 34 /\ G.var_workgroup_id = 35 /\ G.var_push_params = 36
    BY Ids
<1> DEFINE D == ({G.var_global_id} \X {0}) \cup ({G.var_local_id, G.var_workgroup_id} \X (0..2))
                  \cup ({G.var_push_params} \X (0..3)) \cup {ElementOf(1, l.gid), ElementOf(2, l.gid)}
<1>2. <<34, k>> \in D /\ <<35, k>> \in D
    BY <1>1
<1>3. <<34, k>> # ElementOf(1, l.gid) /\ <<34, k>> # ElementOf(2, l.gid)
      /\ <<35, k>> # ElementOf(1, l.gid) /\ <<35, k>> # ElementOf(2, l.gid)
    BY DEF ElementOf
<1>4. Input(l, <<34, k>>) = l.tid[k] /\ Input(l, <<35, k>>) = l.cta[k]
    <2>1. <<34, k>>[1] = 34 /\ <<34, k>>[2] = k /\ <<35, k>>[1] = 35 /\ <<35, k>>[2] = k
        OBVIOUS
    <2> QED
        BY <1>1, <2>1 DEF Input
<1>5. Memory(l) = [p \in D |-> IF p = ElementOf(1, l.gid) THEN A(l.gid)
                               ELSE IF p = ElementOf(2, l.gid) THEN B(l.gid)
                               ELSE Input(l, p)]
    BY DEF Memory
<1> HIDE DEF D
<1>6. DOMAIN Memory(l) = D /\ Memory(l)[<<34, k>>] = l.tid[k] /\ Memory(l)[<<35, k>>] = l.cta[k]
    BY <1>2, <1>3, <1>4, <1>5
<1> QED
    BY <1>1, <1>2, <1>6

\* What no variable of X is stays.
LEMMA KeptAt ==
    ASSUME NEW m, NEW n, NEW X, Keeps(m, n, X), NEW q, \A x \in X : q # Slot(x), q \in DOMAIN m
    PROVE  q \in DOMAIN n /\ n[q] = m[q]
BY DEF Keeps

\* What S2R reads is what the invocation was given.
LEMMA SpecialRead ==
    ASSUME NEW b, Under(b), NEW l, NEW m, Keeps(Memory(l), m, Own), NEW seed, NEW sr \in SpecialNames
    PROVE  SpecialOf(m, seed, sr) = Special(l, sr)
<1>1. G.var_local_id = 34 /\ G.var_workgroup_id = 35 /\ G.const_uint_0 = 23 /\ G.const_uint_1 = 24 /\ G.const_uint_2 = 25
    BY SmallConstants
<1>2. sr \in DOMAIN Builtin
    BY DEF Builtin, SpecialNames
<1>3. ASSUME NEW k \in 0 .. 2
      PROVE  /\ Read(m, seed, G.type_uint, <<34, k>>) = l.tid[k]
             /\ Read(m, seed, G.type_uint, <<35, k>>) = l.cta[k]
    <2>1. \A x \in Own : x > 38
        BY NumRegsAssumption DEF Own, Under
    <2>2. \A x \in Own : <<34, k>> # Slot(x) /\ <<35, k>> # Slot(x)
        BY <2>1 DEF Slot
    <2>3. /\ <<34, k>> \in DOMAIN m /\ m[<<34, k>>] = l.tid[k]
          /\ <<35, k>> \in DOMAIN m /\ m[<<35, k>>] = l.cta[k]
        <3>1. /\ <<34, k>> \in DOMAIN Memory(l) /\ Memory(l)[<<34, k>>] = l.tid[k]
              /\ <<35, k>> \in DOMAIN Memory(l) /\ Memory(l)[<<35, k>>] = l.cta[k]
            <4>1. /\ <<G.var_local_id, k>> \in DOMAIN Memory(l) /\ Memory(l)[<<G.var_local_id, k>>] = l.tid[k]
                  /\ <<G.var_workgroup_id, k>> \in DOMAIN Memory(l)
                  /\ Memory(l)[<<G.var_workgroup_id, k>>] = l.cta[k]
                BY InputsAre
            <4> QED
                BY <1>1, <4>1
        <3>2. PICK q, r : q = <<34, k>> /\ r = <<35, k>>
            OBVIOUS
        <3>3. q \in DOMAIN m /\ m[q] = Memory(l)[q]
            BY <2>2, <3>1, <3>2, KeptAt
        <3>4. r \in DOMAIN m /\ m[r] = Memory(l)[r]
            BY <2>2, <3>1, <3>2, KeptAt
        <3> QED
            BY <3>1, <3>2, <3>3, <3>4
    <2> QED
        BY <2>3 DEF Read
<1>4. SpecialOf(m, seed, sr) = Read(m, seed, G.type_uint, SourceOf(sr))
    BY <1>2 DEF SpecialOf
<1>5. /\ sr = "TidX" => SourceOf(sr) = <<34, 0>>
      /\ sr = "TidY" => SourceOf(sr) = <<34, 1>>
      /\ sr = "TidZ" => SourceOf(sr) = <<34, 2>>
      /\ sr = "CtaIdX" => SourceOf(sr) = <<35, 0>>
      /\ sr = "CtaIdY" => SourceOf(sr) = <<35, 1>>
      /\ sr = "CtaIdZ" => SourceOf(sr) = <<35, 2>>
    BY <1>1, <1>2, BuiltinTable DEF SourceOf
<1>6. /\ sr = "TidX" => Special(l, sr) = l.tid[0]
      /\ sr = "TidY" => Special(l, sr) = l.tid[1]
      /\ sr = "TidZ" => Special(l, sr) = l.tid[2]
      /\ sr = "CtaIdX" => Special(l, sr) = l.cta[0]
      /\ sr = "CtaIdY" => Special(l, sr) = l.cta[1]
      /\ sr = "CtaIdZ" => Special(l, sr) = l.cta[2]
    BY DEF Special
<1>7. 0 \in 0 .. 2 /\ 1 \in 0 .. 2 /\ 2 \in 0 .. 2
    OBVIOUS
<1> QED
    BY <1>3, <1>4, <1>5, <1>6, <1>7 DEF SpecialNames

\* The predicates are still bits after an instruction.
LEMMA BitsStay ==
    ASSUME NEW b, Under(b), NEW m, NEW n, NEW seed, NEW ins, Legal(ins), Keeps(m, n, Touched(ins)),
           IF Allowed(m, seed, ins) THEN Effect(ins, m, n, seed) ELSE n = m,
           \A p \in 0 .. 7 : Bit(m, seed, p)
    PROVE  \A p \in 0 .. 7 : Bit(n, seed, p)
<1>1. CASE n = m
    BY <1>1
<1>2. CASE n # m /\ ins.op = "ISetP"
    <2>1. Effect(ins, m, n, seed) /\ ins.dst \in 0 .. 7 /\ Keeps(m, n, {P(ins.dst)})
        BY <1>2 DEF Legal, Touched
    <2>2. PredicatesSame(m, n, seed, (0 .. 7) \ {ins.dst})
        BY <2>1, RegistersKept
    <2>3. PICK v \in {0, 1} : Holds(n, P(ins.dst), v)
        BY <1>2, <2>1 DEF Effect, Truth
    <2>4. Bit(n, seed, ins.dst)
        BY <2>3, ReadHeld DEF Bit
    <2> QED
        BY <2>2, <2>4 DEF PredicatesSame, Bit
<1>3. CASE ins.op # "ISetP"
    <2>1. PredicatesSame(m, n, seed, 0 .. 7)
        <3>1. CASE ins.op \in IrWrites
            BY <1>3, <3>1, OthersKept DEF Touched, Legal
        <3>2. CASE ins.op \notin IrWrites
            BY <1>3, <3>2, AllKept DEF Touched
        <3> QED
            BY <3>1, <3>2
    <2> QED
        BY <2>1 DEF PredicatesSame, Bit
<1> QED
    BY <1>1, <1>2, <1>3

\* The conditions under which the meaning of a program is kept.
Tame == Modelled /\ StraightLine /\ NoNeverGuard /\ CountIntact

NoLdc == \A k \in DOMAIN decoded : decoded[k].opcode # "LDC"

\* The instruction leaves R3 alone.
SparesCount(ins) == ~(ins.op \in IrWrites /\ ins.dst = 3)

\* The memory m is what the first k instructions of the SASS program make it.
ShadowedBy(l, seed, m, k, s, x) ==
    /\ SassLeads(l, seed, k, s) /\ Twin(s, x) /\ Machine(x) /\ Agrees(x, m, seed)
    /\ k < N => x.skip = 0 /\ s.skip = 0
    /\ NoLdc => Coherent(x, m, seed)
    /\ (\A j \in 0 .. (k - 1) : SparesCount(Instr(j))) => x.r[3] = l.n

Shadowed(l, seed, m, k) == \E s, x : ShadowedBy(l, seed, m, k, s, x)

\* What the emitter goes through.
Streaming == Accepted /\ DOMAIN imm_consts = Needed /\ N \in Nat /\ \A k \in Indices : Instr(k).address \in Nat

\* An instruction of such a program.
LEMMA UsualAt ==
    ASSUME Streaming, Tame, NEW k \in Indices
    PROVE  Usual(Instr(k)) /\ \E d : DecodedAt(k, d)
<1> DEFINE ins == Instr(k)
<1>1. Legal(ins) /\ ins.guard \in 0 .. 7 /\ ins.inv \in BOOLEAN
    BY LegalAt DEF Streaming
<1>2. PICK d : DecodedAt(k, d)
    BY DecodedKept DEF Streaming, Tame
<1>3. ins.op \in IntegerOps /\ (ins.op = "S2R" => ins.sr \in SpecialNames)
    BY <1>2 DEF DecodedAt, Lowered, IntegerOps, Kept, Described, SpecialNames
<1>4. ~(ins.guard = PT /\ ins.inv)
    BY DEF Tame, NoNeverGuard, MayRun
<1>5. ins.address \in Nat
    BY DEF Streaming
<1>6. ins.imm # None => Numeral(ins.imm[1]) \in Uint
    <2>1. ins.imm # None => ins.op = "Mov"
        <3>1. k + 1 \in DOMAIN decoded /\ \E a : ins = LowerToIr(decoded[k + 1], a)
            BY LoweredAt DEF Streaming, Accepted
        <3> HIDE DEF ins
        <3> QED
            BY <3>1 DEF LowerToIr
    <2> QED
        BY <1>2, <2>1, ImmediateUint DEF Streaming
<1> HIDE DEF ins
<1>7. Usual(ins)
    BY <1>1, <1>3, <1>4, <1>5, <1>6 DEF Usual
<1> QED
    BY <1>2, <1>7 DEF ins

\* Before an instruction that reads the count none has written R3.
LEMMA CountAt ==
    ASSUME Streaming, Tame, NEW k \in Indices, Instr(k).op = "Ldc", NEW j \in 0 .. (k - 1)
    PROVE  SparesCount(Instr(j))
<1>1. j \in Indices /\ j + 1 < k + 1
    BY DEF Indices, Streaming
<1>2. PICK d : DecodedAt(k, d)
    BY UsualAt
<1>3. PICK e : DecodedAt(j, e)
    BY <1>1, UsualAt
<1>4. d.opcode = "LDC"
    BY <1>2 DEF DecodedAt, Lowered
<1>5. 3 \notin Destinations(e)
    BY <1>1, <1>2, <1>3, <1>4 DEF DecodedAt, Tame, CountIntact
<1>6. ASSUME Instr(j).op \in IrWrites, Instr(j).dst = 3
      PROVE  FALSE
    <2>1. e.opcode \in WritesRegister /\ e.dst = 3 /\ e.opcode # "IMAD64"
        BY <1>3, <1>6 DEF DecodedAt, Lowered, IrWrites, WritesRegister, Kept
    <2>2. 3 \in Registers /\ 3 # RZ
        BY NumRegsAssumption DEF Registers, RZ
    <2> QED
        BY <1>5, <2>1, <2>2 DEF Destinations
<1> QED
    BY <1>6 DEF SparesCount

\* An instruction does the same on both sides.
LEMMA ShadowStep ==
    ASSUME Streaming, Tame, NEW k \in Indices, NEW b, Under(b), NEW l \in Launches, NEW m, NEW n, NEW seed,
           Keeps(Memory(l), m, Own), Keeps(m, n, Touched(Instr(k))),
           IF Allowed(m, seed, Instr(k)) THEN Effect(Instr(k), m, n, seed) ELSE n = m,
           Shadowed(l, seed, m, k)
    PROVE  Shadowed(l, seed, n, k + 1)
<1>1. PICK ins : ins = Instr(k)
    OBVIOUS
<1>2. k \in Nat /\ k < N /\ N \in Nat
    BY DEF Indices, Streaming
<1>3. PICK d : DecodedAt(k, d)
    BY UsualAt
<1>4. Usual(ins) /\ d = decoded[k + 1] /\ Kept(d) /\ Lowered(d, ins)
    BY <1>1, <1>3, UsualAt DEF DecodedAt
<1>5. PICK s, x : ShadowedBy(l, seed, m, k, s, x)
    BY DEF Shadowed
<1>6. /\ SassLeads(l, seed, k, s) /\ Twin(s, x) /\ Machine(x) /\ Agrees(x, m, seed)
      /\ x.skip = 0 /\ s.skip = 0
      /\ NoLdc => Coherent(x, m, seed)
      /\ (\A j \in 0 .. (k - 1) : SparesCount(Instr(j))) => x.r[3] = l.n
    BY <1>2, <1>5 DEF ShadowedBy
<1>7. ins.op = "Ldc" => x.r[3] = l.n
    BY <1>1, <1>6, CountAt
<1>8. ins.op = "S2R" => SpecialOf(m, seed, ins.sr) = Special(l, ins.sr)
    BY <1>4, SpecialRead DEF Usual
<1>9. PICK t, y : t = SassNext(s, l, k + 1) /\ y = IrStep(x, l, ins)
    OBVIOUS
<1>10. Simulated(x, m, y, n, seed, ins)
    <2>1. Keeps(m, n, Touched(ins))
        BY <1>1
    <2>2. IF Allowed(m, seed, ins) THEN Effect(ins, m, n, seed) ELSE n = m
        BY <1>1
    <2>3. Simulated(x, m, IrStep(x, l, ins), n, seed, ins)
        BY <1>4, <1>6, <1>7, <1>8, <2>1, <2>2, StepSimulated
    <2> QED
        BY <1>9, <2>3
<1>11. Twin(t, y) /\ (ins.op \notin {"Exit", "Bra"} => t.skip = 0)
    <2>1. PICK a : a = 16 * ((k + 1) - 1) /\ a \in Nat
        BY <1>2
    <2>2. StepsAlike(s, x, l, d, ins, a)
        BY <1>4, <1>6, <2>1, StepMatches
    <2>3. t = SassStep(s, l, d, a)
        BY <1>4, <1>9, <2>1 DEF SassNext
    <2> QED
        BY <1>9, <2>2, <2>3 DEF StepsAlike
<1>12. SassLeads(l, seed, k + 1, t)
    BY <1>2, <1>6, <1>9, SassLeadsOn
<1>13. k + 1 < N => y.skip = 0 /\ t.skip = 0
    <2>1. k + 1 < N => ins.op \notin {"Exit", "Bra"}
        <3>1. Transfers(k) => k = N - 1
            BY DEF Tame, StraightLine
        <3>2. ins.op \in {"Exit", "Bra"} => Transfers(k)
            BY <1>1 DEF Transfers
        <3>3. k + 1 < N => k # N - 1
            BY <1>2
        <3> QED
            BY <3>1, <3>2, <3>3
    <2> QED
        BY <1>10, <1>11, <2>1 DEF Simulated
<1>14. NoLdc => Coherent(y, n, seed)
    <2>1. NoLdc => d.opcode # "LDC"
        BY <1>3 DEF DecodedAt, NoLdc
    <2>2. NoLdc => ins.op # "Ldc"
        BY <1>4, <2>1 DEF Lowered
    <2> QED
        BY <1>6, <1>10, <2>2 DEF Simulated
<1>15. (\A j \in 0 .. ((k + 1) - 1) : SparesCount(Instr(j))) => y.r[3] = l.n
    <2> SUFFICES ASSUME \A j \in 0 .. ((k + 1) - 1) : SparesCount(Instr(j))
                 PROVE  y.r[3] = l.n
        OBVIOUS
    <2>1. SparesCount(ins) /\ \A j \in 0 .. (k - 1) : SparesCount(Instr(j))
        <3>1. k \in 0 .. ((k + 1) - 1) /\ 0 .. (k - 1) \subseteq 0 .. ((k + 1) - 1)
            BY <1>2
        <3> QED
            BY <1>1, <3>1
    <2> QED
        BY <1>6, <1>10, <2>1 DEF Simulated, SparesCount
<1>16. ShadowedBy(l, seed, n, k + 1, t, y)
    BY <1>10, <1>11, <1>12, <1>13, <1>14, <1>15 DEF ShadowedBy, Simulated
<1> QED
    BY <1>16 DEF Shadowed

\* An instruction keeps the body's state as it should be.
LEMMA SettledStep ==
    ASSUME NEW b, Under(b), NEW s, NEW l, NEW seed, Settled(s, l, seed), NEW ins, Legal(ins),
           NEW code, NEW t, Runs(s, seed, code, t, b, Touched(ins)),
           IF Allowed(s.m, seed, ins) THEN Effect(ins, s.m, t.m, seed) ELSE t.m = s.m
    PROVE  Settled(t, l, seed)
<1>1. InBlock(t) /\ Spares(b, s, t) /\ Keeps(s.m, t.m, Touched(ins))
    BY DEF Runs
<1>2. Located(t)
    BY <1>1, LocatedStays DEF Settled
<1>3. /\ frame.gid \in Nat /\ frame.gid < b /\ frame.n \in Nat /\ frame.n < b /\ b \in Nat /\ b > 38
      /\ \A k \in 0 .. 2 : frame.p[k] \in Nat /\ frame.p[k] < b
    BY DEF Under
<1>4. \A x \in Nat : x < b => t.env[x] = s.env[x]
    BY <1>1 DEF Spares
<1>5. t.env[frame.gid] = l.gid /\ t.env[frame.n] = l.n /\ \A k \in 0 .. 2 : t.env[frame.p[k]] = Buffers[k + 1]
    BY <1>3, <1>4 DEF Settled
<1>6. t.env[G.const_ulong_4] = 4
    <2>1. G.const_ulong_4 = 32
        BY Ids
    <2>2. 32 < b /\ 32 \in Nat
        BY <1>3
    <2> QED
        BY <1>4, <2>1, <2>2 DEF Settled
<1>7. Keeps(Memory(l), t.m, Own)
    <2>1. Keeps(s.m, t.m, Own)
        BY <1>1, TouchedOwn, KeepsMore
    <2>2. Keeps(Memory(l), t.m, Own \cup Own)
        BY <2>1, KeepsAdd DEF Settled
    <2>3. Own \cup Own = Own
        OBVIOUS
    <2> QED
        BY <2>2, <2>3
<1>8. \A p \in 0 .. 7 : Bit(t.m, seed, p)
    <2>1. \A p \in 0 .. 7 : Bit(s.m, seed, p)
        BY DEF Settled
    <2> QED
        BY <1>1, <2>1, BitsStay
<1> QED
    BY <1>1, <1>2, <1>5, <1>6, <1>7, <1>8 DEF Settled

\* The shader's state after the first k instructions.
Reaches(s, l, seed, k) == Settled(s, l, seed) /\ (Tame => Shadowed(l, seed, s.m, k))

\* The words lead there from the memory of l.
Arrives(w, l, seed, k) == \E s : Leads(Initial(Memory(l)), seed, w, s) /\ Reaches(s, l, seed, k)

\* One instruction more.
LEMMA ArrivesOn ==
    ASSUME Streaming, NEW k \in Indices, NEW b, Under(b), NEW l \in Launches, NEW seed,
           NEW w, Listing(w), Arrives(w, l, seed, k),
           NEW E, Provides(E), Types \subseteq Known(E),
           NEW code, code = LowerInstr(Instr(k), b).code
    PROVE  Arrives(w \o code, l, seed, k + 1)
<1>1. PICK s : Leads(Initial(Memory(l)), seed, w, s) /\ Reaches(s, l, seed, k)
    BY DEF Arrives
<1>2. PICK ins : ins = Instr(k)
    OBVIOUS
<1>3. Legal(ins) /\ ins.guard \in 0 .. 7 /\ ins.inv \in BOOLEAN
    BY <1>2, LegalAt DEF Streaming
<1>4. \A e \in Nat \ {0} : Unlabelled(EmitOp(ins, e).code)
    BY <1>3, ArmsUnlabelled
<1>5. Settled(s, l, seed) /\ Armed(s, b) /\ Bit(s.m, seed, ins.guard)
    BY <1>1, <1>3 DEF Reaches, Settled, Armed
<1>6. Obeyed(s, seed, ins, b, LowerInstr(ins, b).code)
    BY <1>3, <1>4, <1>5, LowerRun
<1>7. PICK t : /\ Runs(s, seed, code, t, b, Touched(ins))
               /\ IF Allowed(s.m, seed, ins) THEN Effect(ins, s.m, t.m, seed) ELSE t.m = s.m
    BY <1>2, <1>6 DEF Obeyed
<1>8. Settled(t, l, seed)
    BY <1>3, <1>5, <1>7, SettledStep
<1>9. ASSUME Tame
      PROVE  Shadowed(l, seed, t.m, k + 1)
    <2>1. PICK m, n : m = s.m /\ n = t.m
        OBVIOUS
    <2>2. Keeps(Memory(l), m, Own) /\ Keeps(m, n, Touched(Instr(k))) /\ Shadowed(l, seed, m, k)
        BY <1>1, <1>2, <1>7, <1>9, <2>1 DEF Reaches, Settled, Runs
    <2>3. IF Allowed(m, seed, Instr(k)) THEN Effect(Instr(k), m, n, seed) ELSE n = m
        BY <1>2, <1>7, <2>1
    <2>4. Shadowed(l, seed, n, k + 1)
        BY <1>9, <2>2, <2>3, ShadowStep
    <2> QED
        BY <2>1, <2>4
<1>10. Reaches(t, l, seed, k + 1)
    BY <1>8, <1>9 DEF Reaches
<1>11. Leads(Initial(Memory(l)), seed, w \o code, t)
    BY <1>1, <1>7, LeadsConcat DEF Runs
<1> QED
    BY <1>10, <1>11 DEF Arrives

-----------------------------------------------------------------------------
(***************************************************************************)
(* The declarations, run.                                                  *)
(***************************************************************************)

\* A word that has no effect in a block.
Inert(w) ==
    w.op \notin {"Store", "Branch", "BranchConditional", "Return"} /\ (w.type = 0 \/ w.op = "Function")

\* A constant or a variable.
Valued(w) == w.op \in {"Constant", "Variable"} /\ w.type # 0 /\ w.id \in Nat \ {0}

\* The value of the one, the location of the other.
Meaning(w) == IF w.op = "Constant" THEN w.lits[1] ELSE Slot(w.id)

\* What a declaration does.
Settles(t, u, w) ==
    /\ InBlock(u) /\ u.m = t.m
    /\ Valued(w) => u.env[w.id] = Meaning(w)
    /\ \A x \in Nat : (Valued(w) => x # w.id) => u.env[x] = t.env[x]

\* Code of declarations.
Declarative(c) ==
    /\ Listing(c)
    /\ \A k \in 1 .. Len(c) : Inert(c[k]) \/ Valued(c[k])
    /\ \A j, k \in 1 .. Len(c) : c[j].id = c[k].id /\ c[j].id # 0 => j = k

\* The first k words of c have been executed.
Executed(s, t, c, k) ==
    /\ InBlock(t) /\ t.m = s.m
    /\ \A j \in 1 .. k : Valued(c[j]) => t.env[c[j].id] = Meaning(c[j])

\* One declaration.
LEMMA WordSettles ==
    ASSUME NEW t, InBlock(t), NEW seed, NEW w, Inert(w) \/ Valued(w)
    PROVE  Settles(t, Step(t, seed, w), w)
<1>1. CASE Inert(w) /\ ~Valued(w)
    <2>1. Step(t, seed, w) = t
        BY <1>1, IdleStep DEF Inert
    <2> QED
        BY <1>1, <2>1 DEF Settles
<1>2. CASE Valued(w)
    <2>1. Gives(t, seed, w, w.id, Value(t, seed, w))
        BY <1>2, ValueGiven DEF Valued, Acting
    <2>2. Value(t, seed, w) = Meaning(w)
        BY <1>2 DEF Value, Meaning, Valued, Slot
    <2>3. PICK u : u = Step(t, seed, w)
        OBVIOUS
    <2>4. PICK v : v = Meaning(w)
        OBVIOUS
    <2>5. InBlock(u) /\ u.m = t.m /\ u.env[w.id] = v /\ \A x \in Nat : x # w.id => u.env[x] = t.env[x]
        BY <2>1, <2>2, <2>3, <2>4 DEF Gives
    <2>6. Settles(t, u, w)
        BY <1>2, <2>4, <2>5 DEF Settles
    <2> QED
        BY <2>3, <2>6
<1> QED
    BY <1>1, <1>2

\* Declarations lead to a state where the constants and the variables have their values.
LEMMA DeclarativeLeads ==
    ASSUME NEW s, InBlock(s), NEW seed, NEW c, Declarative(c)
    PROVE  \E t : Leads(s, seed, c, t) /\ Executed(s, t, c, Len(c))
<1>1. PICK S : c \in Seq(S)
    BY DEF Declarative, Listing
<1> DEFINE n == Len(c)
           UpTo(k) == [j \in 1 .. k |-> c[j]]
           T == {k \in Nat : k \in 0 .. n => \E t : Leads(s, seed, UpTo(k), t) /\ Executed(s, t, c, k)}
<1>2. n \in Nat /\ c = [j \in 1 .. n |-> c[j]] /\ \A j \in 1 .. n : c[j] \in S
    BY <1>1, LenProperties
<1>3. 0 \in T
    <2>1. UpTo(0) = <<>>
        OBVIOUS
    <2>2. Leads(s, seed, <<>>, s)
        BY LeadsNone
    <2>3. Executed(s, s, c, 0)
        BY DEF Executed
    <2> QED
        BY <2>1, <2>2, <2>3
<1>4. ASSUME NEW k \in 0 .. n - 1, k \in T
      PROVE  k + 1 \in T
    <2>1. k \in Nat /\ k \in 0 .. n /\ k + 1 \in 1 .. n
        BY <1>2
    <2>2. PICK t : Leads(s, seed, UpTo(k), t) /\ Executed(s, t, c, k)
        BY <1>4, <2>1
    <2>3. PICK w : w = c[k + 1]
        OBVIOUS
    <2>4. Inert(w) \/ Valued(w)
        BY <2>1, <2>3 DEF Declarative
    <2>5. PICK u : u = Step(t, seed, w)
        OBVIOUS
    <2>6. InBlock(t)
        BY <2>2 DEF Executed
    <2>7. Settles(t, u, w)
        BY <2>4, <2>5, <2>6, WordSettles
    <2>8. UpTo(k) \in Seq(S) /\ Len(UpTo(k)) = k /\ w \in S
        BY <1>2, <2>1, <2>3
    <2>9. UpTo(k + 1) = Append(UpTo(k), w)
        <3>1. Append(UpTo(k), w) = [j \in 1 .. k + 1 |-> IF j = k + 1 THEN w ELSE UpTo(k)[j]]
            BY <2>1, <2>8, AppendProperties
        <3> QED
            BY <2>1, <2>3, <3>1
    <2>10. Executed(s, u, c, k + 1)
        <3>1. InBlock(u) /\ u.m = s.m
            BY <2>2, <2>7 DEF Settles, Executed
        <3>2. ASSUME NEW j \in 1 .. (k + 1), Valued(c[j])
              PROVE  u.env[c[j].id] = Meaning(c[j])
            <4>1. CASE j = k + 1
                BY <2>3, <2>7, <3>2, <4>1 DEF Settles
            <4>2. CASE j # k + 1
                <5>1. j \in 1 .. k /\ j \in 1 .. n
                    BY <2>1, <4>2
                <5>2. t.env[c[j].id] = Meaning(c[j])
                    BY <2>2, <3>2, <5>1 DEF Executed
                <5>3. c[j].id \in Nat /\ c[j].id # 0
                    BY <3>2 DEF Valued
                <5>4. c[j].id # w.id
                    BY <2>1, <2>3, <4>2, <5>1, <5>3 DEF Declarative
                <5> QED
                    BY <2>7, <5>2, <5>3, <5>4 DEF Settles
            <4> QED
                BY <4>1, <4>2
        <3> QED
            BY <3>1, <3>2 DEF Executed
    <2>11. Leads(s, seed, Append(UpTo(k), w), u)
        <3>1. PICK h : h = UpTo(k)
            OBVIOUS
        <3>2. Listing(h)
            BY <2>8, <3>1 DEF Listing
        <3>3. Leads(s, seed, h, t)
            BY <2>2, <3>1
        <3>4. Leads(s, seed, Append(h, w), Step(t, seed, w))
            BY <3>2, <3>3, LeadsAppend
        <3> QED
            BY <2>5, <3>1, <3>4
    <2> HIDE DEF UpTo
    <2>12. Leads(s, seed, UpTo(k + 1), u)
        BY <2>9, <2>11
    <2> QED
        BY <2>1, <2>10, <2>12
<1>5. \A k \in 0 .. n : k \in T
    <2> HIDE DEF T, n
    <2> QED
        BY <1>2, <1>3, <1>4, BoundedInduction
<1>6. n \in 0 .. n /\ UpTo(n) = c
    BY <1>2
<1> QED
    BY <1>5, <1>6

\* The words of c have no effect or give their id its value.
Passive(c) == Listing(c) /\ \A k \in 1 .. Len(c) : Inert(c[k]) \/ Valued(c[k])

\* The word w is in c.
Appears(c, w) == \E k \in 1 .. Len(c) : c[k] = w

\* Passive code and more passive code.
LEMMA PassiveConcat ==
    ASSUME NEW c, Passive(c), NEW d, Passive(d)
    PROVE  Passive(c \o d)
<1>1. PICK r : r = c \o d
    OBVIOUS
<1>2. Listing(r) /\ Joins(r, c, d) /\ Len(c) \in Nat /\ Len(d) \in Nat
    BY <1>1, ListingConcat, ListingLength DEF Passive
<1>3. ASSUME NEW k \in 1 .. Len(r)
      PROVE  Inert(r[k]) \/ Valued(r[k])
    <2>1. CASE k \in 1 .. Len(c)
        BY <1>2, <2>1 DEF Joins, Passive
    <2>2. CASE k \notin 1 .. Len(c)
        <3>1. PICK j \in 1 .. Len(d) : k = Len(c) + j
            <4>1. k - Len(c) \in 1 .. Len(d) /\ k = Len(c) + (k - Len(c))
                BY <1>2, <2>2 DEF Joins
            <4> QED
                BY <4>1
        <3> QED
            BY <1>2, <3>1 DEF Joins, Passive
    <2> QED
        BY <2>1, <2>2
<1> QED
    BY <1>1, <1>2, <1>3 DEF Passive

\* What is in a part is in the whole.
LEMMA AppearsConcat ==
    ASSUME NEW c, Listing(c), NEW d, Listing(d)
    PROVE  \A w : Appears(c, w) \/ Appears(d, w) => Appears(c \o d, w)
<1>1. PICK r : r = c \o d
    OBVIOUS
<1>2. Joins(r, c, d) /\ Len(c) \in Nat /\ Len(d) \in Nat
    BY <1>1, ListingConcat, ListingLength
<1>3. ASSUME NEW w, Appears(c, w)
      PROVE  Appears(r, w)
    <2>1. PICK k \in 1 .. Len(c) : c[k] = w
        BY <1>3 DEF Appears
    <2>2. k \in 1 .. Len(r) /\ r[k] = w
        BY <1>2, <2>1 DEF Joins
    <2> QED
        BY <2>2 DEF Appears
<1>4. ASSUME NEW w, Appears(d, w)
      PROVE  Appears(r, w)
    <2>1. PICK k \in 1 .. Len(d) : d[k] = w
        BY <1>4 DEF Appears
    <2>2. Len(c) + k \in 1 .. Len(r) /\ r[Len(c) + k] = w
        BY <1>2, <2>1 DEF Joins
    <2> QED
        BY <2>2 DEF Appears
<1> QED
    BY <1>1, <1>3, <1>4

\* The words of the header's pieces.
LEMMA InertWords ==
    /\ \A op, args, lits : op \in {"Capability", "Extension", "MemoryModel", "EntryPoint", "ExecutionMode",
                                   "Decorate", "MemberDecorate"} => Inert(Plain(op, args, lits))
    /\ \A op, id, args, lits : op \in {"TypeVoid", "TypeFunction", "TypeBool", "TypeInt", "TypeFloat",
                                       "TypeVector", "TypePointer", "TypeStruct", "TypeArray", "Label"}
                                 => Inert(Def(op, id, args, lits))
    /\ \A id, class, type : Inert(Pointer(id, class, type))
    /\ \A type, id, value : type # 0 /\ id \in Nat \ {0} => Valued(Constant(type, id, value))
    /\ \A type, id, class : type # 0 /\ id \in Nat \ {0} => Valued(Variable(type, id, class))
BY DEF Inert, Valued, Plain, Def, Pointer, Constant, Variable

\* The preamble has no effect.
LEMMA PreamblePassive ==
    Passive(Preamble)
<1>1. PICK w1, w2, w3, w4, w5, w6, w7 :
        /\ Preamble = <<w1, w2, w3, w4, w5, w6, w7>>
        /\ Word(w1, "Capability", 0, 0, {}) /\ Word(w2, "Capability", 0, 0, {})
        /\ Word(w3, "Capability", 0, 0, {}) /\ Word(w4, "Extension", 0, 0, {})
        /\ Word(w5, "MemoryModel", 0, 0, {}) /\ Word(w6, "EntryPoint", 0, 0, {})
        /\ Word(w7, "ExecutionMode", 0, 0, {})
    BY PreambleWords
<1>2. \A w, op : Word(w, op, 0, 0, {}) /\ op \notin {"Store", "Branch", "BranchConditional", "Return"} => Inert(w)
    BY DEF Word, Inert
<1>3. Inert(w1) /\ Inert(w2) /\ Inert(w3) /\ Inert(w4) /\ Inert(w5) /\ Inert(w6) /\ Inert(w7)
    BY <1>1, <1>2
<1>4. Len(Preamble) = 7
    BY PreambleFacts
<1>5. \A k \in 1 .. 7 : k = 1 \/ k = 2 \/ k = 3 \/ k = 4 \/ k = 5 \/ k = 6 \/ k = 7
    OBVIOUS
<1>6. \A k \in 1 .. 7 : Inert(Preamble[k])
    BY <1>1, <1>3, <1>5
<1>7. Listing(Preamble)
    BY PreambleFacts DEF Listing
<1> QED
    BY <1>4, <1>6, <1>7 DEF Passive

\* Nor do the decorations.
LEMMA DecorationsPassive ==
    Passive(Decorations)
<1> DEFINE s == <<Plain("Decorate", <<G.var_global_id>>, <<"GlobalInvocationId">>),
                  Plain("Decorate", <<G.var_local_id>>, <<"LocalInvocationId">>),
                  Plain("Decorate", <<G.var_workgroup_id>>, <<"WorkgroupId">>),
                  Plain("Decorate", <<G.type_push_params>>, <<"Block">>)>>
           t == [m \in 1..4 |-> Plain("MemberDecorate", <<G.type_push_params>>, <<m - 1, 8 * (m - 1)>>)]
<1>1. Passive(s)
    <2>1. PICK w1, w2, w3, w4 : s = <<w1, w2, w3, w4>> /\ Inert(w1) /\ Inert(w2) /\ Inert(w3) /\ Inert(w4)
        BY InertWords
    <2>2. <<w1, w2, w3, w4>> \in Seq({w1, w2, w3, w4}) /\ Len(<<w1, w2, w3, w4>>) = 4
        OBVIOUS
    <2> HIDE DEF s
    <2>3. \A k \in 1 .. 4 : Inert(s[k])
        BY <2>1
    <2> QED
        BY <2>1, <2>2, <2>3 DEF Passive, Listing
<1>2. Passive(t)
    <2>1. \A k \in 1 .. 4 : Inert(t[k])
        BY InertWords
    <2>2. t \in Seq({t[k] : k \in 1 .. 4}) /\ Len(t) = 4
        OBVIOUS
    <2> QED
        BY <2>1, <2>2 DEF Passive, Listing
<1>3. Decorations = s \o t
    BY DEF Decorations
<1> HIDE DEF s, t
<1> QED
    BY <1>1, <1>2, <1>3, PassiveConcat

\* Nor do the types.
LEMMA TypesPassive ==
    Passive(TypeDeclarations)
<1>1. \A k \in 1 .. 7 : Inert(TypeDeclarations[k])
    <2>1. \A k \in 1 .. 7 : k = 1 \/ k = 2 \/ k = 3 \/ k = 4 \/ k = 5 \/ k = 6 \/ k = 7
        OBVIOUS
    <2> QED
        BY <2>1, TypeTable, InertWords, SMTT(30)
<1>2. \A k \in 8 .. 20 : Inert(TypeDeclarations[k])
    <2>1. \A k \in 8 .. 20 : k = 8 \/ k = 9 \/ k = 10 \/ k = 11 \/ k = 12 \/ k = 13 \/ k = 14 \/ k = 15 \/ k = 16
                             \/ k = 17 \/ k = 18 \/ k = 19 \/ k = 20
        OBVIOUS
    <2> QED
        BY <2>1, TypeTable, InertWords, SMTT(30)
<1>3. \A k \in 1 .. 20 : k \in 1 .. 7 \/ k \in 8 .. 20
    OBVIOUS
<1>4. TypeDeclarations \in Seq(Instruction)
    BY TypesDeclared DEF Declares
<1> QED
    BY <1>1, <1>2, <1>3, <1>4, TypeTable DEF Passive, Listing

\* The constants of the header.
LEMMA ConstantsPassive ==
    /\ Passive(ConstantDeclarations)
    /\ Appears(ConstantDeclarations, Constant(G.type_uint, G.const_uint_0, 0))
    /\ Appears(ConstantDeclarations, Constant(G.type_uint, G.const_uint_1, 1))
    /\ Appears(ConstantDeclarations, Constant(G.type_uint, G.const_uint_2, 2))
    /\ Appears(ConstantDeclarations, Constant(G.type_uint, G.const_uint_3, 3))
    /\ Appears(ConstantDeclarations, Constant(G.type_ulong, G.const_ulong_4, 4))
<1>1. /\ Len(ConstantDeclarations) = 10
      /\ ConstantDeclarations[1] = Constant(G.type_uint, G.const_uint_0, 0)
      /\ ConstantDeclarations[2] = Constant(G.type_uint, G.const_uint_1, 1)
      /\ ConstantDeclarations[3] = Constant(G.type_uint, G.const_uint_2, 2)
      /\ ConstantDeclarations[4] = Constant(G.type_uint, G.const_uint_3, 3)
      /\ ConstantDeclarations[5] = Constant(G.type_uint, G.const_uint_4, 4)
      /\ ConstantDeclarations[6] = Constant(G.type_uint, G.const_uint_32, 32)
      /\ ConstantDeclarations[7] = Constant(G.type_uint, G.const_uint_256, 256)
      /\ ConstantDeclarations[8] = Constant(G.type_uint, G.const_uint_264, 264)
      /\ ConstantDeclarations[9] = Constant(G.type_uint, G.const_uint_1024, 1024)
      /\ ConstantDeclarations[10] = Constant(G.type_ulong, G.const_ulong_4, 4)
    BY DEF ConstantDeclarations
<1>2. /\ G.type_uint # 0 /\ G.type_ulong # 0
      /\ \A k \in 23 .. 32 : k \in Nat \ {0}
    BY TypesNotNull
<1>3. \A k \in 1 .. 10 : k = 1 \/ k = 2 \/ k = 3 \/ k = 4 \/ k = 5 \/ k = 6 \/ k = 7 \/ k = 8 \/ k = 9 \/ k = 10
    OBVIOUS
<1>4. /\ G.const_uint_0 \in Nat \ {0} /\ G.const_uint_1 \in Nat \ {0} /\ G.const_uint_2 \in Nat \ {0}
      /\ G.const_uint_3 \in Nat \ {0} /\ G.const_uint_4 \in Nat \ {0} /\ G.const_uint_32 \in Nat \ {0}
      /\ G.const_uint_256 \in Nat \ {0} /\ G.const_uint_264 \in Nat \ {0} /\ G.const_uint_1024 \in Nat \ {0}
      /\ G.const_ulong_4 \in Nat \ {0}
    BY Ids
<1>5. \A k \in 1 .. 10 : Valued(ConstantDeclarations[k])
    BY <1>1, <1>2, <1>3, <1>4, InertWords
<1>6. ConstantDeclarations \in Seq(Instruction)
    <2>1. 4 \in Known(HeaderPairs) /\ 5 \in Known(HeaderPairs)
        BY HeaderKnown
    <2> QED
        BY <2>1, ConstantsDeclared DEF Declares
<1>7. Passive(ConstantDeclarations)
    BY <1>1, <1>5, <1>6 DEF Passive, Listing
<1>8. 1 \in 1 .. 10 /\ 2 \in 1 .. 10 /\ 3 \in 1 .. 10 /\ 4 \in 1 .. 10 /\ 10 \in 1 .. 10
    OBVIOUS
<1> QED
    BY <1>1, <1>7, <1>8 DEF Appears

\* The shared array.
LEMMA ArrayPassive ==
    Passive(SharedArray)
<1>1. /\ Len(SharedArray) = 2
      /\ SharedArray[1] = Def("TypeArray", G.type_arr1024f, <<G.type_float, G.const_uint_1024>>, <<>>)
      /\ SharedArray[2] = Pointer(G.ptr_wg_arr, "Workgroup", G.type_arr1024f)
    BY DEF SharedArray
<1>2. \A k \in 1 .. 2 : Inert(SharedArray[k])
    <2>1. \A k \in 1 .. 2 : k = 1 \/ k = 2
        OBVIOUS
    <2> QED
        BY <1>1, <2>1, InertWords
<1>3. SharedArray \in Seq(Instruction)
    <2>1. 6 \in Known(HeaderPairs) /\ 31 \in Known(HeaderPairs)
        BY HeaderKnown
    <2> QED
        BY <2>1, ArrayDeclared DEF Declares
<1> QED
    BY <1>1, <1>2, <1>3 DEF Passive, Listing

\* The global variables.
LEMMA GlobalsPassive ==
    /\ Passive(GlobalVariables)
    /\ Appears(GlobalVariables, Variable(G.ptr_input_v3uint, G.var_global_id, "Input"))
    /\ Appears(GlobalVariables, Variable(G.ptr_input_v3uint, G.var_local_id, "Input"))
    /\ Appears(GlobalVariables, Variable(G.ptr_input_v3uint, G.var_workgroup_id, "Input"))
    /\ Appears(GlobalVariables, Variable(G.ptr_push_params, G.var_push_params, "PushConstant"))
<1>1. /\ G.ptr_input_v3uint # 0 /\ G.ptr_push_params # 0 /\ G.ptr_wg_arr # 0
      /\ G.var_global_id \in Nat \ {0} /\ G.var_local_id \in Nat \ {0} /\ G.var_workgroup_id \in Nat \ {0}
      /\ G.var_push_params \in Nat \ {0} /\ G.var_shared \in Nat \ {0}
    BY Ids
<1>2. \A k \in 1 .. 5 : k = 1 \/ k = 2 \/ k = 3 \/ k = 4 \/ k = 5
    OBVIOUS
<1>3. \A k \in 1 .. 5 : Valued(GlobalVariables[k])
    BY <1>1, <1>2, VariableTable, InertWords
<1>4. GlobalVariables \in Seq(Instruction)
    <2>1. 8 \in Known(HeaderPairs) /\ 18 \in Known(HeaderPairs) /\ 20 \in Known(HeaderPairs)
        BY HeaderKnown
    <2> QED
        BY <2>1, VariablesDeclared DEF Declares
<1>5. Passive(GlobalVariables)
    BY <1>3, <1>4, VariableTable DEF Passive, Listing
<1>6. 1 \in 1 .. 5 /\ 2 \in 1 .. 5 /\ 3 \in 1 .. 5 /\ 4 \in 1 .. 5
    OBVIOUS
<1> QED
    BY <1>5, <1>6, VariableTable DEF Appears

\* What the body needs of the header's declarations.
HeaderWords ==
    {Constant(G.type_uint, G.const_uint_0, 0), Constant(G.type_uint, G.const_uint_1, 1),
     Constant(G.type_uint, G.const_uint_2, 2), Constant(G.type_uint, G.const_uint_3, 3),
     Constant(G.type_ulong, G.const_ulong_4, 4),
     Variable(G.ptr_input_v3uint, G.var_global_id, "Input"),
     Variable(G.ptr_input_v3uint, G.var_local_id, "Input"),
     Variable(G.ptr_input_v3uint, G.var_workgroup_id, "Input"),
     Variable(G.ptr_push_params, G.var_push_params, "PushConstant")}

\* The header has no effect but for its constants and its variables.
LEMMA HeaderPassive ==
    Passive(Header) /\ \A w \in HeaderWords : Appears(Header, w)
<1> DEFINE h2 == Preamble \o Decorations
           h3 == h2 \o TypeDeclarations
           h4 == h3 \o ConstantDeclarations
           h5 == h4 \o SharedArray
           h6 == h5 \o GlobalVariables
<1>1. Header = h6
    BY DEF Header
<1>2. Passive(h2)
    BY PreamblePassive, DecorationsPassive, PassiveConcat
<1> HIDE DEF h2
<1>3. Passive(h3)
    BY <1>2, TypesPassive, PassiveConcat
<1> HIDE DEF h3
<1>4. Passive(h4) /\ \A w : Appears(ConstantDeclarations, w) => Appears(h4, w)
    <2>1. Listing(h3) /\ Listing(ConstantDeclarations)
        BY <1>3, ConstantsPassive DEF Passive
    <2> QED
        BY <1>3, <2>1, ConstantsPassive, PassiveConcat, AppearsConcat
<1> HIDE DEF h4
<1>5. Passive(h5) /\ \A w : Appears(ConstantDeclarations, w) => Appears(h5, w)
    <2>1. Listing(h4) /\ Listing(SharedArray)
        BY <1>4, ArrayPassive DEF Passive
    <2>2. Passive(h5)
        BY <1>4, ArrayPassive, PassiveConcat
    <2>3. \A w : Appears(h4, w) => Appears(h5, w)
        BY <2>1, AppearsConcat
    <2> QED
        BY <1>4, <2>2, <2>3
<1> HIDE DEF h5
<1>6. /\ Passive(h6) /\ \A w : Appears(ConstantDeclarations, w) => Appears(h6, w)
      /\ \A w : Appears(GlobalVariables, w) => Appears(h6, w)
    <2>1. Listing(h5) /\ Listing(GlobalVariables)
        BY <1>5, GlobalsPassive DEF Passive
    <2>2. Passive(h6)
        BY <1>5, GlobalsPassive, PassiveConcat
    <2>3. \A w : Appears(h5, w) \/ Appears(GlobalVariables, w) => Appears(h6, w)
        BY <2>1, AppearsConcat
    <2> QED
        BY <1>5, <2>2, <2>3
<1> HIDE DEF h6
<1>7. \A w \in HeaderWords : Appears(ConstantDeclarations, w) \/ Appears(GlobalVariables, w)
    BY ConstantsPassive, GlobalsPassive DEF HeaderWords
<1> QED
    BY <1>1, <1>6, <1>7

-----------------------------------------------------------------------------
\* Different numbers have different ranks.
LEMMA RanksDiffer ==
    ASSUME NEW S \in SUBSET Nat, IsFiniteSet(S), NEW v \in S, NEW w \in S, Rank(S, v) = Rank(S, w)
    PROVE  v = w
<1>1. ASSUME NEW x \in S, NEW y \in S, x < y
      PROVE  Rank(S, x) # Rank(S, y)
    <2> DEFINE X == {z \in S : z < x}
               Y == {z \in S : z < y}
    <2>1. IsFiniteSet(Y)
        BY FS_Subset
    <2>2. X \in SUBSET Y
        <3>1. \A z \in S : z < x => z < y
            BY <1>1
        <3> QED
            BY <3>1
    <2>3. x \in Y /\ x \notin X
        BY <1>1
    <2>4. X # Y
        BY <2>3
    <2>5. Rank(S, x) = Cardinality(X) /\ Rank(S, y) = Cardinality(Y)
        BY DEF Rank
    <2> HIDE DEF X, Y
    <2>6. Cardinality(Y) = Cardinality(X) => Y = X
        BY <2>1, <2>2, FS_Subset
    <2> QED
        BY <2>4, <2>5, <2>6
<1>2. v < w \/ w < v \/ v = w
    OBVIOUS
<1> QED
    BY <1>1, <1>2

\* The constant of a number that is needed.
LEMMA ImmediateAppears ==
    ASSUME Accepted, NEW v \in Needed
    PROVE  Appears(Immediates, Constant(G.type_uint, 39 + Rank(Needed, v), v))
<1>1. Needed \in SUBSET Nat /\ IsFiniteSet(Needed)
    BY NeededNumbers DEF Accepted
<1>2. PICK n : n = Cardinality(Needed)
    OBVIOUS
<1>3. PICK k : k = Rank(Needed, v)
    OBVIOUS
<1>4. n \in Nat /\ k \in 0 .. (n - 1)
    BY <1>1, <1>2, <1>3, RanksFill
<1>5. NthNeeded(k) = v
    <2>1. NthNeeded(k) \in Needed /\ Rank(Needed, NthNeeded(k)) = k
        BY <1>3 DEF NthNeeded
    <2> QED
        BY <1>1, <1>3, <2>1, RanksDiffer
<1>6. k + 1 \in 1 .. n /\ 39 + (k + 1) - 1 = 39 + k /\ (k + 1) - 1 = k
    BY <1>4
<1>7. Immediates[k + 1] = Constant(G.type_uint, 39 + (k + 1) - 1, NthNeeded((k + 1) - 1))
    BY <1>2, <1>6 DEF Immediates
<1>8. Immediates[k + 1] = Constant(G.type_uint, 39 + k, v)
    BY <1>5, <1>6, <1>7
<1>9. Len(Immediates) = n
    BY <1>2, ImmediatesDeclared
<1> QED
    BY <1>3, <1>6, <1>8, <1>9 DEF Appears

\* The constants of the immediates.
LEMMA ImmediatesPassive ==
    ASSUME Accepted
    PROVE  Passive(Immediates)
<1>1. PICK n : n = Cardinality(Needed)
    OBVIOUS
<1>2. n \in Nat /\ Immediates \in Seq(Instruction) /\ Len(Immediates) = n
    BY <1>1, ImmediatesDeclared
<1>3. ASSUME NEW k \in 1 .. n
      PROVE  Valued(Immediates[k])
    <2>1. Immediates[k] = Constant(G.type_uint, 39 + k - 1, NthNeeded(k - 1))
        BY <1>1 DEF Immediates
    <2>2. 39 + k - 1 \in Nat \ {0}
        BY <1>2
    <2> QED
        BY <2>1, <2>2, TypesNotNull, InertWords
<1> QED
    BY <1>2, <1>3 DEF Passive, Listing

\* The first words of the function.
LEMMA OpenedPassive ==
    ASSUME NEW e
    PROVE  Passive(Opened(e))
<1>1. PICK w : w = Label(e) /\ Inert(w)
    BY InertWords DEF Label
<1>2. Inert(FunctionWord)
    BY DEF FunctionWord, Inert
<1>3. Opened(e) = <<FunctionWord, w>>
    BY <1>1 DEF Opened
<1>4. PICK f : f = FunctionWord
    OBVIOUS
<1>5. <<f, w>> \in Seq({f, w}) /\ Len(<<f, w>>) = 2 /\ <<f, w>>[1] = f /\ <<f, w>>[2] = w
    OBVIOUS
<1>6. \A k \in 1 .. 2 : k = 1 \/ k = 2
    OBVIOUS
<1>7. \A k \in 1 .. 2 : Inert(<<f, w>>[k])
    BY <1>1, <1>2, <1>4, <1>5, <1>6
<1> QED
    BY <1>3, <1>4, <1>5, <1>7 DEF Passive, Listing

\* A row of variables.
LEMMA RowPassive ==
    ASSUME NEW m \in Nat \ {0}, NEW n \in Nat, NEW type, \A k \in 1 .. n : type[k] \in Types
    PROVE  /\ Passive(VariableRow(m, n, type))
           /\ \A k \in 1 .. n : Appears(VariableRow(m, n, type), Variable(type[k], m + k - 1, "Function"))
<1>1. PICK r : r = VariableRow(m, n, type)
    OBVIOUS
<1>2. r = [k \in 1 .. n |-> Variable(type[k], m + k - 1, "Function")]
    BY <1>1 DEF VariableRow
<1>3. r \in Seq({r[k] : k \in 1 .. n}) /\ Len(r) = n
    <2>1. PICK S : S = {r[k] : k \in 1 .. n}
        OBVIOUS
    <2>2. \A k \in 1 .. n : r[k] \in S
        BY <2>1
    <2>3. r = [k \in 1 .. n |-> r[k]]
        BY <1>2
    <2>4. r \in [1 .. n -> S]
        BY <2>2, <2>3
    <2>5. r \in Seq(S) /\ Len(r) = n
        BY <2>4, FunctionSequence
    <2> QED
        BY <2>1, <2>5
<1>4. ASSUME NEW k \in 1 .. n
      PROVE  Valued(r[k]) /\ r[k] = Variable(type[k], m + k - 1, "Function")
    <2>1. m + k - 1 \in Nat \ {0} /\ type[k] # 0
        BY DEF Types
    <2> QED
        BY <1>2, <2>1, InertWords
<1>5. Passive(r)
    BY <1>3, <1>4 DEF Passive, Listing
<1>6. ASSUME NEW k \in 1 .. n
      PROVE  Appears(r, Variable(type[k], m + k - 1, "Function"))
    BY <1>3, <1>4 DEF Appears
<1> QED
    BY <1>1, <1>5, <1>6

\* The words of the declarations that the rest uses.
DeclaredWords(m) ==
    (HeaderWords \cup {Constant(G.type_uint, 39 + Rank(Needed, v), v) : v \in Needed})
        \cup ({Variable(RegisterTypes[k], m + k - 1, "Function") : k \in 1 .. (3 * NumRegs)}
                \cup {Variable(PredicateTypes[k], (m + 3 * NumRegs) + k - 1, "Function") : k \in 1 .. 8})

\* The declarations are passive, and hold them.
LEMMA DeclarationPassive ==
    ASSUME Accepted, NEW e, NEW m \in Nat \ {0}
    PROVE  Passive(Declaration(e, m)) /\ \A w \in DeclaredWords(m) : Appears(Declaration(e, m), w)
<1> DEFINE u == VariableRow(m, 3 * NumRegs, RegisterTypes)
           v == VariableRow(m + 3 * NumRegs, 8, PredicateTypes)
           h1 == Header \o Immediates
           h2 == h1 \o Opened(e)
           h3 == h2 \o u
           h4 == h3 \o v
<1>1. Declaration(e, m) = h4
    BY DEF Declaration
<1>2. /\ Passive(u) /\ Passive(v)
      /\ \A k \in 1 .. (3 * NumRegs) : Appears(u, Variable(RegisterTypes[k], m + k - 1, "Function"))
      /\ \A k \in 1 .. 8 : Appears(v, Variable(PredicateTypes[k], (m + 3 * NumRegs) + k - 1, "Function"))
    <2>1. PICK c : c = 3 * NumRegs /\ c \in Nat
        BY NumRegsAssumption
    <2>2. m + c \in Nat \ {0} /\ 8 \in Nat
        BY <2>1
    <2>3. (\A k \in 1 .. c : RegisterTypes[k] \in Types) /\ \A k \in 1 .. 8 : PredicateTypes[k] \in Types
        BY <2>1, ViewTypes
    <2>4. /\ Passive(VariableRow(m, c, RegisterTypes))
          /\ \A k \in 1 .. c : Appears(VariableRow(m, c, RegisterTypes), Variable(RegisterTypes[k], m + k - 1, "Function"))
        BY <2>1, <2>3, RowPassive
    <2>5. /\ Passive(VariableRow(m + c, 8, PredicateTypes))
          /\ \A k \in 1 .. 8 : Appears(VariableRow(m + c, 8, PredicateTypes),
                                       Variable(PredicateTypes[k], (m + c) + k - 1, "Function"))
        BY <2>2, <2>3, RowPassive
    <2> QED
        BY <2>1, <2>4, <2>5
<1>3. Passive(Header) /\ Passive(Immediates) /\ Passive(Opened(e))
    BY HeaderPassive, ImmediatesPassive, OpenedPassive
<1> HIDE DEF u, v
<1>4. Passive(h1) /\ \A w : Appears(Header, w) \/ Appears(Immediates, w) => Appears(h1, w)
    BY <1>3, PassiveConcat, AppearsConcat DEF Passive
<1> HIDE DEF h1
<1>5. Passive(h2) /\ \A w : Appears(h1, w) => Appears(h2, w)
    BY <1>3, <1>4, PassiveConcat, AppearsConcat DEF Passive
<1> HIDE DEF h2
<1>6. Passive(h3) /\ \A w : Appears(h2, w) \/ Appears(u, w) => Appears(h3, w)
    BY <1>2, <1>5, PassiveConcat, AppearsConcat DEF Passive
<1> HIDE DEF h3
<1>7. Passive(h4) /\ \A w : Appears(h3, w) \/ Appears(v, w) => Appears(h4, w)
    BY <1>2, <1>6, PassiveConcat, AppearsConcat DEF Passive
<1> HIDE DEF h4
<1>8. \A w \in HeaderWords : Appears(h4, w)
    BY <1>4, <1>5, <1>6, <1>7, HeaderPassive
<1>9. \A x \in Needed : Appears(h4, Constant(G.type_uint, 39 + Rank(Needed, x), x))
    BY <1>4, <1>5, <1>6, <1>7, ImmediateAppears
<1>10. \A k \in 1 .. (3 * NumRegs) : Appears(h4, Variable(RegisterTypes[k], m + k - 1, "Function"))
    BY <1>2, <1>6, <1>7
<1>11. \A k \in 1 .. 8 : Appears(h4, Variable(PredicateTypes[k], (m + 3 * NumRegs) + k - 1, "Function"))
    BY <1>2, <1>7
<1> QED
    BY <1>1, <1>7, <1>8, <1>9, <1>10, <1>11 DEF DeclaredWords

\* What the declarations leave, the first variable of the function being m.
Furnished(t, m) ==
    /\ t.env[G.const_uint_0] = 0 /\ t.env[G.const_uint_1] = 1 /\ t.env[G.const_uint_2] = 2
    /\ t.env[G.const_uint_3] = 3 /\ t.env[G.const_ulong_4] = 4
    /\ t.env[G.var_global_id] = Slot(G.var_global_id) /\ t.env[G.var_local_id] = Slot(G.var_local_id)
    /\ t.env[G.var_workgroup_id] = Slot(G.var_workgroup_id)
    /\ t.env[G.var_push_params] = Slot(G.var_push_params)
    /\ \A v \in Needed : t.env[39 + Rank(Needed, v)] = v
    /\ \A x \in m .. (m + 3 * NumRegs + 7) : t.env[x] = Slot(x)

\* A word that appears has its value.
LEMMA AppearsMeans ==
    ASSUME NEW s, NEW t, NEW c, Executed(s, t, c, Len(c)), NEW w, Appears(c, w), Valued(w)
    PROVE  t.env[w.id] = Meaning(w)
BY DEF Executed, Appears

\* The declarations of the module run.
DeclarationRuns(e, m, n, seed) ==
    \E t : Leads(Initial(n), seed, Declaration(e, m), t) /\ InBlock(t) /\ t.m = n /\ Furnished(t, m)

\* The declarations run, and leave the memory as it was.
LEMMA DeclarationLeads ==
    ASSUME Accepted, NEW e, NEW m, NEW b, Numbered(e, m, b), NEW n, NEW seed
    PROVE  DeclarationRuns(e, m, n, seed)
<1>1. m \in Nat \ {0} /\ e \in Nat /\ e > 38 /\ b \in Nat \ {0} /\ Cardinality(Needed) \in Nat
    <2>1. NumRegs \in Nat
        BY NumRegsAssumption
    <2> QED
        BY <2>1 DEF Numbered
<1>2. PICK c : c = Declaration(e, m)
    OBVIOUS
<1>3. Passive(c) /\ \A w \in DeclaredWords(m) : Appears(c, w)
    BY <1>1, <1>2, DeclarationPassive
<1>4. \A j, k \in 1 .. Len(c) : c[j].id = c[k].id /\ c[j].id # 0 => j = k
    <2>1. PICK d : d = Parameters(m, b)
        OBVIOUS
    <2>2. PICK r : r = c \o d
        OBVIOUS
    <2>3. Once(r)
        <3>1. PICK E, f : Ready(Declaration(e, m) \o Parameters(m, b), E, f, m, b)
            BY PrologueReady
        <3> QED
            BY <1>2, <2>1, <2>2, <3>1 DEF Ready, Sound
    <2>4. Listing(d)
        <3>1. Header \in Seq(Instruction) /\ GidLoad(b) \in Seq(Instruction) /\ CountLoad(b) \in Seq(Instruction)
              /\ StoreViews(m, b + 1, b + 2) \in Seq(Instruction)
              /\ StoreViews(m + 9, b + 5, b + 6) \in Seq(Instruction)
              /\ FlattenSeq(BufferLoads(b)) \in Seq(Instruction)
            BY <1>1, Pieces, HeaderParts
        <3>2. PICK p, q, x, y, z : p = GidLoad(b) /\ q = StoreViews(m, b + 1, b + 2) /\ x = CountLoad(b)
                                   /\ y = StoreViews(m + 9, b + 5, b + 6) /\ z = FlattenSeq(BufferLoads(b))
            OBVIOUS
        <3>3. Listing(p) /\ Listing(q) /\ Listing(x) /\ Listing(y) /\ Listing(z)
            BY <3>1, <3>2 DEF Listing
        <3>4. Listing(p \o q)
            BY <3>3, ListingConcat
        <3>5. Listing((p \o q) \o x)
            BY <3>3, <3>4, ListingConcat
        <3>6. Listing(((p \o q) \o x) \o y)
            BY <3>3, <3>5, ListingConcat
        <3>7. Listing((((p \o q) \o x) \o y) \o z)
            BY <3>3, <3>6, ListingConcat
        <3> QED
            BY <2>1, <3>2, <3>7 DEF Parameters
    <2>5. Joins(r, c, d) /\ Len(c) \in Nat /\ Len(d) \in Nat
        BY <1>3, <2>2, <2>4, ListingConcat, ListingLength DEF Passive
    <2>6. \A k \in 1 .. Len(c) : k \in 1 .. Len(r) /\ r[k] = c[k]
        BY <2>5 DEF Joins
    <2> QED
        BY <2>3, <2>6 DEF Once
<1>5. Declarative(c)
    BY <1>3, <1>4 DEF Declarative, Passive
<1>6. InBlock(Initial(n)) /\ Initial(n).m = n
    BY DEF InBlock, Initial
<1>7. PICK s : s = Initial(n)
    OBVIOUS
<1>8. PICK t : Leads(s, seed, c, t) /\ Executed(s, t, c, Len(c))
    BY <1>5, <1>6, <1>7, DeclarativeLeads
<1>9. InBlock(t) /\ t.m = n
    BY <1>6, <1>7, <1>8 DEF Executed
<1>10. \A w \in DeclaredWords(m) : Valued(w) => t.env[w.id] = Meaning(w)
    BY <1>3, <1>8, AppearsMeans
<1>11. ASSUME NEW type, type # 0, NEW id \in Nat \ {0}, NEW v, Constant(type, id, v) \in DeclaredWords(m)
       PROVE  t.env[id] = v
    <2>1. PICK w : w = Constant(type, id, v)
        OBVIOUS
    <2>2. Valued(w) /\ w.id = id /\ w.op = "Constant" /\ w.lits[1] = v
        BY <1>11, <2>1, InertWords DEF Constant
    <2>3. t.env[w.id] = Meaning(w)
        BY <1>10, <1>11, <2>1, <2>2
    <2> QED
        BY <2>2, <2>3 DEF Meaning
<1>12. ASSUME NEW type, type # 0, NEW id \in Nat \ {0}, NEW v, Variable(type, id, v) \in DeclaredWords(m)
       PROVE  t.env[id] = Slot(id)
    <2>1. PICK w : w = Variable(type, id, v)
        OBVIOUS
    <2>2. Valued(w) /\ w.id = id /\ w.op # "Constant"
        BY <1>12, <2>1, InertWords DEF Variable
    <2>3. t.env[w.id] = Meaning(w)
        BY <1>10, <1>12, <2>1, <2>2
    <2> QED
        BY <2>2, <2>3 DEF Meaning
<1>13. HeaderWords \subseteq DeclaredWords(m)
    BY DEF DeclaredWords
<1>14. /\ t.env[G.const_uint_0] = 0 /\ t.env[G.const_uint_1] = 1 /\ t.env[G.const_uint_2] = 2
       /\ t.env[G.const_uint_3] = 3 /\ t.env[G.const_ulong_4] = 4
    <2>1. /\ G.type_uint # 0 /\ G.type_ulong # 0
          /\ G.const_uint_0 \in Nat \ {0} /\ G.const_uint_1 \in Nat \ {0} /\ G.const_uint_2 \in Nat \ {0}
          /\ G.const_uint_3 \in Nat \ {0} /\ G.const_ulong_4 \in Nat \ {0}
        BY Ids
    <2> HIDE DEF G
    <2>2. t.env[G.const_uint_0] = 0
        BY <1>11, <1>13, <2>1 DEF HeaderWords
    <2>3. t.env[G.const_uint_1] = 1
        BY <1>11, <1>13, <2>1 DEF HeaderWords
    <2>4. t.env[G.const_uint_2] = 2
        BY <1>11, <1>13, <2>1 DEF HeaderWords
    <2>5. t.env[G.const_uint_3] = 3
        BY <1>11, <1>13, <2>1 DEF HeaderWords
    <2>6. t.env[G.const_ulong_4] = 4
        BY <1>11, <1>13, <2>1 DEF HeaderWords
    <2> QED
        BY <2>2, <2>3, <2>4, <2>5, <2>6
<1>15. /\ t.env[G.var_global_id] = Slot(G.var_global_id) /\ t.env[G.var_local_id] = Slot(G.var_local_id)
       /\ t.env[G.var_workgroup_id] = Slot(G.var_workgroup_id)
       /\ t.env[G.var_push_params] = Slot(G.var_push_params)
    <2>1. /\ G.ptr_input_v3uint # 0 /\ G.ptr_push_params # 0
          /\ G.var_global_id \in Nat \ {0} /\ G.var_local_id \in Nat \ {0} /\ G.var_workgroup_id \in Nat \ {0}
          /\ G.var_push_params \in Nat \ {0}
        BY Ids
    <2>2. t.env[G.var_global_id] = Slot(G.var_global_id)
        BY <1>12, <1>13, <2>1 DEF HeaderWords
    <2>3. t.env[G.var_local_id] = Slot(G.var_local_id)
        BY <1>12, <1>13, <2>1 DEF HeaderWords
    <2>4. t.env[G.var_workgroup_id] = Slot(G.var_workgroup_id)
        BY <1>12, <1>13, <2>1 DEF HeaderWords
    <2>5. t.env[G.var_push_params] = Slot(G.var_push_params)
        BY <1>12, <1>13, <2>1 DEF HeaderWords
    <2> QED
        BY <2>2, <2>3, <2>4, <2>5
<1>16. ASSUME NEW v \in Needed
       PROVE  t.env[39 + Rank(Needed, v)] = v
    <2>1. Needed \in SUBSET Nat /\ IsFiniteSet(Needed)
        BY NeededNumbers DEF Accepted
    <2>2. PICK k : k = Rank(Needed, v) /\ k \in Nat
        BY <1>1, <2>1, RanksFill
    <2>3. 39 + k \in Nat \ {0} /\ G.type_uint # 0
        BY <2>2, TypesNotNull
    <2>4. Constant(G.type_uint, 39 + k, v) \in DeclaredWords(m)
        BY <2>2 DEF DeclaredWords
    <2> QED
        BY <1>11, <2>2, <2>3, <2>4
<1>17. ASSUME NEW x \in m .. (m + 3 * NumRegs + 7)
       PROVE  t.env[x] = Slot(x)
    <2>1. PICK c3 : c3 = 3 * NumRegs /\ c3 \in Nat
        BY NumRegsAssumption
    <2>2. x \in Nat \ {0} /\ x \in m .. (m + c3 + 7)
        BY <1>1, <2>1
    <2>3. CASE x < m + c3
        <3>1. PICK k \in 1 .. c3 : x = m + k - 1
            <4>1. (x - m) + 1 \in 1 .. c3 /\ x = m + ((x - m) + 1) - 1
                BY <1>1, <2>1, <2>2, <2>3
            <4> QED
                BY <4>1
        <3>2. RegisterTypes[k] # 0
            BY <2>1, ViewTypes DEF Types
        <3>3. Variable(RegisterTypes[k], x, "Function") \in DeclaredWords(m)
            BY <2>1, <3>1 DEF DeclaredWords
        <3> QED
            BY <1>12, <2>2, <3>2, <3>3
    <2>4. CASE x >= m + c3
        <3>1. PICK k \in 1 .. 8 : x = (m + c3) + k - 1
            <4>1. (x - (m + c3)) + 1 \in 1 .. 8 /\ x = (m + c3) + ((x - (m + c3)) + 1) - 1
                BY <1>1, <2>1, <2>2, <2>4
            <4> QED
                BY <4>1
        <3>2. PredicateTypes[k] # 0
            BY ViewTypes DEF Types
        <3>3. Variable(PredicateTypes[k], x, "Function") \in DeclaredWords(m)
            BY <2>1, <3>1 DEF DeclaredWords
        <3> QED
            BY <1>12, <2>2, <3>2, <3>3
    <2> QED
        BY <1>1, <2>1, <2>2, <2>3, <2>4
<1>18. Furnished(t, m)
    BY <1>14, <1>15, <1>16, <1>17 DEF Furnished
<1> QED
    BY <1>2, <1>7, <1>8, <1>9, <1>18 DEF DeclarationRuns

\* What the ABI put into memory.
LEMMA AbiInputs ==
    ASSUME NEW l
    PROVE  /\ <<33, 0>> \in DOMAIN Memory(l) /\ Memory(l)[<<33, 0>>] = l.gid
           /\ <<36, 3>> \in DOMAIN Memory(l) /\ Memory(l)[<<36, 3>>] = l.n
           /\ \A k \in 0 .. 2 : <<36, k>> \in DOMAIN Memory(l) /\ Memory(l)[<<36, k>>] = Buffers[k + 1]
           /\ ElementOf(1, l.gid) \in DOMAIN Memory(l) /\ ElementOf(2, l.gid) \in DOMAIN Memory(l)
           /\ \A q \in DOMAIN Memory(l) : q[1] = 0 \/ q[1] \in 33 .. 36
           /\ \A q \in DOMAIN Memory(l) : q[1] = 0 => q \in {ElementOf(1, l.gid), ElementOf(2, l.gid)}
<1>1. G.var_global_id = 33 /\ G.var_local_id = 34 /\ G.var_workgroup_id = 35 /\ G.var_push_params = 36
    BY Ids
<1> DEFINE D == ({G.var_global_id} \X {0}) \cup ({G.var_local_id, G.var_workgroup_id} \X (0..2))
                  \cup ({G.var_push_params} \X (0..3)) \cup {ElementOf(1, l.gid), ElementOf(2, l.gid)}
<1>2. <<33, 0>> \in D /\ <<36, 3>> \in D /\ \A k \in 0 .. 2 : <<36, k>> \in D
    BY <1>1
<1>3. /\ \A x : <<33, x>> # ElementOf(1, l.gid) /\ <<33, x>> # ElementOf(2, l.gid)
      /\ \A x : <<36, x>> # ElementOf(1, l.gid) /\ <<36, x>> # ElementOf(2, l.gid)
    BY DEF ElementOf
<1>4. /\ Input(l, <<33, 0>>) = l.gid
      /\ Input(l, <<36, 3>>) = l.n
      /\ \A k \in 0 .. 2 : Input(l, <<36, k>>) = Buffers[k + 1]
    <2>1. /\ <<33, 0>>[1] = 33 /\ \A x : <<36, x>>[1] = 36 /\ <<36, x>>[2] = x
          /\ \A k \in 0 .. 2 : k # 3
        OBVIOUS
    <2> QED
        BY <1>1, <2>1 DEF Input
<1>5. Memory(l) = [p \in D |-> IF p = ElementOf(1, l.gid) THEN A(l.gid)
                               ELSE IF p = ElementOf(2, l.gid) THEN B(l.gid)
                               ELSE Input(l, p)]
    BY DEF Memory
<1>6. ElementOf(1, l.gid) \in D /\ ElementOf(2, l.gid) \in D
    OBVIOUS
<1>7. \A q \in D : \/ q[1] \in 33 .. 36
                   \/ q[1] = 0 /\ q \in {ElementOf(1, l.gid), ElementOf(2, l.gid)}
    <2>1. \A q : q \in {ElementOf(1, l.gid), ElementOf(2, l.gid)} => q[1] = 0
        BY DEF ElementOf
    <2>2. \A q \in {33} \X {0} : q[1] = 33
        OBVIOUS
    <2>3. \A q \in {34, 35} \X (0..2) : q[1] \in 33 .. 36
        OBVIOUS
    <2>4. \A q \in {36} \X (0..3) : q[1] = 36
        OBVIOUS
    <2> QED
        BY <1>1, <2>1, <2>2, <2>3, <2>4
<1> HIDE DEF D
<1>8. DOMAIN Memory(l) = D
    BY <1>5
<1>9. Memory(l)[<<33, 0>>] = l.gid
    BY <1>2, <1>3, <1>4, <1>5
<1>10. Memory(l)[<<36, 3>>] = l.n
    BY <1>2, <1>3, <1>4, <1>5
<1>11. \A k \in 0 .. 2 : Memory(l)[<<36, k>>] = Buffers[k + 1]
    BY <1>2, <1>3, <1>4, <1>5
<1>12. \A q \in D : q[1] = 0 \/ q[1] \in 33 .. 36
    BY <1>7
<1>13. \A q \in D : q[1] = 0 => q \in {ElementOf(1, l.gid), ElementOf(2, l.gid)}
    <2>1. 0 \notin 33 .. 36
        OBVIOUS
    <2> QED
        BY <1>7, <2>1
<1> QED
    BY <1>2, <1>6, <1>8, <1>9, <1>10, <1>11, <1>12, <1>13

\* It can be read as long as only variables of the function have changed.
AbiReads(l, n, seed) ==
    /\ Read(n, seed, G.type_uint, <<33, 0>>) = l.gid
    /\ Read(n, seed, G.type_uint, <<36, 3>>) = l.n
    /\ \A k \in 0 .. 2 : Read(n, seed, G.type_ulong, <<36, k>>) = Buffers[k + 1]

\* What the prologue reads of the ABI.
LEMMA AbiRead ==
    ASSUME NEW l, NEW n, NEW X, Keeps(Memory(l), n, X), \A x \in X : x \in Nat /\ x > 38, NEW seed
    PROVE  AbiReads(l, n, seed)
<1>1. \A q : (q \in DOMAIN Memory(l) /\ \A x \in X : q # Slot(x)) => q \in DOMAIN n /\ n[q] = Memory(l)[q]
    BY KeptAt
<1>2. \A x \in X : x # 33 /\ x # 36
    OBVIOUS
<1>3. \A k : \A x \in X : <<33, k>> # Slot(x) /\ <<36, k>> # Slot(x)
    BY <1>2 DEF Slot
<1>4. /\ <<33, 0>> \in DOMAIN Memory(l) /\ Memory(l)[<<33, 0>>] = l.gid
      /\ <<36, 3>> \in DOMAIN Memory(l) /\ Memory(l)[<<36, 3>>] = l.n
      /\ \A k \in 0 .. 2 : <<36, k>> \in DOMAIN Memory(l) /\ Memory(l)[<<36, k>>] = Buffers[k + 1]
    BY AbiInputs
<1>5. Read(n, seed, G.type_uint, <<33, 0>>) = l.gid
    <2>1. \A x \in X : <<33, 0>> # Slot(x)
        BY <1>3
    <2>2. <<33, 0>> \in DOMAIN n /\ n[<<33, 0>>] = Memory(l)[<<33, 0>>]
        BY <1>1, <1>4, <2>1
    <2> QED
        BY <1>4, <2>2 DEF Read
<1>6. Read(n, seed, G.type_uint, <<36, 3>>) = l.n
    <2>1. \A x \in X : <<36, 3>> # Slot(x)
        BY <1>3
    <2>2. <<36, 3>> \in DOMAIN n /\ n[<<36, 3>>] = Memory(l)[<<36, 3>>]
        BY <1>1, <1>4, <2>1
    <2> QED
        BY <1>4, <2>2 DEF Read
<1>7. ASSUME NEW k \in 0 .. 2
      PROVE  Read(n, seed, G.type_ulong, <<36, k>>) = Buffers[k + 1]
    <2>1. \A x \in X : <<36, k>> # Slot(x)
        BY <1>3
    <2>2. <<36, k>> \in DOMAIN Memory(l) /\ Memory(l)[<<36, k>>] = Buffers[k + 1]
        BY <1>4
    <2>3. <<36, k>> \in DOMAIN n /\ n[<<36, k>>] = Memory(l)[<<36, k>>]
        BY <1>1, <2>1, <2>2
    <2> QED
        BY <2>2, <2>3 DEF Read
<1> QED
    BY <1>5, <1>6, <1>7 DEF AbiReads

\* The ids the declarations leave lie below b.
Laid(m, b) ==
    /\ m \in Nat /\ m > 38 + Cardinality(Needed) /\ b \in Nat /\ b > m + 3 * NumRegs + 10
    /\ Cardinality(Needed) \in Nat
    /\ \A v \in Needed : Rank(Needed, v) \in 0 .. (Cardinality(Needed) - 1)

\* The values of the declarations stay.
LEMMA FurnishedStays ==
    ASSUME NEW m, NEW b, Laid(m, b), NEW s, NEW t, Furnished(s, m), NEW e \in Nat, b <= e, Spares(e, s, t)
    PROVE  Furnished(t, m)
<1>1. PICK c : c = 3 * NumRegs /\ c \in Nat
    BY NumRegsAssumption
<1>2. PICK n : n = Cardinality(Needed) /\ n \in Nat
    BY DEF Laid
<1>3. m \in Nat /\ m > 38 + n /\ b \in Nat /\ b > m + c + 10
    BY <1>1, <1>2 DEF Laid
<1>4. \A x \in Nat : x < b => t.env[x] = s.env[x]
    BY <1>3 DEF Spares
<1>5. \A x \in 23 .. 36 : x \in Nat /\ x < b
    BY <1>1, <1>2, <1>3
<1>6. \A x \in 23 .. 36 : t.env[x] = s.env[x]
    BY <1>4, <1>5
<1>7. ASSUME NEW v \in Needed
      PROVE  t.env[39 + Rank(Needed, v)] = v
    <2>1. PICK k \in 0 .. (n - 1) : k = Rank(Needed, v)
        BY <1>2 DEF Laid
    <2>2. 39 + k \in Nat /\ 39 + k < b
        BY <1>1, <1>2, <1>3
    <2> QED
        BY <1>4, <2>1, <2>2 DEF Furnished
<1>8. ASSUME NEW x \in m .. (m + 3 * NumRegs + 7)
      PROVE  t.env[x] = Slot(x)
    <2>1. x \in Nat /\ x < b
        <3>1. x \in m .. (m + c + 7)
            BY <1>1
        <3> QED
            BY <1>1, <1>3, <3>1
    <2> QED
        BY <1>4, <2>1 DEF Furnished
<1>9. /\ t.env[G.const_uint_0] = 0 /\ t.env[G.const_uint_1] = 1 /\ t.env[G.const_uint_2] = 2
      /\ t.env[G.const_uint_3] = 3 /\ t.env[G.const_ulong_4] = 4
      /\ t.env[G.var_global_id] = Slot(G.var_global_id) /\ t.env[G.var_local_id] = Slot(G.var_local_id)
      /\ t.env[G.var_workgroup_id] = Slot(G.var_workgroup_id)
      /\ t.env[G.var_push_params] = Slot(G.var_push_params)
    <2>1. /\ G.const_uint_0 \in 23 .. 36 /\ G.const_uint_1 \in 23 .. 36 /\ G.const_uint_2 \in 23 .. 36
          /\ G.const_uint_3 \in 23 .. 36 /\ G.const_ulong_4 \in 23 .. 36
          /\ G.var_global_id \in 23 .. 36 /\ G.var_local_id \in 23 .. 36 /\ G.var_workgroup_id \in 23 .. 36
          /\ G.var_push_params \in 23 .. 36
        BY Ids
    <2>2. /\ t.env[G.const_uint_0] = s.env[G.const_uint_0] /\ t.env[G.const_uint_1] = s.env[G.const_uint_1]
          /\ t.env[G.const_uint_2] = s.env[G.const_uint_2] /\ t.env[G.const_uint_3] = s.env[G.const_uint_3]
          /\ t.env[G.const_ulong_4] = s.env[G.const_ulong_4]
          /\ t.env[G.var_global_id] = s.env[G.var_global_id] /\ t.env[G.var_local_id] = s.env[G.var_local_id]
          /\ t.env[G.var_workgroup_id] = s.env[G.var_workgroup_id]
          /\ t.env[G.var_push_params] = s.env[G.var_push_params]
        BY <1>6, <2>1
    <2> QED
        BY <2>2 DEF Furnished
<1> QED
    BY <1>7, <1>8, <1>9 DEF Furnished

\* The value of an id an instruction gave one stays when ids from e on get theirs.
LEMMA SparedStays ==
    ASSUME NEW e \in Nat, NEW s, NEW t, Spares(e, s, t), NEW x \in Nat, x < e
    PROVE  t.env[x] = s.env[x]
BY DEF Spares

\* The buffers are loaded.
BuffersRun(s, seed, b) ==
    \E t : /\ Runs(s, seed, FlattenSeq(BufferLoads(b)), t, b + 8, {}) /\ t.m = s.m
           /\ t.env[b + 9] = Buffers[1] /\ t.env[b + 11] = Buffers[2] /\ t.env[b + 13] = Buffers[3]

\* The addresses of the three buffers are loaded.
LEMMA BuffersLoad ==
    ASSUME NEW m, NEW b, Laid(m, b), NEW s, InBlock(s), Furnished(s, m), NEW l, NEW seed, AbiReads(l, s.m, seed)
    PROVE  BuffersRun(s, seed, b)
<1> DEFINE x == <<Chain(G.ptr_push_ulong, b + 8, G.var_push_params, G.const_uint_0),
                  Load(G.type_ulong, b + 9, b + 8)>>
           y == <<Chain(G.ptr_push_ulong, b + 10, G.var_push_params, G.const_uint_1),
                  Load(G.type_ulong, b + 11, b + 10)>>
           z == <<Chain(G.ptr_push_ulong, b + 12, G.var_push_params, G.const_uint_2),
                  Load(G.type_ulong, b + 13, b + 12)>>
<1>1. /\ b \in Nat \ {0} /\ b + 8 \in Nat /\ b + 9 \in Nat /\ b + 10 \in Nat /\ b + 11 \in Nat
      /\ b + 12 \in Nat /\ b + 13 \in Nat
      /\ b + 9 >= b + 8 /\ b + 11 >= b + 10 /\ b + 13 >= b + 12 /\ b + 8 >= b + 8 /\ b + 10 >= b + 10
      /\ b + 12 >= b + 12 /\ b + 8 <= b + 10 /\ b + 8 <= b + 12 /\ b <= b + 8 /\ b <= b + 10 /\ b + 9 < b + 10 /\ b + 11 < b + 12
      /\ b + 9 < b + 12
    <2>1. b \in Nat /\ b > 0
        <3>1. PICK c : c = 3 * NumRegs /\ c \in Nat
            BY NumRegsAssumption
        <3>2. b > m + c + 10 /\ m \in Nat /\ b \in Nat
            BY <3>1 DEF Laid
        <3> QED
            BY <3>1, <3>2
    <2> QED
        BY <2>1
<1>2. x \in Seq(Instruction) /\ y \in Seq(Instruction) /\ z \in Seq(Instruction)
    <2>1. /\ b + 8 \in Nat \ {0} /\ b + 9 \in Nat \ {0} /\ b + 10 \in Nat \ {0} /\ b + 11 \in Nat \ {0}
          /\ b + 12 \in Nat \ {0} /\ b + 13 \in Nat \ {0} /\ b + 8 # b + 9 /\ b + 10 # b + 11 /\ b + 12 # b + 13
        BY <1>1
    <2>2. \A E, c, D : Code(E, c, D) => c \in Seq(Instruction)
        BY DEF Code
    <2>3. {G.const_uint_0, G.const_uint_1, G.const_uint_2, G.var_push_params} \subseteq Known(GlobalPairs)
        BY GlobalsKnown
    <2>4. Code(GlobalPairs, x, {<<b + 8, G.ptr_push_ulong>>, <<b + 9, G.type_ulong>>})
        BY <2>1, <2>3, ChainLoad, ChainSignatures, LoadSignatures
    <2>5. Code(GlobalPairs, y, {<<b + 10, G.ptr_push_ulong>>, <<b + 11, G.type_ulong>>})
        BY <2>1, <2>3, ChainLoad, ChainSignatures, LoadSignatures
    <2>6. Code(GlobalPairs, z, {<<b + 12, G.ptr_push_ulong>>, <<b + 13, G.type_ulong>>})
        BY <2>1, <2>3, ChainLoad, ChainSignatures, LoadSignatures
    <2> QED
        BY <2>2, <2>4, <2>5, <2>6
<1>3. FlattenSeq(BufferLoads(b)) = ((x \o y) \o z)
    BY <1>1, <1>2, BuffersFlattened, ZenonT(60) DEF Buffered
<1>4. ASSUME NEW t, InBlock(t), t.m = s.m, Furnished(t, m)
      PROVE  /\ \E u : Runs(t, seed, x, u, b + 8, {}) /\ u.m = t.m /\ u.env[b + 9] = Buffers[1]
             /\ \E u : Runs(t, seed, y, u, b + 10, {}) /\ u.m = t.m /\ u.env[b + 11] = Buffers[2]
             /\ \E u : Runs(t, seed, z, u, b + 12, {}) /\ u.m = t.m /\ u.env[b + 13] = Buffers[3]
    <2>1. G.var_push_params = 36
        BY Ids
    <2>2. /\ Element(t.env[G.var_push_params], t.env[G.const_uint_0]) = <<36, 0>>
          /\ Element(t.env[G.var_push_params], t.env[G.const_uint_1]) = <<36, 1>>
          /\ Element(t.env[G.var_push_params], t.env[G.const_uint_2]) = <<36, 2>>
        BY <1>4, <2>1 DEF Furnished, Element, Slot
    <2>3. /\ Read(t.m, seed, G.type_ulong, <<36, 0>>) = Buffers[1]
          /\ Read(t.m, seed, G.type_ulong, <<36, 1>>) = Buffers[2]
          /\ Read(t.m, seed, G.type_ulong, <<36, 2>>) = Buffers[3]
        <3>1. 0 \in 0 .. 2 /\ 1 \in 0 .. 2 /\ 2 \in 0 .. 2 /\ 0 + 1 = 1 /\ 1 + 1 = 2 /\ 2 + 1 = 3
            OBVIOUS
        <3> QED
            BY <1>4, <3>1 DEF AbiReads
    <2>4. ReadsThrough(t, seed, G.ptr_push_ulong, G.type_ulong, b + 8, b + 9, G.var_push_params, G.const_uint_0, b + 8,
                Read(t.m, seed, G.type_ulong, Element(t.env[G.var_push_params], t.env[G.const_uint_0])))
        BY <1>1, <1>4, ReadThrough, TypesNotNull
    <2>5. ReadsThrough(t, seed, G.ptr_push_ulong, G.type_ulong, b + 10, b + 11, G.var_push_params, G.const_uint_1, b + 10,
                Read(t.m, seed, G.type_ulong, Element(t.env[G.var_push_params], t.env[G.const_uint_1])))
        BY <1>1, <1>4, ReadThrough, TypesNotNull
    <2>6. ReadsThrough(t, seed, G.ptr_push_ulong, G.type_ulong, b + 12, b + 13, G.var_push_params, G.const_uint_2, b + 12,
                Read(t.m, seed, G.type_ulong, Element(t.env[G.var_push_params], t.env[G.const_uint_2])))
        BY <1>1, <1>4, ReadThrough, TypesNotNull
    <2>7. ReadsThrough(t, seed, G.ptr_push_ulong, G.type_ulong, b + 8, b + 9, G.var_push_params, G.const_uint_0, b + 8, Buffers[1])
        BY <2>2, <2>3, <2>4
    <2>8. ReadsThrough(t, seed, G.ptr_push_ulong, G.type_ulong, b + 10, b + 11, G.var_push_params, G.const_uint_1, b + 10, Buffers[2])
        BY <2>2, <2>3, <2>5
    <2>9. ReadsThrough(t, seed, G.ptr_push_ulong, G.type_ulong, b + 12, b + 13, G.var_push_params, G.const_uint_2, b + 12, Buffers[3])
        BY <2>2, <2>3, <2>6
    <2>10. \E u : Runs(t, seed, x, u, b + 8, {}) /\ u.m = t.m /\ u.env[b + 9] = Buffers[1]
        BY <2>7 DEF ReadsThrough
    <2>11. \E u : Runs(t, seed, y, u, b + 10, {}) /\ u.m = t.m /\ u.env[b + 11] = Buffers[2]
        BY <2>8 DEF ReadsThrough
    <2>12. \E u : Runs(t, seed, z, u, b + 12, {}) /\ u.m = t.m /\ u.env[b + 13] = Buffers[3]
        BY <2>9 DEF ReadsThrough
    <2> QED
        BY <2>10, <2>11, <2>12
<1> HIDE DEF x, y, z
<1>5. PICK t1 : Runs(s, seed, x, t1, b + 8, {}) /\ t1.m = s.m /\ t1.env[b + 9] = Buffers[1]
    BY <1>4
<1>6. InBlock(t1) /\ Furnished(t1, m)
    BY <1>1, <1>5, FurnishedStays DEF Runs
<1>7. PICK t2 : Runs(t1, seed, y, t2, b + 10, {}) /\ t2.m = t1.m /\ t2.env[b + 11] = Buffers[2]
    BY <1>4, <1>5, <1>6
<1>8. InBlock(t2) /\ Furnished(t2, m) /\ t2.m = s.m
    BY <1>1, <1>5, <1>6, <1>7, FurnishedStays DEF Runs
<1>9. PICK t3 : Runs(t2, seed, z, t3, b + 12, {}) /\ t3.m = t2.m /\ t3.env[b + 13] = Buffers[3]
    BY <1>4, <1>8
<1>10. t2.env[b + 9] = Buffers[1]
    BY <1>1, <1>5, <1>7, SparedStays DEF Runs
<1>11. t3.env[b + 9] = Buffers[1] /\ t3.env[b + 11] = Buffers[2]
    BY <1>1, <1>7, <1>9, <1>10, SparedStays DEF Runs
<1>12. Runs(s, seed, x \o y, t2, b + 8, {} \cup {})
    BY <1>1, <1>5, <1>7, RunsConcat
<1>13. Runs(s, seed, x \o y, t2, b + 8, {})
    <2>1. {} \cup {} = {}
        OBVIOUS
    <2> QED
        BY <1>12, <2>1
<1>14. Runs(s, seed, (x \o y) \o z, t3, b + 8, {} \cup {})
    BY <1>1, <1>9, <1>13, RunsConcat
<1>15. Runs(s, seed, (x \o y) \o z, t3, b + 8, {})
    <2>1. {} \cup {} = {}
        OBVIOUS
    <2> QED
        BY <1>14, <2>1
<1>16. t3.m = s.m
    BY <1>8, <1>9
<1> QED
    BY <1>3, <1>9, <1>11, <1>15, <1>16 DEF BuffersRun

\* The variables the parameters go to.
ParameterViews(m) == {m, m + 1, m + 2, m + 9, m + 10, m + 11}

\* The parameters are loaded into two registers and five ids.
ParametersRun(s, seed, l, m, b) ==
    \E t : /\ Runs(s, seed, Parameters(m, b), t, b, ParameterViews(m))
           /\ Stored(t.m, m, l.gid) /\ Stored(t.m, m + 9, l.n)
           /\ t.env[b + 1] = l.gid /\ t.env[b + 5] = l.n
           /\ t.env[b + 9] = Buffers[1] /\ t.env[b + 11] = Buffers[2] /\ t.env[b + 13] = Buffers[3]

\* The numbers below and above the first id of the code.
LEMMA LaidNumbers ==
    ASSUME NEW m, NEW b, Laid(m, b)
    PROVE  /\ b \in Nat /\ b > 38 /\ m \in Nat /\ m > 38 /\ m + 11 < b
           /\ \A k \in 0 .. 14 : b + k \in Nat
           /\ \A k \in 0 .. 11 : m + k \in Nat /\ m + k > 38 /\ m + k < b /\ m + k \in m .. (m + 3 * NumRegs + 7)
<1>1. PICK c : c = 3 * NumRegs /\ c \in Nat /\ c > 11
    <2>1. NumRegs \in Nat /\ NumRegs > 3
        BY NumRegsAssumption
    <2> QED
        BY <2>1
<1>2. PICK n : n = Cardinality(Needed) /\ n \in Nat
    BY DEF Laid
<1>3. m \in Nat /\ m > 38 + n /\ b \in Nat /\ b > m + c + 10
    BY <1>1, <1>2 DEF Laid
<1>4. b > 38 /\ m > 38 /\ m + 11 < b
    BY <1>1, <1>2, <1>3
<1>5. \A k \in 0 .. 14 : b + k \in Nat
    BY <1>3
<1>6. \A k \in 0 .. 11 : m + k \in Nat /\ m + k > 38 /\ m + k < b /\ m + k \in m .. (m + c + 7)
    BY <1>1, <1>3, <1>4
<1> QED
    BY <1>1, <1>3, <1>4, <1>5, <1>6

\* A number in three views stays when other variables change.
LEMMA StoredStays ==
    ASSUME NEW m, NEW n, NEW X, Keeps(m, n, X), NEW u, u \notin X, u + 1 \notin X, u + 2 \notin X,
           NEW v, Stored(m, u, v)
    PROVE  Stored(n, u, v)
BY HoldsStays DEF Stored

\* The code of the parameters runs to the start of the body.
LEMMA ParametersLead ==
    ASSUME NEW m, NEW b, Laid(m, b), NEW s, InBlock(s), Furnished(s, m), NEW l, s.m = Memory(l), NEW seed
    PROVE  ParametersRun(s, seed, l, m, b)
<1>1. /\ b \in Nat /\ b > 38 /\ m \in Nat /\ m > 38 /\ m + 11 < b
      /\ \A k \in 0 .. 14 : b + k \in Nat
      /\ \A k \in 0 .. 11 : m + k \in Nat /\ m + k > 38 /\ m + k < b /\ m + k \in m .. (m + 3 * NumRegs + 7)
    BY LaidNumbers
<1>2. /\ b + 1 \in Nat /\ b + 2 \in Nat /\ b + 4 \in Nat /\ b + 5 \in Nat /\ b + 6 \in Nat /\ b + 8 \in Nat
      /\ b <= b /\ b <= b + 1 /\ b <= b + 2 /\ b <= b + 4 /\ b <= b + 5 /\ b <= b + 6 /\ b <= b + 8
      /\ b + 1 < b + 2 /\ b + 1 < b + 4 /\ b + 1 < b + 6 /\ b + 1 < b + 8 /\ b + 5 < b + 6 /\ b + 5 < b + 8
      /\ m + 2 < b + 2 /\ b >= b /\ b + 1 >= b /\ b + 4 >= b + 4 /\ b + 5 >= b + 4
    BY <1>1
<1>3. PICK r : r = m + 9 /\ r \in Nat /\ r + 2 < b + 6
    BY <1>1
<1>4. r + 1 = m + 10 /\ r + 2 = m + 11
    BY <1>1, <1>3
<1>5. \A t : Furnished(t, m) => Viewed(t, m) /\ Viewed(t, r)
    <2>1. /\ m + 0 \in m .. (m + 3 * NumRegs + 7) /\ m + 1 \in m .. (m + 3 * NumRegs + 7)
          /\ m + 2 \in m .. (m + 3 * NumRegs + 7) /\ m + 9 \in m .. (m + 3 * NumRegs + 7)
          /\ m + 10 \in m .. (m + 3 * NumRegs + 7) /\ m + 11 \in m .. (m + 3 * NumRegs + 7)
        BY <1>1
    <2>2. m + 0 = m
        BY <1>1
    <2> QED
        BY <1>3, <1>4, <2>1, <2>2 DEF Furnished, Viewed
<1>6. ASSUME NEW t, Furnished(t, m)
      PROVE  /\ Element(t.env[G.var_global_id], t.env[G.const_uint_0]) = <<33, 0>>
             /\ Element(t.env[G.var_push_params], t.env[G.const_uint_3]) = <<36, 3>>
    <2>1. G.var_global_id = 33 /\ G.var_push_params = 36
        BY Ids
    <2> QED
        BY <1>6, <2>1 DEF Furnished, Element, Slot
\* The invocation.
<1>7. PICK t1 : Runs(s, seed, GidLoad(b), t1, b, {}) /\ t1.m = s.m /\ t1.env[b + 1] = l.gid
    <2>1. AbiReads(l, s.m, seed)
        <3>1. Keeps(Memory(l), s.m, {})
            BY KeepsSame
        <3> QED
            BY <3>1, AbiRead
    <2>2. ReadsThrough(s, seed, G.ptr_input_uint, G.type_uint, b, b + 1, G.var_global_id, G.const_uint_0, b,
                Read(s.m, seed, G.type_uint, Element(s.env[G.var_global_id], s.env[G.const_uint_0])))
        BY <1>1, <1>2, ReadThrough, TypesNotNull
    <2>3. ReadsThrough(s, seed, G.ptr_input_uint, G.type_uint, b, b + 1, G.var_global_id, G.const_uint_0, b, l.gid)
        BY <1>6, <2>1, <2>2 DEF AbiReads
    <2> QED
        BY <2>3 DEF ReadsThrough, GidLoad
<1>8. InBlock(t1) /\ Furnished(t1, m)
    BY <1>1, <1>2, <1>7, FurnishedStays DEF Runs
<1>9. PICK t2 : Runs(t1, seed, StoreViews(m, b + 1, b + 2), t2, b + 2, {m, m + 1, m + 2}) /\ Stored(t2.m, m, l.gid)
    <2>1. PICK t2 : /\ Runs(t1, seed, StoreViews(m, b + 1, b + 2), t2, b + 2, {m, m + 1, m + 2})
                    /\ Stored(t2.m, m, t1.env[b + 1])
        BY <1>1, <1>2, <1>5, <1>8, StoreViewsRun
    <2> QED
        BY <1>7, <2>1
<1>10. InBlock(t2) /\ Furnished(t2, m) /\ t2.env[b + 1] = l.gid
    <2>1. InBlock(t2) /\ Spares(b + 2, t1, t2)
        BY <1>9 DEF Runs
    <2>2. Furnished(t2, m)
        BY <1>2, <1>8, <2>1, FurnishedStays
    <2>3. t2.env[b + 1] = t1.env[b + 1]
        BY <1>2, <2>1, SparedStays
    <2> QED
        BY <1>7, <2>1, <2>2, <2>3
<1>11. Runs(s, seed, GidLoad(b) \o StoreViews(m, b + 1, b + 2), t2, b, {m, m + 1, m + 2})
    <2>1. Runs(s, seed, GidLoad(b) \o StoreViews(m, b + 1, b + 2), t2, b, {} \cup {m, m + 1, m + 2})
        BY <1>1, <1>2, <1>7, <1>9, RunsConcat
    <2>2. {} \cup {m, m + 1, m + 2} = {m, m + 1, m + 2}
        OBVIOUS
    <2> QED
        BY <2>1, <2>2
\* The count.
<1>12. PICK t3 : Runs(t2, seed, CountLoad(b), t3, b + 4, {}) /\ t3.m = t2.m /\ t3.env[b + 5] = l.n
    <2>1. AbiReads(l, t2.m, seed)
        <3>1. Keeps(Memory(l), t2.m, {m, m + 1, m + 2})
            BY <1>11 DEF Runs
        <3>2. \A x \in {m, m + 1, m + 2} : x \in Nat /\ x > 38
            BY <1>1
        <3> QED
            BY <3>1, <3>2, AbiRead
    <2>2. ReadsThrough(t2, seed, G.ptr_push_uint, G.type_uint, b + 4, b + 5, G.var_push_params, G.const_uint_3, b + 4,
                Read(t2.m, seed, G.type_uint, Element(t2.env[G.var_push_params], t2.env[G.const_uint_3])))
        BY <1>2, <1>10, ReadThrough, TypesNotNull
    <2>3. ReadsThrough(t2, seed, G.ptr_push_uint, G.type_uint, b + 4, b + 5, G.var_push_params, G.const_uint_3, b + 4, l.n)
        BY <1>6, <1>10, <2>1, <2>2 DEF AbiReads
    <2> QED
        BY <2>3 DEF ReadsThrough, CountLoad
<1>13. InBlock(t3) /\ Furnished(t3, m) /\ t3.env[b + 1] = l.gid
    <2>1. InBlock(t3) /\ Spares(b + 4, t2, t3)
        BY <1>12 DEF Runs
    <2>2. Furnished(t3, m)
        BY <1>2, <1>10, <2>1, FurnishedStays
    <2>3. t3.env[b + 1] = t2.env[b + 1]
        BY <1>2, <2>1, SparedStays
    <2> QED
        BY <1>10, <2>1, <2>2, <2>3
<1>14. PICK t4 : Runs(t3, seed, StoreViews(r, b + 5, b + 6), t4, b + 6, {r, r + 1, r + 2}) /\ Stored(t4.m, r, l.n)
    <2>1. PICK t4 : /\ Runs(t3, seed, StoreViews(r, b + 5, b + 6), t4, b + 6, {r, r + 1, r + 2})
                    /\ Stored(t4.m, r, t3.env[b + 5])
        BY <1>2, <1>3, <1>5, <1>13, StoreViewsRun
    <2> QED
        BY <1>12, <2>1
<1>15. InBlock(t4) /\ Furnished(t4, m) /\ t4.env[b + 1] = l.gid /\ t4.env[b + 5] = l.n
    <2>1. InBlock(t4) /\ Spares(b + 6, t3, t4)
        BY <1>14 DEF Runs
    <2>2. Furnished(t4, m)
        BY <1>2, <1>13, <2>1, FurnishedStays
    <2>3. t4.env[b + 1] = t3.env[b + 1] /\ t4.env[b + 5] = t3.env[b + 5]
        BY <1>2, <2>1, SparedStays
    <2> QED
        BY <1>12, <1>13, <2>1, <2>2, <2>3
<1>16. Runs(t2, seed, CountLoad(b) \o StoreViews(r, b + 5, b + 6), t4, b + 4, {r, r + 1, r + 2})
    <2>1. b + 4 <= b + 6
        BY <1>1
    <2>2. Runs(t2, seed, CountLoad(b) \o StoreViews(r, b + 5, b + 6), t4, b + 4, {} \cup {r, r + 1, r + 2})
        BY <1>2, <1>12, <1>14, <2>1, RunsConcat
    <2>3. {} \cup {r, r + 1, r + 2} = {r, r + 1, r + 2}
        OBVIOUS
    <2> QED
        BY <2>2, <2>3
<1>17. Stored(t4.m, m, l.gid)
    <2>1. Keeps(t2.m, t4.m, {r, r + 1, r + 2})
        BY <1>16 DEF Runs
    <2>2. m \notin {r, r + 1, r + 2} /\ m + 1 \notin {r, r + 1, r + 2} /\ m + 2 \notin {r, r + 1, r + 2}
        BY <1>1, <1>3, <1>4
    <2> QED
        BY <1>9, <2>1, <2>2, StoredStays
\* The buffers.
<1>18. PICK Y : Y = {m, m + 1, m + 2} \cup {r, r + 1, r + 2}
    OBVIOUS
<1>19. Keeps(Memory(l), t4.m, Y) /\ Y = ParameterViews(m)
    <2>1. Keeps(s.m, t2.m, {m, m + 1, m + 2}) /\ Keeps(t2.m, t4.m, {r, r + 1, r + 2})
        BY <1>11, <1>16 DEF Runs
    <2>2. Keeps(s.m, t4.m, Y)
        BY <1>18, <2>1, KeepsAdd
    <2> QED
        BY <1>3, <1>4, <1>18, <2>2 DEF ParameterViews
<1>20. AbiReads(l, t4.m, seed)
    <2>1. \A x \in Y : x \in Nat /\ x > 38
        BY <1>1, <1>19 DEF ParameterViews
    <2> QED
        BY <1>19, <2>1, AbiRead
<1>21. PICK t5 : /\ Runs(t4, seed, FlattenSeq(BufferLoads(b)), t5, b + 8, {}) /\ t5.m = t4.m
                 /\ t5.env[b + 9] = Buffers[1] /\ t5.env[b + 11] = Buffers[2] /\ t5.env[b + 13] = Buffers[3]
    BY <1>15, <1>20, BuffersLoad DEF BuffersRun
<1>22. t5.env[b + 1] = l.gid /\ t5.env[b + 5] = l.n
    <2>1. Spares(b + 8, t4, t5)
        BY <1>21 DEF Runs
    <2> QED
        BY <1>2, <1>15, <2>1, SparedStays
\* Together.
<1>23. Runs(s, seed, (GidLoad(b) \o StoreViews(m, b + 1, b + 2)) \o CountLoad(b), t3, b, {m, m + 1, m + 2})
    <2>1. PICK c : c = GidLoad(b) \o StoreViews(m, b + 1, b + 2)
        OBVIOUS
    <2>2. Runs(s, seed, c \o CountLoad(b), t3, b, {m, m + 1, m + 2} \cup {})
        BY <1>1, <1>2, <1>11, <1>12, <2>1, RunsConcat
    <2>3. {m, m + 1, m + 2} \cup {} = {m, m + 1, m + 2}
        OBVIOUS
    <2> QED
        BY <2>1, <2>2, <2>3
<1>24. Runs(s, seed, ((GidLoad(b) \o StoreViews(m, b + 1, b + 2)) \o CountLoad(b)) \o StoreViews(r, b + 5, b + 6),
            t4, b, Y)
    <2>1. PICK c : c = (GidLoad(b) \o StoreViews(m, b + 1, b + 2)) \o CountLoad(b)
        OBVIOUS
    <2>2. Runs(s, seed, c \o StoreViews(r, b + 5, b + 6), t4, b, {m, m + 1, m + 2} \cup {r, r + 1, r + 2})
        BY <1>1, <1>2, <1>14, <1>23, <2>1, RunsConcat
    <2> QED
        BY <1>18, <2>1, <2>2
<1>25. Runs(s, seed, Parameters(m, b), t5, b, ParameterViews(m))
    <2>1. PICK c : c = ((GidLoad(b) \o StoreViews(m, b + 1, b + 2)) \o CountLoad(b)) \o StoreViews(r, b + 5, b + 6)
        OBVIOUS
    <2>2. Runs(s, seed, c \o FlattenSeq(BufferLoads(b)), t5, b, Y \cup {})
        BY <1>1, <1>2, <1>21, <1>24, <2>1, RunsConcat
    <2>3. Y \cup {} = ParameterViews(m)
        BY <1>19
    <2>4. Parameters(m, b) = c \o FlattenSeq(BufferLoads(b))
        BY <1>3, <2>1 DEF Parameters
    <2> QED
        BY <2>2, <2>3, <2>4
<1>26. Stored(t5.m, m, l.gid) /\ Stored(t5.m, m + 9, l.n)
    BY <1>3, <1>14, <1>17, <1>21
<1> QED
    BY <1>21, <1>22, <1>25, <1>26 DEF ParametersRun

-----------------------------------------------------------------------------
(***************************************************************************)
(* The start of the body.                                                  *)
(***************************************************************************)

\* The ids of the prologue lie as they should.
LEMMA NumberedLaid ==
    ASSUME Accepted, NEW e, NEW m, NEW b, Numbered(e, m, b)
    PROVE  Laid(m, b)
<1>1. Needed \in SUBSET Nat /\ IsFiniteSet(Needed)
    BY NeededNumbers DEF Accepted
<1>2. \A v \in Needed : Rank(Needed, v) \in 0 .. (Cardinality(Needed) - 1)
    BY <1>1, RanksFill
<1>3. PICK n : n = Cardinality(Needed)
    OBVIOUS
<1>4. m \in Nat /\ m = 39 + n + 1 /\ b \in Nat /\ b > m + 3 * NumRegs + 10 /\ n \in Nat
    BY <1>3 DEF Numbered
<1>5. m > 38 + n
    BY <1>4
<1> QED
    BY <1>2, <1>3, <1>4, <1>5 DEF Laid

\* The state at the start of the body.
Entered(t, l, m, b) ==
    /\ Laid(m, b) /\ InBlock(t) /\ Furnished(t, m)
    /\ Keeps(Memory(l), t.m, ParameterViews(m))
    /\ Stored(t.m, m, l.gid) /\ Stored(t.m, m + 9, l.n)
    /\ t.env[b + 1] = l.gid /\ t.env[b + 5] = l.n
    /\ t.env[b + 9] = Buffers[1] /\ t.env[b + 11] = Buffers[2] /\ t.env[b + 13] = Buffers[3]

\* The prologue of a module brings an invocation there.
Enters(e, m, b, l, seed) ==
    /\ Listing(Parameters(m, b))
    /\ \E t : Leads(Initial(Memory(l)), seed, Declaration(e, m) \o Parameters(m, b), t) /\ Entered(t, l, m, b)

\* What comes before the body runs.
LEMMA PrologueEnters ==
    ASSUME Accepted, NEW e, NEW m, NEW b, Numbered(e, m, b), Listing(Declaration(e, m)), NEW l, NEW seed
    PROVE  Enters(e, m, b, l, seed)
<1>1. Laid(m, b)
    BY NumberedLaid
<1>2. DeclarationRuns(e, m, Memory(l), seed)
    BY DeclarationLeads
<1>3. PICK s : /\ Leads(Initial(Memory(l)), seed, Declaration(e, m), s)
               /\ InBlock(s) /\ s.m = Memory(l) /\ Furnished(s, m)
    BY <1>2 DEF DeclarationRuns
<1>4. ParametersRun(s, seed, l, m, b)
    BY <1>1, <1>3, ParametersLead
<1>5. PICK t : /\ Runs(s, seed, Parameters(m, b), t, b, ParameterViews(m))
               /\ Stored(t.m, m, l.gid) /\ Stored(t.m, m + 9, l.n)
               /\ t.env[b + 1] = l.gid /\ t.env[b + 5] = l.n
               /\ t.env[b + 9] = Buffers[1] /\ t.env[b + 11] = Buffers[2] /\ t.env[b + 13] = Buffers[3]
    BY <1>4 DEF ParametersRun
<1>6. /\ Listing(Parameters(m, b)) /\ Leads(s, seed, Parameters(m, b), t) /\ InBlock(t)
      /\ Spares(b, s, t) /\ Keeps(s.m, t.m, ParameterViews(m))
    BY <1>5 DEF Runs
<1>7. PICK c, d : c = Declaration(e, m) /\ d = Parameters(m, b)
    OBVIOUS
<1>8. Leads(Initial(Memory(l)), seed, c \o d, t)
    BY <1>3, <1>6, <1>7, LeadsConcat
<1>9. b \in Nat /\ b <= b
    BY <1>1 DEF Laid
<1>10. Furnished(t, m)
    BY <1>1, <1>3, <1>6, <1>9, FurnishedStays
<1>11. Entered(t, l, m, b)
    BY <1>1, <1>3, <1>5, <1>6, <1>10 DEF Entered
<1> QED
    BY <1>6, <1>7, <1>8, <1>11 DEF Enters

\* The frame of the prologue lies under the ids of the body.
LEMMA FrameUnder ==
    ASSUME NEW m, NEW b, Laid(m, b), frame = PrologueFrame(m, b), ImmediateIds
    PROVE  /\ Under(b + 14) /\ frame.reg0 = m /\ frame.gid = b + 1 /\ frame.n = b + 5
           /\ frame.p[0] = b + 9 /\ frame.p[1] = b + 11 /\ frame.p[2] = b + 13
           /\ U(0) = m /\ U(3) = m + 9
<1>1. PICK c : c = 3 * NumRegs /\ c \in Nat /\ c > 11
    <2>1. NumRegs \in Nat /\ NumRegs > 3
        BY NumRegsAssumption
    <2> QED
        BY <2>1
<1>2. PICK n : n = Cardinality(Needed) /\ n \in Nat
    BY DEF Laid
<1>3. m \in Nat /\ m > 38 + n /\ b \in Nat /\ b > m + c + 10
    BY <1>1, <1>2 DEF Laid
<1>4. frame.reg0 = m /\ frame.gid = b + 1 /\ frame.n = b + 5 /\ frame.p = [k \in 0 .. 2 |-> BufferId(b, k)]
    BY DEF PrologueFrame
<1>5. \A k \in 0 .. 2 : frame.p[k] = b + 9 + 2 * k
    BY <1>4 DEF BufferId
<1>6. frame.p[0] = b + 9 /\ frame.p[1] = b + 11 /\ frame.p[2] = b + 13
    BY <1>3, <1>5
<1>7. \A k \in 0 .. 2 : frame.p[k] \in Nat /\ frame.p[k] < b + 14
    BY <1>3, <1>5
<1>8. \A v \in DOMAIN imm_consts : imm_consts[v] \in Nat /\ imm_consts[v] < b + 14
    <2> SUFFICES ASSUME NEW v \in Needed
                 PROVE  39 + Rank(Needed, v) \in Nat /\ 39 + Rank(Needed, v) < b + 14
        BY DEF ImmediateIds
    <2>1. PICK k \in 0 .. (n - 1) : k = Rank(Needed, v)
        BY <1>2 DEF Laid
    <2>2. 39 + k \in Nat /\ 39 + k < b + 14
        BY <1>1, <1>2, <1>3
    <2> QED
        BY <2>1, <2>2
<1>9. U(0) = m /\ U(3) = m + 9
    BY <1>3, <1>4 DEF U
<1>10. /\ b + 14 \in Nat /\ b + 14 > 38 /\ m > 38 /\ m + c + 8 <= b + 14
       /\ b + 1 \in Nat /\ b + 1 < b + 14 /\ b + 5 \in Nat /\ b + 5 < b + 14
    BY <1>1, <1>2, <1>3
<1>11. m + 3 * NumRegs + 8 <= b + 14
    BY <1>1, <1>10
<1>12. Under(b + 14)
    BY <1>3, <1>4, <1>7, <1>8, <1>10, <1>11 DEF Under
<1> QED
    BY <1>4, <1>6, <1>9, <1>12

\* A variable of the function other than those of the parameters holds nothing at first.
LEMMA NothingHeld ==
    ASSUME NEW l, NEW n, NEW X, Keeps(Memory(l), n, X), NEW x \in Nat, x > 38, x \notin X
    PROVE  Slot(x) \notin DOMAIN n
<1>1. \A y \in X : Slot(x) # Slot(y)
    BY SlotsDiffer
<1>2. Slot(x) \in DOMAIN n <=> Slot(x) \in DOMAIN Memory(l)
    BY <1>1 DEF Keeps
<1>3. Slot(x)[1] = x
    BY DEF Slot
<1>4. Slot(x) \notin DOMAIN Memory(l)
    <2>1. x # 0 /\ x \notin 33 .. 36
        OBVIOUS
    <2> QED
        BY <1>3, <2>1, AbiInputs
<1> QED
    BY <1>2, <1>4

\* The frame and the constants of a body that was just entered.
Framed(m, b) == Laid(m, b) /\ frame = PrologueFrame(m, b) /\ ImmediateIds

\* The variables of the parameters, by their registers.
LEMMA ParameterRegisters ==
    ASSUME NEW m, NEW b, Framed(m, b)
    PROVE  /\ ParameterViews(m) = Views(0) \cup Views(3)
           /\ ParameterViews(m) \subseteq Own
           /\ 0 \in Registers /\ 3 \in Registers
<1>1. PICK c : c = 3 * NumRegs /\ c \in Nat /\ c > 11
    <2>1. NumRegs \in Nat /\ NumRegs > 3
        BY NumRegsAssumption
    <2> QED
        BY <2>1
<1>2. U(0) = m /\ U(3) = m + 9 /\ frame.reg0 = m
    BY FrameUnder DEF Framed
<1>3. m \in Nat
    BY DEF Framed, Laid
<1>4. m + 9 + 1 = m + 10 /\ m + 9 + 2 = m + 11
    BY <1>3
<1>5. ParameterViews(m) = Views(0) \cup Views(3)
    BY <1>2, <1>4 DEF ParameterViews, Views
<1>6. Own = m .. (m + c + 7)
    BY <1>1, <1>2 DEF Own
<1>7. {m, m + 1, m + 2, m + 9, m + 10, m + 11} \subseteq m .. (m + c + 7)
    BY <1>1, <1>3
<1>8. 0 \in Registers /\ 3 \in Registers
    BY NumRegsAssumption DEF Registers
<1> QED
    BY <1>5, <1>6, <1>7, <1>8 DEF ParameterViews

\* The declarations put what the arms use where the arms expect it.
LEMMA EnteredLocated ==
    ASSUME NEW m, NEW b, Framed(m, b), NEW t, Furnished(t, m)
    PROVE  Located(t)
<1>1. PICK c : c = 3 * NumRegs /\ c \in Nat
    BY NumRegsAssumption
<1>2. frame.reg0 = m /\ m \in Nat
    BY FrameUnder DEF Framed, Laid
<1>3. \A x \in m .. (m + c + 7) : t.env[x] = Slot(x)
    BY <1>1 DEF Furnished
<1>4. ASSUME NEW r \in Registers
      PROVE  Viewed(t, U(r))
    <2>1. PICK d : d = 3 * r /\ d \in Nat /\ d + 3 <= c
        BY <1>1, NumRegsAssumption DEF Registers
    <2>2. U(r) = m + d
        BY <1>2, <2>1 DEF U
    <2>3. m + d \in m .. (m + c + 7) /\ m + d + 1 \in m .. (m + c + 7) /\ m + d + 2 \in m .. (m + c + 7)
        BY <1>1, <1>2, <2>1
    <2> QED
        BY <1>3, <2>2, <2>3 DEF Viewed
<1>5. ASSUME NEW p \in 0 .. 7
      PROVE  t.env[P(p)] = Slot(P(p))
    <2>1. P(p) = m + c + p
        BY <1>1, <1>2 DEF P
    <2>2. m + c + p \in m .. (m + c + 7)
        BY <1>1, <1>2
    <2> QED
        BY <1>3, <2>1, <2>2
<1>6. \A v \in DOMAIN imm_consts : t.env[imm_consts[v]] = v
    BY DEF Framed, ImmediateIds, Furnished
<1> QED
    BY <1>4, <1>5, <1>6 DEF Located, Furnished

\* Bits, before anything is stored.
LEMMA UndefinedBits ==
    ASSUME NEW seed \in Nat, NEW x \in Nat
    PROVE  BoolUndefined(seed, <<x, 0>>) \in {0, 1} /\ Undefined(seed, <<x, 0>>) \in Uint
<1>1. <<x, 0>>[1] = x
    OBVIOUS
<1>2. PICK y : y = seed * x /\ y \in Nat
    OBVIOUS
<1>3. y % 2 \in {0, 1}
    BY <1>2
<1>4. y % UintSize \in Uint
    BY <1>2, UintRemainder
<1> QED
    BY <1>1, <1>2, <1>3, <1>4 DEF BoolUndefined, Undefined

\* The predicates hold nothing at first.
LEMMA EnteredPredicates ==
    ASSUME NEW m, NEW b, Framed(m, b), NEW l, NEW t, Keeps(Memory(l), t.m, ParameterViews(m)),
           NEW seed \in Nat, NEW p \in 0 .. 7
    PROVE  /\ Read(t.m, seed, G.type_bool, Slot(P(p))) = BoolUndefined(seed, <<P(p), 0>>)
           /\ BoolUndefined(seed, <<P(p), 0>>) \in {0, 1}
<1>1. Under(b + 14)
    BY FrameUnder DEF Framed
<1>2. P(p) \in Nat /\ P(p) > 38 /\ \A r \in Registers : U(r) # P(p) /\ U(r) + 1 # P(p) /\ U(r) + 2 # P(p)
    BY <1>1, PredicatesBelow
<1>3. P(p) \notin ParameterViews(m)
    BY <1>2, ParameterRegisters DEF Views
<1>4. Slot(P(p)) \notin DOMAIN t.m
    BY <1>2, <1>3, NothingHeld
<1>5. Slot(P(p)) = <<P(p), 0>>
    BY DEF Slot
<1> QED
    BY <1>2, <1>4, <1>5, UndefinedBits DEF Read

\* The state the body starts from is settled.
LEMMA EnteredSettled ==
    ASSUME NEW m, NEW b, Framed(m, b), NEW l, NEW t, Entered(t, l, m, b), NEW seed \in Nat
    PROVE  Settled(t, l, seed)
<1>1. /\ frame.gid = b + 1 /\ frame.n = b + 5
      /\ frame.p[0] = b + 9 /\ frame.p[1] = b + 11 /\ frame.p[2] = b + 13
    BY FrameUnder DEF Framed
<1>2. InBlock(t) /\ Located(t)
    BY EnteredLocated DEF Entered
<1>3. t.env[frame.gid] = l.gid /\ t.env[frame.n] = l.n
    BY <1>1 DEF Entered
<1>4. \A k \in 0 .. 2 : t.env[frame.p[k]] = Buffers[k + 1]
    <2>1. /\ t.env[frame.p[0]] = Buffers[1] /\ t.env[frame.p[1]] = Buffers[2] /\ t.env[frame.p[2]] = Buffers[3]
          /\ 0 + 1 = 1 /\ 1 + 1 = 2 /\ 2 + 1 = 3
        BY <1>1 DEF Entered
    <2> QED
        BY <2>1
<1>5. t.env[G.const_ulong_4] = 4
    BY DEF Entered, Furnished
<1>6. Keeps(Memory(l), t.m, Own)
    BY ParameterRegisters, KeepsMore DEF Entered
<1>7. \A p \in 0 .. 7 : Bit(t.m, seed, p)
    BY EnteredPredicates DEF Entered, Bit
<1> QED
    BY <1>2, <1>3, <1>4, <1>5, <1>6, <1>7 DEF Settled

\* The registers the shader starts with are those of the SASS program.
LEMMA EnteredRegisters ==
    ASSUME NEW m, NEW b, Framed(m, b), NEW l \in Launches, NEW t, Entered(t, l, m, b), NEW seed \in Nat,
           NEW k \in Registers
    PROVE  /\ UintOf(t.m, seed, k) = SassStart(l, seed).r[k] /\ SassStart(l, seed).r[k] \in Uint
           /\ k \in {0, 3} => ViewsMatch(t.m, seed, k)
           /\ k = 3 => SassStart(l, seed).r[k] = l.n
<1>1. Under(b + 14) /\ U(0) = m /\ U(3) = m + 9
    BY FrameUnder DEF Framed
<1>2. l.gid \in Uint /\ l.n \in Uint
    BY LaunchParts
<1>3. l.gid % UintSize = l.gid /\ l.n % UintSize = l.n
    BY <1>2, UintRemainder
<1>4. SassStart(l, seed).r[k] = IF k = 0 THEN l.gid ELSE IF k = 3 THEN l.n ELSE Undefined(seed, <<U(k), 0>>)
    BY <1>3 DEF SassStart
<1>5. CASE k = 0
    <2>1. Stored(t.m, U(k), l.gid)
        BY <1>1, <1>5 DEF Entered
    <2> QED
        BY <1>2, <1>4, <1>5, <2>1, ReadHeld DEF Stored, UintOf, FloatOf, UlongOf, ViewsMatch
<1>6. CASE k = 3
    <2>1. Stored(t.m, U(k), l.n)
        BY <1>1, <1>6 DEF Entered
    <2> QED
        BY <1>2, <1>4, <1>6, <2>1, ReadHeld DEF Stored, UintOf, FloatOf, UlongOf, ViewsMatch
<1>7. CASE k # 0 /\ k # 3
    <2>1. U(k) \in Nat /\ U(k) > 38
        BY <1>1, ViewsBelow
    <2>2. U(k) \notin ParameterViews(m)
        <3>1. 0 \in Registers /\ 3 \in Registers /\ ParameterViews(m) = Views(0) \cup Views(3)
            BY ParameterRegisters
        <3>2. U(k) # U(0) /\ U(k) # U(0) + 1 /\ U(k) # U(0) + 2
            BY <1>1, <1>7, <3>1, ViewsDiffer
        <3>3. U(k) # U(3) /\ U(k) # U(3) + 1 /\ U(k) # U(3) + 2
            BY <1>1, <1>7, <3>1, ViewsDiffer
        <3> QED
            BY <3>1, <3>2, <3>3 DEF Views
    <2>3. Slot(U(k)) \notin DOMAIN t.m
        BY <2>1, <2>2, NothingHeld DEF Entered
    <2>4. G.type_uint # G.type_bool
        BY TypesNotNull
    <2>5. UintOf(t.m, seed, k) = Undefined(seed, <<U(k), 0>>)
        BY <2>3, <2>4 DEF UintOf, Read, Slot
    <2> QED
        BY <1>4, <1>7, <2>1, <2>5, UndefinedBits
<1> QED
    BY <1>5, <1>6, <1>7

\* What the shader starts with is what the SASS program starts with.
LEMMA EnteredShadowed ==
    ASSUME NEW m, NEW b, Framed(m, b), NEW l \in Launches, NEW t, Entered(t, l, m, b), NEW seed \in Nat
    PROVE  Shadowed(l, seed, t.m, 0)
<1>1. PICK x : x = SassStart(l, seed)
    OBVIOUS
<1>2. SassLeads(l, seed, 0, x)
    BY <1>1, SassLeadsNone
<1>3. \A k \in Registers : UintOf(t.m, seed, k) = x.r[k] /\ x.r[k] \in Uint
    BY <1>1, EnteredRegisters
<1>4. \A k \in 0 .. 7 : x.p[k] = (BoolUndefined(seed, <<P(k), 0>>) = 1)
    BY <1>1 DEF SassStart
<1>5. /\ x.r = [k \in Registers |-> x.r[k]] /\ x.p = [k \in 0 .. 7 |-> x.p[k]]
      /\ x.known = {0, 3} /\ x.skip = 0
      /\ x = [r |-> x.r, p |-> x.p, known |-> x.known, skip |-> x.skip]
    BY <1>1 DEF SassStart
<1>6. x.r \in [Registers -> Uint]
    BY <1>3, <1>5
<1>7. x.p \in [0 .. 7 -> BOOLEAN]
    <2>1. \A k \in 0 .. 7 : x.p[k] \in BOOLEAN
        BY <1>4
    <2> QED
        BY <1>5, <2>1
<1>8. 0 \in Registers /\ 3 \in Registers
    BY ParameterRegisters
<1>9. Machine(x)
    BY <1>5, <1>6, <1>7, <1>8 DEF Machine
<1>10. \A k \in 0 .. 7 : Read(t.m, seed, G.type_bool, Slot(P(k))) = BoolUndefined(seed, <<P(k), 0>>)
    BY EnteredPredicates DEF Entered
<1>11. \A k \in 0 .. 7 : Read(t.m, seed, G.type_bool, Slot(P(k))) = 1 <=> x.p[k]
    BY <1>4, <1>10
<1>12. Agrees(x, t.m, seed)
    BY <1>3, <1>11 DEF Agrees
<1>13. Coherent(x, t.m, seed)
    BY <1>5, <1>8, EnteredRegisters DEF Coherent
<1>14. x.r[3] = l.n
    BY <1>1, <1>8, EnteredRegisters
<1>15. Twin(x, x)
    <2>1. RZ \notin {0, 3}
        BY NumRegsAssumption DEF RZ
    <2> QED
        BY <1>5, <2>1 DEF Twin
<1>16. ShadowedBy(l, seed, t.m, 0, x, x)
    BY <1>2, <1>5, <1>9, <1>12, <1>13, <1>14, <1>15 DEF ShadowedBy
<1> QED
    BY <1>16 DEF Shadowed

\* Whatever brought an invocation to the start of the body, the body may start there.
StartsBody ==
    \A m, b : Framed(m, b) =>
        /\ Under(b + 14)
        /\ \A l \in Launches, seed \in Seeds : \A t : Entered(t, l, m, b) => Reaches(t, l, seed, 0)

\* It may.
LEMMA BodyStarts == StartsBody
<1> SUFFICES ASSUME NEW m, NEW b, Framed(m, b)
             PROVE  /\ Under(b + 14)
                    /\ \A l \in Launches, seed \in Seeds : \A t : Entered(t, l, m, b) => Reaches(t, l, seed, 0)
    BY DEF StartsBody
<1>1. Under(b + 14)
    BY FrameUnder DEF Framed
<1>2. Seeds \subseteq Nat
    BY LaunchesAssumption
<1>3. ASSUME NEW l \in Launches, NEW seed \in Seeds, NEW t, Entered(t, l, m, b)
      PROVE  Reaches(t, l, seed, 0)
    <2>1. seed \in Nat
        BY <1>2
    <2>2. Settled(t, l, seed)
        BY <1>3, <2>1, EnteredSettled
    <2>3. Shadowed(l, seed, t.m, 0)
        BY <1>3, <2>1, EnteredShadowed
    <2> QED
        BY <2>2, <2>3 DEF Reaches
<1> QED
    BY <1>1, <1>3

-----------------------------------------------------------------------------
(***************************************************************************)
(* The epilogue, run.                                                      *)
(***************************************************************************)

\* What the epilogue reads below its own ids.
Grounds(s, l) ==
    /\ s.env[frame.gid] = l.gid /\ s.env[frame.n] = l.n
    /\ s.env[frame.p[0]] = Buffers[1] /\ s.env[frame.p[1]] = Buffers[2] /\ s.env[frame.p[2]] = Buffers[3]
    /\ s.env[G.const_ulong_4] = 4

\* It stays.
LEMMA GroundsStay ==
    ASSUME NEW b, Under(b), NEW s, NEW l, Grounds(s, l), NEW t, Spares(b, s, t)
    PROVE  Grounds(t, l)
<1>1. /\ b \in Nat /\ frame.gid \in Nat /\ frame.gid < b /\ frame.n \in Nat /\ frame.n < b
      /\ \A k \in 0 .. 2 : frame.p[k] \in Nat /\ frame.p[k] < b
    BY DEF Under
<1>2. G.const_ulong_4 \in Nat /\ G.const_ulong_4 < b
    <2>1. G.const_ulong_4 \in 23 .. 36
        BY Ids
    <2> QED
        BY <2>1 DEF Under
<1>3. 0 \in 0 .. 2 /\ 1 \in 0 .. 2 /\ 2 \in 0 .. 2
    OBVIOUS
<1>4. /\ t.env[frame.gid] = s.env[frame.gid] /\ t.env[frame.n] = s.env[frame.n]
      /\ t.env[frame.p[0]] = s.env[frame.p[0]] /\ t.env[frame.p[1]] = s.env[frame.p[1]]
      /\ t.env[frame.p[2]] = s.env[frame.p[2]] /\ t.env[G.const_ulong_4] = s.env[G.const_ulong_4]
    BY <1>1, <1>2, <1>3 DEF Spares
<1> QED
    BY <1>4 DEF Grounds

\* Twelve words, one by one.
Nested(w1, w2, w3, w4, w5, w6, w7, w8, w9, w10, w11, w12) ==
    LET c2 == Append(Append(<<>>, w1), w2)
        c5 == Append(Append(Append(c2, w3), w4), w5)
        c9 == Append(Append(Append(Append(c5, w6), w7), w8), w9)
    IN  Append(Append(Append(c9, w10), w11), w12)

\* Appended one after the other they are twelve words.
LEMMA TwelveAppended ==
    ASSUME NEW w1, NEW w2, NEW w3, NEW w4, NEW w5, NEW w6, NEW w7, NEW w8, NEW w9, NEW w10, NEW w11, NEW w12
    PROVE  Nested(w1, w2, w3, w4, w5, w6, w7, w8, w9, w10, w11, w12)
              = <<w1, w2, w3, w4, w5, w6, w7, w8, w9, w10, w11, w12>>
<1>1. Append(Append(<<>>, w1), w2) = <<w1, w2>>
    BY PairAppended
<1>2. <<w1, w2, w3>>
        = Append(<<w1, w2>>, w3)
    BY Tuple3
<1>3. <<w1, w2, w3, w4>>
        = Append(<<w1, w2, w3>>, w4)
    BY Tuple4
<1>4. <<w1, w2, w3, w4, w5>>
        = Append(<<w1, w2, w3, w4>>, w5)
    BY Tuple5
<1>5. <<w1, w2, w3, w4, w5, w6>>
        = Append(<<w1, w2, w3, w4, w5>>, w6)
    BY Tuple6
<1>6. <<w1, w2, w3, w4, w5, w6, w7>>
        = Append(<<w1, w2, w3, w4, w5, w6>>, w7)
    BY Tuple7
<1>7. <<w1, w2, w3, w4, w5, w6, w7, w8>>
        = Append(<<w1, w2, w3, w4, w5, w6, w7>>, w8)
    BY Tuple8
<1>8. <<w1, w2, w3, w4, w5, w6, w7, w8, w9>>
        = Append(<<w1, w2, w3, w4, w5, w6, w7, w8>>, w9)
    BY Tuple9
<1>9. <<w1, w2, w3, w4, w5, w6, w7, w8, w9, w10>>
        = Append(<<w1, w2, w3, w4, w5, w6, w7, w8, w9>>, w10)
    BY Tuple10
<1>10. <<w1, w2, w3, w4, w5, w6, w7, w8, w9, w10, w11>>
        = Append(<<w1, w2, w3, w4, w5, w6, w7, w8, w9, w10>>, w11)
    BY Tuple11
<1>11. <<w1, w2, w3, w4, w5, w6, w7, w8, w9, w10, w11, w12>>
        = Append(<<w1, w2, w3, w4, w5, w6, w7, w8, w9, w10, w11>>, w12)
    BY Tuple12
<1> QED
    BY <1>1, <1>2, <1>3, <1>4, <1>5, <1>6, <1>7, <1>8, <1>9, <1>10, <1>11, Zenon DEF Nested

\* The code and an instruction for an id run on to v there.
ValueRuns(s, seed, c, t, b, w, id, v) ==
    \E u : Runs(s, seed, Append(c, w), u, b, {}) /\ Adds1(t, u, id, v)

\* The code and two words that make a pointer run on.
PointerRuns(s, seed, c, t, b, h, j, p, o, q) ==
    \E u : /\ Runs(s, seed, Append(Append(c, Val("IAdd", G.type_ulong, h, <<p, o>>)),
                                   Val("ConvertUToPtr", G.ptr_psb_float, j, <<h>>)), u, b, {})
           /\ u.m = t.m /\ u.env[j] = q /\ Spares(h, t, u)

\* A pointer to the element at an offset from a base.
LEMMA PointerMade ==
    ASSUME NEW c, NEW s, NEW seed, NEW t, NEW b \in Nat, Runs(s, seed, c, t, b, {}),
           NEW h \in Nat, h >= b, NEW j, j = h + 1, NEW p, NEW o
    PROVE  PointerRuns(s, seed, c, t, b, h, j, p, o, <<0, t.env[p] + t.env[o]>>)
<1> DEFINE w1 == Val("IAdd", G.type_ulong, h, <<p, o>>)
           w2 == Val("ConvertUToPtr", G.ptr_psb_float, j, <<h>>)
           v == t.env[p] + t.env[o]
           q == <<0, v>>
<1>1. G.type_ulong # 0 /\ G.ptr_psb_float # 0 /\ G.type_ulong # G.type_uint
    BY TypesNotNull
<1>2. v = Wrap(G.type_ulong, t.env[p] + t.env[o])
    BY <1>1 DEF Wrap
<1>3. ValueRuns(s, seed, c, t, b, w1, h, v)
    BY <1>1, <1>2, RunsBinary DEF ValueRuns
<1> HIDE DEF w1, v
<1>4. PICK u : Runs(s, seed, Append(c, w1), u, b, {}) /\ Adds1(t, u, h, v)
    BY <1>3 DEF ValueRuns
<1>5. InBlock(u) /\ u.m = t.m /\ u.env[h] = v /\ j \in Nat /\ j >= b
    BY <1>4 DEF Runs, Adds1
<1>6. Gives(u, seed, w2, j, q)
    BY <1>1, <1>5, UnaryGives
<1> HIDE DEF w2, q
<1>7. PICK d : d = Append(c, w1)
    OBVIOUS
<1>8. PICK x : Runs(s, seed, Append(d, w2), x, b, {}) /\ Adds1(u, x, j, q)
    BY <1>4, <1>5, <1>6, <1>7, RunsValue
<1>9. x.m = t.m /\ x.env[j] = q
    BY <1>5, <1>8 DEF Adds1
<1>10. Spares(h, t, x)
    BY <1>4, <1>8 DEF Adds1, Spares
<1> QED
    BY <1>7, <1>8, <1>9, <1>10 DEF PointerRuns, w1, w2, v, q

\* A store writes what its pointer points to.
LEMMA StoreStep ==
    ASSUME NEW s, InBlock(s), NEW seed, NEW a, NEW k, NEW q, s.env[a] = q, NEW v, s.env[k] = v
    PROVE  Step(s, seed, Store(a, k)) = [env |-> s.env, m |-> Written(s.m, q, v), next |-> 0]
<1> DEFINE w == Store(a, k)
<1>1. w.op = "Store" /\ w.type = 0 /\ w.args[1] = a /\ w.args[2] = k
    BY DEF Store, Plain
<1> HIDE DEF w
<1>2. PICK e, m : e = s.env /\ m = s.m
    OBVIOUS
<1>3. s = [env |-> e, m |-> m, next |-> 0]
    BY <1>2 DEF InBlock
<1>4. s.next = 0
    BY <1>3
<1>5. Step(s, seed, w) = Execute(s, seed, w)
    BY <1>4 DEF Step
<1>6. Execute(s, seed, w) = [s EXCEPT !.m = Written(s.m, s.env[w.args[1]], s.env[w.args[2]])]
    BY <1>1 DEF Execute
<1>7. Execute(s, seed, w) = [s EXCEPT !.m = Written(m, q, v)]
    BY <1>1, <1>2, <1>6
<1>8. Step(s, seed, w) = [env |-> e, m |-> Written(m, q, v), next |-> 0]
    BY <1>3, <1>5, <1>7
<1> QED
    BY <1>2, <1>8 DEF w

\* Code and a load through a pointer.
LEMMA LoadThrough ==
    ASSUME NEW c, NEW s, NEW seed, NEW t, NEW b \in Nat, Runs(s, seed, c, t, b, {}),
           NEW id \in Nat, id >= b, NEW a, NEW q, t.env[a] = q
    PROVE  ValueRuns(s, seed, c, t, b, Load(G.type_float, id, a), id, Read(t.m, seed, G.type_float, q))
<1>1. InBlock(t)
    BY DEF Runs
<1>2. Gives(t, seed, Load(G.type_float, id, a), id, Read(t.m, seed, G.type_float, t.env[a]))
    BY <1>1, LoadGives, TypesNotNull
<1>3. PICK w, v : w = Load(G.type_float, id, a) /\ v = Read(t.m, seed, G.type_float, q)
    OBVIOUS
<1>4. Gives(t, seed, w, id, v)
    BY <1>2, <1>3
<1>5. \E u : Runs(s, seed, Append(c, w), u, b, {}) /\ Adds1(t, u, id, v)
    BY <1>4, RunsValue
<1> QED
    BY <1>3, <1>5 DEF ValueRuns

\* What the epilogue reads from an element.
ElementRead(m, seed, k, l) == Read(m, seed, G.type_float, ElementOf(k, l.gid))

SumRead(m, seed, l) == Rounded(ElementRead(m, seed, 1, l) + ElementRead(m, seed, 2, l))

\* The sum of two elements is written to the third.
SumRuns(s, seed, b, l) ==
    \E t : /\ Leads(s, seed, SumCode(b), t) /\ InBlock(t) /\ Listing(SumCode(b))
           /\ t.m = Written(s.m, ElementOf(3, l.gid), SumRead(s.m, seed, l))

\* The sum of the epilogue.
LEMMA SumLeads ==
    ASSUME NEW b, Under(b), NEW s, InBlock(s), NEW l \in Launches, Grounds(s, l), NEW seed
    PROVE  SumRuns(s, seed, b, l)
<1> DEFINE w1 == Val("UConvert", G.type_ulong, b + 1, <<frame.gid>>)
           w2 == Val("IMul", G.type_ulong, b + 2, <<b + 1, G.const_ulong_4>>)
           w3 == Val("IAdd", G.type_ulong, b + 3, <<frame.p[0], b + 2>>)
           w4 == Val("ConvertUToPtr", G.ptr_psb_float, b + 4, <<b + 3>>)
           w5 == Load(G.type_float, b + 5, b + 4)
           w6 == Val("IAdd", G.type_ulong, b + 6, <<frame.p[1], b + 2>>)
           w7 == Val("ConvertUToPtr", G.ptr_psb_float, b + 7, <<b + 6>>)
           w8 == Load(G.type_float, b + 8, b + 7)
           w9 == Val("FAdd", G.type_float, b + 9, <<b + 5, b + 8>>)
           w10 == Val("IAdd", G.type_ulong, b + 10, <<frame.p[2], b + 2>>)
           w11 == Val("ConvertUToPtr", G.ptr_psb_float, b + 11, <<b + 10>>)
           w12 == Store(b + 11, b + 9)
<1>1. SumCode(b) = <<w1, w2, w3, w4, w5, w6, w7, w8, w9, w10, w11, w12>>
    BY DEF SumCode
<1>2. /\ b \in Nat
      /\ b + 1 \in Nat /\ b + 1 >= b /\ b + 2 \in Nat /\ b + 2 >= b /\ b + 3 \in Nat /\ b + 3 >= b
      /\ b + 4 = (b + 3) + 1 /\ b + 5 \in Nat /\ b + 5 >= b /\ b + 6 \in Nat /\ b + 6 >= b
      /\ b + 7 = (b + 6) + 1 /\ b + 8 \in Nat /\ b + 8 >= b /\ b + 9 \in Nat /\ b + 9 >= b
      /\ b + 10 \in Nat /\ b + 10 >= b /\ b + 11 = (b + 10) + 1
      /\ b + 2 < b + 3 /\ b + 2 # b + 5 /\ b + 2 < b + 6 /\ b + 5 < b + 6 /\ b + 2 # b + 8 /\ b + 5 # b + 8
      /\ b + 2 # b + 9 /\ b + 9 < b + 10
    BY DEF Under
<1>3. PICK g : g = l.gid /\ g \in Nat /\ 4 * g = g * 4
    <2>1. l.gid \in Nat
        BY LaunchParts, UintRemainder
    <2> QED
        BY <2>1
<1>4. PICK x1, x2, x3 : x1 = Buffers[1] /\ x2 = Buffers[2] /\ x3 = Buffers[3]
    OBVIOUS
<1>5. PICK q1, q2, q3 : /\ q1 = <<0, x1 + g * 4>> /\ q2 = <<0, x2 + g * 4>> /\ q3 = <<0, x3 + g * 4>>
                        /\ q1 = ElementOf(1, g) /\ q2 = ElementOf(2, g) /\ q3 = ElementOf(3, g)
    BY <1>3, <1>4 DEF ElementOf
<1>6. PICK v1, v2, v : /\ v1 = Read(s.m, seed, G.type_float, q1) /\ v2 = Read(s.m, seed, G.type_float, q2)
                       /\ v = Rounded(v1 + v2)
    OBVIOUS
<1>7. /\ G.type_ulong # 0 /\ G.type_float # 0 /\ G.type_ulong # G.type_uint /\ G.type_float # G.type_uint
    BY TypesNotNull
<1>8. \A c, t : Runs(s, seed, c, t, b, {}) => Grounds(t, l)
    BY GroundsStay DEF Runs
<1> DEFINE c1 == Append(<<>>, w1)
           c2 == Append(c1, w2)
<1>9. PICK t1 : Runs(s, seed, c1, t1, b, {}) /\ Adds1(s, t1, b + 1, g)
    <2>1. Runs(s, seed, <<>>, s, b, {})
        BY RunsNone
    <2>2. s.env[frame.gid] = g
        BY <1>3 DEF Grounds
    <2> QED
        BY <1>2, <1>7, <2>1, <2>2, RunsConversion
<1>10. t1.m = s.m /\ t1.env[b + 1] = g /\ t1.env[G.const_ulong_4] = 4
    BY <1>8, <1>9 DEF Adds1, Grounds
<1> HIDE DEF c1, w1
<1>11. PICK t2 : Runs(s, seed, c2, t2, b, {}) /\ Adds1(t1, t2, b + 2, g * 4)
    <2>1. g * 4 = Wrap(G.type_ulong, t1.env[b + 1] * t1.env[G.const_ulong_4])
        BY <1>7, <1>10 DEF Wrap
    <2>2. ValueRuns(s, seed, c1, t1, b, w2, b + 2, g * 4)
        BY <1>2, <1>7, <1>9, <2>1, RunsBinary DEF ValueRuns
    <2> QED
        BY <2>2 DEF ValueRuns
<1>12. t2.m = s.m /\ t2.env[b + 2] = g * 4 /\ t2.env[frame.p[0]] = x1
    BY <1>4, <1>8, <1>10, <1>11 DEF Adds1, Grounds
<1> HIDE DEF c2, w2
<1> DEFINE c4 == Append(Append(c2, w3), w4)
           c5 == Append(c4, w5)
<1>13. PICK t4 : /\ Runs(s, seed, c4, t4, b, {}) /\ t4.m = t2.m /\ t4.env[b + 4] = q1 /\ Spares(b + 3, t2, t4)
    <2>1. PointerRuns(s, seed, c2, t2, b, b + 3, b + 4, frame.p[0], b + 2, <<0, t2.env[frame.p[0]] + t2.env[b + 2]>>)
        BY <1>2, <1>11, PointerMade
    <2>2. PointerRuns(s, seed, c2, t2, b, b + 3, b + 4, frame.p[0], b + 2, q1)
        BY <1>5, <1>12, <2>1
    <2> QED
        BY <2>2 DEF PointerRuns
<1>14. t4.m = s.m /\ t4.env[b + 2] = g * 4
    BY <1>2, <1>12, <1>13, SparedStays
<1> HIDE DEF c4, w3, w4
<1>15. PICK t5 : Runs(s, seed, c5, t5, b, {}) /\ Adds1(t4, t5, b + 5, v1)
    <2>1. ValueRuns(s, seed, c4, t4, b, w5, b + 5, Read(t4.m, seed, G.type_float, q1))
        BY <1>2, <1>13, LoadThrough
    <2>2. ValueRuns(s, seed, c4, t4, b, w5, b + 5, v1)
        BY <1>6, <1>14, <2>1
    <2> QED
        BY <2>2 DEF ValueRuns
<1>16. t5.m = s.m /\ t5.env[b + 5] = v1 /\ t5.env[b + 2] = g * 4 /\ t5.env[frame.p[1]] = x2
    BY <1>2, <1>4, <1>8, <1>14, <1>15 DEF Adds1, Grounds
<1> HIDE DEF c5, w5
<1> DEFINE c7 == Append(Append(c5, w6), w7)
           c8 == Append(c7, w8)
           c9 == Append(c8, w9)
<1>17. PICK t7 : /\ Runs(s, seed, c7, t7, b, {}) /\ t7.m = t5.m /\ t7.env[b + 7] = q2 /\ Spares(b + 6, t5, t7)
    <2>1. PointerRuns(s, seed, c5, t5, b, b + 6, b + 7, frame.p[1], b + 2, <<0, t5.env[frame.p[1]] + t5.env[b + 2]>>)
        BY <1>2, <1>15, PointerMade
    <2>2. PointerRuns(s, seed, c5, t5, b, b + 6, b + 7, frame.p[1], b + 2, q2)
        BY <1>5, <1>16, <2>1
    <2> QED
        BY <2>2 DEF PointerRuns
<1>18. t7.m = s.m /\ t7.env[b + 2] = g * 4 /\ t7.env[b + 5] = v1
    BY <1>2, <1>16, <1>17, SparedStays
<1> HIDE DEF c7, w6, w7
<1>19. PICK t8 : Runs(s, seed, c8, t8, b, {}) /\ Adds1(t7, t8, b + 8, v2)
    <2>1. ValueRuns(s, seed, c7, t7, b, w8, b + 8, Read(t7.m, seed, G.type_float, q2))
        BY <1>2, <1>17, LoadThrough
    <2>2. ValueRuns(s, seed, c7, t7, b, w8, b + 8, v2)
        BY <1>6, <1>18, <2>1
    <2> QED
        BY <2>2 DEF ValueRuns
<1>20. t8.m = s.m /\ t8.env[b + 8] = v2 /\ t8.env[b + 5] = v1 /\ t8.env[b + 2] = g * 4
    BY <1>2, <1>18, <1>19 DEF Adds1
<1> HIDE DEF c8, w8
<1>21. PICK t9 : Runs(s, seed, c9, t9, b, {}) /\ Adds1(t8, t9, b + 9, v)
    <2>1. v = Rounded(t8.env[b + 5] + t8.env[b + 8])
        BY <1>6, <1>20
    <2>2. ValueRuns(s, seed, c8, t8, b, w9, b + 9, v)
        BY <1>2, <1>7, <1>19, <2>1, RunsBinary DEF ValueRuns
    <2> QED
        BY <2>2 DEF ValueRuns
<1>22. t9.m = s.m /\ t9.env[b + 9] = v /\ t9.env[b + 2] = g * 4 /\ t9.env[frame.p[2]] = x3
    BY <1>2, <1>4, <1>8, <1>20, <1>21 DEF Adds1, Grounds
<1> HIDE DEF c9, w9
<1> DEFINE c11 == Append(Append(c9, w10), w11)
           c12 == Append(c11, w12)
<1>23. PICK t11 : /\ Runs(s, seed, c11, t11, b, {}) /\ t11.m = t9.m /\ t11.env[b + 11] = q3
                  /\ Spares(b + 10, t9, t11)
    <2>1. PointerRuns(s, seed, c9, t9, b, b + 10, b + 11, frame.p[2], b + 2, <<0, t9.env[frame.p[2]] + t9.env[b + 2]>>)
        BY <1>2, <1>21, PointerMade
    <2>2. PointerRuns(s, seed, c9, t9, b, b + 10, b + 11, frame.p[2], b + 2, q3)
        BY <1>5, <1>22, <2>1
    <2> QED
        BY <2>2 DEF PointerRuns
<1>24. t11.m = s.m /\ t11.env[b + 9] = v /\ InBlock(t11)
    BY <1>2, <1>22, <1>23, SparedStays DEF Runs
<1> HIDE DEF c11, w10, w11
<1>25. PICK t : t = [env |-> t11.env, m |-> Written(t11.m, q3, v), next |-> 0]
    OBVIOUS
<1>26. Step(t11, seed, w12) = t
    BY <1>23, <1>24, <1>25, StoreStep
<1> HIDE DEF w12
<1>27. Leads(s, seed, c12, t) /\ Listing(c12)
    BY <1>23, <1>26, LeadsAppend, ListingAppend DEF Runs
<1>28. InBlock(t)
    BY <1>24, <1>25 DEF InBlock
<1>29. t.m = Written(s.m, q3, v)
    BY <1>24, <1>25
<1>30. c12 = SumCode(b)
    <2>1. Append(c11, w12) = <<w1, w2, w3, w4, w5, w6, w7, w8, w9, w10, w11, w12>>
        <3>1. Append(c11, w12) = Nested(w1, w2, w3, w4, w5, w6, w7, w8, w9, w10, w11, w12)
            BY Zenon DEF Nested, c1, c2, c4, c5, c7, c8, c9, c11
        <3>2. Nested(w1, w2, w3, w4, w5, w6, w7, w8, w9, w10, w11, w12)
                = <<w1, w2, w3, w4, w5, w6, w7, w8, w9, w10, w11, w12>>
            BY TwelveAppended
        <3> QED
            BY <3>1, <3>2
    <2> QED
        BY <1>1, <2>1
<1> HIDE DEF c12
<1> QED
    BY <1>3, <1>5, <1>6, <1>27, <1>28, <1>29, <1>30 DEF SumRuns, SumRead, ElementRead

\* The end of the function ends the run.
LEMMA FinalLeads ==
    ASSUME NEW s, InBlock(s), NEW seed
    PROVE  (\E t : Leads(s, seed, Final, t) /\ t.m = s.m) /\ Listing(Final)
<1> DEFINE w1 == Plain("Return", <<>>, <<>>)
           w2 == Plain("FunctionEnd", <<>>, <<>>)
           t == [env |-> s.env, m |-> s.m, next |-> Nowhere]
<1>1. /\ w1.op = "Return" /\ w1.type = 0
      /\ w2.op = "FunctionEnd" /\ w2.type = 0
    BY DEF Plain
<1>2. Final = <<w1, w2>>
    BY DEF Final
<1>3. PICK e, m : e = s.env /\ m = s.m
    OBVIOUS
<1>4. s = [env |-> e, m |-> m, next |-> 0]
    BY <1>3 DEF InBlock
<1> HIDE DEF w1, w2
<1>5. Step(s, seed, w1) = t
    <2>1. s.next = 0
        BY <1>4
    <2>2. Step(s, seed, w1) = Execute(s, seed, w1)
        BY <2>1 DEF Step
    <2>3. Execute(s, seed, w1) = [s EXCEPT !.next = Nowhere]
        BY <1>1 DEF Execute
    <2> QED
        BY <1>3, <1>4, <2>2, <2>3
<1>6. Step(t, seed, w2) = t
    <2>1. t.next # 0
        BY DEF Nowhere
    <2> HIDE DEF t
    <2> QED
        BY <1>1, <2>1 DEF Step
<1>7. t.m = s.m
    OBVIOUS
<1> HIDE DEF t
<1> DEFINE c1 == Append(<<>>, w1)
           c2 == Append(c1, w2)
<1>8. Leads(s, seed, c1, t) /\ Listing(c1)
    BY <1>5, LeadsOne
<1> HIDE DEF c1
<1>9. Leads(s, seed, c2, t) /\ Listing(c2)
    BY <1>6, <1>8, LeadsAppend, ListingAppend
<1>10. c2 = <<w1, w2>>
    BY PairAppended DEF c1
<1> QED
    BY <1>2, <1>7, <1>9, <1>10

\* What the epilogue makes of the memory.
Summed(m, seed, l) ==
    IF l.gid < l.n
    THEN Written(m, ElementOf(3, l.gid), SumRead(m, seed, l))
    ELSE m

\* The epilogue runs to the end, and writes the sum when the invocation is within bounds.
EpilogueRuns(s, seed, b, l) ==
    Listing(EpilogueCode(b)) /\ \E t : Leads(s, seed, EpilogueCode(b), t) /\ t.m = Summed(s.m, seed, l)

\* The comparison before it.
BoundsRuns(s, seed, b, l) ==
    \E t : /\ Leads(s, seed, BoundsGuard(b), t) /\ Listing(BoundsGuard(b))
           /\ InBlock(t) /\ Grounds(t, l) /\ t.m = s.m /\ (t.env[b] = 1 <=> l.gid < l.n)

\* The invocation is compared with the count.
LEMMA BoundsLead ==
    ASSUME NEW b, Under(b), NEW s, InBlock(s), NEW l, Grounds(s, l), NEW seed
    PROVE  BoundsRuns(s, seed, b, l)
<1> DEFINE w == Val("ULessThan", G.type_bool, b, <<frame.gid, frame.n>>)
           v == Truth(l.gid < l.n)
<1>1. b \in Nat /\ b >= b
    BY DEF Under
<1>2. G.type_bool # 0
    BY TypesNotNull
<1>3. BoundsGuard(b) = <<w>>
    BY DEF BoundsGuard
<1>4. v = Truth(s.env[frame.gid] < s.env[frame.n])
    BY DEF Grounds
<1>5. v = 1 <=> l.gid < l.n
    BY DEF Truth
<1> HIDE DEF v
<1>6. ValueRuns(s, seed, <<>>, s, b, w, b, v)
    <2>1. Runs(s, seed, <<>>, s, b, {})
        BY RunsNone
    <2> QED
        BY <1>1, <1>2, <1>4, <2>1, RunsBinary DEF ValueRuns
<1> HIDE DEF w
<1>7. PICK t : Runs(s, seed, Append(<<>>, w), t, b, {}) /\ Adds1(s, t, b, v)
    BY <1>6 DEF ValueRuns
<1>8. Append(<<>>, w) = BoundsGuard(b)
    BY <1>3, Tuple1
<1>9. Grounds(t, l)
    BY <1>7, GroundsStay DEF Runs
<1>10. InBlock(t) /\ t.m = s.m /\ t.env[b] = v
    BY <1>7 DEF Runs, Adds1
<1> QED
    BY <1>5, <1>7, <1>8, <1>9, <1>10 DEF BoundsRuns, Runs

\* The sum has no label.
LEMMA SumUnlabelled ==
    ASSUME NEW E, Provides(E), Frames(E), Types \subseteq Known(E), NEW b \in Nat \ {0}
    PROVE  Unlabelled(SumCode(b)) /\ SumCode(b) \in Seq(Instruction)
<1>1. PICK c : c = SumCode(b)
    OBVIOUS
<1>2. PICK D : Code(E, c, D)
    BY <1>1, SumIsCode
<1>3. \A k \in 1 .. Len(c) : c[k].op \in BodyOps
    BY <1>2, CodeFragment
<1> QED
    BY <1>1, <1>2, <1>3 DEF Code, Unlabelled, BodyOps

\* What comes before the sum is code.
LEMMA BoundsWords ==
    ASSUME NEW E, Provides(E), Frames(E), Types \subseteq Known(E), NEW b \in Nat \ {0}, frame.body \in Nat \ {0}, frame.exit \in Nat \ {0},
           Listing(BoundsGuard(b))
    PROVE  BoundsGuard(b) \o Selection(b, frame.body, frame.exit) \in Seq(Instruction)
<1> DEFINE w == Val("ULessThan", G.type_bool, b, <<frame.gid, frame.n>>)
           then == frame.body
           merge == frame.exit
<1>1. BoundsGuard(b) \in Seq(Instruction)
    <2>1. Code(E, <<>>, {})
        BY NoCode
    <2>2. <<"ULessThan", G.type_bool, G.type_uint>> \in Binary
        BY BinarySignatures
    <2>3. b \notin Known({})
        BY KnownPairs
    <2>4. /\ frame.gid \in Nat /\ <<frame.gid, G.type_uint>> \in E \cup {}
          /\ frame.n \in Nat /\ <<frame.n, G.type_uint>> \in E \cup {}
        BY DEF Frames
    <2> DEFINE H == {} \cup {<<b, G.type_bool>>}
    <2>5. Code(E, Append(<<>>, w), H)
        BY <2>1, <2>2, <2>3, <2>4, CodeBinary
    <2>6. BoundsGuard(b) = <<w>>
        BY DEF BoundsGuard
    <2> HIDE DEF w, H
    <2> QED
        BY <2>5, <2>6, Tuple1 DEF Code
<1>2. Selection(b, then, merge) \in Seq(Instruction)
    <2>1. /\ Plain("SelectionMerge", <<>>, <<merge>>) \in Instruction
          /\ Plain("BranchConditional", <<b>>, <<then, merge>>) \in Instruction
          /\ Label(then) \in Instruction
        BY ControlWords
    <2> QED
        BY <2>1 DEF Selection
<1> HIDE DEF then, merge
<1> QED
    BY <1>1, <1>2 DEF then, merge

\* The epilogue.
LEMMA EpilogueLeads ==
    ASSUME NEW E, Provides(E), Frames(E), Types \subseteq Known(E), NEW b, Under(b), frame.body \in Nat \ {0}, frame.exit \in Nat \ {0},
           frame.body # frame.exit,
           NEW s, InBlock(s), NEW l \in Launches, Grounds(s, l), NEW seed
    PROVE  EpilogueRuns(s, seed, b, l)
<1>1. b \in Nat \ {0}
    BY DEF Under
<1>2. PICK p, z : p = BoundsGuard(b) /\ z = SumCode(b)
    OBVIOUS
<1>3. PICK then, merge : then = frame.body /\ merge = frame.exit
    OBVIOUS
<1>4. PICK q, y : q = Selection(b, then, merge) /\ y = <<Branch(merge), Label(merge)>>
    OBVIOUS
<1>5. then # 0 /\ merge # 0 /\ then # merge /\ merge \in Nat
    BY <1>3
<1>6. PICK s1 : /\ Leads(s, seed, p, s1) /\ Listing(p) /\ InBlock(s1) /\ Grounds(s1, l)
                /\ s1.m = s.m /\ (s1.env[b] = 1 <=> l.gid < l.n)
    BY <1>2, BoundsLead DEF BoundsRuns
<1>7. Leads(s1, seed, q, IF s1.env[b] = 1 THEN s1 ELSE Jumped(s1, merge)) /\ Listing(q)
    BY <1>4, <1>5, <1>6, SelectionLeads
<1>8. /\ Leads(s1, seed, y, s1) /\ Leads(Jumped(s1, merge), seed, y, s1) /\ Listing(y)
    BY <1>4, <1>5, <1>6, MergeLeads
<1>9. Unlabelled(z) /\ z \in Seq(Instruction) /\ Listing(z)
    BY <1>1, <1>2, SumUnlabelled DEF Listing
<1>10. EpilogueCode(b) = (((p \o q) \o z) \o y) \o Final
    <2>1. p \o q \in Seq(Instruction)
        BY <1>1, <1>2, <1>3, <1>4, <1>6, BoundsWords
    <2>2. p \o q = BoundsGuard(b) \o Selection(b, frame.body, frame.exit)
        BY <1>2, <1>3, <1>4
    <2>3. EpilogueCode(b) = (((p \o q) \o SumCode(b)) \o <<Branch(frame.exit), Label(frame.exit)>>)
                               \o <<Plain("Return", <<>>, <<>>), Plain("FunctionEnd", <<>>, <<>>)>>
        BY <1>1, <1>2, <1>9, <2>1, <2>2, EpilogueSplit
    <2> QED
        BY <1>2, <1>3, <1>4, <2>3 DEF Final
<1>11. Listing(p \o q)
    BY <1>6, <1>7, ListingConcat
<1>12. Listing((p \o q) \o z)
    BY <1>9, <1>11, ListingConcat
<1>13. Listing(((p \o q) \o z) \o y)
    BY <1>8, <1>12, ListingConcat
<1>14. PICK t : /\ Leads(s, seed, ((p \o q) \o z) \o y, t) /\ InBlock(t)
                /\ t.m = Summed(s.m, seed, l)
    <2>1. CASE l.gid < l.n
        <3>1. Leads(s, seed, p \o q, s1)
            BY <1>6, <1>7, <2>1, LeadsConcat
        <3>2. PICK t : /\ Leads(s1, seed, z, t) /\ InBlock(t)
                       /\ t.m = Written(s1.m, ElementOf(3, l.gid), SumRead(s1.m, seed, l))
            BY <1>2, <1>6, SumLeads DEF SumRuns
        <3>3. Leads(s, seed, (p \o q) \o z, t)
            BY <1>9, <1>11, <3>1, <3>2, LeadsConcat
        <3>4. Leads(t, seed, y, t)
            BY <1>4, <1>5, <3>2, MergeLeads
        <3>5. Leads(s, seed, ((p \o q) \o z) \o y, t)
            BY <1>8, <1>12, <3>3, <3>4, LeadsConcat
        <3>6. t.m = Summed(s.m, seed, l)
            BY <1>6, <2>1, <3>2 DEF Summed
        <3> QED
            BY <3>2, <3>5, <3>6
    <2>2. CASE ~(l.gid < l.n)
        <3>1. PICK j : j = Jumped(s1, merge)
            OBVIOUS
        <3>2. Leads(s, seed, p \o q, j)
            BY <1>6, <1>7, <2>2, <3>1, LeadsConcat
        <3>3. j.next # 0
            BY <1>5, <3>1 DEF Jumped
        <3>4. Leads(j, seed, z, j)
            BY <1>9, <3>3, SkipLeads DEF Unlabelled
        <3>5. Leads(s, seed, (p \o q) \o z, j)
            BY <1>9, <1>11, <3>2, <3>4, LeadsConcat
        <3>6. Leads(s, seed, ((p \o q) \o z) \o y, s1)
            BY <1>8, <1>12, <3>1, <3>5, LeadsConcat
        <3>7. s1.m = Summed(s.m, seed, l)
            BY <1>6, <2>2 DEF Summed
        <3> QED
            BY <1>6, <3>6, <3>7
    <2> QED
        BY <2>1, <2>2
<1>15. PICK u : Leads(t, seed, Final, u) /\ u.m = t.m
    BY <1>14, FinalLeads
<1>16. Listing(Final)
    BY <1>14, FinalLeads
<1>17. PICK x : x = ((p \o q) \o z) \o y
    OBVIOUS
<1>18. Leads(s, seed, x \o Final, u) /\ Listing(x \o Final)
    BY <1>13, <1>14, <1>15, <1>16, <1>17, LeadsConcat, ListingConcat
<1> QED
    BY <1>10, <1>14, <1>15, <1>17, <1>18 DEF EpilogueRuns

-----------------------------------------------------------------------------
(***************************************************************************)
(* What the end of a run shows.                                            *)
(***************************************************************************)

\* Every invocation ends with the registers the program leaves and the sum in memory.
Ending ==
    \E n, w, b :
        /\ n = N /\ n \in Nat /\ w = Module /\ Under(b)
        /\ \A l \in Launches, seed \in Seeds :
              \E s : Reaches(s, l, seed, n) /\ Run(w, Memory(l), seed) = Summed(s.m, seed, l)

\* The sum changes no variable of the function.
LEMMA SummedVariables ==
    ASSUME NEW m, NEW seed, NEW l, NEW x, x # 0, NEW type
    PROVE  Read(Summed(m, seed, l), seed, type, Slot(x)) = Read(m, seed, type, Slot(x))
<1>1. PICK q, v : q = ElementOf(3, l.gid) /\ v = SumRead(m, seed, l)
    OBVIOUS
<1>2. q # Slot(x)
    <2>1. q[1] = 0 /\ Slot(x)[1] = x
        BY <1>1 DEF ElementOf, Slot
    <2> QED
        BY <2>1
<1>3. Read(Written(m, q, v), seed, type, Slot(x)) = Read(m, seed, type, Slot(x))
    <2>1. Slot(x) \in DOMAIN Written(m, q, v) <=> Slot(x) \in DOMAIN m
        BY <1>2 DEF Written
    <2>2. Slot(x) \in DOMAIN m => Written(m, q, v)[Slot(x)] = m[Slot(x)]
        BY <1>2 DEF Written
    <2> HIDE DEF Slot
    <2> QED
        BY <2>1, <2>2 DEF Read
<1> QED
    BY <1>1, <1>3 DEF Summed

\* The variables of the function are not those of the ABI.
LEMMA OwnAbove ==
    ASSUME NEW b, Under(b)
    PROVE  \A x \in Own : x \in Nat /\ x > 38
<1>1. frame.reg0 \in Nat /\ frame.reg0 > 38
    BY DEF Under
<1>2. PICK c : c = 3 * NumRegs /\ c \in Nat
    BY NumRegsAssumption
<1>3. Own = frame.reg0 .. (frame.reg0 + c + 7)
    BY <1>2 DEF Own
<1> QED
    BY <1>1, <1>2, <1>3

\* A variable of the function holds at the end what it held after the body.
LEMMA VariablesKept ==
    ASSUME NEW b, Under(b), NEW m, NEW seed, NEW l
    PROVE  /\ \A k \in Registers : /\ UintOf(Summed(m, seed, l), seed, k) = UintOf(m, seed, k)
                                   /\ FloatOf(Summed(m, seed, l), seed, k) = FloatOf(m, seed, k)
                                   /\ UlongOf(Summed(m, seed, l), seed, k) = UlongOf(m, seed, k)
           /\ \A p \in 0 .. 7 : Read(Summed(m, seed, l), seed, G.type_bool, Slot(P(p)))
                                   = Read(m, seed, G.type_bool, Slot(P(p)))
<1>1. \A k \in Registers : U(k) # 0 /\ U(k) + 1 # 0 /\ U(k) + 2 # 0
    <2> SUFFICES ASSUME NEW k \in Registers
                 PROVE  U(k) # 0 /\ U(k) + 1 # 0 /\ U(k) + 2 # 0
        OBVIOUS
    <2>1. U(k) \in Nat /\ U(k) > 38
        BY ViewsBelow
    <2> QED
        BY <2>1
<1>2. \A p \in 0 .. 7 : P(p) # 0
    <2> SUFFICES ASSUME NEW p \in 0 .. 7
                 PROVE  P(p) # 0
        OBVIOUS
    <2>1. P(p) \in Nat /\ P(p) > 38
        BY PredicatesBelow
    <2> QED
        BY <2>1
<1>3. \A x, type : x # 0 => Read(Summed(m, seed, l), seed, type, Slot(x)) = Read(m, seed, type, Slot(x))
    BY SummedVariables
<1> QED
    BY <1>1, <1>2, <1>3 DEF UintOf, FloatOf, UlongOf

\* What an invocation that kept its meaning ends with: the registers and predicates that
\* the SASS program leaves in z.
EndsAs(z, m, seed) ==
    \E x : /\ Twin(z, x) /\ Machine(x) /\ Agrees(x, m, seed)
           /\ NoLdc => Coherent(x, m, seed)

LEMMA EndShadowed ==
    ASSUME Ending, Tame, NEW l \in Launches, NEW seed \in Seeds
    PROVE  EndsAs(SassRun(l, seed), Run(Module, Memory(l), seed), seed)
<1>1. PICK s : Reaches(s, l, seed, N) /\ Run(Module, Memory(l), seed) = Summed(s.m, seed, l)
    BY DEF Ending
<1>2. PICK z, x : ShadowedBy(l, seed, s.m, N, z, x)
    BY <1>1 DEF Reaches, Shadowed
<1>3. SassRun(l, seed) = z
    BY <1>2, SassRunLeads DEF Ending, ShadowedBy
<1>4. PICK m, n : m = s.m /\ n = Summed(m, seed, l)
    OBVIOUS
<1>5. /\ \A k \in Registers : /\ UintOf(n, seed, k) = UintOf(m, seed, k)
                              /\ FloatOf(n, seed, k) = FloatOf(m, seed, k)
                              /\ UlongOf(n, seed, k) = UlongOf(m, seed, k)
      /\ \A p \in 0 .. 7 : Read(n, seed, G.type_bool, Slot(P(p))) = Read(m, seed, G.type_bool, Slot(P(p)))
    BY <1>4, VariablesKept DEF Ending
<1>6. Twin(z, x) /\ Machine(x) /\ Agrees(x, m, seed) /\ (NoLdc => Coherent(x, m, seed))
    BY <1>2, <1>4 DEF ShadowedBy
<1>7. Agrees(x, n, seed)
    BY <1>5, <1>6 DEF Agrees
<1>8. NoLdc => Coherent(x, n, seed)
    BY <1>5, <1>6 DEF Coherent, ViewsMatch, Machine
<1>9. EndsAs(z, n, seed)
    BY <1>6, <1>7, <1>8 DEF EndsAs
<1> QED
    BY <1>1, <1>3, <1>4, <1>9

\* The registers are the same when every invocation ends as it should.
LEMMA EndingSame == Ending => SemanticsPreserved
<1> SUFFICES ASSUME Ending, Modelled, StraightLine, NoNeverGuard, CountIntact
             PROVE  SameRegisters
    BY DEF SemanticsPreserved
<1>1. Tame
    BY DEF Tame
<1> SUFFICES ASSUME NEW l \in Launches, NEW seed \in Seeds,
                    NEW m, m = Run(Module, Memory(l), seed), NEW z, z = SassRun(l, seed)
             PROVE  /\ \A k \in Registers \ {RZ} : Read(m, seed, G.type_uint, <<U(k), 0>>) = z.r[k]
                    /\ \A k \in 0..(PT - 1) : (Read(m, seed, G.type_bool, <<P(k), 0>>) = 1) = z.p[k]
    BY DEF SameRegisters
<1>2. PICK x : Twin(z, x) /\ Machine(x) /\ Agrees(x, m, seed)
    BY <1>1, EndShadowed DEF EndsAs
<1>3. \A k \in Registers \ {RZ} : Read(m, seed, G.type_uint, <<U(k), 0>>) = z.r[k]
    BY <1>2 DEF Agrees, Twin, UintOf, Slot
<1>4. ASSUME NEW k \in 0..(PT - 1)
      PROVE  (Read(m, seed, G.type_bool, <<P(k), 0>>) = 1) = z.p[k]
    <2>1. k \in 0 .. 7 /\ z.p[k] = x.p[k]
        BY <1>2 DEF PT, Twin
    <2>2. x.p[k] \in BOOLEAN
        BY <1>2, <2>1 DEF Machine
    <2>3. Read(m, seed, G.type_bool, <<P(k), 0>>) = 1 <=> x.p[k]
        BY <1>2, <2>1 DEF Agrees, Slot
    <2>4. (Read(m, seed, G.type_bool, <<P(k), 0>>) = 1) = x.p[k]
        BY <2>2, <2>3
    <2> QED
        BY <2>1, <2>4
<1> QED
    BY <1>3, <1>4

\* So are the views of a register that holds a value.
LEMMA EndingViews == Ending => IntegerViewsCoherent
<1> SUFFICES ASSUME Ending, Modelled, StraightLine, NoNeverGuard, NoLdc
             PROVE  ViewsAgree
    BY DEF IntegerViewsCoherent, NoLdc
<1>1. Tame /\ NoLdc
    BY DEF CountIntact, Tame, NoLdc
<1> SUFFICES ASSUME NEW l \in Launches, NEW seed \in Seeds,
                    NEW m, m = Run(Module, Memory(l), seed), NEW k \in SassRun(l, seed).known
             PROVE  LET u == Read(m, seed, G.type_uint, <<U(k), 0>>)
                    IN  /\ Read(m, seed, G.type_float, <<F(k), 0>>) = Rounded(u)
                        /\ Read(m, seed, G.type_ulong, <<Q(k), 0>>) = u
    BY DEF ViewsAgree
<1>3. PICK x : Twin(SassRun(l, seed), x) /\ Machine(x) /\ Coherent(x, m, seed)
    BY <1>1, EndShadowed DEF EndsAs
<1>4. k \in x.known /\ k \in Registers
    BY <1>3 DEF Twin, Machine
<1>5. FloatOf(m, seed, k) = Rounded(UintOf(m, seed, k)) /\ UlongOf(m, seed, k) = UintOf(m, seed, k)
    BY <1>3, <1>4 DEF Coherent, ViewsMatch
<1>6. F(k) = U(k) + 1 /\ Q(k) = U(k) + 2
    BY <1>4, ViewsBelow DEF Ending
<1> QED
    BY <1>5, <1>6 DEF UintOf, FloatOf, UlongOf, Slot

\* Global memory.
Global(m) == [p \in {q \in DOMAIN m : q[1] = 0} |-> m[p]]

\* Global memory is not changed by the body.
LEMMA GlobalKept ==
    ASSUME NEW b, Under(b), NEW m, NEW n, Keeps(m, n, Own)
    PROVE  Global(n) = Global(m)
<1>1. \A q : q[1] = 0 => \A x \in Own : q # Slot(x)
    <2> SUFFICES ASSUME NEW q, q[1] = 0, NEW x \in Own
                 PROVE  q # Slot(x)
        OBVIOUS
    <2>1. x \in Nat /\ x > 38
        BY OwnAbove
    <2>2. Slot(x)[1] = x
        BY DEF Slot
    <2>3. x # 0
        BY <2>1
    <2> QED
        BY <2>2, <2>3
<1>2. \A q : q[1] = 0 => (q \in DOMAIN n <=> q \in DOMAIN m) /\ (q \in DOMAIN m => n[q] = m[q])
    BY <1>1 DEF Keeps
<1>3. {q \in DOMAIN n : q[1] = 0} = {q \in DOMAIN m : q[1] = 0}
    BY <1>2
<1>4. \A q \in {q \in DOMAIN m : q[1] = 0} : n[q] = m[q]
    BY <1>2
<1> QED
    BY <1>3, <1>4 DEF Global

\* What is written to global memory.
LEMMA GlobalWritten ==
    ASSUME NEW m, NEW e, e[1] = 0, NEW v
    PROVE  Global(Written(m, e, v)) = Written(Global(m), e, v)
<1> DEFINE n == Written(m, e, v)
           x == Global(n)
           y == Written(Global(m), e, v)
           D == {q \in DOMAIN m : q[1] = 0} \cup {e}
<1>1. DOMAIN n = DOMAIN m \cup {e} /\ \A q \in DOMAIN m \cup {e} : n[q] = IF q = e THEN v ELSE m[q]
    BY DEF Written
<1> HIDE DEF n
<1>2. {q \in DOMAIN n : q[1] = 0} = D
    BY <1>1
<1>3. x = [q \in D |-> n[q]]
    BY <1>2 DEF Global
<1>4. DOMAIN Global(m) = {q \in DOMAIN m : q[1] = 0} /\ \A q \in {q \in DOMAIN m : q[1] = 0} : Global(m)[q] = m[q]
    BY DEF Global
<1>5. y = [q \in D |-> IF q = e THEN v ELSE Global(m)[q]]
    BY <1>4 DEF Written
<1>6. \A q \in D : n[q] = IF q = e THEN v ELSE Global(m)[q]
    BY <1>1, <1>4
<1> HIDE DEF x, y, D
<1>7. x = y
    BY <1>3, <1>5, <1>6
<1> QED
    BY <1>7 DEF x, y, n

\* What is read from global memory.
LEMMA GlobalRead ==
    ASSUME NEW m, NEW e, e \in DOMAIN Global(m), NEW seed, NEW type
    PROVE  Read(m, seed, type, e) = Global(m)[e]
BY DEF Read, Global

\* The epilogue does to global memory what the ABI promises.
LEMMA EndingUndisturbed == Ending => EpilogueUndisturbed
<1> SUFFICES ASSUME Ending, NEW l \in Launches, NEW seed \in Seeds
             PROVE  LET before == Global(Memory(l))
                        sum == Rounded(before[ElementOf(1, l.gid)] + before[ElementOf(2, l.gid)])
                    IN  Global(Run(Module, Memory(l), seed)) =
                            IF l.gid < l.n THEN Written(before, ElementOf(3, l.gid), sum) ELSE before
    BY DEF EpilogueUndisturbed, Global
<1>1. PICK s : Reaches(s, l, seed, N) /\ Run(Module, Memory(l), seed) = Summed(s.m, seed, l)
    BY DEF Ending
<1>2. PICK b : Under(b)
    BY DEF Ending
<1>3. PICK m, before : m = s.m /\ before = Global(Memory(l))
    OBVIOUS
<1>4. Keeps(Memory(l), m, Own)
    BY <1>1, <1>3 DEF Reaches, Settled
<1>5. Global(m) = before
    BY <1>2, <1>3, <1>4, GlobalKept
<1>6. PICK e1, e2, e3 : e1 = ElementOf(1, l.gid) /\ e2 = ElementOf(2, l.gid) /\ e3 = ElementOf(3, l.gid)
    OBVIOUS
<1>7. e1[1] = 0 /\ e2[1] = 0 /\ e3[1] = 0
    BY <1>6 DEF ElementOf
<1>8. e1 \in DOMAIN before /\ e2 \in DOMAIN before
    <2>1. e1 \in DOMAIN Memory(l) /\ e2 \in DOMAIN Memory(l)
        BY <1>6, AbiInputs
    <2> QED
        BY <1>3, <1>7, <2>1 DEF Global
<1>9. /\ Read(m, seed, G.type_float, e1) = before[e1]
      /\ Read(m, seed, G.type_float, e2) = before[e2]
    BY <1>5, <1>8, GlobalRead
<1>10. Summed(m, seed, l) = IF l.gid < l.n THEN Written(m, e3, Rounded(before[e1] + before[e2])) ELSE m
    BY <1>6, <1>9 DEF Summed, SumRead, ElementRead
<1>11. Global(Written(m, e3, Rounded(before[e1] + before[e2]))) = Written(before, e3, Rounded(before[e1] + before[e2]))
    BY <1>5, <1>7, GlobalWritten
<1>12. Global(Run(Module, Memory(l), seed)) =
          IF l.gid < l.n THEN Written(before, e3, Rounded(before[e1] + before[e2])) ELSE before
    BY <1>1, <1>3, <1>5, <1>10, <1>11
<1> QED
    BY <1>3, <1>6, <1>12

-----------------------------------------------------------------------------
(***************************************************************************)
(* The next state has the same frame and the same program.                 *)
(***************************************************************************)

\* What the meaning of the shader and of the program is stated with stays as it is.
LEMMA IdsStay ==
    ASSUME UNCHANGED frame
    PROVE  /\ \A r : U(r)' = U(r) /\ F(r)' = F(r) /\ Q(r)' = Q(r)
           /\ \A p : P(p)' = P(p)
           /\ Own' = Own
BY DEF U, F, Q, P, Own

\* So do the program and what it does.
LEMMA ProgramStays ==
    ASSUME UNCHANGED <<decoded, ir>>
    PROVE  /\ N' = N /\ Indices' = Indices /\ \A k : Instr(k)' = Instr(k)
           /\ PastEnd' = PastEnd
<1>1. N' = N /\ \A k : Instr(k)' = Instr(k)
    BY DEF N, Instr
<1>2. Indices' = Indices
    BY <1>1 DEF Indices
<1>3. PastEnd' = PastEnd
    BY <1>1 DEF PastEnd
<1> QED
    BY <1>1, <1>2, <1>3

\* The conditions on the program stay.
LEMMA TameStays ==
    ASSUME UNCHANGED <<decoded, ir>>
    PROVE  (Tame' <=> Tame) /\ (NoLdc' <=> NoLdc)
<1>1. N' = N /\ Indices' = Indices /\ \A k : Instr(k)' = Instr(k)
    BY ProgramStays
<1>2. ir' = ir /\ decoded' = decoded
    OBVIOUS
<1>3. Modelled' <=> Modelled
    BY <1>2 DEF Modelled
<1>4. StraightLine' <=> StraightLine
    BY <1>1, <1>2 DEF StraightLine, Transfers
<1>5. NoNeverGuard' <=> NoNeverGuard
    BY <1>1, <1>2 DEF NoNeverGuard, MayRun
<1>6. CountIntact' <=> CountIntact
    BY <1>2 DEF CountIntact
<1>7. NoLdc' <=> NoLdc
    BY <1>2 DEF NoLdc
<1> QED
    BY <1>3, <1>4, <1>5, <1>6, <1>7 DEF Tame

\* The ids under the code stay.
LEMMA UnderStays ==
    ASSUME UNCHANGED <<frame, imm_consts>>, NEW b
    PROVE  Under(b)' <=> Under(b)
BY DEF Under

\* The SASS program starts and steps as it did.
LEMMA SassStays ==
    ASSUME UNCHANGED <<decoded, ir, frame>>
    PROVE  /\ \A l, seed : SassStart(l, seed)' = SassStart(l, seed)
           /\ \A x, l, k : SassNext(x, l, k)' = SassNext(x, l, k)
<1>1. PastEnd' = PastEnd
    BY ProgramStays
<1>2. /\ \A r : U(r)' = U(r)
      /\ \A p : P(p)' = P(p)
    BY IdsStay
<1>3. ASSUME NEW l, NEW seed
      PROVE  SassStart(l, seed)' = SassStart(l, seed)
    BY <1>2 DEF SassStart
<1>4. ASSUME NEW x, NEW l, NEW k
      PROVE  SassNext(x, l, k)' = SassNext(x, l, k)
    BY <1>1 DEF SassNext, SassStep
<1> QED
    BY <1>3, <1>4

\* So a program leads where it led.
LEMMA LeadsStay ==
    ASSUME UNCHANGED <<decoded, ir, frame>>, NEW l, NEW seed, NEW k, NEW x, SassLeads(l, seed, k, x)
    PROVE  SassLeads(l, seed, k, x)'
<1>1. PICK g : SassTraces(g, l, seed, k) /\ g[k] = x
    BY DEF SassLeads
<1>2. SassTraces(g, l, seed, k)'
    <2>1. SassStart(l, seed)' = SassStart(l, seed) /\ \A j : SassNext(g[j - 1], l, j)' = SassNext(g[j - 1], l, j)
        BY SassStays, ZenonT(60)
    <2> QED
        BY <1>1, <2>1, ZenonT(60) DEF SassTraces
<1> QED
    BY <1>1, <1>2 DEF SassLeads

\* The memory shadows the program as it did.
LEMMA ShadowedStays ==
    ASSUME UNCHANGED <<decoded, ir, frame>>, NEW l, NEW seed, NEW m, NEW k, Shadowed(l, seed, m, k)
    PROVE  Shadowed(l, seed, m, k)'
<1>1. PICK s, x : ShadowedBy(l, seed, m, k, s, x)
    BY DEF Shadowed
<1>2. /\ N' = N /\ \A j : Instr(j)' = Instr(j)
      /\ \A r : U(r)' = U(r)
      /\ \A p : P(p)' = P(p)
    BY ProgramStays, IdsStay
<1>3. SassLeads(l, seed, k, s)'
    BY <1>1, LeadsStay DEF ShadowedBy
<1>4. Agrees(x, m, seed)'
    BY <1>1, <1>2 DEF ShadowedBy, Agrees, UintOf
<1>5. NoLdc' => Coherent(x, m, seed)'
    BY <1>1, <1>2, TameStays DEF ShadowedBy, Coherent, ViewsMatch, UintOf, FloatOf, UlongOf
<1>6. (\A j \in 0 .. (k - 1) : SparesCount(Instr(j)))' => x.r[3] = l.n
    BY <1>1, <1>2 DEF ShadowedBy
<1>7. k < N' => x.skip = 0 /\ s.skip = 0
    BY <1>1, <1>2 DEF ShadowedBy
<1>8. ShadowedBy(l, seed, m, k, s, x)'
    BY <1>1, <1>3, <1>4, <1>5, <1>6, <1>7 DEF ShadowedBy
<1> QED
    BY <1>8 DEF Shadowed

\* The state is settled as it was.
LEMMA SettledStays ==
    ASSUME UNCHANGED <<decoded, ir, frame, imm_consts>>, NEW s, NEW l, NEW seed, Settled(s, l, seed)
    PROVE  Settled(s, l, seed)'
<1>1. /\ \A r : U(r)' = U(r) /\ F(r)' = F(r) /\ Q(r)' = Q(r)
      /\ \A p : P(p)' = P(p)
      /\ Own' = Own
    BY IdsStay
<1>2. Located(s)'
    BY <1>1 DEF Settled, Located, Viewed
<1>3. \A p \in 0 .. 7 : Bit(s.m, seed, p)'
    BY <1>1 DEF Settled, Bit
<1> QED
    BY <1>1, <1>2, <1>3 DEF Settled

\* So is everything that an invocation reaches.
LEMMA ReachesStays ==
    ASSUME UNCHANGED <<decoded, ir, frame, imm_consts>>, NEW s, NEW l, NEW seed, NEW k, Reaches(s, l, seed, k)
    PROVE  Reaches(s, l, seed, k)'
BY SettledStays, ShadowedStays, TameStays DEF Reaches

-----------------------------------------------------------------------------
(***************************************************************************)
(* The invariant.                                                          *)
(***************************************************************************)

\* While the body is written every invocation comes as far as the program has.
Journey ==
    \E k, b, w : /\ k = at /\ b = next_id /\ w = Module /\ Under(b) /\ Listing(w)
                 /\ \A l \in Launches, seed \in Seeds : Arrives(w, l, seed, k)

LiftInv ==
    /\ stage = "body" => Journey
    /\ outcome = "module" => Ending

\* The body goes through a stream that was accepted.
LEMMA BodyStreams ==
    ASSUME Body, CfgInv
    PROVE  Streaming
<1>1. Accepted /\ DOMAIN imm_consts = Needed
    BY ImmediatesProvided DEF Body
<1>2. N \in Nat /\ \A k \in Indices : Instr(k).address \in Nat
    BY DEF CfgInv, Streamed
<1> QED
    BY <1>1, <1>2 DEF Streaming

\* The words the prologue writes after those of the immediates.
SetsOut ==
    \E e, m, b : /\ Accepted /\ ImmediateIds /\ at = 0 /\ Numbered(e, m, b)
                 /\ Module' = Declaration(e, m) \o Parameters(m, b)
                 /\ frame' = PrologueFrame(m, b) /\ next_id' = b + 14

\* The prologue writes them.
LEMMA PrologueSetsOut ==
    ASSUME EmitInv, CfgInv, Prologue
    PROVE  SetsOut
<1>0. PICK e, m, b : e = EntryId /\ m = RegisterId /\ b = CodeId
    OBVIOUS
<1>1. Constants /\ Accepted /\ ImmediateIds /\ words = Immediates /\ at = 0
    BY DEF EmitInv, Prologue, Constants
<1>2. words' = PrologueCode(e, m, b) /\ frame' = PrologueFrame(m, b) /\ next_id' = b + 14
    BY <1>0, PrologueWords
<1>3. Numbered(e, m, b)
    <2>1. blocks \in Seq(Block)
        BY DEF CfgInv, Cutting
    <2>2. Numbered(EntryId, RegisterId, CodeId)
        BY <1>1, <2>1, PrologueIds
    <2> QED
        BY <1>0, <2>2
<1>4. e \in Nat /\ e > 38 /\ m \in Nat \ {0} /\ b \in Nat \ {0}
    <2>1. PICK n : n = Cardinality(Needed) /\ n \in Nat
        BY <1>3 DEF Numbered
    <2>2. e = 39 + n /\ m = e + 1 /\ b \in Nat
        BY <1>3, <2>1 DEF Numbered
    <2>3. b > 38
        BY <1>3, NumberedLaid, LaidNumbers, <1>1
    <2> QED
        BY <2>1, <2>2, <2>3
<1>5. Header \o PrologueCode(e, m, b) = Declaration(e, m) \o Parameters(m, b)
    BY <1>1, <1>4, PrologueModule
<1>6. Module' = Declaration(e, m) \o Parameters(m, b)
    BY <1>2, <1>5 DEF Module
<1> QED
    BY <1>1, <1>2, <1>3, <1>6, SMTT(30) DEF SetsOut

\* The prologue sets out.
LEMMA PrologueJourney ==
    ASSUME EmitInv, CfgInv, Prologue
    PROVE  Journey'
<1>1. SetsOut
    BY PrologueSetsOut
<1>2. PICK e, m, b : /\ Accepted /\ ImmediateIds /\ at = 0 /\ Numbered(e, m, b)
                     /\ Module' = Declaration(e, m) \o Parameters(m, b)
                     /\ frame' = PrologueFrame(m, b) /\ next_id' = b + 14
    BY <1>1 DEF SetsOut
<1>3. UNCHANGED <<decoded, at, imm_consts, ir>>
    BY DEF Prologue, vars
<1>4. Needed' = Needed
    BY <1>3 DEF Needed, Indices, N, Instr
<1>5. Listing(Declaration(e, m)) /\ Listing(Parameters(m, b))
    <2>1. m \in Nat \ {0}
        BY <1>2, NumberedLaid, LaidNumbers
    <2>2. Listing(Declaration(e, m))
        BY <1>2, <2>1, DeclarationPassive DEF Passive
    <2>3. Enters(e, m, b, {}, {})
        BY <1>2, <2>2, PrologueEnters
    <2> QED
        BY <2>2, <2>3 DEF Enters
<1>6. \A l, seed : Enters(e, m, b, l, seed)
    BY <1>2, <1>5, PrologueEnters
<1>7. Laid(m, b) /\ Laid(m, b)'
    <2>1. Laid(m, b)
        BY <1>2, NumberedLaid
    <2> QED
        BY <1>4, <2>1 DEF Laid
<1>8. Framed(m, b)'
    <2>1. ImmediateIds'
        BY <1>2, <1>3, <1>4 DEF ImmediateIds
    <2> QED
        BY <1>2, <1>7, <2>1 DEF Framed
<1>9. StartsBody'
    BY BodyStarts, PTL
<1>10. /\ Under(b + 14)'
       /\ \A l \in Launches, seed \in Seeds : \A t : Entered(t, l, m, b)' => Reaches(t, l, seed, 0)'
    BY <1>8, <1>9 DEF StartsBody
<1>11. ASSUME NEW t, NEW l, Entered(t, l, m, b)
       PROVE  Entered(t, l, m, b)'
    <2>1. Furnished(t, m)'
        BY <1>4, <1>11 DEF Entered, Furnished
    <2> QED
        BY <1>7, <1>11, <2>1 DEF Entered
<1>12. PICK w, d : w = Declaration(e, m) \o Parameters(m, b) /\ d = b + 14
    OBVIOUS
<1>13. \A l \in Launches, seed \in Seeds : Arrives(w, l, seed, 0)'
    <2> SUFFICES ASSUME NEW l \in Launches, NEW seed \in Seeds
                 PROVE  Arrives(w, l, seed, 0)'
        OBVIOUS
    <2>1. PICK t : Leads(Initial(Memory(l)), seed, w, t) /\ Entered(t, l, m, b)
        BY <1>6, <1>12 DEF Enters
    <2>2. Reaches(t, l, seed, 0)'
        BY <1>10, <1>11, <2>1
    <2> QED
        BY <2>1, <2>2 DEF Arrives
<1>14. Listing(w)
    BY <1>5, <1>12, ListingConcat
<1>15. at' = 0 /\ next_id' = d /\ Module' = w /\ Under(d)'
    BY <1>2, <1>3, <1>10, <1>12
<1> QED
    BY <1>13, <1>14, <1>15 DEF Journey

\* Every invocation comes as far as the program has.
Along(w, b, k) ==
    Under(b) /\ Listing(w) /\ \A l \in Launches, seed \in Seeds : Arrives(w, l, seed, k)

\* What arrives goes on arriving.
LEMMA AlongStays ==
    ASSUME UNCHANGED <<decoded, ir, frame, imm_consts>>, NEW w, NEW b, NEW k, Along(w, b, k)
    PROVE  Along(w, b, k)'
<1>1. Under(b)' /\ Listing(w)
    BY UnderStays DEF Along
<1>2. ASSUME NEW l \in Launches, NEW seed \in Seeds
      PROVE  Arrives(w, l, seed, k)'
    <2>1. PICK s : Leads(Initial(Memory(l)), seed, w, s) /\ Reaches(s, l, seed, k)
        BY <1>2 DEF Along, Arrives
    <2>2. Reaches(s, l, seed, k)'
        BY <2>1, ReachesStays
    <2> QED
        BY <2>1, <2>2 DEF Arrives
<1> QED
    BY <1>1, <1>2 DEF Along

\* One instruction takes it on.
LEMMA AlongOn ==
    ASSUME Streaming, NEW k \in Indices, NEW b, NEW w, Along(w, b, k),
           NEW E, Provides(E), Types \subseteq Known(E),
           NEW x, x = LowerInstr(Instr(k), b), x.code \in Seq(Instruction), x.ids \in Nat
    PROVE  Along(w \o x.code, b + x.ids, k + 1)
<1>1. Under(b) /\ Listing(w) /\ b \in Nat
    BY DEF Along, Under
<1>2. Under(b + x.ids)
    <2>1. PICK e : e = b + x.ids /\ e \in Nat /\ b <= e
        BY <1>1
    <2> QED
        BY <1>1, <2>1, UnderMore
<1>3. PICK code : code = x.code
    OBVIOUS
<1>4. Listing(w \o code)
    <2>1. Listing(code)
        BY <1>3 DEF Listing
    <2> QED
        BY <1>1, <2>1, ListingConcat
<1>5. ASSUME NEW l \in Launches, NEW seed \in Seeds
      PROVE  Arrives(w \o code, l, seed, k + 1)
    <2>1. Arrives(w, l, seed, k)
        BY <1>5 DEF Along
    <2>2. code = LowerInstr(Instr(k), b).code
        BY <1>3
    <2> QED
        BY <1>1, <2>1, <2>2, ArrivesOn
<1> QED
    BY <1>2, <1>3, <1>4, <1>5 DEF Along

\* A translated instruction takes every invocation one further.
LEMMA TranslateJourney ==
    ASSUME EmitInv, CfgInv, Translate, Journey
    PROVE  Journey'
<1>1. Body /\ stage = "body"
    BY DEF EmitInv, Translate
<1>2. /\ UNCHANGED <<decoded, imm_consts, frame, ir>>
      /\ at' = at + 1 /\ at < N
      /\ words' = words \o LowerInstr(Instr(at), next_id).code
      /\ next_id' = next_id + LowerInstr(Instr(at), next_id).ids
    BY DEF Translate, vars
<1>3. PICK k, b, w : k = at /\ b = next_id /\ w = Module /\ Along(w, b, k)
    BY DEF Journey, Along
<1>4. PICK x : x = LowerInstr(Instr(k), b)
    OBVIOUS
<1>5. at' = k + 1 /\ words' = words \o x.code /\ next_id' = b + x.ids
    BY <1>2, <1>3, <1>4
<1>6. PICK E, f : Progress(E, f)
    BY <1>1 DEF Body
<1>7. Provides(E) /\ Types \subseteq Known(E) /\ words \in Seq(Instruction)
    BY <1>6 DEF Progress
<1>8. Streaming
    BY <1>1, BodyStreams
<1>9. k \in Indices
    <2>1. k \in 0 .. N /\ k < N /\ N \in Nat
        BY <1>1, <1>2, <1>3, <1>8 DEF Body, Streaming
    <2> QED
        BY <2>1 DEF Indices
<1>10. Lowers(E, x, b)
    <2>1. Legal(Instr(k)) /\ Instr(k).guard \in 0 .. 7 /\ Instr(k).inv \in BOOLEAN
        BY <1>8, <1>9, LegalAt DEF Streaming
    <2>2. b \in Nat \ {0}
        BY <1>3 DEF Along, Under
    <2>3. Lowers(E, LowerInstr(Instr(k), b), b)
        BY <1>7, <2>1, <2>2, LoweredFragment
    <2> QED
        BY <1>4, <2>3
<1>11. x.code \in Seq(Instruction) /\ x.ids \in Nat
    BY <1>10 DEF Lowers, Fragment, Part
<1>12. Along(w \o x.code, b + x.ids, k + 1)
    BY <1>3, <1>4, <1>7, <1>8, <1>9, <1>11, AlongOn
<1>13. Module' = w \o x.code
    <2>1. PICK h : h = Header /\ h \in Seq(Instruction)
        BY HeaderParts
    <2>2. PICK v : v = words /\ v \in Seq(Instruction)
        BY <1>7
    <2>3. PICK c : c = x.code /\ c \in Seq(Instruction)
        BY <1>11
    <2>4. (h \o v) \o c = h \o (v \o c)
        BY <2>1, <2>2, <2>3, Associate, ZenonT(60)
    <2>5. w = h \o v
        BY <1>3, <2>1, <2>2 DEF Module
    <2>6. words' = v \o c
        BY <1>5, <2>2, <2>3
    <2> QED
        BY <2>1, <2>3, <2>4, <2>5, <2>6 DEF Module
<1>14. PICK v, d, j : v = w \o x.code /\ d = b + x.ids /\ j = k + 1
    OBVIOUS
<1>15. Along(v, d, j)
    BY <1>12, <1>14
<1>16. Along(v, d, j)'
    BY <1>2, <1>15, AlongStays
<1>17. at' = j /\ next_id' = d /\ Module' = v
    BY <1>5, <1>13, <1>14
<1> QED
    BY <1>16, <1>17 DEF Journey, Along

\* Every invocation is done.
Done(w, b, n) ==
    /\ n \in Nat /\ Under(b)
    /\ \A l \in Launches, seed \in Seeds :
          \E s : Reaches(s, l, seed, n) /\ Run(w, Memory(l), seed) = Summed(s.m, seed, l)

\* What is done stays done.
LEMMA DoneStays ==
    ASSUME UNCHANGED <<decoded, ir, frame, imm_consts>>, NEW w, NEW b, NEW n, Done(w, b, n)
    PROVE  Done(w, b, n)'
<1>1. Under(b)' /\ n \in Nat
    BY UnderStays DEF Done
<1>2. ASSUME NEW l \in Launches, NEW seed \in Seeds
      PROVE  (\E s : Reaches(s, l, seed, n) /\ Run(w, Memory(l), seed) = Summed(s.m, seed, l))'
    <2>1. PICK s : Reaches(s, l, seed, n) /\ Run(w, Memory(l), seed) = Summed(s.m, seed, l)
        BY <1>2 DEF Done
    <2>2. Reaches(s, l, seed, n)'
        BY <2>1, ReachesStays
    <2> QED
        BY <2>1, <2>2
<1> QED
    BY <1>1, <1>2 DEF Done

\* The epilogue brings it about.
LEMMA AlongDone ==
    ASSUME NEW k, k \in Nat, NEW b, NEW w, Along(w, b, k),
           NEW E, Provides(E), Frames(E), Types \subseteq Known(E),
           frame.body \in Nat \ {0}, frame.exit \in Nat \ {0}, frame.body # frame.exit,
           NEW code, code = EpilogueCode(b)
    PROVE  Done(w \o code, b, k)
<1>1. Under(b) /\ Listing(w)
    BY DEF Along
<1>2. ASSUME NEW l \in Launches, NEW seed \in Seeds
      PROVE  \E s : Reaches(s, l, seed, k) /\ Run(w \o code, Memory(l), seed) = Summed(s.m, seed, l)
    <2>1. PICK s : Leads(Initial(Memory(l)), seed, w, s) /\ Reaches(s, l, seed, k)
        BY <1>2 DEF Along, Arrives
    <2>2. InBlock(s) /\ Grounds(s, l)
        <3>1. Settled(s, l, seed)
            BY <2>1 DEF Reaches
        <3>2. \A h \in 0 .. 2 : s.env[frame.p[h]] = Buffers[h + 1]
            BY <3>1 DEF Settled
        <3>3. s.env[frame.p[0]] = Buffers[1] /\ s.env[frame.p[1]] = Buffers[2] /\ s.env[frame.p[2]] = Buffers[3]
            BY <3>2
        <3> QED
            BY <3>1, <3>3 DEF Settled, Grounds
    <2>3. EpilogueRuns(s, seed, b, l)
        BY <1>1, <1>2, <2>2, EpilogueLeads
    <2>4. PICK t : Leads(s, seed, code, t) /\ t.m = Summed(s.m, seed, l) /\ Listing(code)
        BY <2>3 DEF EpilogueRuns
    <2>5. PICK m : m = Memory(l)
        OBVIOUS
    <2>6. Leads(Initial(m), seed, w \o code, t)
        BY <1>1, <2>1, <2>4, <2>5, LeadsConcat
    <2>7. Listing(w \o code)
        BY <1>1, <2>4, ListingConcat
    <2>8. Run(w \o code, m, seed) = t.m
        BY <2>6, <2>7, RunLeads
    <2> QED
        BY <2>1, <2>4, <2>5, <2>8
<1> QED
    BY <1>1, <1>2 DEF Done

\* The epilogue ends every invocation.
LEMMA EpilogueEnding ==
    ASSUME EmitInv, CfgInv, Epilogue, Journey
    PROVE  Ending'
<1>1. stage = "body" /\ Body
    BY DEF EmitInv, Epilogue
<1>2. /\ UNCHANGED <<decoded, imm_consts, frame, ir>>
      /\ at = N /\ words' = words \o EpilogueCode(next_id)
    BY DEF Epilogue, AllTranslated, vars
<1>3. PICK k, b, w : k = at /\ b = next_id /\ w = Module /\ Along(w, b, k)
    BY DEF Journey, Along
<1>4. PICK code : code = EpilogueCode(b)
    OBVIOUS
<1>5. PICK E, f : Progress(E, f)
    BY <1>1 DEF Body
<1>6. Provides(E) /\ Frames(E) /\ Types \subseteq Known(E) /\ words \in Seq(Instruction)
    BY <1>5 DEF Progress
<1>7. /\ frame.body \in Nat \ {0} /\ frame.exit \in Nat \ {0} /\ frame.body # frame.exit
      /\ next_id \in Nat \ {0}
    <2>1. Accepted /\ ImmediateIds /\ Reserved
        BY <1>1 DEF Body
    <2>2. Cardinality(Needed) \in Nat
        BY <2>1, ImmediatesDeclared
    <2> QED
        BY <2>1, <2>2 DEF Reserved
<1>8. k \in Nat /\ k = N
    <2>1. Streaming
        BY <1>1, BodyStreams
    <2> QED
        BY <1>2, <1>3, <2>1 DEF Streaming
<1>9. Done(w \o code, b, k)
    BY <1>3, <1>4, <1>6, <1>7, <1>8, AlongDone
<1>10. code \in Seq(Instruction)
    <2>1. b \in Nat \ {0} /\ frame.body < b /\ frame.exit < b
        <3>1. Reserved /\ Cardinality(Needed) \in Nat
            BY <1>1, ImmediatesDeclared DEF Body
        <3> QED
            BY <1>3, <1>7, <3>1 DEF Reserved
    <2>2. Closing(E, EpilogueCode(b), b .. (b + 11) \cup {frame.body, frame.exit})
        BY <1>6, <1>7, <2>1, EpilogueCloses
    <2> QED
        BY <1>4, <2>2 DEF Closing, Part
<1>11. Module' = w \o code
    <2>1. PICK h : h = Header /\ h \in Seq(Instruction)
        BY HeaderParts
    <2>2. PICK v : v = words /\ v \in Seq(Instruction)
        BY <1>6
    <2>3. (h \o v) \o code = h \o (v \o code)
        BY <1>10, <2>1, <2>2, Associate, ZenonT(60)
    <2>4. w = h \o v
        BY <1>3, <2>1, <2>2 DEF Module
    <2>5. words' = v \o code
        BY <1>2, <1>3, <1>4, <2>2
    <2> QED
        BY <2>1, <2>3, <2>4, <2>5 DEF Module
<1>12. PICK v : v = w \o code
    OBVIOUS
<1>13. Done(v, b, k)
    BY <1>9, <1>12
<1>14. Done(v, b, k)'
    BY <1>2, <1>13, DoneStays
<1>15. N' = k /\ Module' = v
    BY <1>2, <1>8, <1>11, <1>12, ProgramStays
<1> QED
    BY <1>14, <1>15 DEF Ending, Done

\* The other steps leave it alone.
LEMMA SilentJourney ==
    ASSUME EmitInv, LiftInv, BuildBlocks \/ Refuse \/ FastPath \/ Prepass \/ UNCHANGED <<vars, emitVars>>
    PROVE  LiftInv'
<1>1. CASE BuildBlocks
    <2>1. stage = "build" /\ stage' = stage /\ outcome' = outcome
        BY <1>1 DEF BuildBlocks, emitVars
    <2>2. outcome = "none"
        BY <2>1 DEF EmitInv
    <2> QED
        BY <2>1, <2>2 DEF LiftInv
<1>2. CASE Refuse \/ FastPath
    <2>1. stage' = "done" /\ outcome' \in {"error", "reduction"}
        BY <1>2 DEF Refuse, FastPath, Finish
    <2> QED
        BY <2>1 DEF LiftInv
<1>3. CASE Prepass
    <2>1. stage' # "body" /\ stage # "done" /\ outcome' = outcome
        BY <1>3 DEF Prepass
    <2>2. outcome = "none"
        BY <2>1 DEF EmitInv
    <2> QED
        BY <2>1, <2>2 DEF LiftInv
<1>4. CASE UNCHANGED <<vars, emitVars>>
    <2>1. UNCHANGED <<decoded, stage, at, next_id, words, imm_consts, frame, outcome, ir>>
        BY <1>4 DEF vars, emitVars
    <2>2. Module' = Module /\ N' = N
        BY <2>1, ProgramStays DEF Module
    <2>3. ASSUME Journey
          PROVE  Journey'
        <3>1. PICK k, b, w : k = at /\ b = next_id /\ w = Module /\ Along(w, b, k)
            BY <2>3 DEF Journey, Along
        <3>2. Along(w, b, k)'
            BY <2>1, <3>1, AlongStays
        <3> QED
            BY <2>1, <2>2, <3>1, <3>2 DEF Journey, Along
    <2>4. ASSUME Ending
          PROVE  Ending'
        <3>1. PICK n, w, b : n = N /\ w = Module /\ Done(w, b, n)
            BY <2>4 DEF Ending, Done
        <3>2. Done(w, b, n)'
            BY <2>1, <3>1, DoneStays
        <3> QED
            BY <2>2, <3>1, <3>2 DEF Ending, Done
    <2> QED
        BY <2>1, <2>3, <2>4 DEF LiftInv
<1> QED
    BY <1>1, <1>2, <1>3, <1>4

\* Of every program: the code written so far brings an invocation to the next instruction
\* with what the epilogue needs in place, and the finished module leaves the sum in memory.
\* Of a program that is Tame, so of one the lifter keeps the meaning of, it moreover brings the
\* registers and predicates to what the SASS program, run from its own bits, makes them.
THEOREM LiftInvariant == EmitSpec => []LiftInv
<1>1. EmitInit => LiftInv
    BY DEF EmitInit, LiftInv
<1>2. EmitInv /\ CfgInv /\ LiftInv /\ [EmitNext]_<<vars, emitVars>> => LiftInv'
    <2> SUFFICES ASSUME EmitInv, CfgInv, LiftInv, [EmitNext]_<<vars, emitVars>>
                 PROVE  LiftInv'
        OBVIOUS
    <2>1. CASE Prologue
        <3>1. Journey' /\ stage' = "body" /\ outcome' = "none"
            BY <2>1, PrologueJourney DEF Prologue, EmitInv
        <3> QED
            BY <3>1, SMTT(30) DEF LiftInv
    <2>2. CASE Translate
        <3>1. stage = "body" /\ outcome = "none" /\ stage' = stage /\ outcome' = outcome
            BY <2>2 DEF Translate, EmitInv
        <3>2. Journey'
            BY <2>2, <3>1, TranslateJourney DEF LiftInv
        <3> QED
            BY <3>1, <3>2 DEF LiftInv
    <2>3. CASE Epilogue
        <3>1. stage = "body" /\ stage' = "done"
            BY <2>3 DEF Epilogue, EmitInv
        <3>2. Ending'
            BY <2>3, <3>1, EpilogueEnding DEF LiftInv
        <3> QED
            BY <3>1, <3>2 DEF LiftInv
    <2>4. CASE BuildBlocks \/ Refuse \/ FastPath \/ Prepass \/ UNCHANGED <<vars, emitVars>>
        BY <2>4, SilentJourney
    <2> QED
        BY <2>1, <2>2, <2>3, <2>4 DEF EmitNext
<1>3. EmitSpec => []CfgInv
    BY EmitterBuildsCfg, CfgInvariant, PTL
<1>4. EmitSpec => []EmitInv
    BY EmitInvariant
<1> QED
    BY <1>1, <1>2, <1>3, <1>4, PTL DEF EmitSpec

\* After a straight-line integer program whose instructions are Kept, whose guards are not
\* @!PT and whose R3 is not written before an LDC, every register but RZ and every predicate
\* but PT holds what SASS gives it by the program's own bits, whichever of the guards were
\* false and whatever the variables held (lifter.rs:470-475).
THEOREM MeaningPreserved == EmitSpec => []SemanticsPreserved
<1>1. LiftInv => SemanticsPreserved
    <2>1. CASE Translated
        BY <2>1, EndingSame DEF LiftInv, Translated
    <2>2. CASE ~Translated
        BY <2>2 DEF SemanticsPreserved
    <2> QED
        BY <2>1, <2>2
<1> QED
    BY <1>1, LiftInvariant, PTL

\* Under the same conditions, and in a program without LDC, the float view of a register that
\* holds a value is the uint view, rounded, and the ulong view is the same number, also when
\* a guard skips the instruction that would write them (lifter.rs:472-473).
THEOREM ViewsCoherent == EmitSpec => []IntegerViewsCoherent
<1>1. LiftInv => IntegerViewsCoherent
    <2>1. CASE Translated
        BY <2>1, EndingViews DEF LiftInv, Translated
    <2>2. CASE ~Translated
        BY <2>2 DEF IntegerViewsCoherent
    <2> QED
        BY <2>1, <2>2
<1> QED
    BY <1>1, LiftInvariant, PTL

\* Global memory is touched by the epilogue only, which sees the invocation and the count the
\* ABI gave, whatever the program did (lifter.rs:805-814, 893-962).
THEOREM EpilogueAlone == EmitSpec => []EpilogueUndisturbed
<1>1. LiftInv => EpilogueUndisturbed
    <2>1. CASE Translated
        BY <2>1, EndingUndisturbed DEF LiftInv, Translated
    <2>2. CASE ~Translated
        BY <2>2 DEF EpilogueUndisturbed
    <2> QED
        BY <2>1, <2>2
<1> QED
    BY <1>1, LiftInvariant, PTL
=============================================================================
