----------------------------- MODULE SpirvModule -----------------------------
(***************************************************************************)
(* The SPIR-V module the lifter writes (src/src/lifter/src/spirv.rs) and   *)
(* the declarations every module begins with (Lifter::new in lifter.rs).   *)
(*                                                                         *)
(* An instruction is a record: op, the id of its type and of its result (0 *)
(* where it has none), the ids it uses (args), and its literals and labels *)
(* (lits).  Packing into words is abstracted; the bound is next_id.        *)
(***************************************************************************)
EXTENDS Integers, Sequences, SequencesExt

Plain(op, args, lits) == [op |-> op, type |-> 0, id |-> 0, args |-> args, lits |-> lits]
Def(op, id, args, lits) == [op |-> op, type |-> 0, id |-> id, args |-> args, lits |-> lits]
Val(op, type, id, args) == [op |-> op, type |-> type, id |-> id, args |-> args, lits |-> <<>>]

Pointer(id, class, type) == Def("TypePointer", id, <<type>>, <<class>>)
Constant(type, id, value) == [op |-> "Constant", type |-> type, id |-> id, args |-> <<>>, lits |-> <<value>>]
Variable(type, id, class) == [op |-> "Variable", type |-> type, id |-> id, args |-> <<>>, lits |-> <<class>>]

-----------------------------------------------------------------------------
\* The ids Lifter::new allocates, in its order, from 1.
GlobalNames ==
    <<"type_void", "type_func", "type_bool", "type_uint", "type_ulong", "type_float",
      "type_v3uint", "ptr_input_v3uint", "ptr_input_uint", "ptr_psb_float", "ptr_psb_uint",
      "ptr_workgroup_float", "ptr_fn_uint", "ptr_fn_ulong", "ptr_fn_float", "ptr_fn_bool",
      "type_arr1024f", "ptr_wg_arr", "type_push_params", "ptr_push_params", "ptr_push_ulong",
      "ptr_push_uint", "const_uint_0", "const_uint_1", "const_uint_2", "const_uint_3",
      "const_uint_4", "const_uint_32", "const_uint_256", "const_uint_264", "const_uint_1024",
      "const_ulong_4", "var_global_id", "var_local_id", "var_workgroup_id", "var_push_params",
      "var_shared", "func_main">>

G == [name \in ToSet(GlobalNames) |-> CHOOSE k \in DOMAIN GlobalNames : GlobalNames[k] = name]

FirstId == Len(GlobalNames) + 1

Preamble ==
    <<Plain("Capability", <<>>, <<"Shader">>), Plain("Capability", <<>>, <<"Int64">>),
      Plain("Capability", <<>>, <<"PhysicalStorageBufferAddresses">>),
      Plain("Extension", <<>>, <<"SPV_KHR_physical_storage_buffer">>),
      Plain("MemoryModel", <<>>, <<"PhysicalStorageBuffer64">>),
      Plain("EntryPoint",
            <<G.func_main, G.var_global_id, G.var_local_id, G.var_workgroup_id, G.var_push_params>>,
            <<"main">>),
      Plain("ExecutionMode", <<G.func_main>>, <<256, 1, 1>>)>>

Decorations ==
    <<Plain("Decorate", <<G.var_global_id>>, <<"GlobalInvocationId">>),
      Plain("Decorate", <<G.var_local_id>>, <<"LocalInvocationId">>),
      Plain("Decorate", <<G.var_workgroup_id>>, <<"WorkgroupId">>),
      Plain("Decorate", <<G.type_push_params>>, <<"Block">>)>>
    \o [m \in 1..4 |-> Plain("MemberDecorate", <<G.type_push_params>>, <<m - 1, 8 * (m - 1)>>)]

TypeDeclarations ==
    <<Def("TypeVoid", G.type_void, <<>>, <<>>),
      Def("TypeFunction", G.type_func, <<G.type_void>>, <<>>),
      Def("TypeBool", G.type_bool, <<>>, <<>>),
      Def("TypeInt", G.type_uint, <<>>, <<32>>),
      Def("TypeInt", G.type_ulong, <<>>, <<64>>),
      Def("TypeFloat", G.type_float, <<>>, <<32>>),
      Def("TypeVector", G.type_v3uint, <<G.type_uint>>, <<3>>),
      Pointer(G.ptr_input_v3uint, "Input", G.type_v3uint),
      Pointer(G.ptr_input_uint, "Input", G.type_uint),
      Pointer(G.ptr_psb_float, "PhysicalStorageBuffer", G.type_float),
      Pointer(G.ptr_psb_uint, "PhysicalStorageBuffer", G.type_uint),
      Pointer(G.ptr_workgroup_float, "Workgroup", G.type_float),
      Def("TypeStruct", G.type_push_params,
          <<G.type_ulong, G.type_ulong, G.type_ulong, G.type_uint>>, <<>>),
      Pointer(G.ptr_push_params, "PushConstant", G.type_push_params),
      Pointer(G.ptr_push_ulong, "PushConstant", G.type_ulong),
      Pointer(G.ptr_push_uint, "PushConstant", G.type_uint),
      Pointer(G.ptr_fn_uint, "Function", G.type_uint),
      Pointer(G.ptr_fn_ulong, "Function", G.type_ulong),
      Pointer(G.ptr_fn_float, "Function", G.type_float),
      Pointer(G.ptr_fn_bool, "Function", G.type_bool)>>

ConstantDeclarations ==
    <<Constant(G.type_uint, G.const_uint_0, 0), Constant(G.type_uint, G.const_uint_1, 1),
      Constant(G.type_uint, G.const_uint_2, 2), Constant(G.type_uint, G.const_uint_3, 3),
      Constant(G.type_uint, G.const_uint_4, 4), Constant(G.type_uint, G.const_uint_32, 32),
      Constant(G.type_uint, G.const_uint_256, 256), Constant(G.type_uint, G.const_uint_264, 264),
      Constant(G.type_uint, G.const_uint_1024, 1024), Constant(G.type_ulong, G.const_ulong_4, 4)>>

SharedArray ==
    <<Def("TypeArray", G.type_arr1024f, <<G.type_float, G.const_uint_1024>>, <<>>),
      Pointer(G.ptr_wg_arr, "Workgroup", G.type_arr1024f)>>

GlobalVariables ==
    <<Variable(G.ptr_input_v3uint, G.var_global_id, "Input"),
      Variable(G.ptr_input_v3uint, G.var_local_id, "Input"),
      Variable(G.ptr_input_v3uint, G.var_workgroup_id, "Input"),
      Variable(G.ptr_push_params, G.var_push_params, "PushConstant"),
      Variable(G.ptr_wg_arr, G.var_shared, "Workgroup")>>

Header ==
    Preamble \o Decorations \o TypeDeclarations \o ConstantDeclarations \o SharedArray \o GlobalVariables
=============================================================================
