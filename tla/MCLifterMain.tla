---------------------------- MODULE MCLifterMain ----------------------------
EXTENDS LifterMain, TLC

In(form, path)  == [option |-> "input", form |-> form, path |-> path]
Out(form, path) == [option |-> "output", form |-> form, path |-> path]

MCPaths == {<<"short">>, <<"long">>, <<"tensor">>, <<"text">>, <<"spv">>, <<"none">>, <<"--output=", <<"spv">>>>}

MCDisk ==
    [p \in MCPaths |->
        CASE p = <<"spv">> -> Absent
          [] p = <<"none">> -> Absent
          [] p = <<"--output=", <<"spv">>>> -> <<<<"short", 1>>>>
          [] OTHER -> <<<<p[1], 1>>>>]

MCLength == "short" :> 4 @@ "long" :> 6

Spv1 == <<"spv">>

\* Inputs of every kind; settings given twice, left out, without a value, or whose path
\* looks like an option.
MCCommandLines ==
    {<<In("two", <<c>>), Out("two", Spv1)>> : c \in {"short", "long", "tensor", "text", "none"}}
    \cup {<<Out("one", Spv1), In("one", <<"short">>)>>,
          <<Out("one", <<"none">>), In("two", <<"--output=", Spv1>>)>>,
          <<In("two", <<"long">>), In("one", <<"short">>), Out("two", Spv1)>>,
          <<In("two", <<"short">>), Out("bare", <<>>)>>,
          <<Out("two", Spv1), In("one", <<"long">>), Out("bare", <<>>)>>,
          <<Out("one", <<>>), In("two", <<"short">>)>>,
          <<>>}
=============================================================================
