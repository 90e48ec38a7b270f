-------------------------- MODULE LifterMainProofs --------------------------
(***************************************************************************)
(* What the exit status of the lifter promises about the disk, and what    *)
(* the program that loads the output may count on, for every disk, every   *)
(* command line and any number of runs, some of them killed.               *)
(*                                                                         *)
(* None of the properties is inductive: each speaks of the end of a run.   *)
(* Running says what holds on the way there, step by step; Loading what    *)
(* the loader has read so far, and what of that is known to be the tool's. *)
(***************************************************************************)
EXTENDS LifterMain, DataInduction, SequenceTheorems

\* The first n units of the module of c.
Prefix(c, n) == [k \in 1 .. n |-> <<c, k>>]

\* Seq(Units) behind a name.
Content(f) == f \in Seq(Units)

Typed ==
    /\ pc \in {"idle", "args", "read", "lift", "open", "write", "exited", "killed"}
    /\ code \in {0, 1, 2}
    /\ DOMAIN files = Paths
    /\ files = [p \in Paths |-> files[p]]
    /\ \A p \in Paths : files[p] = Absent \/ Content(files[p])

\* What a run has done to the disk, and what it holds in memory.
Running ==
    /\ pc \in {"args", "read"} => cubin = Absent
    /\ pc \in {"args", "read", "lift", "open"} => files = before /\ written = 0
    /\ pc = "lift" => cubin \in Parsable
    /\ pc = "open" => cubin \in Liftable
    /\ pc = "write" =>
         /\ cubin \in Liftable /\ output_path \in Paths
         /\ written \in 0 .. Length[cubin]
         /\ files[output_path] = Prefix(cubin, written)

\* What its exit status says.
Ended ==
    pc = "exited" =>
        /\ code = 0 => /\ cubin \in Liftable /\ output_path \in Paths
                       /\ files[output_path] = Prefix(cubin, Length[cubin])
        /\ code = 1 => (cubin = Absent /\ files = before) \/ cubin \in Liftable
        /\ code = 2 => cubin \in Parsable \ Liftable /\ files = before

\* What the loader has read.
Loading ==
    /\ lpc \in {"idle", "opened", "reading", "loaded", "error"}
    /\ clean => pc = "exited" /\ code = 0 /\ output_path = SpvPath
    /\ lpc = "opened" => Content(files[SpvPath]) /\ size = 0 /\ spvData = <<>>
    /\ lpc = "reading" =>
         /\ Content(files[SpvPath]) /\ Content(spvData)
         /\ size \in Nat /\ Len(spvData) <= size
         /\ clean => size = Length[cubin] /\ spvData = Prefix(cubin, Len(spvData))
    /\ lpc = "loaded" =>
         /\ Content(spvData) /\ Len(spvData) = size
         /\ clean => spvData = Prefix(cubin, Length[cubin])

Faithful == Typed /\ Running /\ Ended /\ Loading

-----------------------------------------------------------------------------
\* A prefix of a module is a content, and its units are the module's.
LEMMA PrefixContent ==
    ASSUME NEW c \in Cubins, NEW n \in Nat
    PROVE  /\ Content(Prefix(c, n)) /\ Len(Prefix(c, n)) = n
           /\ \A k \in 1 .. n : Prefix(c, n)[k] = <<c, k>>
<1>1. \A k \in 1 .. n : <<c, k>> \in Units
    BY DEF Units
<1>2. Prefix(c, n) \in [1 .. n -> Units]
    BY <1>1 DEF Prefix
<1>3. Prefix(c, n) \in Seq(Units)
    BY <1>2, SeqDef
<1>4. Len(Prefix(c, n)) = n
    BY <1>2, <1>3, LenProperties
<1> QED
    BY <1>3, <1>4 DEF Content, Prefix

\* A module written up to unit n, and one unit more.
LEMMA PrefixGrows ==
    ASSUME NEW c \in Cubins, NEW n \in Nat
    PROVE  Append(Prefix(c, n), <<c, n + 1>>) = Prefix(c, n + 1)
<1>1. Prefix(c, n) \in Seq(Units) /\ Len(Prefix(c, n)) = n /\ <<c, n + 1>> \in Units
    <2>1. n + 1 \in Nat \ {0}
        OBVIOUS
    <2>2. <<c, n + 1>> \in Units
        BY <2>1 DEF Units
    <2> QED
        BY <2>2, PrefixContent DEF Content
<1>2. Prefix(c, n + 1) \in Seq(Units) /\ Len(Prefix(c, n + 1)) = n + 1
    BY PrefixContent DEF Content
<1> DEFINE a == Append(Prefix(c, n), <<c, n + 1>>)
<1>3. /\ a \in Seq(Units) /\ Len(a) = n + 1
      /\ \A k \in 1 .. n : a[k] = Prefix(c, n)[k]
      /\ a[n + 1] = <<c, n + 1>>
    BY <1>1, AppendProperties
<1> HIDE DEF a
<1>4. \A k \in 1 .. n + 1 : a[k] = Prefix(c, n + 1)[k]
    BY <1>3 DEF Prefix
<1> QED
    BY <1>2, <1>3, <1>4, SeqEqual DEF a

\* What is in a content, and what appending to it does.
LEMMA ContentAccess ==
    ASSUME NEW f, Content(f)
    PROVE  /\ Len(f) \in Nat
           /\ \A k \in 1 .. Len(f) : f[k] \in Units
           /\ \A u \in Units : Content(Append(f, u)) /\ Len(Append(f, u)) = Len(f) + 1
BY LenProperties, ElementOfSeq, AppendProperties DEF Content

\* No content is a content of length 0.
LEMMA EmptyContent == Content(<<>>) /\ Len(<<>>) = 0
BY EmptySeq DEF Content

-----------------------------------------------------------------------------
\* The invariant holds in the initial states.
LEMMA InitFaithful == Init => Faithful
<1> SUFFICES ASSUME Init PROVE Faithful
    OBVIOUS
<1>1. files = [p \in Paths |-> files[p]] /\ \A p \in Paths : files[p] = Absent \/ files[p] \in Seq(Units)
    BY MainAssumption DEF Init
<1>2. Typed
    BY <1>1 DEF Init, Typed, Content
<1> QED
    BY <1>2 DEF Init, Faithful, Running, Ended, Loading

\* A new run holds nothing, and what was loaded is no longer the last run's.
LEMMA InvokeFaithful ==
    ASSUME Faithful, Invoke
    PROVE  Faithful'
BY DEF Faithful, Typed, Running, Ended, Loading, Invoke, loader, Resting

\* Parsing one argument keeps it.
LEMMA ParseFaithful ==
    ASSUME Faithful, ParseArg
    PROVE  Faithful'
<1>1. /\ pc = "args"
      /\ UNCHANGED <<pc, settings, args, cubin, written, code, runs, before, files, loader, clean>>
    BY DEF ParseArg
<1> QED
    BY <1>1 DEF Faithful, Typed, Running, Ended, Loading, loader

\* So does the check of the paths.
LEMMA CheckFaithful ==
    ASSUME Faithful, CheckPaths
    PROVE  Faithful'
BY DEF Faithful, Typed, Running, Ended, Loading, CheckPaths, loader, Exit

\* So does reading the input.
LEMMA ReadFaithful ==
    ASSUME Faithful, ReadInput
    PROVE  Faithful'
BY DEF Faithful, Typed, Running, Ended, Loading, ReadInput, loader, Exit

\* So does lifting, whether it succeeds or not.
LEMMA LiftFaithful ==
    ASSUME Faithful, Lift
    PROVE  Faithful'
BY DEF Faithful, Typed, Running, Ended, Loading, Lift, loader, Exit, Refused

\* So does the exit with code 0.
LEMMA SucceedFaithful ==
    ASSUME Faithful, Succeed
    PROVE  Faithful'
<1>1. cubin \in Liftable /\ Spv = Prefix(cubin, Length[cubin])
    BY DEF Faithful, Running, Succeed, Spv, SpvOf, Prefix
<1>2. Len(Spv) = Length[cubin]
    BY <1>1, PrefixContent, MainAssumption
<1>3. written = Length[cubin]
    BY <1>2 DEF Succeed, AllWritten
<1> QED
    BY <1>1, <1>3 DEF Faithful, Typed, Running, Ended, Loading, Succeed, loader, Exit

\* So does the death of the tool between two steps.
LEMMA KillFaithful ==
    ASSUME Faithful, Kill
    PROVE  Faithful'
BY DEF Faithful, Typed, Running, Ended, Loading, Kill, loader, Resting

\* The output is emptied: the loader, if it is reading it, finds it shorter.
LEMMA OpenOutputFaithful ==
    ASSUME Faithful, OpenOutput
    PROVE  Faithful'
<1>1. CASE Exit(1) /\ UNCHANGED files
    BY <1>1 DEF Faithful, Typed, Running, Ended, Loading, OpenOutput, loader, Exit
<1>2. CASE /\ output_path \in Paths
           /\ files' = [files EXCEPT ![output_path] = Opened]
           /\ pc' = "write" /\ UNCHANGED code
    <2>1. /\ UNCHANGED <<output_path, cubin, written, before, lpc, size, spvData, clean>>
          /\ pc = "open"
        BY DEF OpenOutput, loader
    <2>2. written = 0 /\ cubin \in Liftable /\ files = before
        BY <2>1 DEF Faithful, Running
    <2>3. cubin \in Cubins /\ Length[cubin] \in Nat
        BY <2>2, MainAssumption
    <2>4. Prefix(cubin, 0) = <<>> /\ Opened = <<>>
        BY <2>3, PrefixContent, EmptySeq DEF Content, Opened
    <2>5. /\ files'[output_path] = <<>>
          /\ \A p \in Paths : p # output_path => files'[p] = files[p]
          /\ DOMAIN files' = Paths /\ files' = [p \in Paths |-> files'[p]]
        BY <1>2, <2>4 DEF Faithful, Typed
    <2>6. Typed'
        BY <1>2, <2>5, EmptyContent DEF Faithful, Typed
    <2>7. Running'
        BY <1>2, <2>1, <2>2, <2>3, <2>4, <2>5 DEF Running
    <2>8. Ended' /\ Loading'
        BY <1>2, <2>1, <2>5, EmptyContent DEF Faithful, Ended, Loading
    <2> QED
        BY <2>6, <2>7, <2>8 DEF Faithful
<1> QED
    BY <1>1, <1>2 DEF OpenOutput

\* One more unit of the module, or a failure.
LEMMA WriteFaithful ==
    ASSUME Faithful, Write
    PROVE  Faithful'
<1>1. CASE Exit(1) /\ UNCHANGED <<files, written>>
    BY <1>1 DEF Faithful, Typed, Running, Ended, Loading, Write, loader, Exit
<1>2. CASE /\ written' = written + 1
           /\ files' = [files EXCEPT ![output_path] = Append(@, Spv[written'])]
           /\ UNCHANGED <<pc, code>>
    <2>1. /\ UNCHANGED <<output_path, cubin, before, lpc, size, spvData, clean>>
          /\ pc = "write" /\ ~AllWritten
        BY DEF Write, loader
    <2>2. /\ cubin \in Liftable /\ output_path \in Paths
          /\ written \in 0 .. Length[cubin] /\ files[output_path] = Prefix(cubin, written)
        BY <2>1 DEF Faithful, Running
    <2>3. cubin \in Cubins /\ Length[cubin] \in Nat /\ written \in Nat
        BY <2>2, MainAssumption
    <2>4. Spv = Prefix(cubin, Length[cubin]) /\ Len(Spv) = Length[cubin]
        BY <2>2, <2>3, PrefixContent DEF Spv, SpvOf, Prefix
    <2>5. written < Length[cubin]
        BY <2>1, <2>2, <2>3, <2>4 DEF AllWritten
    <2>6. Spv[written'] = <<cubin, written + 1>>
        BY <1>2, <2>3, <2>4, <2>5 DEF Prefix
    <2>7. /\ files'[output_path] = Prefix(cubin, written + 1)
          /\ \A p \in Paths : p # output_path => files'[p] = files[p]
          /\ DOMAIN files' = Paths /\ files' = [p \in Paths |-> files'[p]]
        BY <1>2, <2>2, <2>3, <2>6, PrefixGrows DEF Faithful, Typed
    <2>8. Content(files'[output_path])
        BY <2>3, <2>7, PrefixContent
    <2>9. Typed'
        BY <1>2, <2>7, <2>8 DEF Faithful, Typed
    <2>10. Running'
        BY <1>2, <2>1, <2>2, <2>3, <2>5, <2>7 DEF Running
    <2>11. Ended' /\ Loading'
        BY <1>2, <2>1, <2>7, <2>8 DEF Faithful, Ended, Loading
    <2> QED
        BY <2>9, <2>10, <2>11 DEF Faithful
<1> QED
    BY <1>1, <1>2 DEF Write

\* The loader finds a file, or refuses; what it read before is forgotten.
LEMMA OpenFaithful ==
    ASSUME Faithful, Open
    PROVE  Faithful'
<1>1. UNCHANGED <<tool, files>>
    BY DEF Open
<1>2. Typed' /\ Running' /\ Ended'
    BY <1>1 DEF Faithful, Typed, Running, Ended, tool
<1>3. Loading'
    BY <1>1, MainAssumption DEF Faithful, Typed, Loading, Open, Refuse, tool
<1> QED
    BY <1>2, <1>3 DEF Faithful

\* So does the loader's measure of the file.
LEMMA MeasureFaithful ==
    ASSUME Faithful, Measure
    PROVE  Faithful'
<1>1. UNCHANGED <<tool, files, clean>> /\ lpc = "opened"
    BY DEF Measure
<1>2. Typed' /\ Running' /\ Ended'
    BY <1>1 DEF Faithful, Typed, Running, Ended, tool
<1>3. /\ Content(files[SpvPath]) /\ size = 0 /\ spvData = <<>>
      /\ clean => pc = "exited" /\ code = 0 /\ output_path = SpvPath
    BY <1>1 DEF Faithful, Loading
<1>4. Content(spvData) /\ Len(spvData) = 0 /\ Len(files[SpvPath]) \in Nat
    BY <1>3, EmptyContent, ContentAccess
<1>5. clean => /\ Len(files[SpvPath]) = Length[cubin]
               /\ spvData = Prefix(cubin, Len(spvData))
    <2> SUFFICES ASSUME clean
                 PROVE  /\ Len(files[SpvPath]) = Length[cubin]
                        /\ spvData = Prefix(cubin, Len(spvData))
        OBVIOUS
    <2>1. cubin \in Liftable /\ files[SpvPath] = Prefix(cubin, Length[cubin])
        BY <1>3 DEF Faithful, Ended
    <2>2. cubin \in Cubins /\ Length[cubin] \in Nat
        BY <2>1, MainAssumption
    <2>3. Prefix(cubin, 0) = <<>>
        BY <2>2, PrefixContent, EmptySeq DEF Content
    <2> QED
        BY <1>3, <1>4, <2>1, <2>2, <2>3, PrefixContent
<1>6. Loading'
    BY <1>1, <1>3, <1>4, <1>5 DEF Loading, Measure, Refuse, tool
<1> QED
    BY <1>2, <1>6 DEF Faithful

\* So does the reading of a unit.
LEMMA ReadUnitFaithful ==
    ASSUME Faithful, ReadUnit
    PROVE  Faithful'
<1>1. UNCHANGED <<tool, files, lpc, size, clean>> /\ lpc = "reading" /\ ~Ends
    BY DEF ReadUnit
<1>2. Typed' /\ Running' /\ Ended'
    BY <1>1 DEF Faithful, Typed, Running, Ended, tool
<1>3. /\ Content(files[SpvPath]) /\ Content(spvData)
      /\ size \in Nat /\ Len(spvData) <= size
      /\ clean => pc = "exited" /\ code = 0 /\ output_path = SpvPath
      /\ clean => size = Length[cubin] /\ spvData = Prefix(cubin, Len(spvData))
    BY <1>1 DEF Faithful, Loading
<1>4. Len(spvData) \in Nat /\ Len(files[SpvPath]) \in Nat
    BY <1>3, ContentAccess
<1>5. Len(spvData) < size /\ Len(spvData) + 1 \in 1 .. Len(files[SpvPath])
    BY <1>1, <1>3, <1>4 DEF Ends
<1> DEFINE u == files[SpvPath][Len(spvData) + 1]
<1>6. u \in Units
    BY <1>3, <1>5, ContentAccess
<1>7. spvData' = Append(spvData, u)
    BY DEF ReadUnit
<1>8. clean => u = <<cubin, Len(spvData) + 1>> /\ cubin \in Cubins
    <2> SUFFICES ASSUME clean
                 PROVE  u = <<cubin, Len(spvData) + 1>> /\ cubin \in Cubins
        OBVIOUS
    <2>1. cubin \in Liftable /\ files[SpvPath] = Prefix(cubin, Length[cubin])
        BY <1>3 DEF Faithful, Ended
    <2>2. cubin \in Cubins /\ Length[cubin] \in Nat /\ Len(spvData) + 1 \in 1 .. Length[cubin]
        BY <1>3, <1>4, <1>5, <2>1, MainAssumption
    <2> QED
        BY <2>1, <2>2 DEF Prefix
<1> HIDE DEF u
<1>9. Content(spvData') /\ Len(spvData') = Len(spvData) + 1
    BY <1>3, <1>6, <1>7, ContentAccess
<1>10. clean => spvData' = Prefix(cubin, Len(spvData) + 1)
    BY <1>3, <1>4, <1>7, <1>8, PrefixGrows
<1>11. Loading'
    BY <1>1, <1>3, <1>4, <1>5, <1>9, <1>10 DEF Loading, tool
<1> QED
    BY <1>2, <1>11 DEF Faithful

\* The driver is given what was read, and nothing fills it up.
LEMMA CreateModuleFaithful ==
    ASSUME Faithful, CreateModule
    PROVE  Faithful'
<1>1. UNCHANGED <<tool, files, clean>> /\ lpc = "reading"
    BY DEF CreateModule
<1>2. Typed' /\ Running' /\ Ended'
    BY <1>1 DEF Faithful, Typed, Running, Ended, tool
<1>3. /\ Content(spvData) /\ size \in Nat
      /\ clean => pc = "exited" /\ code = 0 /\ output_path = SpvPath
      /\ clean => size = Length[cubin] /\ spvData = Prefix(cubin, Len(spvData))
    BY <1>1 DEF Faithful, Loading
<1>4. CASE Refuse
    <2>1. lpc' = "error" /\ UNCHANGED <<pc, code, output_path, clean>>
        BY <1>1, <1>4 DEF Refuse, tool
    <2>2. Loading'
        BY <1>3, <2>1 DEF Loading
    <2> QED
        BY <1>2, <2>2 DEF Faithful
<1>5. CASE /\ GotAll
           /\ lpc' = "loaded"
           /\ spvData' = spvData \o [k \in 1..(size - Len(spvData)) |-> Zero]
           /\ UNCHANGED size
    <2>1. Len(spvData) = size /\ size - Len(spvData) = 0
        BY <1>3, <1>5 DEF GotAll
    <2>2. [k \in 1 .. 0 |-> Zero] = <<>>
        OBVIOUS
    <2>3. spvData' = spvData
        BY <1>3, <1>5, <2>1, <2>2, ConcatEmptySeq DEF Content
    <2> QED
        BY <1>1, <1>2, <1>3, <1>5, <2>1, <2>3 DEF Faithful, Loading, tool
<1> QED
    BY <1>2, <1>4, <1>5 DEF CreateModule, Faithful

\* So does a step that changes nothing.
LEMMA StutterFaithful ==
    ASSUME Faithful, UNCHANGED vars
    PROVE  Faithful'
BY DEF Faithful, Typed, Running, Ended, Loading, vars, tool, loader

\* Every step of the tool and of the loader keeps what was said of the disk, the run
\* and the load.
THEOREM FaithfulHolds == Spec => []Faithful
<1>1. Faithful /\ [Next]_vars => Faithful'
    BY InvokeFaithful, ParseFaithful, CheckFaithful, ReadFaithful, LiftFaithful, OpenOutputFaithful,
       WriteFaithful, SucceedFaithful, KillFaithful, OpenFaithful, MeasureFaithful,
       ReadUnitFaithful, CreateModuleFaithful, StutterFaithful DEF Next
<1> QED
    BY <1>1, InitFaithful, PTL DEF Spec

-----------------------------------------------------------------------------
\* Exit status 2 is for the inputs that parse and cannot be lifted, these only, and a
\* run that reads no input or lifts nothing leaves every file as it was.
THEOREM RefusalsAreClean == Spec => []RefusalIsClean
<1>1. Faithful => RefusalIsClean
    BY MainAssumption DEF Faithful, Typed, Ended, RefusalIsClean
<1> QED
    BY <1>1, FaithfulHolds, PTL

\* Exit status 0: the output holds the module of the input, whole.
THEOREM SuccessMeansComplete == Spec => []SuccessMeansWritten
<1>1. Faithful => SuccessMeansWritten
    BY DEF Faithful, Ended, SuccessMeansWritten, SpvOf, Prefix
<1> QED
    BY <1>1, FaithfulHolds, PTL

\* A program that launches the output of the last run, which succeeded, with no run
\* meanwhile, gives the driver that run's module.
THEOREM LaunchGetsModule == Spec => []LaunchAfterSuccess
<1>1. Faithful => LaunchAfterSuccess
    BY DEF Faithful, Loading, LaunchAfterSuccess, SpvOf, Prefix
<1> QED
    BY <1>1, FaithfulHolds, PTL

\* Every word the driver gets was read from the file, whatever the tool does to the
\* file between the loader's steps.
THEOREM EveryWordRead == Spec => []NothingMadeUp
<1>1. Faithful => NothingMadeUp
    <2> SUFFICES ASSUME Faithful, lpc = "loaded"
                 PROVE  Zero \notin ToSet(spvData) /\ Len(spvData) = size
        BY DEF NothingMadeUp
    <2>1. Content(spvData) /\ Len(spvData) = size
        BY DEF Faithful, Loading
    <2>2. DOMAIN spvData = 1 .. Len(spvData) /\ \A k \in 1 .. Len(spvData) : spvData[k] \in Units
        BY <2>1, LenProperties, ElementOfSeq DEF Content
    <2>3. Zero \notin Units
        BY SMTT(30) DEF Zero, Units
    <2> QED
        BY <2>1, <2>2, <2>3 DEF ToSet
<1> QED
    BY <1>1, FaithfulHolds, PTL

-----------------------------------------------------------------------------
(* The loop over the arguments. *)

\* The path is that of the last of the first k settings that gives the option a value.
LastGiven(line, option, k, path) ==
    \A m \in 1 .. k : Decides(line, m, option, k) => path = line[m].path

Setting(s) == s.option \in {"input", "output"} /\ s.form \in {"two", "one", "bare"}

\* at[k] is the number of arguments of the first k settings.
Rendering(at, line) ==
    /\ at \in [0 .. Len(line) -> Nat]
    /\ at[0] = 0 /\ at[Len(line)] = Len(Render(line))
    /\ \A k \in 1 .. Len(line) :
         /\ at[k] = at[k - 1] + Len(Rendered(line[k]))
         /\ at[k] <= Len(Render(line))
         /\ \A j \in 1 .. Len(Rendered(line[k])) : Render(line)[at[k - 1] + j] = Rendered(line[k])[j]

\* Where the loop is: behind k settings, whose values it has taken.
Parsed(at, k) ==
    /\ Rendering(at, settings)
    /\ k \in 0 .. Len(settings) /\ i = at[k] + 1
    /\ LastGiven(settings, "input", k, input_path)
    /\ LastGiven(settings, "output", k, output_path)

Parsing ==
    /\ pc = "args" => /\ settings \in CommandLines /\ args = Render(settings)
                      /\ \E at, k : Parsed(at, k)
    /\ pc \in {"read", "lift", "open", "write"} =>
         /\ settings \in CommandLines
         /\ LastGiven(settings, "input", Len(settings), input_path)
         /\ LastGiven(settings, "output", Len(settings), output_path)

\* A command line is a sequence of settings, and one without a value ends it.
LEMMA LineOfSettings ==
    ASSUME NEW line \in CommandLines
    PROVE  /\ Len(line) \in Nat /\ DOMAIN line = 1 .. Len(line)
           /\ \A k \in 1 .. Len(line) : Setting(line[k]) /\ (line[k].form = "bare" => k = Len(line))
<1> DEFINE R == [option : {"input", "output"}, form : {"two", "one", "bare"},
                 path : {line[k].path : k \in DOMAIN line}]
<1>1. line \in Seq(R)
    BY MainAssumption
<1> HIDE DEF R
<1>2. Len(line) \in Nat /\ DOMAIN line = 1 .. Len(line) /\ \A k \in 1 .. Len(line) : line[k] \in R
    BY <1>1, LenProperties, ElementOfSeq
<1>3. \A k \in 1 .. Len(line) : line[k].form = "bare" => k = Len(line)
    BY <1>2, MainAssumption
<1>4. \A r \in R : Setting(r)
    BY DEF R, Setting
<1> QED
    BY <1>2, <1>3, <1>4

\* What a setting becomes.
LEMMA RenderedParts ==
    ASSUME NEW s, Setting(s)
    PROVE  /\ s.form = "two" => /\ Len(Rendered(s)) = 2
                                /\ Rendered(s)[1] = <<Option(s)>> /\ Rendered(s)[2] = s.path
           /\ s.form = "one" => /\ Len(Rendered(s)) = 1
                                /\ Rendered(s)[1] = <<Joined(s), s.path>>
           /\ s.form = "bare" => Len(Rendered(s)) = 1 /\ Rendered(s)[1] = <<Option(s)>>
BY DEF Setting, Rendered

\* The arguments of a line, setting by setting.
LEMMA LineRendered ==
    ASSUME NEW line \in CommandLines
    PROVE  \E at : Rendering(at, line)
<1> DEFINE S == UNION {{Rendered(line[k])[1], Rendered(line[k])[2]} : k \in 1 .. Len(line)}
           ss == [k \in DOMAIN line |-> Rendered(line[k])]
<1>1. Len(line) \in Nat /\ DOMAIN line = 1 .. Len(line) /\ \A k \in 1 .. Len(line) : Setting(line[k])
    BY LineOfSettings
<1>2. ASSUME NEW k \in 1 .. Len(line)
      PROVE  Rendered(line[k]) \in Seq(S)
    <2> DEFINE s == line[k]
               e == Rendered(s)[1]
               f == Rendered(s)[2]
    <2>1. e \in S /\ f \in S
        OBVIOUS
    <2>2. Rendered(s) = <<e, f>> \/ Rendered(s) = <<e>>
        BY <1>1, RenderedParts DEF Rendered, Setting
    <2> HIDE DEF S, e, f
    <2>3. <<e, f>> \in Seq(S) /\ <<e>> \in Seq(S)
        BY <2>1
    <2> QED
        BY <2>2, <2>3
<1> HIDE DEF S
<1>3. ss \in [1 .. Len(line) -> Seq(S)]
    BY <1>1, <1>2
<1>4. ss \in Seq(Seq(S)) /\ Len(ss) = Len(line)
    <2> HIDE DEF ss
    <2>1. ss \in Seq(Seq(S))
        BY <1>1, <1>3, SeqDef
    <2> QED
        BY <1>1, <1>3, <2>1, LenProperties
<1>5. \A k \in 1 .. Len(line) : ss[k] = Rendered(line[k])
    BY <1>1
<1>6. Render(line) = FlattenSeq(ss)
    BY DEF Render
<1> HIDE DEF ss
<1>7. PICK at : Parts(at, S, ss, FlattenSeq(ss))
    BY <1>4, FlattenParts
<1>8. /\ at \in [0 .. Len(line) -> Nat]
      /\ at[0] = 0 /\ at[Len(line)] = Len(Render(line))
    BY <1>4, <1>6, <1>7 DEF Parts
<1>9. ASSUME NEW k \in 1 .. Len(line)
      PROVE  /\ at[k] = at[k - 1] + Len(Rendered(line[k]))
             /\ at[k] <= Len(Render(line))
             /\ \A j \in 1 .. Len(Rendered(line[k])) :
                  Render(line)[at[k - 1] + j] = Rendered(line[k])[j]
    <2>1. ss[k] = Rendered(line[k]) /\ k \in 1 .. Len(ss)
        BY <1>4, <1>5
    <2>2. /\ at[k] = at[k - 1] + Len(ss[k])
          /\ at[k] <= Len(FlattenSeq(ss))
          /\ \A j \in 1 .. Len(ss[k]) : FlattenSeq(ss)[at[k - 1] + j] = ss[k][j]
        BY <1>7, <2>1 DEF Parts
    <2> QED
        BY <1>6, <2>1, <2>2
<1> QED
    BY <1>8, <1>9 DEF Rendering

\* The next setting gives the option a value, or does not.
LEMMA GivenNext ==
    ASSUME NEW line, NEW k \in Nat, line[k + 1].form # "bare"
    PROVE  LastGiven(line, line[k + 1].option, k + 1, line[k + 1].path)
<1> SUFFICES ASSUME NEW m \in 1 .. k + 1, Decides(line, m, line[k + 1].option, k + 1)
             PROVE  line[k + 1].path = line[m].path
    BY DEF LastGiven
<1>1. CASE m = k + 1
    BY <1>1
<1>2. CASE m # k + 1
    <2>1. k + 1 \in m + 1 .. k + 1
        BY <1>2
    <2> QED
        BY <2>1 DEF Decides
<1> QED
    BY <1>1, <1>2

\* An argument of another option, or the option bare, leaves the last path given as it is.
LEMMA NotGivenNext ==
    ASSUME NEW line, NEW option, NEW path, NEW k \in Nat, LastGiven(line, option, k, path),
           line[k + 1].option # option \/ line[k + 1].form = "bare"
    PROVE  LastGiven(line, option, k + 1, path)
<1> SUFFICES ASSUME NEW m \in 1 .. k + 1, Decides(line, m, option, k + 1)
             PROVE  path = line[m].path
    BY DEF LastGiven
<1>1. m # k + 1
    BY DEF Decides
<1>2. m \in 1 .. k
    BY <1>1
<1>3. m + 1 .. k \subseteq m + 1 .. k + 1
    OBVIOUS
<1>4. Decides(line, m, option, k)
    BY <1>3 DEF Decides
<1> QED
    BY <1>2, <1>4 DEF LastGiven

\* ParseArg takes the value of the setting whose arguments begin at i, passes over both
\* of them, and stands behind that setting.
LEMMA ParseTakesSetting ==
    ASSUME Parsing, ParseArg, NEW at, NEW k, Parsed(at, k)
    PROVE  Parsed(at, k + 1)'
<1> DEFINE s == settings[k + 1]
           n == Len(settings)
           a == args[i]
<1>1. /\ pc = "args" /\ settings \in CommandLines /\ args = Render(settings)
      /\ i <= Len(args) /\ settings' = settings /\ args' = args
    BY DEF ParseArg, Parsing
<1>2. /\ n \in Nat /\ \A m \in 1 .. n : Setting(settings[m]) /\ (settings[m].form = "bare" => m = n)
    BY <1>1, LineOfSettings
<1>3. /\ at \in [0 .. n -> Nat] /\ at[n] = Len(args)
      /\ k \in 0 .. n /\ i = at[k] + 1
    BY <1>1 DEF Parsed, Rendering
<1>4. k + 1 \in 1 .. n /\ (k + 1) - 1 = k /\ k \in Nat
    BY <1>1, <1>2, <1>3
<1>5. Setting(s) /\ (s.form = "bare" => k + 1 = n)
    BY <1>2, <1>4
<1>6. /\ at[k + 1] = at[k] + Len(Rendered(s))
      /\ at[k + 1] <= Len(args)
      /\ \A j \in 1 .. Len(Rendered(s)) : args[at[k] + j] = Rendered(s)[j]
    <2>1. /\ at[k + 1] = at[(k + 1) - 1] + Len(Rendered(settings[k + 1]))
          /\ at[k + 1] <= Len(Render(settings))
          /\ \A j \in 1 .. Len(Rendered(settings[k + 1])) :
                Render(settings)[at[(k + 1) - 1] + j] = Rendered(settings[k + 1])[j]
        BY <1>4 DEF Parsed, Rendering
    <2> QED
        BY <1>1, <1>4, <2>1
<1>7. at[k] \in Nat /\ at[k + 1] \in Nat /\ Len(args) = at[n]
    BY <1>2, <1>3, <1>4
<1>8. /\ s.form = "two" => /\ i < Len(args) /\ a = <<Option(s)>> /\ args[i + 1] = s.path
                           /\ at[k + 1] + 1 = i + 2
      /\ s.form = "one" => a = <<Joined(s), s.path>> /\ at[k + 1] + 1 = i + 1
      /\ s.form = "bare" => a = <<Option(s)>> /\ i = Len(args) /\ at[k + 1] + 1 = i + 1
    <2> HIDE DEF s, a
    <2>1. CASE s.form = "two"
        <3>1. Len(Rendered(s)) = 2 /\ Rendered(s)[1] = <<Option(s)>> /\ Rendered(s)[2] = s.path
            BY <1>5, <2>1, RenderedParts
        <3>2. at[k + 1] = at[k] + 2 /\ args[at[k] + 1] = <<Option(s)>> /\ args[at[k] + 2] = s.path
            BY <1>6, <3>1
        <3>3. (at[k] + 1) + 1 = at[k] + 2
            BY <1>7
        <3> QED
            BY <1>3, <1>6, <1>7, <2>1, <3>2, <3>3 DEF a
    <2>2. CASE s.form = "one"
        <3>1. Len(Rendered(s)) = 1 /\ Rendered(s)[1] = <<Joined(s), s.path>>
            BY <1>5, <2>2, RenderedParts
        <3> QED
            BY <1>3, <1>6, <1>7, <2>2, <3>1 DEF a
    <2>3. CASE s.form = "bare"
        <3>1. Len(Rendered(s)) = 1 /\ Rendered(s)[1] = <<Option(s)>>
            BY <1>5, <2>3, RenderedParts
        <3> QED
            BY <1>3, <1>5, <1>6, <1>7, <2>3, <3>1 DEF a
    <2> QED
        BY <1>5, <2>1, <2>2, <2>3 DEF Setting
<1>9. /\ input_path' = IF a = <<"--input">> /\ i < Len(args) THEN args[i + 1]
                       ELSE IF Len(a) = 2 /\ a[1] = "--input=" THEN a[2] ELSE input_path
      /\ output_path' = IF a = <<"--output">> /\ i < Len(args) THEN args[i + 1]
                        ELSE IF Len(a) = 2 /\ a[1] = "--output=" THEN a[2] ELSE output_path
      /\ i' = IF (a = <<"--input">> /\ i < Len(args)) \/ (a = <<"--output">> /\ i < Len(args))
              THEN i + 2 ELSE i + 1
    BY DEF ParseArg, NextIndex
<1> HIDE DEF s, a, n
<1>10. /\ i' = at[k + 1] + 1
       /\ input_path' = IF s.option = "input" /\ s.form # "bare" THEN s.path ELSE input_path
       /\ output_path' = IF s.option = "output" /\ s.form # "bare" THEN s.path ELSE output_path
    <2>1. CASE s.form = "two"
        BY <1>5, <1>8, <1>9, <2>1 DEF Setting, Option
    <2>2. CASE s.form = "one"
        BY <1>5, <1>8, <1>9, <2>2 DEF Setting, Joined
    <2>3. CASE s.form = "bare"
        BY <1>5, <1>7, <1>8, <1>9, <2>3 DEF Setting, Option
    <2> QED
        BY <1>5, <2>1, <2>2, <2>3 DEF Setting
<1>11. /\ LastGiven(settings, "input", k, input_path)
       /\ LastGiven(settings, "output", k, output_path)
    BY DEF Parsed
<1>12. LastGiven(settings, "input", k + 1, input_path')
    BY <1>4, <1>10, <1>11, GivenNext, NotGivenNext DEF s
<1>13. LastGiven(settings, "output", k + 1, output_path')
    BY <1>4, <1>10, <1>11, GivenNext, NotGivenNext DEF s
<1>14. Rendering(at, settings)
    BY DEF Parsed
<1> QED
    BY <1>1, <1>3, <1>4, <1>10, <1>12, <1>13, <1>14 DEF Parsed, n

\* The loop begins in front of the first setting, and ends behind the last.
LEMMA ParsingStep ==
    ASSUME Parsing, [Next]_vars
    PROVE  Parsing'
<1>1. CASE Invoke
    <2>1. PICK line \in CommandLines : settings' = line /\ args' = Render(line)
        BY <1>1 DEF Invoke
    <2>2. PICK at : Rendering(at, line)
        BY LineRendered
    <2>3. Len(line) \in Nat
        BY LineOfSettings
    <2>4. LastGiven(line, "input", 0, input_path') /\ LastGiven(line, "output", 0, output_path')
        BY DEF LastGiven
    <2>5. pc' = "args" /\ i' = 1
        BY <1>1 DEF Invoke
    <2>6. Parsed(at, 0)'
        BY <2>1, <2>2, <2>3, <2>4, <2>5 DEF Parsed, Rendering
    <2> QED
        BY <2>1, <2>5, <2>6 DEF Parsing
<1>2. CASE ParseArg
    <2>1. pc = "args" /\ UNCHANGED <<pc, settings, args>>
        BY <1>2 DEF ParseArg
    <2>2. PICK at, k : Parsed(at, k)
        BY <2>1 DEF Parsing
    <2>3. Parsed(at, k + 1)'
        BY <1>2, <2>2, ParseTakesSetting
    <2> QED
        BY <2>1, <2>3 DEF Parsing
<1>3. CASE CheckPaths
    <2>1. /\ pc = "args" /\ i > Len(args) /\ pc' \in {"exited", "read"}
          /\ UNCHANGED <<settings, args, i, input_path, output_path>>
        BY <1>3 DEF CheckPaths, Exit
    <2>2. PICK at, k : Parsed(at, k) /\ settings \in CommandLines /\ args = Render(settings)
        BY <2>1 DEF Parsing
    <2>3. Len(settings) \in Nat
        BY <2>2, LineOfSettings
    <2>4. k = Len(settings)
        <3> SUFFICES ASSUME k # Len(settings)
                     PROVE  FALSE
            OBVIOUS
        <3>1. k + 1 \in 1 .. Len(settings) /\ (k + 1) - 1 = k
            BY <2>2, <2>3 DEF Parsed
        <3>2. Setting(settings[k + 1])
            BY <2>2, <3>1, LineOfSettings
        <3>3. Len(Rendered(settings[k + 1])) \in {1, 2}
            BY <3>2, RenderedParts DEF Setting
        <3>4. /\ at[k + 1] = at[k] + Len(Rendered(settings[k + 1]))
              /\ at[k + 1] <= Len(args) /\ at[k] \in Nat /\ i = at[k] + 1
            BY <2>2, <3>1 DEF Parsed, Rendering
        <3>5. Len(args) = at[Len(settings)] /\ at[Len(settings)] \in Nat
            BY <2>2, <2>3 DEF Parsed, Rendering
        <3> DEFINE w == Len(Rendered(settings[k + 1]))
                   b == at[k]
                   c == at[k + 1]
                   l == Len(args)
        <3>6. /\ w \in {1, 2} /\ b \in Nat /\ l \in Nat
              /\ c = b + w /\ c <= l /\ i = b + 1 /\ i > l
            BY <2>1, <3>3, <3>4, <3>5
        <3> HIDE DEF w, b, c, l
        <3> QED
            BY <3>6
    <2> QED
        BY <2>1, <2>2, <2>4 DEF Parsing, Parsed
<1>4. CASE ReadInput
    BY <1>4 DEF Parsing, ReadInput, Exit
<1>5. CASE Lift
    BY <1>5 DEF Parsing, Lift, Exit
<1>6. CASE OpenOutput
    BY <1>6 DEF Parsing, OpenOutput, Exit
<1>7. CASE Write
    BY <1>7 DEF Parsing, Write, Exit
<1>8. CASE Succeed
    BY <1>8 DEF Parsing, Succeed, Exit
<1>9. CASE Kill
    BY <1>9 DEF Parsing, Kill
<1>10. CASE UNCHANGED tool
    BY <1>10 DEF Parsing, Parsed, tool
<1> QED
    BY <1>1, <1>2, <1>3, <1>4, <1>5, <1>6, <1>7, <1>8, <1>9, <1>10
       DEF Next, vars, Open, Measure, ReadUnit, CreateModule

\* The paths are those of the last setting of each option that has a value, for every
\* command line, however its settings are ordered and whatever its paths look like.
THEOREM PathsAreNamed == Spec => []NamedPaths
<1>1. Init => Parsing
    BY DEF Init, Parsing
<1>2. Parsing => NamedPaths
    <2> SUFFICES ASSUME Parsing, pc \in {"read", "lift", "open", "write"}, NEW m \in DOMAIN settings
                 PROVE  /\ Decides(settings, m, "input", Len(settings)) => input_path = settings[m].path
                        /\ Decides(settings, m, "output", Len(settings)) => output_path = settings[m].path
        BY DEF NamedPaths
    <2>1. m \in 1 .. Len(settings)
        BY LineOfSettings DEF Parsing
    <2> QED
        BY <2>1 DEF Parsing, LastGiven
<1> QED
    BY <1>1, <1>2, ParsingStep, PTL DEF Spec
=============================================================================
