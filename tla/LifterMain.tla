----------------------------- MODULE LifterMain -----------------------------
(***************************************************************************)
(* The lifter's command line (src/src/lifter/src/main.rs) and the program  *)
(* that loads what it writes (launchSpirv in                               *)
(* src/src/runtime/cuda_runtime.cpp), two processes that share a file and  *)
(* nothing else.  The tool is run again and again, and may be killed.      *)
(*                                                                         *)
(* An argument is a sequence: <<"--input">>, <<"--input=", path>>, or a    *)
(* path.  A path is an argument too, and so may look like an option; the   *)
(* empty string is <<>>.  A file is a sequence of units of UnitBytes       *)
(* bytes, each <<what the file holds, the unit's index>>.                  *)
(***************************************************************************)
EXTENDS Integers, Sequences, SequencesExt

CONSTANTS
    Cubins,         \* what an input file can hold
    Parsable,       \* those parse_cubin_instructions accepts
    Liftable,       \* of these, those try_lift translates
    Length,         \* the units of each one's module
    Paths,
    Disk,           \* what is on the disk at first, Absent where there is no file
    Absent,
    CommandLines,   \* the settings of a command line: see Render
    SpvPath,        \* the file the program launches
    UnitBytes,
    MaxRuns

Units == Cubins \X (Nat \ {0})

\* A setting has a value unless it ends the line.
ASSUME MainAssumption ==
    /\ Liftable \subseteq Parsable /\ Parsable \subseteq Cubins /\ Absent \notin Cubins
    /\ Length \in [Liftable -> Nat \ {0}]
    /\ SpvPath \in Paths /\ Disk = [p \in Paths |-> Disk[p]]
    /\ \A p \in Paths : Disk[p] = Absent \/ Disk[p] \in Seq(Units)
    /\ UnitBytes \in Nat \ {0} /\ MaxRuns \in Nat
    /\ \A line \in CommandLines :
         /\ line \in Seq([option : {"input", "output"}, form : {"two", "one", "bare"},
                          path : {line[k].path : k \in DOMAIN line}])
         /\ \A k \in DOMAIN line : line[k].form = "bare" => k = Len(line)

VARIABLES
    pc,             \* where the tool is; "idle" before the first run
    settings,       \* what its user asked for
    args,           \* env::args() without the name of the program
    i,              \* the index of the loop over args
    input_path,
    output_path,
    cubin,          \* what was read from input_path
    written,        \* units written to output_path
    code,           \* exit status of the last run
    runs,           \* runs started
    files,          \* the disk
    before,         \* the disk when the last run started
    lpc,            \* where the launching program is
    size,           \* what it measured, in units
    spvData,        \* what it read
    clean           \* no run was under way or has started since the launch, and the last one succeeded

tool == <<pc, settings, args, i, input_path, output_path, cubin, written, code, runs, before>>
loader == <<lpc, size, spvData>>
vars == <<tool, files, loader, clean>>

\* The content of the module of a cubin.
SpvOf(c) == [k \in 1..Length[c] |-> <<c, k>>]

\* A setting [option, form, path] as arguments: "--input p", "--input=p", or "--input"
\* with nothing after it.
Option(s) == IF s.option = "input" THEN "--input" ELSE "--output"
Joined(s) == IF s.option = "input" THEN "--input=" ELSE "--output="

Rendered(s) ==
    CASE s.form = "two"  -> <<<<Option(s)>>, s.path>>
      [] s.form = "one"  -> <<<<Joined(s), s.path>>>>
      [] s.form = "bare" -> <<<<Option(s)>>>>

Render(line) == FlattenSeq([k \in DOMAIN line |-> Rendered(line[k])])

-----------------------------------------------------------------------------
Init ==
    /\ pc = "idle" /\ settings = <<>> /\ args = <<>> /\ i = 1
    /\ input_path = <<>> /\ output_path = <<>>
    /\ cubin = Absent /\ written = 0 /\ code = 0 /\ runs = 0
    /\ files = Disk /\ before = Disk
    /\ lpc = "idle" /\ size = 0 /\ spvData = <<>>
    /\ clean = FALSE

Resting == pc \in {"idle", "exited", "killed"}

Invoke ==
    /\ Resting
    /\ runs < MaxRuns
    /\ \E line \in CommandLines : settings' = line /\ args' = Render(line)
    /\ pc' = "args" /\ i' = 1 /\ runs' = runs + 1
    /\ input_path' = <<>> /\ output_path' = <<>>
    /\ cubin' = Absent /\ written' = 0
    /\ before' = files /\ clean' = FALSE
    /\ UNCHANGED <<code, files, loader>>

Exit(status) == pc' = "exited" /\ code' = status

\* The value of an option is the next argument, whatever it looks like, and the loop
\* passes over it; the mutant looks at it as an option as well.
NextIndexUnskipped == i + 1
NextIndex == i + 2

ParseArg ==
    /\ pc = "args" /\ i <= Len(args)
    /\ LET a == args[i]
           two(option) == a = <<option>> /\ i < Len(args)
           one(option) == Len(a) = 2 /\ a[1] = option
       IN  /\ input_path' = IF two("--input") THEN args[i + 1]
                            ELSE IF one("--input=") THEN a[2] ELSE input_path
           /\ output_path' = IF two("--output") THEN args[i + 1]
                             ELSE IF one("--output=") THEN a[2] ELSE output_path
           /\ i' = IF two("--input") \/ two("--output") THEN NextIndex ELSE i + 1
    /\ UNCHANGED <<pc, settings, args, cubin, written, code, runs, before, files, loader, clean>>

CheckPaths ==
    /\ pc = "args" /\ i > Len(args)
    /\ IF input_path = <<>> \/ output_path = <<>> THEN Exit(1) ELSE pc' = "read" /\ UNCHANGED code
    /\ UNCHANGED <<settings, args, i, input_path, output_path, cubin, written, runs, before, files, loader, clean>>

\* fs::read and parse_cubin_instructions.
ReadInput ==
    /\ pc = "read"
    /\ LET bytes == IF input_path \in Paths THEN files[input_path] ELSE Absent
       IN  IF bytes # Absent /\ Len(bytes) = 1 /\ bytes[1][1] \in Parsable
           THEN /\ cubin' = bytes[1][1]
                /\ pc' = "lift"
                /\ UNCHANGED code
           ELSE Exit(1) /\ UNCHANGED cubin
    /\ UNCHANGED <<settings, args, i, input_path, output_path, written, runs, before, files, loader, clean>>

\* Mutant: a refusal is not fatal, and an empty module is written.
RefusesNothing == FALSE

\* decode_instruction and try_lift.
Refused == cubin \notin Liftable

Lift ==
    /\ pc = "lift"
    /\ IF Refused THEN Exit(2) ELSE pc' = "open" /\ UNCHANGED code
    /\ UNCHANGED <<settings, args, i, input_path, output_path, cubin, written, runs, before, files, loader, clean>>

\* Mutant: the file is opened without being emptied.
OpenedAsItWas == IF files[output_path] = Absent THEN <<>> ELSE files[output_path]

Opened == <<>>

\* fs::write creates the file or empties it, writes the bytes, as many at a time as the
\* system takes, and may fail at each step (no such place, disk full).
OpenOutput ==
    /\ pc = "open"
    /\ \/ Exit(1) /\ UNCHANGED files
       \/ /\ output_path \in Paths
          /\ files' = [files EXCEPT ![output_path] = Opened]
          /\ pc' = "write" /\ UNCHANGED code
    /\ UNCHANGED <<settings, args, i, input_path, output_path, cubin, written, runs, before, loader, clean>>

Spv == IF cubin \in Liftable THEN SpvOf(cubin) ELSE <<>>

\* Mutant: one write, however many bytes the system took.
WrittenOnce == written > 0

AllWritten == written = Len(Spv)

Write ==
    /\ pc = "write" /\ ~AllWritten
    /\ \/ Exit(1) /\ UNCHANGED <<files, written>>
       \/ /\ written' = written + 1
          /\ files' = [files EXCEPT ![output_path] = Append(@, Spv[written'])]
          /\ UNCHANGED <<pc, code>>
    /\ UNCHANGED <<settings, args, i, input_path, output_path, cubin, runs, before, loader, clean>>

Succeed ==
    /\ pc = "write" /\ AllWritten
    /\ Exit(0)
    /\ UNCHANGED <<settings, args, i, input_path, output_path, cubin, written, runs, before, files, loader, clean>>

Kill ==
    /\ ~Resting
    /\ pc' = "killed"
    /\ UNCHANGED <<settings, args, i, input_path, output_path, cubin, written, code, runs, before, files, loader, clean>>

-----------------------------------------------------------------------------
\* launchSpirv from fopen to vkCreateShaderModule.
Refuse == lpc' = "error" /\ UNCHANGED <<size, spvData>>

Open ==
    /\ lpc \in {"idle", "loaded", "error"}
    /\ IF files[SpvPath] = Absent THEN Refuse
       ELSE lpc' = "opened" /\ size' = 0 /\ spvData' = <<>>
    /\ clean' = (pc = "exited" /\ code = 0 /\ output_path = SpvPath)
    /\ UNCHANGED <<tool, files>>

\* At least a header, and whole words; the cap of 64 MiB is out of reach of a module.
SizeOk(units) == UnitBytes * units >= 20 /\ (UnitBytes * units) % 4 = 0

Measure ==
    /\ lpc = "opened"
    /\ IF SizeOk(Len(files[SpvPath]))
       THEN lpc' = "reading" /\ size' = Len(files[SpvPath]) /\ UNCHANGED spvData
       ELSE Refuse
    /\ UNCHANGED <<tool, files, clean>>

Zero == <<Absent, 0>>       \* what the vector holds where nothing was read

\* fread goes on until it has what was asked for or the file ends.
Ends == Len(spvData) = size \/ Len(spvData) >= Len(files[SpvPath])

ReadUnit ==
    /\ lpc = "reading" /\ ~Ends
    /\ spvData' = Append(spvData, files[SpvPath][Len(spvData) + 1])
    /\ UNCHANGED <<tool, files, lpc, size, clean>>

\* Mutant: the count fread returns is not looked at.
GotAnything == TRUE

GotAll == Len(spvData) = size

MagicOk == spvData[1][1] \in Liftable /\ spvData[1][2] = 1

CreateModule ==
    /\ lpc = "reading" /\ Ends
    /\ IF GotAll /\ spvData # <<>> /\ MagicOk
       THEN /\ lpc' = "loaded"
            /\ spvData' = spvData \o [k \in 1..(size - Len(spvData)) |-> Zero]
            /\ UNCHANGED size
       ELSE Refuse
    /\ UNCHANGED <<tool, files, clean>>

Next ==
    \/ Invoke \/ ParseArg \/ CheckPaths \/ ReadInput \/ Lift \/ OpenOutput \/ Write \/ Succeed
    \/ Kill
    \/ Open \/ Measure \/ ReadUnit \/ CreateModule

Spec == Init /\ [][Next]_vars

-----------------------------------------------------------------------------
\* Of the first k settings of a line, the m-th is the last to give the option a value.
Decides(line, m, option, k) ==
    LET gives(l) == line[l].option = option /\ line[l].form # "bare"
    IN  gives(m) /\ \A l \in (m + 1)..k : ~gives(l)

\* main.rs:26-47: the paths are those the last setting of each option that has a
\* value names, in either form and in any order, also when a path looks like an option.
NamedPaths ==
    pc \in {"read", "lift", "open", "write"} =>
        \A m \in DOMAIN settings :
            /\ Decides(settings, m, "input", Len(settings)) => input_path = settings[m].path
            /\ Decides(settings, m, "output", Len(settings)) => output_path = settings[m].path

\* README.md:292, docs/architecture.md:83: exit status 2 is for the inputs that parse and
\* cannot be lifted, these only, and it leaves every file as it was: whoever runs the tool
\* again keeps the module of an earlier input.
RefusalIsClean ==
    pc = "exited" =>
        /\ code = 2 => cubin \in Parsable \ Liftable /\ files = before
        /\ cubin \in Parsable \ Liftable => code = 2
        /\ code = 1 /\ cubin = Absent => files = before

\* Exit status 0 means that the output holds the module of the input, whole, whatever an
\* earlier run, killed or failed, left there; build.py:106 and run_sass_test.cpp:45-50
\* rely on it.
SuccessMeansWritten ==
    pc = "exited" /\ code = 0 => cubin \in Liftable /\ files[output_path] = SpvOf(cubin)

\* A program that launches the output of a run that succeeded, with no other run meanwhile,
\* gives the driver the module of that run's input.
LaunchAfterSuccess ==
    lpc = "loaded" /\ clean => spvData = SpvOf(cubin)

\* cuda_runtime.cpp:762-764: every word the driver gets was read from the file, also when
\* the tool empties the file between the measure and the read.
NothingMadeUp ==
    lpc = "loaded" => Zero \notin ToSet(spvData) /\ Len(spvData) = size
=============================================================================
