---------------------------- MODULE StreamEngine ----------------------------
(***************************************************************************)
(* The synchronisation engine of src/runtime/cuda_runtime.cpp: host threads *)
(* that copy through one shared staging buffer, launch kernels, and         *)
(* synchronise with or query a stream; three kinds of mutex (m_mutex, one   *)
(* streamMutex per stream, m_queueMutex); one timeline semaphore per        *)
(* stream; and the GPU, which executes what was submitted when it likes.    *)
(*                                                                          *)
(* A thread's pc names the point it is at.  A lock is the thread that holds *)
(* it, or NoThread.  The runtime is initialised and every pointer valid:    *)
(* module Allocator deals with the rest.                                    *)
(***************************************************************************)
EXTENDS Integers, SequencesExt

CONSTANTS
    Threads, Streams, Addrs, Values,
    NoThread,       \* an unlocked mutex
    Ops,            \* the calls a thread can make
    Budgets,        \* bound: how many calls each thread makes, one of these
    StagingSize,    \* initial size of the staging buffer
    DeviceCanBeLost \* whether VK_ERROR_DEVICE_LOST can happen

CopyKinds == {"h2d", "d2h", "d2d"}
MemoryKinds == CopyKinds \cup {"launch"}
NoOp == [kind |-> "none"]

ASSUME StreamEngineAssumption ==
    /\ NoThread \notin Threads
    /\ Budgets \subseteq [Threads -> Nat] /\ StagingSize \in Nat
    /\ DeviceCanBeLost \in BOOLEAN

\* A call names a stream and, when it is about memory, addresses and a value.
ASSUME OpsAssumption ==
    \A o \in Ops :
        /\ o.kind \in MemoryKinds \cup {"sync", "query", "devsync"} /\ o.stream \in Streams
        /\ o.kind \in {"h2d", "d2d", "launch"} => o.dst \in Addrs
        /\ o.kind \in {"d2h", "d2d"} => o.src \in Addrs
        /\ o.kind \in {"h2d", "launch"} => o.value \in Values
        /\ o.kind \in {"h2d", "d2h"} => o.count \in Nat

VARIABLES
    pc, op, result,                         \* per thread
    calls,                                  \* per thread: calls still to make
    sig, recorded,  \* per thread: the value to signal, the staging buffer recorded
    m_mutex, m_queueMutex, streamMutex,     \* locks
    timelineValue, counter,                 \* per stream: host's and GPU's count
    gpuQueue,                               \* submissions not yet signalled
    dev, staging, stagingSize,              \* memory
    stagingGen,                             \* which staging buffer this is
    queueUsers,     \* threads inside a Vulkan call that uses the VkQueue
    owed,           \* per thread: what was in flight when its call began
    lost            \* VK_ERROR_DEVICE_LOST has happened

locks == <<m_mutex, m_queueMutex, streamMutex>>
memory == <<dev, staging, stagingSize, stagingGen>>
gpu == <<counter, gpuQueue, lost>>
frame == <<sig, recorded>>
vars == <<pc, op, frame, result, calls, locks, timelineValue, gpu, memory, queueUsers, owed>>

-----------------------------------------------------------------------------
Init ==
    /\ pc = [t \in Threads |-> "idle"]
    /\ op = [t \in Threads |-> NoOp]
    /\ sig = [t \in Threads |-> 0]
    /\ recorded = [t \in Threads |-> 0]
    /\ result = [t \in Threads |-> "none"]
    /\ calls \in Budgets
    /\ m_mutex = NoThread /\ m_queueMutex = NoThread
    /\ streamMutex = [s \in Streams |-> NoThread]
    /\ timelineValue = [s \in Streams |-> 0]
    /\ counter = [s \in Streams |-> 0]
    /\ gpuQueue = << >>
    /\ \E v \in Values : dev = [a \in Addrs |-> v] /\ staging = v
    /\ stagingSize = StagingSize
    /\ stagingGen = 0
    /\ queueUsers = {}
    /\ owed = [t \in Threads |-> {}]
    /\ lost = FALSE

Goto(t, label) == pc' = [pc EXCEPT ![t] = label]

\* The call returns, with a status or, for a device-to-host copy, the data.
ReturnWith(t, r) ==
    /\ Goto(t, "idle")
    /\ result' = [result EXCEPT ![t] = r]

InFlight == {[stream |-> e.op.stream, sig |-> e.sig] : e \in ToSet(gpuQueue)}

\* A call begins: every one calls initialize() first.
Call(t) ==
    /\ pc[t] = "idle"
    /\ calls[t] > 0
    /\ calls' = [calls EXCEPT ![t] = @ - 1]
    /\ \E o \in Ops : op' = [op EXCEPT ![t] = o]
    /\ owed' = [owed EXCEPT ![t] = InFlight]
    /\ Goto(t, "initialize")
    /\ UNCHANGED <<frame, result, locks, timelineValue, gpu, memory, queueUsers>>

\* initialize(): lock m_mutex, see that all is done, unlock.
AfterInitialize(kind) ==
    CASE kind \in CopyKinds -> "lockRuntime"
      [] kind \in {"launch", "sync"} -> "lockStream"
      [] kind = "query" -> "readValue"
      [] kind = "devsync" -> "enterIdle"

Initialize(t) ==
    /\ pc[t] = "initialize" /\ m_mutex = NoThread
    /\ Goto(t, AfterInitialize(op[t].kind))
    /\ UNCHANGED <<op, frame, result, calls, locks, timelineValue, gpu, memory, queueUsers, owed>>

-----------------------------------------------------------------------------
(* memcpy: m_mutex is held from here to the return. *)

\* Mutant: m_mutex not held over the copy.
LockRuntimeBriefly(t) ==
    /\ pc[t] = "lockRuntime" /\ m_mutex = NoThread
    /\ Goto(t, IF op[t].kind # "d2d" /\ op[t].count > stagingSize
               THEN "enterIdle" ELSE "stage")
    /\ UNCHANGED <<op, frame, result, calls, locks, timelineValue, gpu, memory, queueUsers, owed>>

LockRuntime(t) ==
    /\ pc[t] = "lockRuntime" /\ m_mutex = NoThread
    /\ m_mutex' = t
    /\ Goto(t, IF op[t].kind # "d2d" /\ op[t].count > stagingSize
               THEN "enterIdle" ELSE "stage")
    /\ UNCHANGED <<op, frame, result, calls, m_queueMutex, streamMutex, timelineValue,
                   gpu, memory, queueUsers, owed>>

\* vkDeviceWaitIdle, from ensureStagingBufferSize or deviceSynchronize, takes
\* no lock of this code.
EnterIdle(t) ==
    /\ pc[t] = "enterIdle"
    /\ queueUsers' = queueUsers \cup {t}
    /\ Goto(t, "waitIdle")
    /\ UNCHANGED <<op, frame, result, calls, locks, timelineValue, gpu, memory, owed>>

WaitIdle(t) ==
    /\ pc[t] = "waitIdle"
    /\ gpuQueue = << >> \/ lost
    /\ queueUsers' = queueUsers \ {t}
    /\ IF op[t].kind = "devsync"
       THEN ReturnWith(t, "success")
       ELSE Goto(t, "grow") /\ UNCHANGED result
    /\ UNCHANGED <<op, frame, calls, locks, timelineValue, gpu, memory, owed>>

\* The staging buffer destroyed and made again, with whatever it then holds.
Grow(t) ==
    /\ pc[t] = "grow"
    /\ stagingSize' = op[t].count * 2
    /\ stagingGen' = stagingGen + 1
    /\ staging' \in Values
    /\ Goto(t, "stage")
    /\ UNCHANGED <<op, frame, result, calls, locks, timelineValue, gpu, dev, queueUsers, owed>>

\* Mutant: the wrong operand of the copy staged.
StageOperand(t) ==
    /\ pc[t] = "stage"
    /\ staging' = IF op[t].kind = "h2d" THEN op[t].dst ELSE staging
    /\ Goto(t, "lockStream")
    /\ UNCHANGED <<op, frame, result, calls, locks, timelineValue, gpu, dev, stagingSize,
                   stagingGen, queueUsers, owed>>

Stage(t) ==
    /\ pc[t] = "stage"
    /\ staging' = IF op[t].kind = "h2d" THEN op[t].value ELSE staging
    /\ Goto(t, "lockStream")
    /\ UNCHANGED <<op, frame, result, calls, locks, timelineValue, gpu, dev, stagingSize,
                   stagingGen, queueUsers, owed>>

-----------------------------------------------------------------------------
(* executeCopyBuffer, launchSpirv and streamSynchronize under streamMutex. *)

LockStream(t) ==
    LET s == op[t].stream IN
    /\ pc[t] = "lockStream" /\ streamMutex[s] = NoThread
    /\ \/ /\ op[t].kind = "sync" /\ timelineValue[s] = 0
          /\ ReturnWith(t, "success")
          /\ UNCHANGED <<frame, streamMutex, timelineValue>>
       \/ /\ op[t].kind = "sync" /\ timelineValue[s] # 0
          /\ sig' = [sig EXCEPT ![t] = timelineValue[s]]
          /\ streamMutex' = [streamMutex EXCEPT ![s] = t]
          /\ Goto(t, "waitSemaphore")
          /\ UNCHANGED <<recorded, result, timelineValue>>
       \/ /\ op[t].kind # "sync"
          /\ recorded' = [recorded EXCEPT ![t] = stagingGen]
          /\ timelineValue' = [timelineValue EXCEPT ![s] = @ + 1]
          /\ sig' = [sig EXCEPT ![t] = timelineValue'[s]]
          /\ streamMutex' = [streamMutex EXCEPT ![s] = t]
          /\ Goto(t, "lockQueue")
          /\ UNCHANGED result
    /\ UNCHANGED <<op, calls, m_mutex, m_queueMutex, gpu, memory, queueUsers, owed>>

\* Mutant: m_queueMutex not waited for.
LockQueueAnyway(t) ==
    /\ pc[t] = "lockQueue"
    /\ m_queueMutex' = t
    /\ queueUsers' = queueUsers \cup {t}
    /\ Goto(t, "submit")
    /\ UNCHANGED <<op, frame, result, calls, m_mutex, streamMutex, timelineValue, gpu, memory, owed>>

LockQueue(t) ==
    /\ pc[t] = "lockQueue" /\ m_queueMutex = NoThread
    /\ m_queueMutex' = t
    /\ queueUsers' = queueUsers \cup {t}
    /\ Goto(t, "submit")
    /\ UNCHANGED <<op, frame, result, calls, m_mutex, streamMutex, timelineValue, gpu, memory, owed>>

\* Mutant: the value before the increment signalled.
StaleSubmission(t) ==
    [thread |-> t, op |-> op[t], sig |-> sig[t] - 1, gen |-> recorded[t], executed |-> FALSE]

Submission(t) ==
    [thread |-> t, op |-> op[t], sig |-> sig[t], gen |-> recorded[t], executed |-> FALSE]

\* vkQueueSubmit; what it returns is ignored, so a lost device loses the work.
Submit(t) ==
    /\ pc[t] = "submit"
    /\ gpuQueue' = IF lost THEN gpuQueue ELSE Append(gpuQueue, Submission(t))
    /\ queueUsers' = queueUsers \ {t}
    /\ m_queueMutex' = NoThread
    /\ Goto(t, "waitSemaphore")
    /\ UNCHANGED <<op, frame, result, calls, m_mutex, streamMutex, timelineValue, counter, lost,
                   memory, owed>>

SignalledAlmost(t) == counter[op[t].stream] >= sig[t] - 1   \* mutant: off by one

Signalled(t) == counter[op[t].stream] >= sig[t]

\* vkWaitSemaphores, forever or until the device is lost.  Only
\* streamSynchronize looks at what it returns.
WaitSemaphore(t) ==
    /\ pc[t] = "waitSemaphore"
    /\ Signalled(t) \/ lost
    /\ streamMutex' = [streamMutex EXCEPT ![op[t].stream] = NoThread]
    /\ \/ op[t].kind \in CopyKinds /\ Goto(t, "unstage") /\ UNCHANGED result
       \/ op[t].kind = "launch" /\ ReturnWith(t, "success")
       \/ op[t].kind = "sync" /\ Signalled(t) /\ ReturnWith(t, "success")
       \/ op[t].kind = "sync" /\ lost /\ ReturnWith(t, "launchFailure")
    /\ UNCHANGED <<op, frame, calls, m_mutex, m_queueMutex, timelineValue, gpu, memory,
                   queueUsers, owed>>

\* The end of memcpy: a device-to-host copy reads the staging buffer.
Unstage(t) ==
    /\ pc[t] = "unstage"
    /\ m_mutex' = NoThread
    /\ ReturnWith(t, IF op[t].kind = "d2h" THEN staging ELSE "success")
    /\ UNCHANGED <<op, frame, calls, m_queueMutex, streamMutex, timelineValue, gpu, memory,
                   queueUsers, owed>>

-----------------------------------------------------------------------------
(* streamQuery: no stream lock, timelineValue read twice. *)

ReadValue(t) ==
    /\ pc[t] = "readValue"
    /\ IF timelineValue[op[t].stream] = 0
       THEN ReturnWith(t, "success")
       ELSE Goto(t, "readCounter") /\ UNCHANGED result
    /\ UNCHANGED <<op, frame, calls, locks, timelineValue, gpu, memory, queueUsers, owed>>

ReadCounter(t) ==
    /\ pc[t] = "readCounter"
    /\ \/ /\ sig' = [sig EXCEPT ![t] = counter[op[t].stream]]
          /\ Goto(t, "compare")
          /\ UNCHANGED result
       \/ lost /\ ReturnWith(t, "launchFailure") /\ UNCHANGED sig
    /\ UNCHANGED <<op, recorded, calls, locks, timelineValue, gpu, memory, queueUsers, owed>>

\* Mutant: one submission short.
CompareLoose(t) ==
    /\ pc[t] = "compare"
    /\ ReturnWith(t, IF sig[t] + 1 >= timelineValue[op[t].stream] THEN "success" ELSE "notReady")
    /\ UNCHANGED <<op, frame, calls, locks, timelineValue, gpu, memory, queueUsers, owed>>

Compare(t) ==
    /\ pc[t] = "compare"
    /\ ReturnWith(t, IF sig[t] >= timelineValue[op[t].stream] THEN "success" ELSE "notReady")
    /\ UNCHANGED <<op, frame, calls, locks, timelineValue, gpu, memory, queueUsers, owed>>

-----------------------------------------------------------------------------
(* The GPU.  Work on one queue starts in submission order but, with no       *)
(* barrier between two command buffers, may finish in any order; a timeline  *)
(* signal waits for everything submitted before it.                          *)

Execute(i) ==
    LET e == gpuQueue[i] IN
    /\ ~lost /\ ~e.executed
    /\ gpuQueue' = [gpuQueue EXCEPT ![i].executed = TRUE]
    /\ dev' = CASE e.op.kind = "h2d"    -> [dev EXCEPT ![e.op.dst] = staging]
                [] e.op.kind = "launch" -> [dev EXCEPT ![e.op.dst] = e.op.value]
                [] e.op.kind = "d2d"    -> [dev EXCEPT ![e.op.dst] = dev[e.op.src]]
                [] e.op.kind = "d2h"    -> dev
    /\ staging' = IF e.op.kind = "d2h" THEN dev[e.op.src] ELSE staging
    /\ UNCHANGED <<pc, op, frame, result, calls, locks, timelineValue, counter, lost,
                   stagingSize, stagingGen, queueUsers, owed>>

Signal ==
    /\ ~lost /\ gpuQueue # << >>
    /\ LET e == Head(gpuQueue) IN
       /\ e.executed
       /\ counter' = [counter EXCEPT ![e.op.stream] = e.sig]
       /\ gpuQueue' = Tail(gpuQueue)
    /\ UNCHANGED <<pc, op, frame, result, calls, locks, timelineValue, lost, memory,
                   queueUsers, owed>>

LoseDevice ==
    /\ DeviceCanBeLost /\ ~lost
    /\ lost' = TRUE
    /\ UNCHANGED <<pc, op, frame, result, calls, locks, timelineValue, counter, gpuQueue,
                   memory, queueUsers, owed>>

-----------------------------------------------------------------------------
\* Everything a thread does inside a call.
Step(t) ==
    \/ Initialize(t) \/ LockRuntime(t) \/ EnterIdle(t) \/ WaitIdle(t) \/ Grow(t)
    \/ Stage(t)
    \/ LockStream(t) \/ LockQueue(t) \/ Submit(t) \/ WaitSemaphore(t) \/ Unstage(t)
    \/ ReadValue(t) \/ ReadCounter(t) \/ Compare(t)

GPU == Signal \/ \E i \in 1 .. Len(gpuQueue) : Execute(i)

\* All calls made and returned: the only state in which nothing more happens.
Finished ==
    /\ \A t \in Threads : pc[t] = "idle" /\ calls[t] = 0
    /\ gpuQueue = << >> \/ lost
    /\ UNCHANGED vars

Next ==
    \/ \E t \in Threads : Call(t) \/ Step(t)
    \/ GPU
    \/ LoseDevice
    \/ Finished

Spec == Init /\ [][Next]_vars

\* The scheduler runs every thread that can run; the driver executes and
\* signals what was submitted.  A mutex need not be fair.
ThreadFairness == \A t \in Threads : WF_vars(Step(t))
FairSpec == Spec /\ ThreadFairness /\ WF_vars(GPU)

\* The same threads over a GPU that may be busy for as long as it likes.
BusyGpuSpec == Spec /\ ThreadFairness

-----------------------------------------------------------------------------
(* Properties. *)

Labels == {"idle", "initialize", "lockRuntime", "enterIdle", "waitIdle", "grow", "stage",
           "lockStream", "lockQueue", "submit", "waitSemaphore", "unstage",
           "readValue", "readCounter", "compare"}

\* What vkQueueSubmit is given, and what a call answers with.
Entry == [thread : Threads, op : Ops, sig : Nat, gen : Nat, executed : BOOLEAN]
Answers == {"none", "success", "launchFailure", "notReady"} \cup Values

TypeOK ==
    /\ pc \in [Threads -> Labels]
    /\ op \in [Threads -> Ops \cup {NoOp}]
    /\ sig \in [Threads -> Nat] /\ recorded \in [Threads -> Nat]
    /\ \E budget \in Budgets : calls \in [Threads -> Nat] /\ \A t \in Threads : calls[t] <= budget[t]
    /\ {m_mutex, m_queueMutex} \subseteq Threads \cup {NoThread}
    /\ streamMutex \in [Streams -> Threads \cup {NoThread}]
    /\ timelineValue \in [Streams -> Nat]
    /\ counter \in [Streams -> Nat]
    /\ gpuQueue \in Seq(Entry)
    /\ result \in [Threads -> Answers]
    /\ owed \in [Threads -> SUBSET [stream : Streams, sig : Nat]]
    /\ stagingSize \in Nat /\ stagingGen \in Nat
    /\ lost \in BOOLEAN
    /\ dev \in [Addrs -> Values]
    /\ staging \in Values
    /\ queueUsers \subseteq Threads

\* A timeline semaphore is signalled with ever larger values, and a stream has
\* at most one submission in flight: the increment, the submission and the wait
\* happen under one hold of streamMutex (962-1006, 815-860).
TimelineIncreases ==
    \A i \in 1 .. Len(gpuQueue) :
        LET e == gpuQueue[i] IN
        /\ counter[e.op.stream] < e.sig /\ e.sig <= timelineValue[e.op.stream]
        /\ ~lost => \A j \in 1 .. Len(gpuQueue) :
                        gpuQueue[j].op.stream = e.op.stream => i = j

\* The staging buffer a submitted copy refers to is never destroyed, replaced
\* or shared with another copy while the GPU may still use it: m_mutex is held
\* over the wait, and growing waits for the device (952-959).
StagingInUseIsKept ==
    ~lost => \A i, j \in 1 .. Len(gpuQueue) :
        {gpuQueue[i].op.kind, gpuQueue[j].op.kind} \subseteq {"h2d", "d2h"} =>
            i = j /\ gpuQueue[i].gen = stagingGen

\* When cudaStreamSynchronize, cudaStreamQuery or cudaDeviceSynchronize reports
\* success, everything that was in flight on the stream (on the device) when
\* the call was made is complete, although the query reads timelineValue twice
\* with no lock.  (deviceSynchronize ignores a lost device, 690-696.)
Due(t) ==
    IF op[t].kind = "devsync" THEN IF lost THEN {} ELSE owed[t]
    ELSE {o \in owed[t] : op[t].kind \in {"sync", "query"} /\ o.stream = op[t].stream}

SyncMeansComplete ==
    [][\A t \in Threads :
          pc[t] # "idle" /\ pc'[t] = "idle" /\ result'[t] = "success" =>
              \A o \in Due(t) : counter[o.stream] >= o.sig]_vars

\* Two threads are never inside vkQueueSubmit at once (m_queueMutex, 851-854, 994-997).
SubmitsSerialised ==
    \A t, u \in Threads : pc[t] = "submit" /\ pc[u] = "submit" => t = u

\* The copies and launches of all threads behave as instantaneous operations on
\* device memory.  A copy to the host has read what is in the staging buffer,
\* from the moment the GPU wrote it until memcpy returns.
HasRun(t) ==
    /\ pc[t] \in {"waitSemaphore", "unstage"}
    /\ \A e \in ToSet(gpuQueue) : e.thread = t => e.executed

CallSeen(t) ==
    IF pc[t] = "idle" \/ op[t].kind \notin MemoryKinds THEN [phase |-> "idle"]
    ELSE IF HasRun(t)
    THEN [phase |-> "done", op |-> op[t],
          read |-> IF op[t].kind = "d2h" THEN staging ELSE "none"]
    ELSE [phase |-> "pending", op |-> op[t]]

Copies == INSTANCE CopyService WITH
              call <- [t \in Threads |-> CallSeen(t)],
              MemoryOps <- {o \in Ops : o.kind \in MemoryKinds}

ImplementsCopyService == Copies!Spec

\* Every call returns: no order of the three kinds of mutex, of the waits made
\* while they are held, and of a device loss leaves a thread stuck.
EveryCallReturns == \A t \in Threads : pc[t] # "idle" ~> pc[t] = "idle"

\* CHANGELOG.md:28 "non-blocking stream query": a query returns however long
\* the GPU is busy.
QueryIsNonBlocking ==
    \A t \in Threads : pc[t] # "idle" /\ op[t].kind = "query" ~> pc[t] = "idle"

\* README.md:149 "Thread-Safe Queues": two threads are never at once inside
\* Vulkan calls that require the queue to be externally synchronised, which are
\* vkQueueSubmit and vkDeviceWaitIdle.
QueueIsThreadSafe == \A t, u \in queueUsers : t = u
=============================================================================
