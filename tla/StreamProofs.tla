---------------------------- MODULE StreamProofs ----------------------------
(***************************************************************************)
(* The locks of the stream engine keep every submission apart from the     *)
(* others, for any number of threads, streams and calls, and a call that    *)
(* reports success has waited for all that was in flight when it began.     *)
(*                                                                         *)
(* None of the properties is inductive: what the queue holds is known only  *)
(* through the threads that wait for it.  Disciplined says which lock a      *)
(* thread holds where; Framed what the value and the staging buffer in its   *)
(* frame have to do with the stream; Awaited that, while the device lives,   *)
(* every submission has a thread of its own, which waits for it holding the  *)
(* lock of its stream.                                                       *)
(***************************************************************************)
EXTENDS StreamEngine, TLAPS

\* Between its calls a thread remembers the last one.
Typed ==
    /\ TypeOK
    /\ \A t \in Threads : pc[t] # "idle" => op[t] \in Ops

\* The copies that go through the staging buffer.
Staged(kind) == kind \in {"h2d", "d2h"}

\* Which calls reach which points.
Kinded(t) ==
    /\ pc[t] \in {"lockRuntime", "stage", "unstage"} => op[t].kind \in CopyKinds
    /\ pc[t] = "grow" => Staged(op[t].kind)
    /\ pc[t] \in {"lockQueue", "submit"} => op[t].kind \in MemoryKinds
    /\ pc[t] \in {"lockStream", "waitSemaphore"} => op[t].kind \in MemoryKinds \cup {"sync"}
    /\ pc[t] \in {"enterIdle", "waitIdle"} => Staged(op[t].kind) \/ op[t].kind = "devsync"
    /\ pc[t] \in {"readValue", "readCounter", "compare"} => op[t].kind = "query"

InCopy == {"enterIdle", "waitIdle", "grow", "stage", "lockStream", "lockQueue", "submit",
           "waitSemaphore", "unstage"}
OnStream == {"lockQueue", "submit", "waitSemaphore"}

\* Which locks a thread holds there.
Locked(t) ==
    /\ pc[t] \in InCopy /\ op[t].kind \in CopyKinds => m_mutex = t
    /\ pc[t] \in OnStream => streamMutex[op[t].stream] = t
    /\ pc[t] = "submit" => m_queueMutex = t

Disciplined == \A t \in Threads : Kinded(t) /\ Locked(t)

\* What a thread has read is still so.
Framed(t) ==
    /\ pc[t] \in {"lockQueue", "submit"} =>
           sig[t] = timelineValue[op[t].stream] /\ counter[op[t].stream] < sig[t]
    /\ pc[t] \in OnStream /\ Staged(op[t].kind) => recorded[t] = stagingGen
    /\ pc[t] = "compare" => sig[t] <= counter[op[t].stream]
    /\ pc[t] = "waitSemaphore" /\ op[t].kind = "sync" =>
           \A o \in owed[t] : o.stream = op[t].stream => o.sig <= sig[t]

\* A submission raises its stream's counter, never past what the host has counted.
Raises(e) ==
    /\ e.op.kind \in MemoryKinds
    /\ counter[e.op.stream] < e.sig /\ e.sig <= timelineValue[e.op.stream]

\* Its thread waits for it.
AwaitedBy(e, t) ==
    pc[t] = "waitSemaphore" /\ op[t] = e.op /\ sig[t] = e.sig /\ recorded[t] = e.gen

Awaited ==
    ~lost => \A i \in 1 .. Len(gpuQueue) :
        /\ AwaitedBy(gpuQueue[i], gpuQueue[i].thread)
        /\ \A j \in 1 .. Len(gpuQueue) : gpuQueue[i].thread = gpuQueue[j].thread => i = j

Counted ==
    /\ \A s \in Streams : counter[s] <= timelineValue[s]
    /\ \A t \in Threads : Framed(t)
    /\ \A i \in 1 .. Len(gpuQueue) : Raises(gpuQueue[i])

\* What was in flight when a call began and is not complete is in flight still.
Owing ==
    \A t \in Threads : \A o \in owed[t] :
        /\ 0 < o.sig /\ o.sig <= timelineValue[o.stream]
        /\ counter[o.stream] < o.sig => o \in InFlight

Engine == Typed /\ Disciplined /\ Counted /\ Awaited /\ Owing

-----------------------------------------------------------------------------
\* A submission at the end of a queue.
LEMMA AppendAt ==
    ASSUME NEW S, NEW q \in Seq(S), NEW e \in S
    PROVE  /\ Append(q, e) \in Seq(S) /\ Len(Append(q, e)) = Len(q) + 1 /\ Len(q) \in Nat
           /\ \A i \in 1 .. Len(q) : Append(q, e)[i] = q[i] /\ q[i] \in S
           /\ Append(q, e)[Len(q) + 1] = e
OBVIOUS

\* A queue without its head.
LEMMA TailAt ==
    ASSUME NEW S, NEW q \in Seq(S), q # << >>
    PROVE  /\ Tail(q) \in Seq(S) /\ Len(Tail(q)) = Len(q) - 1 /\ Len(q) \in Nat /\ Len(q) > 0
           /\ \A i \in 1 .. Len(q) - 1 : Tail(q)[i] = q[i + 1] /\ i + 1 \in 1 .. Len(q)
           /\ Head(q) = q[1] /\ q[1] \in S
OBVIOUS

\* A queue with one submission executed.
LEMMA ExecutedAt ==
    ASSUME NEW q \in Seq(Entry), NEW i \in 1 .. Len(q), NEW r,
           r = [q EXCEPT ![i].executed = TRUE]
    PROVE  /\ r \in Seq(Entry) /\ Len(r) = Len(q)
           /\ \A j \in 1 .. Len(q) :
                 /\ r[j].thread = q[j].thread /\ r[j].op = q[j].op
                 /\ r[j].sig = q[j].sig /\ r[j].gen = q[j].gen
<1>1. q[i] \in Entry /\ Len(q) \in Nat
  OBVIOUS
<1>2. [q[i] EXCEPT !.executed = TRUE] \in Entry
  BY <1>1 DEF Entry
<1>3. r = [q EXCEPT ![i] = [q[i] EXCEPT !.executed = TRUE]]
  OBVIOUS
<1>4. r \in Seq(Entry) /\ Len(r) = Len(q)
  BY <1>2, <1>3
<1>5. ASSUME NEW j \in 1 .. Len(q)
      PROVE  /\ r[j].thread = q[j].thread /\ r[j].op = q[j].op
             /\ r[j].sig = q[j].sig /\ r[j].gen = q[j].gen
  <2>1. r[j] = IF i = j THEN [q[i] EXCEPT !.executed = TRUE] ELSE q[j]
    BY <1>3
  <2> QED
    BY <1>1, <2>1 DEF Entry
<1> QED
  BY <1>4, <1>5

-----------------------------------------------------------------------------
\* The actions, one by one.
LEMMA NextCases ==
    ASSUME [Next]_vars
    PROVE  \/ \E t \in Threads : Call(t)
           \/ \E t \in Threads : Initialize(t)
           \/ \E t \in Threads : LockRuntime(t)
           \/ \E t \in Threads : EnterIdle(t)
           \/ \E t \in Threads : WaitIdle(t)
           \/ \E t \in Threads : Grow(t)
           \/ \E t \in Threads : Stage(t)
           \/ \E t \in Threads : LockStream(t)
           \/ \E t \in Threads : LockQueue(t)
           \/ \E t \in Threads : Submit(t)
           \/ \E t \in Threads : WaitSemaphore(t)
           \/ \E t \in Threads : Unstage(t)
           \/ \E t \in Threads : ReadValue(t)
           \/ \E t \in Threads : ReadCounter(t)
           \/ \E t \in Threads : Compare(t)
           \/ Signal
           \/ \E i \in 1 .. Len(gpuQueue) : Execute(i)
           \/ LoseDevice
           \/ UNCHANGED vars
<1>1. ASSUME NEW t \in Threads, Step(t)
      PROVE  \/ Initialize(t) \/ LockRuntime(t) \/ EnterIdle(t) \/ WaitIdle(t) \/ Grow(t)
             \/ Stage(t)
             \/ LockStream(t) \/ LockQueue(t) \/ Submit(t) \/ WaitSemaphore(t) \/ Unstage(t)
             \/ ReadValue(t) \/ ReadCounter(t) \/ Compare(t)
  BY <1>1 DEF Step
<1>2. CASE \E t \in Threads : Call(t) \/ Step(t)
  BY <1>1, <1>2
<1>3. CASE GPU
  BY <1>3 DEF GPU
<1>4. CASE Finished \/ UNCHANGED vars
  BY <1>4 DEF Finished
<1> QED
  BY <1>2, <1>3, <1>4 DEF Next

-----------------------------------------------------------------------------
(* Types. *)

\* What a call in progress is about.
LEMMA OpTyped ==
    ASSUME Typed, NEW t \in Threads, pc[t] # "idle"
    PROVE  /\ op[t] \in Ops /\ op[t].stream \in Streams
           /\ op[t].kind \in MemoryKinds \cup {"sync", "query", "devsync"}
           /\ op[t].kind \in {"h2d", "d2d", "launch"} => op[t].dst \in Addrs
           /\ op[t].kind \in {"d2h", "d2d"} => op[t].src \in Addrs
           /\ op[t].kind \in {"h2d", "launch"} => op[t].value \in Values
           /\ op[t].kind \in {"h2d", "d2h"} => op[t].count \in Nat
BY OpsAssumption DEF Typed

\* What is in flight, and the rest of the GPU's state.
LEMMA QueueTyped ==
    ASSUME Typed
    PROVE  /\ gpuQueue \in Seq(Entry)
           /\ owed \in [Threads -> SUBSET [stream : Streams, sig : Nat]]
           /\ stagingGen \in Nat /\ lost \in BOOLEAN
BY DEF Typed, TypeOK

\* What a submission is about.
LEMMA EntryTyped ==
    ASSUME NEW q \in Seq(Entry), NEW i \in 1 .. Len(q)
    PROVE  /\ q[i] \in Entry /\ q[i].thread \in Threads /\ q[i].op \in Ops
           /\ q[i].sig \in Nat /\ q[i].gen \in Nat /\ q[i].executed \in BOOLEAN
           /\ q[i].op.stream \in Streams
           /\ q[i].op.kind \in {"h2d", "d2d", "launch"} => q[i].op.dst \in Addrs
           /\ q[i].op.kind \in {"d2h", "d2d"} => q[i].op.src \in Addrs
           /\ q[i].op.kind \in {"h2d", "launch"} => q[i].op.value \in Values
<1>1. q[i] \in Entry
  OBVIOUS
<1> QED
  BY <1>1, OpsAssumption DEF Entry

\* What is in flight is what the queue holds.
Flying(q) == {[stream |-> e.op.stream, sig |-> e.sig] : e \in ToSet(q)}

\* Each of it is a submission in the queue.
LEMMA FlyingAt ==
    ASSUME NEW q \in Seq(Entry)
    PROVE  /\ Flying(q) \subseteq [stream : Streams, sig : Nat]
           /\ \A o : o \in Flying(q) <=>
                 \E i \in 1 .. Len(q) : o = [stream |-> q[i].op.stream, sig |-> q[i].sig]
<1>1. DOMAIN q = 1 .. Len(q)
  OBVIOUS
<1>2. \A e : e \in ToSet(q) <=> \E i \in 1 .. Len(q) : e = q[i]
  BY <1>1 DEF ToSet
<1>3. \A o : o \in Flying(q) <=>
          \E i \in 1 .. Len(q) : o = [stream |-> q[i].op.stream, sig |-> q[i].sig]
  BY <1>2 DEF Flying
<1> QED
  BY <1>3, EntryTyped

\* Nothing runs and nothing is queued at first.
LEMMA InitTyped == Init => Typed
<1> SUFFICES ASSUME Init PROVE Typed
  OBVIOUS
<1>1. calls \in [Threads -> Nat] /\ \A t \in Threads : calls[t] <= calls[t]
  BY StreamEngineAssumption DEF Init
<1>2. \E budget \in Budgets : calls \in [Threads -> Nat] /\ \A t \in Threads : calls[t] <= budget[t]
  BY <1>1 DEF Init
<1>3. gpuQueue \in Seq(Entry)
  BY DEF Init
<1>4. owed \in [Threads -> SUBSET [stream : Streams, sig : Nat]]
  BY DEF Init
<1> QED
  BY <1>2, <1>3, <1>4, StreamEngineAssumption DEF Init, Typed, TypeOK, Labels, NoOp, Answers

\* Every step keeps the types.
LEMMA StepTyped ==
    ASSUME Typed, Disciplined, Counted, [Next]_vars
    PROVE  Typed'
<1> USE DEF Typed, TypeOK, Labels, Answers, Goto, ReturnWith, locks, memory, gpu, frame
<1>1. ASSUME NEW t \in Threads, Call(t) PROVE Typed'
  <2>1. PICK budget \in Budgets : calls \in [Threads -> Nat] /\ \A u \in Threads : calls[u] <= budget[u]
    OBVIOUS
  <2>2. budget \in [Threads -> Nat]
    BY StreamEngineAssumption
  <2>3. calls' \in [Threads -> Nat] /\ \A u \in Threads : calls'[u] <= budget[u]
    BY <1>1, <2>1, <2>2, SMTT(30) DEF Call
  <2>4. owed' \in [Threads -> SUBSET [stream : Streams, sig : Nat]]
    <3>1. InFlight \subseteq [stream : Streams, sig : Nat]
      BY FlyingAt DEF InFlight, Flying
    <3>2. owed' = [owed EXCEPT ![t] = InFlight]
      BY <1>1 DEF Call
    <3> QED
      BY <3>1, <3>2
  <2> QED
    <3>1. /\ pc' = [pc EXCEPT ![t] = "initialize"] /\ \E o \in Ops : op' = [op EXCEPT ![t] = o]
          /\ UNCHANGED <<frame, result, locks, timelineValue, gpu, memory, queueUsers>>
      BY <1>1 DEF Call
    <3> QED
      BY <2>3, <2>4, <3>1
<1>2. ASSUME NEW t \in Threads, Initialize(t) PROVE Typed'
  <2>1. AfterInitialize(op[t].kind) \in Labels
    BY <1>2, OpTyped DEF Initialize, AfterInitialize, MemoryKinds, CopyKinds
  <2> QED
    BY <1>2, <2>1 DEF Initialize
<1>3. ASSUME NEW t \in Threads, LockRuntime(t) PROVE Typed'
  BY <1>3 DEF LockRuntime
<1>4. ASSUME NEW t \in Threads, EnterIdle(t) PROVE Typed'
  BY <1>4 DEF EnterIdle
<1>5. ASSUME NEW t \in Threads, WaitIdle(t) PROVE Typed'
  BY <1>5 DEF WaitIdle
<1>6. ASSUME NEW t \in Threads, Grow(t) PROVE Typed'
  <2>0. stagingSize' \in Nat
    <3>1. op[t].count \in Nat
      BY <1>6, OpTyped DEF Grow, Disciplined, Kinded, Staged
    <3> QED
      BY <1>6, <3>1 DEF Grow
  <2>1. /\ pc' = [pc EXCEPT ![t] = "stage"] /\ pc[t] = "grow"
        /\ stagingGen' \in Nat /\ staging' \in Values
        /\ UNCHANGED <<op, frame, result, calls, locks, timelineValue, gpu, dev, queueUsers, owed>>
    BY <1>6 DEF Grow
  <2> QED
    BY <2>0, <2>1
<1>7. ASSUME NEW t \in Threads, Stage(t) PROVE Typed'
  BY <1>7, OpTyped DEF Stage
<1>8. ASSUME NEW t \in Threads, LockStream(t) PROVE Typed'
  <2> DEFINE s == op[t].stream
  <2>1. pc[t] = "lockStream" /\ UNCHANGED <<op, calls, m_mutex, m_queueMutex, gpu, memory, queueUsers, owed>>
    BY <1>8 DEF LockStream
  <2>2. s \in Streams /\ op[t] \in Ops
    BY <2>1, OpTyped
  <2>3. CASE op[t].kind = "sync" /\ timelineValue[s] = 0
    <3>1. /\ pc' = [pc EXCEPT ![t] = "idle"] /\ result' = [result EXCEPT ![t] = "success"]
          /\ UNCHANGED <<frame, streamMutex, timelineValue>>
      BY <1>8, <2>3 DEF LockStream
    <3> HIDE DEF s
    <3> QED
      BY <2>1, <3>1
  <2>4. CASE op[t].kind = "sync" /\ timelineValue[s] # 0
    <3>1. /\ sig' = [sig EXCEPT ![t] = timelineValue[s]]
          /\ streamMutex' = [streamMutex EXCEPT ![s] = t]
          /\ pc' = [pc EXCEPT ![t] = "waitSemaphore"]
          /\ UNCHANGED <<recorded, result, timelineValue>>
      BY <1>8, <2>4 DEF LockStream
    <3> HIDE DEF s
    <3> QED
      BY <2>1, <2>2, <3>1
  <2>5. CASE op[t].kind # "sync"
    <3>1. /\ recorded' = [recorded EXCEPT ![t] = stagingGen]
          /\ timelineValue' = [timelineValue EXCEPT ![s] = timelineValue[s] + 1]
          /\ sig' = [sig EXCEPT ![t] = timelineValue'[s]]
          /\ streamMutex' = [streamMutex EXCEPT ![s] = t]
          /\ pc' = [pc EXCEPT ![t] = "lockQueue"]
          /\ UNCHANGED result
      BY <1>8, <2>5 DEF LockStream
    <3> HIDE DEF s
    <3>2. timelineValue[s] + 1 \in Nat
      BY <2>2
    <3>3. timelineValue' \in [Streams -> Nat] /\ timelineValue'[s] \in Nat
      BY <2>2, <3>1, <3>2
    <3> QED
      BY <2>1, <2>2, <3>1, <3>3
  <2> QED
    BY <2>3, <2>4, <2>5
<1>9. ASSUME NEW t \in Threads, LockQueue(t) PROVE Typed'
  BY <1>9 DEF LockQueue
<1>10. ASSUME NEW t \in Threads, Submit(t) PROVE Typed'
  <2>1. Submission(t) \in Entry
    BY <1>10, OpTyped DEF Submit, Submission, Entry
  <2>2. gpuQueue' \in Seq(Entry)
    BY <1>10, <2>1, AppendAt DEF Submit
  <2> QED
    BY <1>10, <2>2 DEF Submit
<1>11. ASSUME NEW t \in Threads, WaitSemaphore(t) PROVE Typed'
  BY <1>11, OpTyped DEF WaitSemaphore
<1>12. ASSUME NEW t \in Threads, Unstage(t) PROVE Typed'
  BY <1>12 DEF Unstage
<1>13. ASSUME NEW t \in Threads, ReadValue(t) PROVE Typed'
  BY <1>13, ZenonT(60) DEF ReadValue
<1>14. ASSUME NEW t \in Threads, ReadCounter(t) PROVE Typed'
  <2>1. op[t].stream \in Streams
    BY <1>14, OpTyped DEF ReadCounter
  <2>2. counter[op[t].stream] \in Nat
    BY <2>1
  <2>3. /\ sig' \in [Threads -> Nat] /\ pc' \in [Threads -> Labels] /\ result' \in [Threads -> Answers]
        /\ pc[t] # "idle" /\ \A u \in Threads : pc'[u] # "idle" => pc[u] # "idle"
    BY <1>14, <2>2 DEF ReadCounter
  <2>4. UNCHANGED <<op, recorded, calls, locks, timelineValue, gpu, memory, queueUsers, owed>>
    BY <1>14 DEF ReadCounter
  <2> QED
    BY <2>3, <2>4
<1>15. ASSUME NEW t \in Threads, Compare(t) PROVE Typed'
  BY <1>15 DEF Compare
<1>16. ASSUME Signal PROVE Typed'
  <2>1. Tail(gpuQueue) \in Seq(Entry) /\ Head(gpuQueue) \in Entry
    BY <1>16, TailAt DEF Signal
  <2>2. counter' \in [Streams -> Nat]
    BY <1>16, <2>1, OpsAssumption DEF Signal, Entry
  <2> QED
    BY <1>16, <2>1, <2>2 DEF Signal
<1>17. ASSUME NEW i \in 1 .. Len(gpuQueue), Execute(i) PROVE Typed'
  <2>1. gpuQueue' \in Seq(Entry)
    BY <1>17, ExecutedAt DEF Execute
  <2>2. dev' \in [Addrs -> Values] /\ staging' \in Values
    BY <1>17, EntryTyped DEF Execute, Counted, Raises, MemoryKinds, CopyKinds
  <2> QED
    BY <1>17, <2>1, <2>2 DEF Execute
<1>18. CASE LoseDevice
  BY <1>18 DEF LoseDevice
<1>19. CASE UNCHANGED vars
  BY <1>19 DEF vars
<1> QED
  BY NextCases, <1>1, <1>2, <1>3, <1>4, <1>5, <1>6, <1>7, <1>8, <1>9, <1>10, <1>11, <1>12,
     <1>13, <1>14, <1>15, <1>16, <1>17, <1>18, <1>19

-----------------------------------------------------------------------------
(* Locks. *)

\* A step of one thread that takes or releases no lock keeps the discipline if that
\* thread is where it may be.
LEMMA OneMoves ==
    ASSUME Typed, Disciplined, NEW t \in Threads, NEW label \in Labels,
           pc' = [pc EXCEPT ![t] = label], UNCHANGED <<op, m_mutex, m_queueMutex, streamMutex>>,
           Kinded(t)' /\ Locked(t)'
    PROVE  Disciplined'
<1>1. ASSUME NEW u \in Threads, u # t PROVE Kinded(u)' /\ Locked(u)'
  <2>1. pc'[u] = pc[u] /\ op'[u] = op[u]
    BY <1>1 DEF Typed, TypeOK
  <2> QED
    BY <2>1 DEF Disciplined, Kinded, Locked
<1> QED
  BY <1>1 DEF Disciplined

\* Every step keeps the discipline of the locks.
LEMMA StepDisciplined ==
    ASSUME Typed, Disciplined, [Next]_vars
    PROVE  Disciplined'
<1> USE DEF Goto, ReturnWith, locks
<1>0. pc \in [Threads -> Labels] /\ streamMutex \in [Streams -> Threads \cup {NoThread}]
      /\ op \in [Threads -> Ops \cup {NoOp}]
  BY DEF Typed, TypeOK
<1>t. \A t \in Threads : pc[t] # "idle" => op[t].stream \in Streams
  BY OpTyped
<1>p. \A t \in Threads : Kinded(t) /\ Locked(t)
  BY DEF Disciplined
<1>n. NoThread \notin Threads
  BY StreamEngineAssumption
<1>1. ASSUME NEW t \in Threads, Call(t) PROVE Disciplined'
  <2>1. /\ pc' = [pc EXCEPT ![t] = "initialize"] /\ UNCHANGED <<m_mutex, m_queueMutex, streamMutex>>
        /\ \A u \in Threads \ {t} : op'[u] = op[u]
    BY <1>0, <1>1 DEF Call
  <2>2. ASSUME NEW u \in Threads PROVE Kinded(u)' /\ Locked(u)'
    <3>1. CASE u = t
      BY <1>0, <2>1, <3>1 DEF Kinded, Locked, InCopy, OnStream
    <3>2. CASE u # t
      BY <1>0, <1>p, <2>1, <3>2 DEF Kinded, Locked
    <3> QED
      BY <3>1, <3>2
  <2> QED
    BY <2>2 DEF Disciplined
<1>2. ASSUME NEW t \in Threads, Initialize(t) PROVE Disciplined'
  <2> DEFINE label == AfterInitialize(op[t].kind)
  <2>1. op[t].kind \in MemoryKinds \cup {"sync", "query", "devsync"}
    BY <1>2, OpTyped DEF Initialize
  <2>2. /\ label \in Labels
        /\ op[t].kind \in CopyKinds => label = "lockRuntime"
        /\ op[t].kind \in {"launch", "sync"} => label = "lockStream"
        /\ op[t].kind = "query" => label = "readValue"
        /\ op[t].kind = "devsync" => label = "enterIdle"
    BY <2>1 DEF AfterInitialize, Labels, MemoryKinds, CopyKinds
  <2>3. pc' = [pc EXCEPT ![t] = label] /\ UNCHANGED <<op, m_mutex, m_queueMutex, streamMutex>>
    BY <1>2 DEF Initialize
  <2>4. pc'[t] = label
    BY <1>0, <2>3
  <2>5. Kinded(t)' /\ Locked(t)'
    BY <2>1, <2>2, <2>3, <2>4 DEF Kinded, Locked, InCopy, OnStream, MemoryKinds, CopyKinds
  <2> QED
    BY <2>2, <2>3, <2>5, OneMoves
<1>3. ASSUME NEW t \in Threads, LockRuntime(t) PROVE Disciplined'
  <2>1. /\ pc[t] = "lockRuntime" /\ m_mutex = NoThread /\ m_mutex' = t
        /\ \E label \in {"enterIdle", "stage"} :
              pc' = [pc EXCEPT ![t] = label] /\ (op[t].kind = "d2d" => label = "stage")
        /\ UNCHANGED <<op, m_queueMutex, streamMutex>>
    BY <1>3 DEF LockRuntime
  <2>2. ASSUME NEW u \in Threads PROVE Kinded(u)' /\ Locked(u)'
    BY <1>0, <1>p, <1>n, <2>1 DEF Kinded, Staged, CopyKinds, Locked, InCopy, OnStream
  <2> QED
    BY <2>2 DEF Disciplined
<1>4. ASSUME NEW t \in Threads, EnterIdle(t) PROVE Disciplined'
  <2>1. pc[t] = "enterIdle" /\ pc' = [pc EXCEPT ![t] = "waitIdle"]
        /\ UNCHANGED <<op, m_mutex, m_queueMutex, streamMutex>>
    BY <1>4 DEF EnterIdle
  <2>2. Kinded(t)' /\ Locked(t)'
    BY <1>0, <1>p, <2>1 DEF Kinded, Locked, InCopy, OnStream
  <2> QED
    BY <2>1, <2>2, OneMoves DEF Labels
<1>5. ASSUME NEW t \in Threads, WaitIdle(t) PROVE Disciplined'
  <2>1. /\ pc[t] = "waitIdle"
        /\ \/ op[t].kind = "devsync" /\ pc' = [pc EXCEPT ![t] = "idle"]
           \/ op[t].kind # "devsync" /\ pc' = [pc EXCEPT ![t] = "grow"]
        /\ UNCHANGED <<op, m_mutex, m_queueMutex, streamMutex>>
    BY <1>5 DEF WaitIdle
  <2>2. Kinded(t)' /\ Locked(t)'
    BY <1>0, <1>p, <2>1 DEF Kinded, Locked, InCopy, OnStream
  <2> QED
    BY <2>1, <2>2, OneMoves DEF Labels
<1>6. ASSUME NEW t \in Threads, Grow(t) PROVE Disciplined'
  <2>1. pc[t] = "grow" /\ pc' = [pc EXCEPT ![t] = "stage"]
        /\ UNCHANGED <<op, m_mutex, m_queueMutex, streamMutex>>
    BY <1>6 DEF Grow
  <2>2. Kinded(t)' /\ Locked(t)'
    BY <1>0, <1>p, <2>1 DEF Kinded, Staged, CopyKinds, Locked, InCopy, OnStream
  <2> QED
    BY <2>1, <2>2, OneMoves DEF Labels
<1>7. ASSUME NEW t \in Threads, Stage(t) PROVE Disciplined'
  <2>1. pc[t] = "stage" /\ pc' = [pc EXCEPT ![t] = "lockStream"]
        /\ UNCHANGED <<op, m_mutex, m_queueMutex, streamMutex>>
    BY <1>7 DEF Stage
  <2>2. Kinded(t)' /\ Locked(t)'
    BY <1>0, <1>p, <2>1 DEF Kinded, Locked, InCopy, OnStream, MemoryKinds
  <2> QED
    BY <2>1, <2>2, OneMoves DEF Labels
<1>8. ASSUME NEW t \in Threads, LockStream(t) PROVE Disciplined'
  <2> DEFINE s == op[t].stream
  <2>1. pc[t] = "lockStream" /\ s \in Streams /\ streamMutex[s] = NoThread
        /\ UNCHANGED <<op, m_mutex, m_queueMutex>>
    BY <1>8, <1>t DEF LockStream
  <2>2. CASE pc' = [pc EXCEPT ![t] = "idle"] /\ UNCHANGED streamMutex
    <3>1. Kinded(t)' /\ Locked(t)'
      BY <1>0, <2>2 DEF Kinded, Locked, InCopy, OnStream
    <3> QED
      BY <2>1, <2>2, <3>1, OneMoves DEF Labels
  <2>3. CASE /\ streamMutex' = [streamMutex EXCEPT ![s] = t]
             /\ \/ op[t].kind = "sync" /\ pc' = [pc EXCEPT ![t] = "waitSemaphore"]
                \/ op[t].kind # "sync" /\ pc' = [pc EXCEPT ![t] = "lockQueue"]
    <3>1. ASSUME NEW u \in Threads, u # t PROVE Kinded(u)' /\ Locked(u)'
      <4>1. pc'[u] = pc[u] /\ op' = op
        BY <1>0, <2>1, <2>3, <3>1
      <4>2. pc[u] \in OnStream => streamMutex'[op[u].stream] = streamMutex[op[u].stream]
        BY <1>0, <1>p, <1>n, <1>t, <2>1, <2>3 DEF Locked, OnStream
      <4> QED
        BY <1>p, <2>1, <4>1, <4>2 DEF Kinded, Locked
    <3>2. Kinded(t)' /\ Locked(t)'
      BY <1>0, <1>p, <2>1, <2>3 DEF Kinded, Locked, InCopy, OnStream
    <3> QED
      BY <3>1, <3>2 DEF Disciplined
  <2> QED
    BY <1>8, <2>2, <2>3 DEF LockStream
<1>9. ASSUME NEW t \in Threads, LockQueue(t) PROVE Disciplined'
  <2>1. pc[t] = "lockQueue" /\ pc' = [pc EXCEPT ![t] = "submit"]
        /\ m_queueMutex = NoThread /\ m_queueMutex' = t /\ UNCHANGED <<op, m_mutex, streamMutex>>
    BY <1>9 DEF LockQueue
  <2>2. ASSUME NEW u \in Threads PROVE Kinded(u)' /\ Locked(u)'
    BY <1>0, <1>p, <1>n, <2>1 DEF Kinded, Locked, InCopy, OnStream
  <2> QED
    BY <2>2 DEF Disciplined
<1>10. ASSUME NEW t \in Threads, Submit(t) PROVE Disciplined'
  <2>1. pc[t] = "submit" /\ pc' = [pc EXCEPT ![t] = "waitSemaphore"]
        /\ UNCHANGED <<op, m_mutex, streamMutex>>
    BY <1>10 DEF Submit
  <2>2. ASSUME NEW u \in Threads PROVE Kinded(u)' /\ Locked(u)'
    BY <1>0, <1>p, <2>1 DEF Kinded, Locked, InCopy, OnStream
  <2> QED
    BY <2>2 DEF Disciplined
<1>11. ASSUME NEW t \in Threads, WaitSemaphore(t) PROVE Disciplined'
  <2> DEFINE s == op[t].stream
  <2>1. /\ pc[t] = "waitSemaphore" /\ streamMutex' = [streamMutex EXCEPT ![s] = NoThread]
        /\ \/ op[t].kind \in CopyKinds /\ pc' = [pc EXCEPT ![t] = "unstage"]
           \/ pc' = [pc EXCEPT ![t] = "idle"]
        /\ UNCHANGED <<op, m_mutex, m_queueMutex>>
    BY <1>11 DEF WaitSemaphore
  <2>2. s \in Streams /\ streamMutex[s] = t
    BY <1>p, <1>t, <2>1 DEF Locked, OnStream
  <2>3. ASSUME NEW u \in Threads, u # t PROVE Kinded(u)' /\ Locked(u)'
    <3>1. pc'[u] = pc[u] /\ op' = op
      BY <1>0, <2>1, <2>3
    <3>2. pc[u] \in OnStream => streamMutex'[op[u].stream] = streamMutex[op[u].stream]
      BY <1>0, <1>p, <1>t, <2>1, <2>2, <2>3 DEF Locked, OnStream
    <3> QED
      BY <1>p, <2>1, <3>1, <3>2 DEF Kinded, Locked
  <2>4. Kinded(t)' /\ Locked(t)'
    BY <1>0, <1>p, <2>1 DEF Kinded, Locked, InCopy, OnStream
  <2> QED
    BY <2>3, <2>4 DEF Disciplined
<1>12. ASSUME NEW t \in Threads, Unstage(t) PROVE Disciplined'
  <2>1. pc[t] = "unstage" /\ pc' = [pc EXCEPT ![t] = "idle"] /\ m_mutex' = NoThread
        /\ UNCHANGED <<op, m_queueMutex, streamMutex>>
    BY <1>12 DEF Unstage
  <2>2. m_mutex = t
    BY <1>p, <2>1 DEF Kinded, Locked, InCopy
  <2>3. ASSUME NEW u \in Threads PROVE Kinded(u)' /\ Locked(u)'
    BY <1>0, <1>p, <2>1, <2>2 DEF Kinded, Locked, InCopy, OnStream
  <2> QED
    BY <2>3 DEF Disciplined
<1>13. ASSUME NEW t \in Threads, NEW label \in {"idle", "readCounter", "compare"},
              pc[t] \in {"readValue", "readCounter", "compare"},
              pc' = [pc EXCEPT ![t] = label], UNCHANGED <<op, m_mutex, m_queueMutex, streamMutex>>
       PROVE  Disciplined'
  <2>1. Kinded(t)' /\ Locked(t)'
    BY <1>0, <1>p, <1>13 DEF Kinded, Locked, InCopy, OnStream
  <2> QED
    BY <1>13, <2>1, OneMoves DEF Labels
<1>14. ASSUME NEW t \in Threads, ReadValue(t) PROVE Disciplined'
  BY <1>13, <1>14 DEF ReadValue
<1>15. ASSUME NEW t \in Threads, ReadCounter(t) PROVE Disciplined'
  BY <1>13, <1>15 DEF ReadCounter
<1>16. ASSUME NEW t \in Threads, Compare(t) PROVE Disciplined'
  BY <1>13, <1>16 DEF Compare
<1>17. ASSUME UNCHANGED <<pc, op, locks>> PROVE Disciplined'
  BY <1>17 DEF Disciplined, Kinded, Locked
<1>18. CASE \/ Signal \/ LoseDevice \/ UNCHANGED vars
            \/ \E i \in 1 .. Len(gpuQueue) : Execute(i)
  BY <1>17, <1>18 DEF Signal, LoseDevice, Execute, vars
<1> QED
  BY NextCases, <1>1, <1>2, <1>3, <1>4, <1>5, <1>6, <1>7, <1>8, <1>9, <1>10, <1>11, <1>12,
     <1>14, <1>15, <1>16, <1>18

-----------------------------------------------------------------------------
(* Submissions, what waits for them and what they count. *)

\* The threads other than t stay where they are.
OthersStay(t) ==
    \A u \in Threads \ {t} :
        /\ pc'[u] = pc[u] /\ op'[u] = op[u] /\ owed'[u] = owed[u]
        /\ sig'[u] = sig[u] /\ recorded'[u] = recorded[u]

\* The GPU and the counters stay as they are.
EngineStays == UNCHANGED <<timelineValue, counter, gpuQueue, stagingGen, lost>>

\* A call acts for its own thread alone.
LEMMA OwnThread ==
    ASSUME Typed, NEW t \in Threads,
           \/ Call(t) \/ Initialize(t) \/ LockRuntime(t) \/ EnterIdle(t) \/ WaitIdle(t) \/ Grow(t)
           \/ Stage(t) \/ LockStream(t) \/ LockQueue(t) \/ Submit(t) \/ WaitSemaphore(t)
           \/ Unstage(t) \/ ReadValue(t) \/ ReadCounter(t) \/ Compare(t)
    PROVE  OthersStay(t)
<1> USE DEF Goto, ReturnWith, frame
<1>1. /\ pc \in [Threads -> Labels] /\ op \in [Threads -> Ops \cup {NoOp}]
      /\ sig \in [Threads -> Nat] /\ recorded \in [Threads -> Nat]
      /\ owed \in [Threads -> SUBSET [stream : Streams, sig : Nat]]
  BY DEF Typed, TypeOK
<1>2. \E label : pc' = [pc EXCEPT ![t] = label]
  BY DEF Call, Initialize, LockRuntime, EnterIdle, WaitIdle, Grow, Stage, LockStream, LockQueue,
         Submit, WaitSemaphore, Unstage, ReadValue, ReadCounter, Compare
<1>3. op' = op \/ \E o : op' = [op EXCEPT ![t] = o]
  BY DEF Call, Initialize, LockRuntime, EnterIdle, WaitIdle, Grow, Stage, LockStream, LockQueue,
         Submit, WaitSemaphore, Unstage, ReadValue, ReadCounter, Compare
<1>4. owed' = owed \/ \E o : owed' = [owed EXCEPT ![t] = o]
  BY DEF Call, Initialize, LockRuntime, EnterIdle, WaitIdle, Grow, Stage, LockStream, LockQueue,
         Submit, WaitSemaphore, Unstage, ReadValue, ReadCounter, Compare
<1>5. sig' = sig \/ \E n : sig' = [sig EXCEPT ![t] = n]
  BY DEF Call, Initialize, LockRuntime, EnterIdle, WaitIdle, Grow, Stage, LockStream, LockQueue,
         Submit, WaitSemaphore, Unstage, ReadValue, ReadCounter, Compare
<1>6. recorded' = recorded \/ \E n : recorded' = [recorded EXCEPT ![t] = n]
  BY DEF Call, Initialize, LockRuntime, EnterIdle, WaitIdle, Grow, Stage, LockStream, LockQueue,
         Submit, WaitSemaphore, Unstage, ReadValue, ReadCounter, Compare
<1> QED
  BY <1>1, <1>2, <1>3, <1>4, <1>5, <1>6 DEF OthersStay

\* While the device lives a stream has one submission, and its lock is not free
\* for a thread to make another.
LEMMA StreamsApart ==
    ASSUME Typed, Disciplined, Awaited, ~lost, NEW i \in 1 .. Len(gpuQueue)
    PROVE  /\ gpuQueue[i].thread \in Threads /\ gpuQueue[i].op.stream \in Streams
           /\ streamMutex[gpuQueue[i].op.stream] = gpuQueue[i].thread
           /\ pc[gpuQueue[i].thread] = "waitSemaphore"
           /\ \A j \in 1 .. Len(gpuQueue) :
                 gpuQueue[j].op.stream = gpuQueue[i].op.stream => j = i
<1>1. ASSUME NEW j \in 1 .. Len(gpuQueue)
      PROVE  /\ gpuQueue[j].thread \in Threads /\ gpuQueue[j].op.stream \in Streams
             /\ pc[gpuQueue[j].thread] = "waitSemaphore"
             /\ op[gpuQueue[j].thread] = gpuQueue[j].op
             /\ streamMutex[gpuQueue[j].op.stream] = gpuQueue[j].thread
  <2>1. gpuQueue[j].thread \in Threads /\ gpuQueue[j].op.stream \in Streams
    BY EntryTyped, QueueTyped DEF Typed
  <2>2. pc[gpuQueue[j].thread] = "waitSemaphore" /\ op[gpuQueue[j].thread] = gpuQueue[j].op
    BY DEF Awaited, AwaitedBy
  <2> QED
    BY <2>1, <2>2 DEF Disciplined, Locked, OnStream
<1>2. \A j \in 1 .. Len(gpuQueue) : gpuQueue[i].thread = gpuQueue[j].thread => i = j
  BY DEF Awaited
<1> QED
  BY <1>1, <1>2

\* A step that leaves the GPU and the counters alone keeps what is counted.
LEMMA CountedOf ==
    ASSUME Counted, NEW t \in Threads, OthersStay(t), EngineStays, Framed(t)'
    PROVE  Counted'
<1>1. ASSUME NEW u \in Threads, u # t PROVE Framed(u)'
  <2>1. Framed(u)
    BY DEF Counted
  <2>2. /\ pc'[u] = pc[u] /\ op'[u] = op[u] /\ owed'[u] = owed[u]
        /\ sig'[u] = sig[u] /\ recorded'[u] = recorded[u]
        /\ UNCHANGED <<timelineValue, counter, stagingGen>>
    BY <1>1 DEF OthersStay, EngineStays
  <2> QED
    BY <2>1, <2>2 DEF Framed
<1>2. (\A s \in Streams : counter[s] <= timelineValue[s])'
  BY DEF Counted, EngineStays
<1>3. (\A i \in 1 .. Len(gpuQueue) : Raises(gpuQueue[i]))'
  BY DEF Counted, EngineStays, Raises
<1> QED
  BY <1>1, <1>2, <1>3 DEF Counted

\* A step of a thread that does not wait for a submission keeps them awaited.
LEMMA AwaitedOf ==
    ASSUME Typed, Awaited, NEW t \in Threads, pc[t] # "waitSemaphore", OthersStay(t),
           UNCHANGED <<gpuQueue, lost>>
    PROVE  Awaited'
<1> SUFFICES ASSUME ~lost, NEW i \in 1 .. Len(gpuQueue)
             PROVE  AwaitedBy(gpuQueue[i], gpuQueue[i].thread)'
  BY DEF Awaited
<1> DEFINE u == gpuQueue[i].thread
<1>1. u \in Threads /\ AwaitedBy(gpuQueue[i], u)
  BY EntryTyped, QueueTyped DEF Typed, Awaited
<1>2. u # t
  BY <1>1 DEF AwaitedBy
<1> QED
  BY <1>1, <1>2 DEF AwaitedBy, OthersStay

\* The steps of a thread that leave the GPU, the counters and what it has read alone.
LEMMA QuietSteps ==
    ASSUME NEW t \in Threads,
           \/ Initialize(t) \/ LockRuntime(t) \/ EnterIdle(t) \/ WaitIdle(t) \/ Stage(t)
           \/ LockQueue(t) \/ WaitSemaphore(t) \/ Unstage(t) \/ ReadValue(t) \/ Compare(t)
    PROVE  EngineStays /\ UNCHANGED <<op, sig, recorded, owed>>
BY DEF Initialize, LockRuntime, EnterIdle, WaitIdle, Stage, LockQueue, WaitSemaphore, Unstage,
       ReadValue, Compare, EngineStays, gpu, memory, frame

\* They keep what is counted.
LEMMA QuietCounted ==
    ASSUME Typed, Disciplined, Counted, NEW t \in Threads,
           \/ Initialize(t) \/ LockRuntime(t) \/ EnterIdle(t) \/ WaitIdle(t) \/ Stage(t)
           \/ LockQueue(t) \/ WaitSemaphore(t) \/ Unstage(t) \/ ReadValue(t) \/ Compare(t)
    PROVE  Counted'
<1>1. EngineStays /\ UNCHANGED <<op, sig, recorded, owed>> /\ OthersStay(t)
  BY QuietSteps, OwnThread
<1>2. pc \in [Threads -> Labels]
  BY DEF Typed, TypeOK
<1>3. Framed(t)
  BY DEF Counted
<1>4. CASE pc[t] = "lockQueue" /\ pc'[t] = "submit"
  <2>1. /\ op'[t] = op[t] /\ owed'[t] = owed[t] /\ sig'[t] = sig[t] /\ recorded'[t] = recorded[t]
        /\ UNCHANGED <<timelineValue, counter, stagingGen>>
    BY <1>1 DEF EngineStays
  <2>2. Framed(t)'
    BY <1>3, <1>4, <2>1 DEF Framed, OnStream
  <2> QED
    BY <1>1, <2>2, CountedOf
<1>5. CASE pc'[t] \notin {"lockQueue", "submit", "waitSemaphore", "compare"}
  <2>1. Framed(t)'
    BY <1>5 DEF Framed, OnStream
  <2> QED
    BY <1>1, <2>1, CountedOf
<1>6. \/ pc[t] = "lockQueue" /\ pc'[t] = "submit"
      \/ pc'[t] \notin {"lockQueue", "submit", "waitSemaphore", "compare"}
  <2>1. CASE Initialize(t)
    <3>1. op[t].kind \in MemoryKinds \cup {"sync", "query", "devsync"}
      BY <2>1, OpTyped DEF Initialize
    <3>2. AfterInitialize(op[t].kind) \notin {"lockQueue", "submit", "waitSemaphore", "compare"}
      BY <3>1 DEF AfterInitialize, MemoryKinds, CopyKinds
    <3> QED
      BY <1>2, <2>1, <3>2 DEF Initialize, Goto
  <2>2. CASE \/ LockRuntime(t) \/ EnterIdle(t) \/ WaitIdle(t) \/ Stage(t) \/ LockQueue(t)
             \/ WaitSemaphore(t) \/ Unstage(t) \/ ReadValue(t) \/ Compare(t)
    BY <1>2, <2>2 DEF LockRuntime, EnterIdle, WaitIdle, Stage, LockQueue, WaitSemaphore, Unstage,
       ReadValue, Compare, Goto, ReturnWith
  <2> QED
    BY <2>1, <2>2
<1> QED
  BY <1>4, <1>5, <1>6

\* A stream is counted up by a thread that takes its lock.
LEMMA LockStreamCounted ==
    ASSUME Typed, Disciplined, Counted, Owing, NEW t \in Threads, LockStream(t)
    PROVE  Counted'
<1> DEFINE s == op[t].stream
<1>1. pc[t] = "lockStream" /\ streamMutex[s] = NoThread
      /\ UNCHANGED <<op, owed, counter, gpuQueue, lost, stagingGen>>
  BY DEF LockStream, gpu, memory
<1>2. s \in Streams /\ timelineValue[s] \in Nat /\ counter[s] \in Nat
  <2>1. s \in Streams
    BY <1>1, OpTyped
  <2> HIDE DEF s
  <2> QED
    BY <2>1 DEF Typed, TypeOK
<1>3. OthersStay(t)
  BY OwnThread
<1>4. pc \in [Threads -> Labels] /\ sig \in [Threads -> Nat] /\ recorded \in [Threads -> Nat]
      /\ timelineValue \in [Streams -> Nat] /\ counter \in [Streams -> Nat]
  BY DEF Typed, TypeOK
<1>5. CASE op[t].kind = "sync" /\ timelineValue[s] = 0
  <2>1. pc'[t] = "idle" /\ UNCHANGED timelineValue
    BY <1>4, <1>5 DEF LockStream, ReturnWith, Goto
  <2>2. Framed(t)'
    BY <2>1 DEF Framed, OnStream
  <2> QED
    BY <1>1, <1>3, <2>1, <2>2, CountedOf DEF EngineStays
<1>6. CASE op[t].kind = "sync" /\ timelineValue[s] # 0
  <2>1. pc'[t] = "waitSemaphore" /\ sig'[t] = timelineValue[s] /\ UNCHANGED timelineValue
    BY <1>4, <1>6 DEF LockStream, Goto
  <2>2. \A o \in owed[t] : o.stream = s => o.sig <= timelineValue[s]
    BY DEF Owing
  <2>3. Framed(t)'
    <3>1. op'[t].kind = "sync" /\ owed'[t] = owed[t] /\ op'[t].stream = s
      BY <1>1, <1>6
    <3> QED
      BY <2>1, <2>2, <3>1 DEF Framed, OnStream, Staged
  <2> QED
    BY <1>1, <1>3, <2>1, <2>3, CountedOf DEF EngineStays
<1>7. CASE op[t].kind # "sync"
  <2>1. /\ timelineValue' = [timelineValue EXCEPT ![s] = timelineValue[s] + 1]
        /\ sig' = [sig EXCEPT ![t] = timelineValue'[s]]
        /\ recorded' = [recorded EXCEPT ![t] = stagingGen]
        /\ pc' = [pc EXCEPT ![t] = "lockQueue"]
    BY <1>7 DEF LockStream, Goto
  <2>2. /\ timelineValue'[s] = timelineValue[s] + 1 /\ sig'[t] = timelineValue'[s]
        /\ recorded'[t] = stagingGen /\ pc'[t] = "lockQueue"
        /\ \A r \in Streams \ {s} : timelineValue'[r] = timelineValue[r]
    BY <1>2, <1>4, <2>1
  <2>3. \A r \in Streams : timelineValue[r] <= timelineValue'[r] /\ timelineValue'[r] \in Nat
    BY <1>2, <1>4, <2>2
  <2>4. counter[s] <= timelineValue[s]
    BY <1>2 DEF Counted
  <2>5. counter[s] < timelineValue'[s]
    BY <1>2, <2>2, <2>4
  <2>6. Framed(t)'
    <3>1. op'[t] = op[t] /\ counter' = counter /\ stagingGen' = stagingGen
      BY <1>1
    <3> QED
      BY <2>2, <2>5, <3>1 DEF Framed
  <2>7. ASSUME NEW u \in Threads, u # t PROVE Framed(u)'
    <3>1. /\ pc'[u] = pc[u] /\ op'[u] = op[u] /\ owed'[u] = owed[u]
          /\ sig'[u] = sig[u] /\ recorded'[u] = recorded[u]
      BY <1>3, <2>7 DEF OthersStay
    <3>2. ASSUME pc[u] \in {"lockQueue", "submit"} PROVE timelineValue'[op[u].stream] = timelineValue[op[u].stream]
      <4>1. streamMutex[op[u].stream] = u /\ op[u].stream \in Streams
        BY <3>2, OpTyped DEF Disciplined, Locked, OnStream
      <4> QED
        BY <1>1, <2>2, <4>1, StreamEngineAssumption
    <3>3. Framed(u)
      BY DEF Counted
    <3> QED
      BY <1>1, <3>1, <3>2, <3>3 DEF Framed
  <2>8. ASSUME NEW r \in Streams PROVE counter'[r] <= timelineValue'[r]
    <3>1. counter[r] <= timelineValue[r] /\ counter[r] \in Nat /\ timelineValue[r] \in Nat
      BY <1>4 DEF Counted
    <3> QED
      BY <1>1, <2>3, <3>1
  <2>9. ASSUME NEW i \in 1 .. Len(gpuQueue) PROVE Raises(gpuQueue[i])'
    <3>1. Raises(gpuQueue[i]) /\ gpuQueue' = gpuQueue /\ counter' = counter
      BY <1>1 DEF Counted
    <3>2. gpuQueue[i].op.stream \in Streams /\ gpuQueue[i].sig \in Nat
      BY EntryTyped, QueueTyped DEF Typed
    <3>3. gpuQueue[i].sig <= timelineValue'[gpuQueue[i].op.stream]
      BY <1>4, <2>3, <3>1, <3>2 DEF Raises
    <3> QED
      BY <3>1, <3>3 DEF Raises
  <2> QED
    BY <1>1, <2>6, <2>7, <2>8, <2>9 DEF Counted
<1> QED
  BY <1>5, <1>6, <1>7

\* A submission is made by the thread that counted it.
LEMMA SubmitCounted ==
    ASSUME Typed, Disciplined, Counted, NEW t \in Threads, Submit(t)
    PROVE  Counted'
<1>1. /\ pc[t] = "submit" /\ pc'[t] = "waitSemaphore"
      /\ UNCHANGED <<op, sig, recorded, owed, counter, timelineValue, lost, stagingGen>>
  BY DEF Submit, Typed, TypeOK, Goto, frame, memory
<1>2. Kinded(t) /\ Framed(t)
  BY DEF Disciplined, Counted
<1>3. op[t].stream \in Streams /\ sig[t] \in Nat /\ timelineValue[op[t].stream] \in Nat
  <2>1. op[t].stream \in Streams
    BY <1>1, OpTyped
  <2> QED
    BY <2>1 DEF Typed, TypeOK
<1>4. Framed(t)'
  <2>1. op'[t].kind # "sync"
    BY <1>1, <1>2 DEF Kinded, MemoryKinds, CopyKinds
  <2> QED
    BY <1>1, <1>2, <2>1 DEF Framed, OnStream
<1>5. ASSUME NEW u \in Threads, u # t PROVE Framed(u)'
  <2>1. /\ pc'[u] = pc[u] /\ op'[u] = op[u] /\ owed'[u] = owed[u]
        /\ sig'[u] = sig[u] /\ recorded'[u] = recorded[u]
    BY <1>5, OwnThread DEF OthersStay
  <2>2. Framed(u)
    BY DEF Counted
  <2> QED
    BY <1>1, <2>1, <2>2 DEF Framed
<1>6. ASSUME NEW i \in 1 .. Len(gpuQueue') PROVE Raises(gpuQueue[i])'
  <2>1. Submission(t) \in Entry
    BY <1>1, OpTyped DEF Submission, Entry, Typed, TypeOK
  <2>2. \/ i \in 1 .. Len(gpuQueue) /\ gpuQueue'[i] = gpuQueue[i]
        \/ gpuQueue'[i] = Submission(t)
    BY <2>1, AppendAt DEF Submit, Typed
  <2>3. CASE i \in 1 .. Len(gpuQueue) /\ gpuQueue'[i] = gpuQueue[i]
    <3>1. Raises(gpuQueue[i])
      BY <2>3 DEF Counted
    <3> QED
      BY <1>1, <2>3, <3>1 DEF Raises
  <2>4. CASE gpuQueue'[i] = Submission(t)
    <3>1. gpuQueue'[i].op = op[t] /\ gpuQueue'[i].sig = sig[t]
      BY <2>4 DEF Submission
    <3>2. op[t].kind \in MemoryKinds /\ sig[t] = timelineValue[op[t].stream]
          /\ counter[op[t].stream] < sig[t]
      BY <1>1, <1>2 DEF Kinded, Framed
    <3>3. counter'[op[t].stream] < sig[t] /\ sig[t] <= timelineValue'[op[t].stream]
      BY <1>1, <1>3, <3>2
    <3> QED
      BY <3>1, <3>2, <3>3 DEF Raises
  <2> QED
    BY <2>2, <2>3, <2>4
<1>7. (\A s \in Streams : counter[s] <= timelineValue[s])'
  BY <1>1 DEF Counted
<1> QED
  BY <1>4, <1>5, <1>6, <1>7 DEF Counted

\* The GPU raises the counter of the one stream whose only submission is complete.
LEMMA SignalCounted ==
    ASSUME Typed, Disciplined, Counted, Awaited, Signal
    PROVE  Counted'
<1> DEFINE e == gpuQueue[1]
           s == e.op.stream
<1>1. /\ ~lost /\ gpuQueue # << >> /\ gpuQueue' = Tail(gpuQueue)
      /\ counter' = [counter EXCEPT ![s] = e.sig]
      /\ UNCHANGED <<pc, op, sig, recorded, owed, timelineValue, stagingGen, streamMutex>>
  BY TailAt, QueueTyped DEF Signal, Typed, frame, memory, locks
<1>2. /\ Len(gpuQueue) \in Nat /\ Len(gpuQueue') = Len(gpuQueue) - 1 /\ 1 \in 1 .. Len(gpuQueue)
      /\ \A i \in 1 .. Len(gpuQueue') : gpuQueue'[i] = gpuQueue[i + 1] /\ i + 1 \in 1 .. Len(gpuQueue)
  BY <1>1, TailAt DEF Typed
<1>3. Raises(e) /\ s \in Streams /\ e.sig \in Nat /\ counter[s] \in Nat /\ timelineValue[s] \in Nat
  <2>1. Raises(e) /\ s \in Streams /\ e.sig \in Nat
    BY <1>2, EntryTyped, QueueTyped DEF Counted, Typed
  <2> HIDE DEF s
  <2> QED
    BY <2>1 DEF Typed, TypeOK
<1>4. /\ counter'[s] = e.sig /\ counter[s] < e.sig /\ e.sig <= timelineValue[s]
      /\ \A r \in Streams \ {s} : counter'[r] = counter[r]
  BY <1>1, <1>3 DEF Raises, Typed, TypeOK
<1>5. /\ e.thread \in Threads /\ streamMutex[s] = e.thread /\ pc[e.thread] = "waitSemaphore"
      /\ \A j \in 1 .. Len(gpuQueue) : gpuQueue[j].op.stream = s => j = 1
  BY <1>1, <1>2, StreamsApart
<1> HIDE DEF e, s
<1>6. ASSUME NEW u \in Threads PROVE Framed(u)'
  <2>1. Framed(u)
    BY DEF Counted
  <2>2. ASSUME pc[u] \in {"lockQueue", "submit"} PROVE counter'[op[u].stream] = counter[op[u].stream]
    <3>1. streamMutex[op[u].stream] = u /\ op[u].stream \in Streams
      BY <2>2, OpTyped DEF Disciplined, Locked, OnStream
    <3>2. op[u].stream # s
      BY <1>5, <2>2, <3>1
    <3> QED
      BY <1>4, <3>1, <3>2
  <2>3. ASSUME pc[u] = "compare" PROVE sig[u] <= counter'[op[u].stream]
    <3>1. op[u].stream \in Streams /\ sig[u] \in Nat /\ sig[u] <= counter[op[u].stream]
      BY <2>1, <2>3, OpTyped DEF Framed, Typed, TypeOK
    <3>2. CASE op[u].stream = s
      BY <1>3, <1>4, <3>1, <3>2
    <3>3. CASE op[u].stream # s
      BY <1>4, <3>1, <3>3
    <3> QED
      BY <3>2, <3>3
  <2> QED
    BY <1>1, <2>1, <2>2, <2>3 DEF Framed
<1>7. ASSUME NEW r \in Streams PROVE counter'[r] <= timelineValue'[r]
  BY <1>1, <1>3, <1>4 DEF Counted
<1>8. ASSUME NEW i \in 1 .. Len(gpuQueue') PROVE Raises(gpuQueue[i])'
  <2>1. gpuQueue'[i] = gpuQueue[i + 1] /\ i + 1 \in 1 .. Len(gpuQueue) /\ i + 1 # 1
    BY <1>2
  <2>2. Raises(gpuQueue[i + 1]) /\ gpuQueue[i + 1].op.stream \in Streams
    BY <2>1, EntryTyped, QueueTyped DEF Counted, Typed
  <2>3. gpuQueue[i + 1].op.stream # s
    BY <1>5, <2>1
  <2>4. counter'[gpuQueue[i + 1].op.stream] = counter[gpuQueue[i + 1].op.stream]
    BY <1>4, <2>2, <2>3
  <2> QED
    BY <1>1, <2>1, <2>2, <2>4 DEF Raises
<1> QED
  BY <1>6, <1>7, <1>8 DEF Counted

\* Every step keeps what is counted.
LEMMA StepCounted ==
    ASSUME Engine, [Next]_vars
    PROVE  Counted'
<1> USE DEF Engine
<1>0. pc \in [Threads -> Labels] /\ sig \in [Threads -> Nat]
  BY DEF Typed, TypeOK
<1>1. ASSUME NEW t \in Threads, Call(t) PROVE Counted'
  <2>1. pc'[t] = "initialize" /\ EngineStays
    BY <1>0, <1>1 DEF Call, Goto, EngineStays, gpu, memory
  <2>2. Framed(t)'
    BY <2>1 DEF Framed, OnStream
  <2> QED
    BY <1>1, <2>1, <2>2, OwnThread, CountedOf
<1>2. ASSUME NEW t \in Threads, Grow(t) PROVE Counted'
  <2>1. /\ pc[t] = "grow" /\ pc'[t] = "stage"
        /\ UNCHANGED <<op, sig, recorded, owed, counter, timelineValue, gpuQueue>>
    BY <1>0, <1>2 DEF Grow, Goto, frame, gpu
  <2>2. ASSUME NEW u \in Threads PROVE Framed(u)'
    <3>1. CASE u = t
      BY <2>1, <3>1 DEF Framed, OnStream
    <3>2. CASE u # t
      <4>1. pc'[u] = pc[u] /\ Framed(u)
        BY <1>2, <3>2, OwnThread DEF OthersStay, Counted
      <4>2. ~(pc[u] \in OnStream /\ Staged(op[u].kind))
        <5>1. m_mutex = t
          BY <2>1 DEF Disciplined, Kinded, Staged, CopyKinds, Locked, InCopy
        <5> QED
          BY <3>2, <5>1 DEF Disciplined, Locked, OnStream, InCopy, Staged, CopyKinds
      <4> QED
        BY <2>1, <4>1, <4>2 DEF Framed
    <3> QED
      BY <3>1, <3>2
  <2> QED
    BY <2>1, <2>2 DEF Counted, Raises
<1>3. ASSUME NEW t \in Threads, ReadCounter(t) PROVE Counted'
  <2>1. /\ EngineStays /\ UNCHANGED op
        /\ \/ pc'[t] = "compare" /\ sig'[t] = counter[op[t].stream]
           \/ pc'[t] = "idle"
    BY <1>0, <1>3 DEF ReadCounter, Goto, ReturnWith, EngineStays, gpu, memory
  <2>2. op[t].stream \in Streams
    BY <1>3, OpTyped DEF ReadCounter
  <2>3. counter[op[t].stream] <= counter[op[t].stream]
    BY <2>2 DEF Typed, TypeOK
  <2>4. Framed(t)'
    BY <2>1, <2>3 DEF Framed, OnStream, EngineStays
  <2> QED
    BY <1>3, <2>1, <2>4, OwnThread, CountedOf
<1>4. ASSUME NEW i \in 1 .. Len(gpuQueue), Execute(i) PROVE Counted'
  <2>1. UNCHANGED <<pc, op, sig, recorded, owed, counter, timelineValue, stagingGen>>
    BY <1>4 DEF Execute, frame
  <2>2. /\ Len(gpuQueue') = Len(gpuQueue)
        /\ \A j \in 1 .. Len(gpuQueue) :
              gpuQueue'[j].op = gpuQueue[j].op /\ gpuQueue'[j].sig = gpuQueue[j].sig
    BY <1>4, ExecutedAt DEF Execute, Typed
  <2> QED
    BY <2>1, <2>2 DEF Counted, Framed, Raises
<1>5. CASE LoseDevice \/ UNCHANGED vars
  <2>1. UNCHANGED <<pc, op, sig, recorded, owed, counter, timelineValue, stagingGen, gpuQueue>>
    BY <1>5 DEF LoseDevice, vars, frame, memory, gpu
  <2> QED
    BY <2>1 DEF Counted, Framed, Raises
<1> QED
  BY NextCases, QuietCounted, LockStreamCounted, SubmitCounted, SignalCounted,
     <1>1, <1>2, <1>3, <1>4, <1>5

\* A thread waits until its submission is complete.
LEMMA WaitAwaited ==
    ASSUME Engine, NEW t \in Threads, WaitSemaphore(t)
    PROVE  Awaited'
<1> SUFFICES ASSUME ~lost, NEW i \in 1 .. Len(gpuQueue)
             PROVE  AwaitedBy(gpuQueue[i], gpuQueue[i].thread)'
  BY DEF Awaited, Engine, WaitSemaphore, gpu
<1> DEFINE e == gpuQueue[i]
           u == e.thread
<1>1. /\ u \in Threads /\ e.op.stream \in Streams /\ e.sig \in Nat
      /\ AwaitedBy(e, u) /\ Raises(e)
  BY EntryTyped, QueueTyped DEF Engine, Typed, Awaited, Counted
<1>2. counter[e.op.stream] \in Nat
  <2> HIDE DEF e
  <2> QED
    BY <1>1 DEF Engine, Typed, TypeOK
<1>3. Signalled(t)
  BY DEF WaitSemaphore
<1>4. u # t
  BY <1>1, <1>2, <1>3 DEF AwaitedBy, Raises, Signalled
<1>5. OthersStay(t)
  BY OwnThread DEF Engine
<1> QED
  BY <1>1, <1>4, <1>5 DEF AwaitedBy, OthersStay, WaitSemaphore, gpu

\* The thread that submits waits for what it submitted.
LEMMA SubmitAwaited ==
    ASSUME Engine, NEW t \in Threads, Submit(t)
    PROVE  Awaited'
<1>1. /\ pc[t] = "submit" /\ pc'[t] = "waitSemaphore"
      /\ op'[t] = op[t] /\ sig'[t] = sig[t] /\ recorded'[t] = recorded[t] /\ lost' = lost
  BY DEF Engine, Submit, Typed, TypeOK, Goto, frame
<1>2. Submission(t) \in Entry
  BY <1>1, OpTyped DEF Engine, Submission, Entry, Typed, TypeOK
<1> SUFFICES ASSUME ~lost PROVE Awaited'
  BY <1>1 DEF Awaited
<1>3. /\ Len(gpuQueue) \in Nat /\ Len(gpuQueue') = Len(gpuQueue) + 1
      /\ \A i \in 1 .. Len(gpuQueue) : gpuQueue'[i] = gpuQueue[i]
      /\ gpuQueue'[Len(gpuQueue) + 1] = Submission(t)
  BY <1>2, AppendAt DEF Submit, Engine, Typed
<1>4. /\ Submission(t).thread = t /\ op'[t] = Submission(t).op
      /\ sig'[t] = Submission(t).sig /\ recorded'[t] = Submission(t).gen
  BY <1>1 DEF Submission
<1>5. ASSUME NEW i \in 1 .. Len(gpuQueue)
      PROVE  gpuQueue[i].thread # t /\ AwaitedBy(gpuQueue[i], gpuQueue[i].thread)'
  <2>1. gpuQueue[i].thread \in Threads /\ AwaitedBy(gpuQueue[i], gpuQueue[i].thread)
    BY EntryTyped, QueueTyped DEF Engine, Typed, Awaited
  <2>2. gpuQueue[i].thread # t
    BY <1>1, <2>1 DEF AwaitedBy
  <2> QED
    BY <1>3, <2>1, <2>2, OwnThread DEF Engine, AwaitedBy, OthersStay
<1>6. ASSUME NEW i \in 1 .. Len(gpuQueue') PROVE AwaitedBy(gpuQueue[i], gpuQueue[i].thread)'
  <2>1. i \in 1 .. Len(gpuQueue) \/ i = Len(gpuQueue) + 1
    BY <1>3
  <2> QED
    BY <1>1, <1>3, <1>4, <1>5, <2>1 DEF AwaitedBy
<1>7. ASSUME NEW i \in 1 .. Len(gpuQueue'), NEW j \in 1 .. Len(gpuQueue'),
             gpuQueue'[i].thread = gpuQueue'[j].thread
      PROVE  i = j
  <2>1. /\ i \in 1 .. Len(gpuQueue) \/ i = Len(gpuQueue) + 1
        /\ j \in 1 .. Len(gpuQueue) \/ j = Len(gpuQueue) + 1
    BY <1>3
  <2>2. \A k, l \in 1 .. Len(gpuQueue) : gpuQueue[k].thread = gpuQueue[l].thread => k = l
    BY DEF Engine, Awaited
  <2> QED
    BY <1>3, <1>4, <1>5, <1>7, <2>1, <2>2
<1> QED
  BY <1>6, <1>7 DEF Awaited

\* The other submissions are awaited as before when the first is signalled.
LEMMA SignalAwaited ==
    ASSUME Engine, Signal
    PROVE  Awaited'
<1>1. /\ ~lost /\ gpuQueue # << >> /\ gpuQueue' = Tail(gpuQueue)
      /\ UNCHANGED <<pc, op, sig, recorded, lost>>
  BY DEF Signal, frame
<1>2. /\ Len(gpuQueue) \in Nat /\ Len(gpuQueue') = Len(gpuQueue) - 1
      /\ \A i \in 1 .. Len(gpuQueue') : gpuQueue'[i] = gpuQueue[i + 1] /\ i + 1 \in 1 .. Len(gpuQueue)
  BY <1>1, TailAt DEF Engine, Typed
<1>3. ASSUME NEW i \in 1 .. Len(gpuQueue') PROVE AwaitedBy(gpuQueue[i], gpuQueue[i].thread)'
  <2>1. AwaitedBy(gpuQueue[i + 1], gpuQueue[i + 1].thread)
    BY <1>1, <1>2 DEF Engine, Awaited
  <2> QED
    BY <1>1, <1>2, <2>1 DEF AwaitedBy
<1>4. ASSUME NEW i \in 1 .. Len(gpuQueue'), NEW j \in 1 .. Len(gpuQueue'),
             gpuQueue'[i].thread = gpuQueue'[j].thread
      PROVE  i = j
  <2>1. i + 1 = j + 1
    BY <1>1, <1>2, <1>4 DEF Engine, Awaited
  <2> QED
    BY <1>2, <2>1
<1> QED
  BY <1>3, <1>4 DEF Awaited

\* Every step keeps the submissions awaited.
LEMMA StepAwaited ==
    ASSUME Engine, [Next]_vars
    PROVE  Awaited'
<1>1. ASSUME NEW t \in Threads,
             \/ Call(t) \/ Initialize(t) \/ LockRuntime(t) \/ EnterIdle(t) \/ WaitIdle(t)
             \/ Grow(t) \/ Stage(t) \/ LockStream(t) \/ LockQueue(t)
             \/ Unstage(t) \/ ReadValue(t) \/ ReadCounter(t) \/ Compare(t)
      PROVE  Awaited'
  <2>1. pc[t] # "waitSemaphore" /\ UNCHANGED <<gpuQueue, lost>>
    BY <1>1 DEF Call, Initialize, LockRuntime, EnterIdle, WaitIdle, Grow, Stage, LockStream,
       LockQueue, Unstage, ReadValue, ReadCounter, Compare, gpu
  <2> QED
    BY <1>1, <2>1, OwnThread, AwaitedOf DEF Engine
<1>2. ASSUME NEW i \in 1 .. Len(gpuQueue), Execute(i) PROVE Awaited'
  <2>1. UNCHANGED <<pc, op, sig, recorded, lost>>
    BY <1>2 DEF Execute, frame
  <2>2. /\ Len(gpuQueue') = Len(gpuQueue)
        /\ \A j \in 1 .. Len(gpuQueue) :
              /\ gpuQueue'[j].thread = gpuQueue[j].thread /\ gpuQueue'[j].op = gpuQueue[j].op
              /\ gpuQueue'[j].sig = gpuQueue[j].sig /\ gpuQueue'[j].gen = gpuQueue[j].gen
    BY <1>2, ExecutedAt DEF Execute, Engine, Typed
  <2> QED
    BY <2>1, <2>2 DEF Engine, Awaited, AwaitedBy
<1>3. CASE LoseDevice
  BY <1>3 DEF LoseDevice, Awaited
<1>4. CASE UNCHANGED vars
  BY <1>4 DEF vars, frame, gpu, Engine, Awaited, AwaitedBy
<1> QED
  BY NextCases, WaitAwaited, SubmitAwaited, SignalAwaited, <1>1, <1>2, <1>3, <1>4

-----------------------------------------------------------------------------
(* What a call has to wait for. *)

\* What is in flight has been counted, and is not complete.
LEMMA FlyingCounted ==
    ASSUME Typed, Counted, NEW o \in InFlight
    PROVE  o.stream \in Streams /\ 0 < o.sig /\ o.sig <= timelineValue[o.stream]
<1>1. PICK i \in 1 .. Len(gpuQueue) :
          o = [stream |-> gpuQueue[i].op.stream, sig |-> gpuQueue[i].sig]
  BY FlyingAt, QueueTyped DEF Typed, InFlight, Flying
<1> DEFINE e == gpuQueue[i]
<1>2. Raises(e) /\ e.op.stream \in Streams /\ e.sig \in Nat
  BY EntryTyped, QueueTyped DEF Typed, Counted
<1>3. counter[e.op.stream] \in Nat
  <2> HIDE DEF e
  <2> QED
    BY <1>2 DEF Typed, TypeOK
<1> QED
  BY <1>1, <1>2, <1>3 DEF Raises

\* A queue that has the submissions of another has them in flight.
LEMMA FlyingGrows ==
    ASSUME NEW q \in Seq(Entry), NEW r \in Seq(Entry),
           \A i \in 1 .. Len(q) : \E j \in 1 .. Len(r) : r[j].op = q[i].op /\ r[j].sig = q[i].sig
    PROVE  Flying(q) \subseteq Flying(r)
<1> SUFFICES ASSUME NEW o \in Flying(q) PROVE o \in Flying(r)
  OBVIOUS
<1>1. PICK i \in 1 .. Len(q) : o = [stream |-> q[i].op.stream, sig |-> q[i].sig]
  BY FlyingAt
<1>2. PICK j \in 1 .. Len(r) : r[j].op = q[i].op /\ r[j].sig = q[i].sig
  OBVIOUS
<1>3. o = [stream |-> r[j].op.stream, sig |-> r[j].sig]
  BY <1>1, <1>2
<1> QED
  BY <1>3, FlyingAt

\* What is owed stays so while counters stand still, timelines grow and submissions stay.
LEMMA OwingOf ==
    ASSUME Typed, Owing, UNCHANGED <<owed, counter>>, InFlight \subseteq InFlight',
           \A s \in Streams : timelineValue'[s] \in Nat /\ timelineValue[s] <= timelineValue'[s]
    PROVE  Owing'
<1> SUFFICES ASSUME NEW t \in Threads, NEW o \in owed[t]
             PROVE  /\ 0 < o.sig /\ o.sig <= timelineValue'[o.stream]
                    /\ counter[o.stream] < o.sig => o \in InFlight'
  BY DEF Owing
<1>1. /\ o.stream \in Streams /\ o.sig \in Nat
      /\ 0 < o.sig /\ o.sig <= timelineValue[o.stream]
      /\ counter[o.stream] < o.sig => o \in InFlight
  BY QueueTyped DEF Owing, Typed
<1>2. timelineValue[o.stream] \in Nat
  BY <1>1 DEF Typed, TypeOK
<1> QED
  BY <1>1, <1>2

\* Every step keeps what is owed.
LEMMA StepOwing ==
    ASSUME Engine, [Next]_vars
    PROVE  Owing'
<1> USE DEF Engine
<1>0. /\ timelineValue \in [Streams -> Nat] /\ counter \in [Streams -> Nat]
      /\ owed \in [Threads -> SUBSET [stream : Streams, sig : Nat]] /\ gpuQueue \in Seq(Entry)
  BY DEF Typed, TypeOK
<1>f. InFlight = Flying(gpuQueue) /\ InFlight' = Flying(gpuQueue')
  BY DEF InFlight, Flying
<1>1. ASSUME NEW t \in Threads, Call(t) PROVE Owing'
  <2>1. owed' = [owed EXCEPT ![t] = InFlight] /\ UNCHANGED <<timelineValue, counter, gpuQueue>>
    BY <1>1 DEF Call, gpu
  <2>2. ASSUME NEW u \in Threads, NEW o \in owed'[u]
        PROVE  /\ 0 < o.sig /\ o.sig <= timelineValue[o.stream]
               /\ counter[o.stream] < o.sig => o \in InFlight
    <3>1. CASE u = t
      BY <1>0, <2>1, <2>2, <3>1, FlyingCounted
    <3>2. CASE u # t
      BY <1>0, <2>1, <2>2, <3>2 DEF Owing
    <3> QED
      BY <3>1, <3>2
  <2> QED
    BY <2>1, <2>2 DEF Owing, InFlight
<1>2. ASSUME UNCHANGED <<owed, counter, timelineValue, gpuQueue>> PROVE Owing'
  BY <1>2 DEF Owing, InFlight
<1>3. ASSUME NEW t \in Threads, LockStream(t) PROVE Owing'
  <2>1. op[t].stream \in Streams
    BY <1>3, OpTyped DEF LockStream
  <2>2. /\ UNCHANGED <<owed, counter, gpuQueue>>
        /\ \/ UNCHANGED timelineValue
           \/ timelineValue' = [timelineValue EXCEPT ![op[t].stream] = timelineValue[op[t].stream] + 1]
    BY <1>3 DEF LockStream, gpu
  <2>3. ASSUME NEW s \in Streams PROVE timelineValue'[s] \in Nat /\ timelineValue[s] <= timelineValue'[s]
    <3>1. timelineValue[s] \in Nat
      BY <1>0
    <3>2. timelineValue'[s] = timelineValue[s] \/ timelineValue'[s] = timelineValue[s] + 1
      BY <1>0, <2>1, <2>2
    <3> QED
      BY <3>1, <3>2
  <2> QED
    BY <2>2, <2>3, OwingOf DEF InFlight
<1>4. ASSUME NEW t \in Threads, Submit(t) PROVE Owing'
  <2>1. Submission(t) \in Entry
    BY <1>4, OpTyped DEF Submit, Submission, Entry, Typed, TypeOK
  <2>2. UNCHANGED <<owed, counter, timelineValue>>
    BY <1>4 DEF Submit
  <2>3. InFlight \subseteq InFlight'
    <3>1. CASE gpuQueue' = gpuQueue
      BY <1>f, <3>1
    <3>2. CASE gpuQueue' = Append(gpuQueue, Submission(t))
      <4>1. gpuQueue' \in Seq(Entry) /\ Len(gpuQueue') = Len(gpuQueue) + 1
        BY <1>0, <2>1, <3>2, AppendAt
      <4>2. \A i \in 1 .. Len(gpuQueue) : gpuQueue'[i] = gpuQueue[i]
        BY <1>0, <2>1, <3>2, AppendAt
      <4>3. \A i \in 1 .. Len(gpuQueue) : i \in 1 .. Len(gpuQueue')
        BY <1>0, <4>1
      <4>4. Flying(gpuQueue) \subseteq Flying(gpuQueue')
        BY <1>0, <4>1, <4>2, <4>3, FlyingGrows
      <4> QED
        BY <1>f, <4>4
    <3> QED
      BY <1>4, <3>1, <3>2 DEF Submit
  <2> QED
    BY <1>0, <2>2, <2>3, OwingOf
<1>5. CASE Signal
  <2> DEFINE e == gpuQueue[1]
             s == e.op.stream
  <2>1. /\ ~lost /\ gpuQueue # << >> /\ gpuQueue' = Tail(gpuQueue)
        /\ counter' = [counter EXCEPT ![s] = e.sig] /\ UNCHANGED <<owed, timelineValue>>
    BY <1>0, <1>5, TailAt DEF Signal
  <2>2. /\ Len(gpuQueue) \in Nat /\ Len(gpuQueue') = Len(gpuQueue) - 1 /\ 1 \in 1 .. Len(gpuQueue)
        /\ \A i \in 1 .. Len(gpuQueue') : gpuQueue'[i] = gpuQueue[i + 1]
        /\ gpuQueue' \in Seq(Entry)
    BY <1>0, <2>1, TailAt
  <2>3. s \in Streams /\ e.sig \in Nat /\ Raises(e)
    BY <1>0, <2>2, EntryTyped DEF Counted
  <2> HIDE DEF s
  <2>4. counter[s] < e.sig /\ counter[s] \in Nat /\ counter'[s] = e.sig
        /\ \A r \in Streams \ {s} : counter'[r] = counter[r]
    BY <1>0, <2>1, <2>3 DEF Raises, s
  <2>5. ASSUME NEW t \in Threads, NEW o \in owed[t], counter'[o.stream] < o.sig
        PROVE  o \in InFlight'
    <3>1. o.stream \in Streams /\ o.sig \in Nat
      BY <1>0, <2>5
    <3>2. counter[o.stream] < o.sig /\ ~(o.stream = s /\ o.sig = e.sig)
      BY <1>0, <2>3, <2>4, <2>5, <3>1
    <3>3. o \in InFlight
      BY <3>2 DEF Owing
    <3>4. PICK i \in 1 .. Len(gpuQueue) :
              o = [stream |-> gpuQueue[i].op.stream, sig |-> gpuQueue[i].sig]
      BY <1>0, <1>f, <3>3, FlyingAt, ZenonT(60)
    <3>5. i # 1
      BY <3>2, <3>4 DEF s
    <3>6. i - 1 \in 1 .. Len(gpuQueue') /\ gpuQueue'[i - 1] = gpuQueue[i]
      BY <2>2, <3>5
    <3>7. o \in Flying(gpuQueue')
      BY <2>2, <3>4, <3>6, FlyingAt
    <3> QED
      BY <1>f, <3>7
  <2> QED
    BY <2>1, <2>5 DEF Owing
<1>6. ASSUME NEW i \in 1 .. Len(gpuQueue), Execute(i) PROVE Owing'
  <2>1. UNCHANGED <<owed, counter, timelineValue>>
    BY <1>6 DEF Execute
  <2>2. /\ gpuQueue' \in Seq(Entry) /\ Len(gpuQueue') = Len(gpuQueue)
        /\ \A j \in 1 .. Len(gpuQueue) :
              gpuQueue'[j].op = gpuQueue[j].op /\ gpuQueue'[j].sig = gpuQueue[j].sig
    <3>1. gpuQueue' = [gpuQueue EXCEPT ![i].executed = TRUE]
      BY <1>6 DEF Execute
    <3>2. gpuQueue' \in Seq(Entry) /\ Len(gpuQueue') = Len(gpuQueue)
      BY <1>0, <3>1, ExecutedAt
    <3>3. ASSUME NEW j \in 1 .. Len(gpuQueue)
          PROVE  gpuQueue'[j].op = gpuQueue[j].op /\ gpuQueue'[j].sig = gpuQueue[j].sig
      BY <1>0, <3>1, ExecutedAt
    <3> QED
      BY <3>2, <3>3
  <2>3. InFlight \subseteq InFlight'
    <3>1. Flying(gpuQueue) \subseteq Flying(gpuQueue')
      BY <1>0, <2>2, FlyingGrows
    <3> QED
      BY <1>f, <3>1
  <2> QED
    BY <1>0, <2>1, <2>3, OwingOf
<1>7. ASSUME NEW t \in Threads, Grow(t) \/ ReadCounter(t) PROVE Owing'
  BY <1>2, <1>7 DEF Grow, ReadCounter, gpu
<1>8. ASSUME NEW t \in Threads,
             \/ Initialize(t) \/ LockRuntime(t) \/ EnterIdle(t) \/ WaitIdle(t) \/ Stage(t)
             \/ LockQueue(t) \/ WaitSemaphore(t) \/ Unstage(t) \/ ReadValue(t) \/ Compare(t)
      PROVE  Owing'
  BY <1>2, <1>8, QuietSteps DEF EngineStays
<1>9. CASE LoseDevice \/ UNCHANGED vars
  BY <1>2, <1>9 DEF LoseDevice, vars, gpu
<1> QED
  BY NextCases, <1>1, <1>3, <1>4, <1>5, <1>6, <1>7, <1>8, <1>9

-----------------------------------------------------------------------------
(* The engine. *)

\* All of it holds at first.
LEMMA InitEngine == Init => Engine
<1> SUFFICES ASSUME Init PROVE Engine
  OBVIOUS
<1>1. Typed
  BY InitTyped
<1>2. gpuQueue = << >> /\ Len(gpuQueue) = 0
  BY DEF Init
<1>3. \A t \in Threads : pc[t] = "idle" /\ owed[t] = {}
  BY DEF Init
<1>4. Disciplined
  BY <1>3 DEF Disciplined, Kinded, Locked, InCopy, OnStream
<1>5. Counted
  <2>1. \A s \in Streams : counter[s] <= timelineValue[s]
    BY DEF Init
  <2> QED
    BY <1>2, <1>3, <2>1 DEF Counted, Framed, OnStream
<1>6. Awaited /\ Owing
  BY <1>2, <1>3 DEF Awaited, Owing
<1> QED
  BY <1>1, <1>4, <1>5, <1>6 DEF Engine

\* The engine stays as it should be.
LEMMA EngineHolds == Spec => []Engine
<1>1. Engine /\ [Next]_vars => Engine'
  BY StepTyped, StepDisciplined, StepCounted, StepAwaited, StepOwing DEF Engine
<1> QED
  BY InitEngine, <1>1, PTL DEF Spec

-----------------------------------------------------------------------------
(* What it promises. *)

\* Every variable keeps its type, whatever the calls and however many.
THEOREM TypeCorrect == Spec => []TypeOK
<1>1. Engine => TypeOK
  BY DEF Engine, Typed
<1> QED
  BY <1>1, EngineHolds, PTL

\* No two threads are inside vkQueueSubmit at once.
THEOREM SubmissionsSerialised == Spec => []SubmitsSerialised
<1>1. Engine => SubmitsSerialised
  BY DEF Engine, Disciplined, Locked, SubmitsSerialised
<1> QED
  BY <1>1, EngineHolds, PTL

\* Every stream's semaphore is signalled with ever larger values, by one
\* submission at a time while the device lives.
THEOREM TimelinesIncrease == Spec => []TimelineIncreases
<1>1. ASSUME Engine PROVE TimelineIncreases
  <2> USE <1>1 DEF Engine
  <2>1. ASSUME NEW i \in 1 .. Len(gpuQueue)
        PROVE  counter[gpuQueue[i].op.stream] < gpuQueue[i].sig
               /\ gpuQueue[i].sig <= timelineValue[gpuQueue[i].op.stream]
    BY DEF Counted, Raises
  <2>2. ASSUME NEW i \in 1 .. Len(gpuQueue), ~lost, NEW j \in 1 .. Len(gpuQueue),
               gpuQueue[j].op.stream = gpuQueue[i].op.stream
        PROVE  i = j
    BY <2>2, StreamsApart
  <2> QED
    BY <2>1, <2>2 DEF TimelineIncreases
<1> QED
  BY <1>1, EngineHolds, PTL

\* The staging buffer of a copy the GPU may still run is neither replaced nor
\* given to another copy.
THEOREM StagingKept == Spec => []StagingInUseIsKept
<1>1. ASSUME Engine PROVE StagingInUseIsKept
  <2> USE <1>1 DEF Engine
  <2> SUFFICES ASSUME ~lost, NEW i \in 1 .. Len(gpuQueue), NEW j \in 1 .. Len(gpuQueue),
                      {gpuQueue[i].op.kind, gpuQueue[j].op.kind} \subseteq {"h2d", "d2h"}
               PROVE  i = j /\ gpuQueue[i].gen = stagingGen
    BY DEF StagingInUseIsKept
  <2>1. ASSUME NEW k \in 1 .. Len(gpuQueue), gpuQueue[k].op.kind \in {"h2d", "d2h"}
        PROVE  m_mutex = gpuQueue[k].thread /\ gpuQueue[k].gen = stagingGen
    <3> DEFINE u == gpuQueue[k].thread
    <3>1. u \in Threads /\ AwaitedBy(gpuQueue[k], u)
      BY EntryTyped, QueueTyped DEF Typed, Awaited
    <3>2. Locked(u) /\ Framed(u)
      BY <3>1 DEF Disciplined, Counted
    <3>3. pc[u] = "waitSemaphore" /\ op[u].kind \in {"h2d", "d2h"} /\ recorded[u] = gpuQueue[k].gen
      BY <2>1, <3>1 DEF AwaitedBy
    <3> QED
      BY <3>2, <3>3 DEF Locked, Framed, InCopy, OnStream, CopyKinds, Staged
  <2>2. gpuQueue[i].thread = gpuQueue[j].thread /\ gpuQueue[i].gen = stagingGen
    BY <2>1
  <2> QED
    BY <2>2 DEF Awaited
<1> QED
  BY <1>1, EngineHolds, PTL

\* A step of t that returns success leaves nothing due.
LEMMA NothingDue ==
    ASSUME Engine, [Next]_vars, NEW t \in Threads, NEW o \in Due(t),
           pc[t] # "idle", pc'[t] = "idle", result'[t] = "success"
    PROVE  counter[o.stream] >= o.sig
<1> USE DEF Engine
<1> DEFINE s == op[t].stream
<1>0. /\ pc \in [Threads -> Labels] /\ timelineValue \in [Streams -> Nat]
      /\ counter \in [Streams -> Nat] /\ sig \in [Threads -> Nat]
      /\ owed \in [Threads -> SUBSET [stream : Streams, sig : Nat]]
      /\ DOMAIN result = Threads
  BY DEF Typed, TypeOK
<1>1. o \in owed[t] /\ o.stream \in Streams /\ o.sig \in Nat
  <2>1. o \in owed[t]
    BY DEF Due
  <2> QED
    BY <1>0, <2>1
<1>2. /\ 0 < o.sig /\ o.sig <= timelineValue[o.stream]
      /\ counter[o.stream] < o.sig => o \in InFlight
  BY <1>1 DEF Owing
<1>3. counter[o.stream] \in Nat /\ timelineValue[o.stream] \in Nat /\ sig[t] \in Nat
  BY <1>0, <1>1
<1>4. op[t].kind = "devsync" \/ (op[t].kind \in {"sync", "query"} /\ o.stream = s)
  BY DEF Due
<1>5. ASSUME o.sig <= counter[o.stream] PROVE counter[o.stream] >= o.sig
  BY <1>1, <1>3, <1>5
<1>6. ASSUME o.stream = s, timelineValue[s] = 0 PROVE FALSE
  <2> HIDE DEF s
  <2> QED
    BY <1>1, <1>2, <1>3, <1>6
<1>7. Kinded(t) /\ Framed(t)
  BY DEF Disciplined, Counted
<1>8. \A u \in Threads : OthersStay(u) => u = t
  BY DEF OthersStay
<1>9. CASE WaitIdle(t)
  <2>1. op[t].kind = "devsync" /\ (gpuQueue = << >> \/ lost)
    BY <1>4, <1>7, <1>9 DEF WaitIdle, Kinded, Staged, CopyKinds
  <2>2. ~lost
    BY <2>1 DEF Due
  <2>3. InFlight = {}
    BY <2>1, <2>2 DEF InFlight, ToSet
  <2> QED
    BY <1>1, <1>2, <1>3, <2>3
<1>10. CASE LockStream(t)
  <2>1. pc'[t] = "idle" => op[t].kind = "sync" /\ timelineValue[s] = 0
    BY <1>0, <1>10 DEF LockStream, Goto
  <2> QED
    BY <1>4, <1>6, <2>1
<1>11. CASE WaitSemaphore(t)
  <2>1. op[t].kind = "sync" /\ o.stream = s
    BY <1>4, <1>7, <1>11 DEF WaitSemaphore, Kinded, MemoryKinds, CopyKinds
  <2>2. Signalled(t)
    <3>1. Signalled(t) \/ result' = [result EXCEPT ![t] = "launchFailure"]
      BY <1>11, <2>1 DEF WaitSemaphore, ReturnWith, CopyKinds
    <3> QED
      BY <1>0, <3>1
  <2>3. o.sig <= sig[t] /\ sig[t] <= counter[o.stream]
    BY <1>1, <1>3, <1>7, <1>11, <2>1, <2>2 DEF Framed, Signalled, WaitSemaphore
  <2> QED
    BY <1>1, <1>3, <2>3
<1>12. CASE ReadValue(t)
  <2>1. timelineValue[s] = 0
    BY <1>0, <1>12 DEF ReadValue, Goto
  <2>2. op[t].kind = "query"
    BY <1>7, <1>12 DEF ReadValue, Kinded
  <2> QED
    BY <1>4, <1>6, <2>1, <2>2
<1>13. CASE Compare(t)
  <2>1. op[t].kind = "query" /\ o.stream = s /\ sig[t] <= counter[s]
    BY <1>4, <1>7, <1>13 DEF Compare, Kinded, Framed
  <2>2. sig[t] >= timelineValue[s]
    <3>1. sig[t] >= timelineValue[s] \/ result' = [result EXCEPT ![t] = "notReady"]
      BY <1>13 DEF Compare, ReturnWith
    <3> QED
      BY <1>0, <3>1
  <2> HIDE DEF s
  <2> QED
    BY <1>1, <1>2, <1>3, <2>1, <2>2
<1>14. CASE Unstage(t)
  BY <1>4, <1>7, <1>14 DEF Unstage, Kinded, CopyKinds
<1>15. ASSUME \/ Call(t) \/ Initialize(t) \/ LockRuntime(t) \/ EnterIdle(t) \/ Grow(t) \/ Stage(t)
              \/ LockQueue(t) \/ Submit(t)
       PROVE  FALSE
  <2>1. ASSUME Initialize(t) PROVE AfterInitialize(op[t].kind) # "idle"
    <3>1. op[t].kind \in MemoryKinds \cup {"sync", "query", "devsync"}
      BY <2>1, OpTyped DEF Initialize
    <3> QED
      BY <3>1 DEF AfterInitialize, MemoryKinds, CopyKinds
  <2> QED
    BY <1>0, <1>15, <2>1 DEF Call, Initialize, LockRuntime, EnterIdle, Grow, Stage, LockQueue,
       Submit, Goto
<1>16. CASE ReadCounter(t)
  <2>1. pc'[t] = "compare" \/ result'[t] # "success"
    BY <1>0, <1>16 DEF ReadCounter, Goto, ReturnWith
  <2> QED
    BY <2>1
<1>17. ASSUME pc' = pc PROVE FALSE
  BY <1>17
<1>18. CASE Signal \/ LoseDevice \/ UNCHANGED vars \/ \E i \in 1 .. Len(gpuQueue) : Execute(i)
  BY <1>17, <1>18 DEF Signal, LoseDevice, vars, Execute
<1>19. ASSUME NEW u \in Threads,
              \/ Call(u) \/ Initialize(u) \/ LockRuntime(u) \/ EnterIdle(u) \/ WaitIdle(u) \/ Grow(u)
              \/ Stage(u) \/ LockStream(u) \/ LockQueue(u) \/ Submit(u) \/ WaitSemaphore(u)
              \/ Unstage(u) \/ ReadValue(u) \/ ReadCounter(u) \/ Compare(u)
       PROVE  u = t
  BY <1>8, <1>19, OwnThread
<1> QED
  BY NextCases, <1>9, <1>10, <1>11, <1>12, <1>13, <1>14, <1>15, <1>16, <1>18, <1>19

\* When a synchronisation or a query reports success, all that was in flight on
\* its stream (on the device) when the call was made is complete.
THEOREM SyncCompletes == Spec => SyncMeansComplete
<1>1. ASSUME Engine, [Next]_vars
      PROVE  [\A t \in Threads :
                  pc[t] # "idle" /\ pc'[t] = "idle" /\ result'[t] = "success" =>
                      \A o \in Due(t) : counter[o.stream] >= o.sig]_vars
  BY <1>1, NothingDue
<1> QED
  BY <1>1, EngineHolds, PTL DEF Spec, SyncMeansComplete

-----------------------------------------------------------------------------
(***************************************************************************)
(* The stream engine implements CopyService as long as the device lives:   *)
(* the copies and launches of any number of threads take effect one at a    *)
(* time, each once, between its call and its return.                        *)
(*                                                                         *)
(* The effect of a call is the step in which the GPU executes its           *)
(* submission.  What Engine lacks is that the one staging buffer holds, at   *)
(* that step and until memcpy returns, the data of the copy that uses it:    *)
(* Carried says so, and holds because whoever writes the buffer, host or     *)
(* GPU, does it for the thread that holds m_mutex.                          *)
(***************************************************************************)

\* A submission not executed has its host data in the staging buffer still.
Carried ==
    \A t \in Threads :
        pc[t] \in {"lockStream", "lockQueue", "submit", "waitSemaphore"} /\ op[t].kind = "h2d" =>
            staging = op[t].value

Alive == Engine /\ Carried /\ ~lost

\* All that a queue holds of a thread has been executed.
RunIn(q, t) == \A e \in ToSet(q) : e.thread = t => e.executed

\* It is so when it is so for each place in the queue.
LEMMA RunAt ==
    ASSUME NEW q \in Seq(Entry), NEW t
    PROVE  RunIn(q, t) <=> \A i \in 1 .. Len(q) : q[i].thread = t => q[i].executed
<1>1. DOMAIN q = 1 .. Len(q)
  OBVIOUS
<1> QED
  BY <1>1 DEF RunIn, ToSet

\* A thread has run when it has made its submission and the GPU has executed it.
LEMMA HasRunAt ==
    ASSUME NEW t
    PROVE  /\ HasRun(t) <=> pc[t] \in {"waitSemaphore", "unstage"} /\ RunIn(gpuQueue, t)
           /\ HasRun(t)' <=> pc'[t] \in {"waitSemaphore", "unstage"} /\ RunIn(gpuQueue', t)
BY DEF HasRun, RunIn

\* Only the thread that holds m_mutex is in a copy.
LEMMA OneCopies ==
    ASSUME Engine, NEW t \in Threads, m_mutex = t, NEW u \in Threads, u # t
    PROVE  ~(pc[u] \in InCopy /\ op[u].kind \in CopyKinds)
BY DEF Engine, Disciplined, Locked

-----------------------------------------------------------------------------
(* What is seen of the threads. *)

\* A step of t that writes no other thread's data is not seen in the others.
LEMMA OthersSeen ==
    ASSUME Engine, NEW t \in Threads, OthersStay(t), m_mutex = t \/ staging' = staging,
           NEW u \in Threads, u # t, RunIn(gpuQueue', u) <=> RunIn(gpuQueue, u)
    PROVE  CallSeen(u)' = CallSeen(u)
<1>1. pc'[u] = pc[u] /\ op'[u] = op[u]
  BY DEF OthersStay
<1>2. HasRun(u)' <=> HasRun(u)
  BY <1>1, HasRunAt
<1>3. HasRun(u) /\ op[u].kind = "d2h" => staging' = staging
  <2>1. HasRun(u) /\ op[u].kind = "d2h" => pc[u] \in InCopy /\ op[u].kind \in CopyKinds
    BY HasRunAt DEF InCopy, CopyKinds
  <2> QED
    BY <2>1, OneCopies
<1> QED
  BY <1>1, <1>2, <1>3 DEF CallSeen

\* What CopyService sees of all threads.
Seen == [t \in Threads |-> CallSeen(t)]

\* A step seen in no thread, with device memory as it was.
LEMMA Unseen ==
    ASSUME \A u \in Threads : CallSeen(u)' = CallSeen(u), dev' = dev
    PROVE  UNCHANGED <<dev, Seen>>
BY DEF Seen

\* A step seen in one thread.
LEMMA SeenInOne ==
    ASSUME NEW t \in Threads, \A u \in Threads \ {t} : CallSeen(u)' = CallSeen(u)
    PROVE  Seen' = [Seen EXCEPT ![t] = CallSeen(t)']
BY DEF Seen

\* The three steps of CopyService, in terms of what is seen.
LEMMA ServiceSteps ==
    ASSUME NEW t \in Threads
    PROVE  /\ /\ CallSeen(t) = [phase |-> "idle"] /\ dev' = dev
              /\ \E o \in {o \in Ops : o.kind \in MemoryKinds} :
                    Seen' = [Seen EXCEPT ![t] = [phase |-> "pending", op |-> o]]
              => Copies!Invoke(t)
           /\ /\ CallSeen(t).phase = "done" /\ dev' = dev
              /\ Seen' = [Seen EXCEPT ![t] = [phase |-> "idle"]]
              => Copies!Return(t)
           /\ \A o \in Ops :
              /\ CallSeen(t) = [phase |-> "pending", op |-> o]
              /\ dev' = Copies!Written(o, dev)
              /\ Seen' = [Seen EXCEPT ![t] =
                    [phase |-> "done", op |-> o,
                     read |-> IF o.kind = "d2h" THEN dev[o.src] ELSE "none"]]
              => Copies!Effect(t)
<1>1. Seen[t] = CallSeen(t)
  BY DEF Seen
<1>2. /\ CallSeen(t) = [phase |-> "idle"] /\ dev' = dev
      /\ \E o \in {o \in Ops : o.kind \in MemoryKinds} :
            Seen' = [Seen EXCEPT ![t] = [phase |-> "pending", op |-> o]]
      => Copies!Invoke(t)
  BY <1>1 DEF Seen, Copies!Invoke, Copies!Idle
<1>3. /\ CallSeen(t).phase = "done" /\ dev' = dev
      /\ Seen' = [Seen EXCEPT ![t] = [phase |-> "idle"]]
      => Copies!Return(t)
  BY <1>1 DEF Seen, Copies!Return, Copies!Idle
<1>4. ASSUME NEW o \in Ops, CallSeen(t) = [phase |-> "pending", op |-> o],
             dev' = Copies!Written(o, dev),
             Seen' = [Seen EXCEPT ![t] =
                    [phase |-> "done", op |-> o,
                     read |-> IF o.kind = "d2h" THEN dev[o.src] ELSE "none"]]
      PROVE  Copies!Effect(t)
  <2>1. CallSeen(t).phase = "pending" /\ CallSeen(t).op = o
    BY <1>4
  <2> QED
    BY <1>1, <1>4, <2>1 DEF Seen, Copies!Effect
<1> QED
  BY <1>2, <1>3, <1>4

-----------------------------------------------------------------------------
(* The staging buffer. *)

\* Every step keeps the data that a copy to the device carries.
LEMMA StepCarried ==
    ASSUME Alive, [Next]_vars
    PROVE  Carried'
<1> USE DEF Alive
<1> DEFINE Needs(u) == pc[u] \in {"lockStream", "lockQueue", "submit", "waitSemaphore"}
                       /\ op[u].kind = "h2d"
<1>0. pc \in [Threads -> Labels]
  BY DEF Engine, Typed, TypeOK
<1>1. ASSUME NEW t \in Threads, OthersStay(t), m_mutex = t \/ staging' = staging,
             Needs(t)' => staging' = op'[t].value
      PROVE  Carried'
  <2>1. ASSUME NEW u \in Threads, u # t, Needs(u)' PROVE staging' = op'[u].value
    <3>1. Needs(u) /\ op'[u] = op[u]
      BY <1>1, <2>1 DEF OthersStay
    <3>2. m_mutex # t
      BY <2>1, <3>1, OneCopies DEF InCopy, CopyKinds
    <3> QED
      BY <1>1, <3>1, <3>2 DEF Carried
  <2> QED
    BY <1>1, <2>1 DEF Carried
<1>2. ASSUME NEW t \in Threads, OthersStay(t), UNCHANGED <<op, staging>>, Needs(t)' => Needs(t)
      PROVE  Carried'
  BY <1>1, <1>2 DEF Carried
<1>3. ASSUME NEW t \in Threads, Call(t) PROVE Carried'
  <2>1. pc'[t] = "initialize" /\ staging' = staging
    BY <1>0, <1>3 DEF Call, Goto, memory
  <2> QED
    BY <1>1, <1>3, <2>1, OwnThread DEF Engine
<1>4. ASSUME NEW t \in Threads, Initialize(t) PROVE Carried'
  <2>1. op[t].kind \in MemoryKinds \cup {"sync", "query", "devsync"}
    BY <1>4, OpTyped DEF Initialize, Engine
  <2>2. op[t].kind = "h2d" => AfterInitialize(op[t].kind) = "lockRuntime"
    BY <2>1 DEF AfterInitialize, CopyKinds
  <2>3. pc'[t] = AfterInitialize(op[t].kind) /\ UNCHANGED <<op, staging>>
    BY <1>0, <1>4 DEF Initialize, Goto, memory
  <2> QED
    BY <1>1, <1>4, <2>2, <2>3, OwnThread DEF Engine
<1>5. ASSUME NEW t \in Threads,
             \/ LockRuntime(t) \/ EnterIdle(t) \/ WaitIdle(t) \/ LockStream(t) \/ LockQueue(t)
             \/ Submit(t) \/ WaitSemaphore(t) \/ Unstage(t) \/ ReadValue(t) \/ ReadCounter(t)
             \/ Compare(t)
      PROVE  Carried'
  <2>1. UNCHANGED <<op, staging>>
    BY <1>5 DEF LockRuntime, EnterIdle, WaitIdle, LockStream, LockQueue, Submit, WaitSemaphore,
       Unstage, ReadValue, ReadCounter, Compare, memory
  <2>2. \/ pc'[t] \notin {"lockStream", "lockQueue", "submit", "waitSemaphore"}
        \/ pc[t] \in {"lockStream", "lockQueue", "submit"}
    BY <1>0, <1>5 DEF LockRuntime, EnterIdle, WaitIdle, LockStream, LockQueue, Submit,
       WaitSemaphore, Unstage, ReadValue, ReadCounter, Compare, Goto, ReturnWith
  <2> QED
    BY <1>2, <1>5, <2>1, <2>2, OwnThread DEF Engine
<1>6. ASSUME NEW t \in Threads, Grow(t) \/ Stage(t) PROVE Carried'
  <2>1. m_mutex = t
    BY <1>6 DEF Engine, Disciplined, Kinded, Staged, CopyKinds, Locked, InCopy, Grow, Stage
  <2>2. Needs(t)' => staging' = op'[t].value
    BY <1>0, <1>6 DEF Grow, Stage, Goto
  <2> QED
    BY <1>1, <1>6, <2>1, <2>2, OwnThread DEF Engine
<1>7. ASSUME NEW i \in 1 .. Len(gpuQueue), Execute(i) PROVE Carried'
  <2> DEFINE e == gpuQueue[i]
  <2>1. UNCHANGED <<pc, op>> /\ (e.op.kind # "d2h" => staging' = staging)
    BY <1>7 DEF Execute
  <2>2. CASE e.op.kind = "d2h"
    <3>1. e.thread \in Threads /\ pc[e.thread] = "waitSemaphore" /\ op[e.thread] = e.op
      BY EntryTyped, QueueTyped DEF Engine, Typed, Awaited, AwaitedBy
    <3>2. m_mutex = e.thread
      BY <2>2, <3>1 DEF Engine, Disciplined, Locked, InCopy, CopyKinds
    <3>3. ASSUME NEW u \in Threads PROVE ~Needs(u)
      BY <2>2, <3>1, <3>2, <3>3, OneCopies DEF InCopy, CopyKinds
    <3> QED
      BY <2>1, <3>3 DEF Carried
  <2> QED
    BY <2>1, <2>2 DEF Carried
<1>8. CASE Signal \/ LoseDevice \/ UNCHANGED vars
  <2>1. UNCHANGED <<pc, op, staging>>
    BY <1>8 DEF Signal, LoseDevice, vars, memory
  <2> QED
    BY <2>1 DEF Carried
<1> QED
  BY NextCases, <1>3, <1>4, <1>5, <1>6, <1>7, <1>8

-----------------------------------------------------------------------------
(* The steps. *)

\* A thread that is not on the way to its submission or back from it looks the same
\* wherever it is.
LEMMA LooksTheSame ==
    ASSUME NEW t, op'[t] = op[t],
           \/ op[t].kind \notin MemoryKinds
           \/ pc[t] \notin {"idle", "waitSemaphore", "unstage"} /\ pc'[t] \notin {"idle", "waitSemaphore", "unstage"}
    PROVE  CallSeen(t)' = CallSeen(t)
BY HasRunAt DEF CallSeen

\* A call begins.
LEMMA CallRefines ==
    ASSUME Alive, NEW t \in Threads, Call(t)
    PROVE  [Copies!Next]_<<dev, Seen>>
<1>1. /\ pc[t] = "idle" /\ pc'[t] = "initialize" /\ dev' = dev /\ staging' = staging
      /\ gpuQueue' = gpuQueue /\ OthersStay(t)
  BY OwnThread DEF Alive, Engine, Typed, TypeOK, Call, Goto, memory, gpu
<1>2. PICK o \in Ops : op'[t] = o
  BY DEF Call, Alive, Engine, Typed, TypeOK
<1>3. \A u \in Threads \ {t} : CallSeen(u)' = CallSeen(u)
  BY <1>1, OthersSeen DEF Alive
<1>4. CallSeen(t) = [phase |-> "idle"]
  BY <1>1 DEF CallSeen
<1>5. CallSeen(t)' = IF o.kind \in MemoryKinds THEN [phase |-> "pending", op |-> o]
                     ELSE [phase |-> "idle"]
  <2>1. ~HasRun(t)'
    BY <1>1, HasRunAt
  <2> QED
    BY <1>1, <1>2, <2>1 DEF CallSeen
<1>6. CASE o.kind \in MemoryKinds
  <2>1. Copies!Invoke(t)
    BY <1>1, <1>3, <1>4, <1>5, <1>6, ServiceSteps, SeenInOne
  <2> QED
    BY <2>1 DEF Copies!Next
<1>7. CASE o.kind \notin MemoryKinds
  BY <1>1, <1>3, <1>4, <1>5, <1>7, Unseen
<1> QED
  BY <1>6, <1>7

\* The steps inside a call, until its submission and after its wait, are not seen.
LEMMA InsideRefines ==
    ASSUME Alive, NEW t \in Threads,
           \/ Initialize(t) \/ LockRuntime(t) \/ EnterIdle(t) \/ WaitIdle(t) \/ Grow(t) \/ Stage(t)
           \/ LockStream(t) \/ LockQueue(t) \/ ReadValue(t) \/ ReadCounter(t) \/ Compare(t)
    PROVE  UNCHANGED <<dev, Seen>>
<1>0. pc \in [Threads -> Labels]
  BY DEF Alive, Engine, Typed, TypeOK
<1>1. dev' = dev /\ gpuQueue' = gpuQueue /\ op' = op /\ OthersStay(t)
  BY OwnThread DEF Alive, Engine, Initialize, LockRuntime, EnterIdle, WaitIdle, Grow, Stage,
     LockStream, LockQueue, ReadValue, ReadCounter, Compare, memory, gpu
<1>2. Kinded(t) /\ Locked(t)
  BY DEF Alive, Engine, Disciplined
<1>3. m_mutex = t \/ staging' = staging
  BY <1>2 DEF Kinded, Staged, CopyKinds, Locked, InCopy, Initialize, LockRuntime, EnterIdle, WaitIdle, Grow, Stage,
     LockStream, LockQueue, ReadValue, ReadCounter, Compare, memory
<1>4. \A u \in Threads \ {t} : CallSeen(u)' = CallSeen(u)
  BY <1>1, <1>3, OthersSeen DEF Alive
<1>5. \/ op[t].kind \notin MemoryKinds
      \/ pc[t] \notin {"idle", "waitSemaphore", "unstage"} /\ pc'[t] \notin {"idle", "waitSemaphore", "unstage"}
  <2>1. CASE Initialize(t)
    <3>1. op[t].kind \in MemoryKinds \cup {"sync", "query", "devsync"}
      BY <2>1, OpTyped DEF Alive, Engine, Initialize
    <3>2. AfterInitialize(op[t].kind) \notin {"idle", "waitSemaphore", "unstage"}
      BY <3>1 DEF AfterInitialize, MemoryKinds, CopyKinds
    <3> QED
      BY <1>0, <2>1, <3>2 DEF Initialize, Goto
  <2>2. CASE LockStream(t)
    <3>1. CASE op[t].kind = "sync"
      BY <3>1 DEF MemoryKinds, CopyKinds
    <3>2. CASE op[t].kind # "sync"
      BY <1>0, <2>2, <3>2 DEF LockStream, Goto
    <3> QED
      BY <3>1, <3>2
  <2>3. CASE WaitIdle(t)
    BY <1>0, <2>3 DEF WaitIdle, Goto, MemoryKinds, CopyKinds
  <2>4. CASE LockRuntime(t) \/ EnterIdle(t) \/ Grow(t) \/ Stage(t) \/ LockQueue(t)
    BY <1>0, <2>4 DEF LockRuntime, EnterIdle, Grow, Stage, LockQueue, Goto
  <2>5. CASE ReadValue(t) \/ ReadCounter(t) \/ Compare(t)
    BY <1>2, <2>5 DEF ReadValue, ReadCounter, Compare, Kinded, MemoryKinds, CopyKinds
  <2> QED
    BY <2>1, <2>2, <2>3, <2>4, <2>5
<1>6. CallSeen(t)' = CallSeen(t)
  BY <1>1, <1>5, LooksTheSame
<1> QED
  BY <1>1, <1>4, <1>6, Unseen

\* What is submitted has not run.
LEMMA SubmitRefines ==
    ASSUME Alive, NEW t \in Threads, Submit(t)
    PROVE  UNCHANGED <<dev, Seen>>
<1>1. /\ pc[t] = "submit" /\ pc'[t] = "waitSemaphore" /\ dev' = dev /\ staging' = staging
      /\ op' = op /\ OthersStay(t) /\ gpuQueue' = Append(gpuQueue, Submission(t))
  BY OwnThread DEF Alive, Engine, Typed, TypeOK, Submit, Goto, memory
<1>2. Submission(t) \in Entry /\ Submission(t).thread = t /\ ~Submission(t).executed
  BY <1>1, OpTyped DEF Alive, Engine, Submission, Entry, Typed, TypeOK
<1>3. gpuQueue \in Seq(Entry) /\ Len(gpuQueue) \in Nat
  BY QueueTyped DEF Alive, Engine, Typed
<1>4. /\ gpuQueue' \in Seq(Entry) /\ Len(gpuQueue') = Len(gpuQueue) + 1
      /\ \A i \in 1 .. Len(gpuQueue) : gpuQueue'[i] = gpuQueue[i]
      /\ gpuQueue'[Len(gpuQueue) + 1] = Submission(t)
  BY <1>1, <1>2, <1>3, AppendAt
<1>5. ~RunIn(gpuQueue', t)
  BY <1>2, <1>3, <1>4, RunAt
<1>6. ASSUME NEW u \in Threads, u # t PROVE RunIn(gpuQueue', u) <=> RunIn(gpuQueue, u)
  <2>1. \A i \in 1 .. Len(gpuQueue') : i \in 1 .. Len(gpuQueue) \/ i = Len(gpuQueue) + 1
    BY <1>3, <1>4
  <2>2. \A i \in 1 .. Len(gpuQueue) : i \in 1 .. Len(gpuQueue')
    BY <1>3, <1>4
  <2> QED
    BY <1>2, <1>3, <1>4, <1>6, <2>1, <2>2, RunAt
<1>7. \A u \in Threads \ {t} : CallSeen(u)' = CallSeen(u)
  BY <1>1, <1>6, OthersSeen DEF Alive
<1>8. CallSeen(t)' = CallSeen(t)
  <2>1. ~HasRun(t) /\ ~HasRun(t)'
    BY <1>1, <1>5, HasRunAt
  <2> QED
    BY <1>1, <2>1 DEF CallSeen
<1> QED
  BY <1>1, <1>7, <1>8, Unseen

\* A thread whose wait is over has nothing in the queue.
LEMMA NothingQueued ==
    ASSUME Alive, NEW t \in Threads, pc[t] # "waitSemaphore" \/ Signalled(t)
    PROVE  RunIn(gpuQueue, t)
<1>1. gpuQueue \in Seq(Entry)
  BY QueueTyped DEF Alive, Engine, Typed
<1>2. ASSUME NEW i \in 1 .. Len(gpuQueue), gpuQueue[i].thread = t PROVE FALSE
  <2>1. AwaitedBy(gpuQueue[i], t) /\ Raises(gpuQueue[i])
    BY <1>2 DEF Alive, Engine, Awaited, Counted
  <2>2. gpuQueue[i].op.stream \in Streams /\ gpuQueue[i].sig \in Nat
    BY <1>1, EntryTyped
  <2>3. counter[gpuQueue[i].op.stream] \in Nat
    BY <2>2 DEF Alive, Engine, Typed, TypeOK
  <2> QED
    BY <2>1, <2>2, <2>3 DEF AwaitedBy, Raises, Signalled
<1> QED
  BY <1>1, <1>2, RunAt

\* The wait ends a launch; a copy has still to return.
LEMMA WaitRefines ==
    ASSUME Alive, NEW t \in Threads, WaitSemaphore(t)
    PROVE  [Copies!Next]_<<dev, Seen>>
<1>1. /\ pc[t] = "waitSemaphore" /\ dev' = dev /\ staging' = staging /\ op' = op
      /\ gpuQueue' = gpuQueue /\ OthersStay(t) /\ Signalled(t)
  BY OwnThread DEF Alive, Engine, WaitSemaphore, memory, gpu
<1>2. \A u \in Threads \ {t} : CallSeen(u)' = CallSeen(u)
  BY <1>1, OthersSeen DEF Alive
<1>3. HasRun(t)
  BY <1>1, NothingQueued, HasRunAt
<1>4. pc \in [Threads -> Labels]
  BY DEF Alive, Engine, Typed, TypeOK
<1>5. CASE op[t].kind \in CopyKinds
  <2>1. pc'[t] = "unstage"
    BY <1>4, <1>5 DEF WaitSemaphore, Goto, CopyKinds
  <2>2. HasRun(t)'
    BY <1>1, <1>3, <2>1, HasRunAt
  <2>3. CallSeen(t)' = CallSeen(t)
    BY <1>1, <1>3, <2>1, <2>2 DEF CallSeen
  <2> QED
    BY <1>1, <1>2, <2>3, Unseen
<1>6. CASE op[t].kind \notin CopyKinds
  <2>1. pc'[t] = "idle"
    BY <1>4, <1>6 DEF WaitSemaphore, Goto, ReturnWith
  <2>2. CallSeen(t)' = [phase |-> "idle"]
    BY <2>1 DEF CallSeen
  <2>3. CASE op[t].kind \in MemoryKinds
    <3>1. CallSeen(t).phase = "done"
      BY <1>1, <1>3, <2>3 DEF CallSeen
    <3>2. Copies!Return(t)
      BY <1>1, <1>2, <2>2, <3>1, ServiceSteps, SeenInOne
    <3> QED
      BY <3>2 DEF Copies!Next
  <2>4. CASE op[t].kind \notin MemoryKinds
    <3>1. CallSeen(t)' = CallSeen(t)
      BY <2>2, <2>4 DEF CallSeen
    <3> QED
      BY <1>1, <1>2, <3>1, Unseen
  <2> QED
    BY <2>3, <2>4
<1> QED
  BY <1>5, <1>6

\* A copy returns.
LEMMA UnstageRefines ==
    ASSUME Alive, NEW t \in Threads, Unstage(t)
    PROVE  [Copies!Next]_<<dev, Seen>>
<1>1. /\ pc[t] = "unstage" /\ pc'[t] = "idle" /\ dev' = dev /\ staging' = staging
      /\ gpuQueue' = gpuQueue /\ OthersStay(t)
  BY OwnThread DEF Alive, Engine, Typed, TypeOK, Unstage, Goto, ReturnWith, memory, gpu
<1>2. \A u \in Threads \ {t} : CallSeen(u)' = CallSeen(u)
  BY <1>1, OthersSeen DEF Alive
<1>3. op[t].kind \in MemoryKinds
  BY <1>1 DEF Alive, Engine, Disciplined, Kinded, MemoryKinds
<1>4. HasRun(t)
  BY <1>1, NothingQueued, HasRunAt
<1>5. CallSeen(t).phase = "done" /\ CallSeen(t)' = [phase |-> "idle"]
  BY <1>1, <1>3, <1>4 DEF CallSeen
<1>6. Copies!Return(t)
  BY <1>1, <1>2, <1>5, ServiceSteps, SeenInOne
<1> QED
  BY <1>6 DEF Copies!Next

\* The GPU executes a submission: this is the effect of the call that made it.
LEMMA ExecuteRefines ==
    ASSUME Alive, NEW i \in 1 .. Len(gpuQueue), Execute(i)
    PROVE  [Copies!Next]_<<dev, Seen>>
<1>0. gpuQueue \in Seq(Entry) /\ Engine
  BY QueueTyped DEF Alive, Engine, Typed
<1>t. PICK t \in Threads, o \in Ops : gpuQueue[i].thread = t /\ gpuQueue[i].op = o
  BY <1>0, EntryTyped
<1>1. /\ o.kind \in MemoryKinds /\ pc[t] = "waitSemaphore" /\ op[t] = o
      /\ \A j \in 1 .. Len(gpuQueue) : gpuQueue[j].thread = t => j = i
  BY <1>0, <1>t DEF Alive, Engine, Awaited, AwaitedBy, Counted, Raises
<1>2. /\ ~gpuQueue[i].executed /\ gpuQueue' = [gpuQueue EXCEPT ![i].executed = TRUE]
      /\ UNCHANGED <<pc, op, sig, recorded, owed>>
  BY DEF Execute, frame
<1>3. /\ gpuQueue' \in Seq(Entry) /\ Len(gpuQueue') = Len(gpuQueue)
      /\ \A j \in 1 .. Len(gpuQueue) : gpuQueue'[j].thread = gpuQueue[j].thread
  <2>1. gpuQueue' \in Seq(Entry) /\ Len(gpuQueue') = Len(gpuQueue)
    BY <1>0, <1>2, ExecutedAt
  <2>2. ASSUME NEW j \in 1 .. Len(gpuQueue) PROVE gpuQueue'[j].thread = gpuQueue[j].thread
    BY <1>0, <1>2, ExecutedAt
  <2> QED
    BY <2>1, <2>2
<1>4. /\ gpuQueue'[i].executed
      /\ \A j \in 1 .. Len(gpuQueue) : j # i => gpuQueue'[j] = gpuQueue[j]
  <2>1. gpuQueue[i] \in Entry
    BY <1>0
  <2>2. gpuQueue' = [gpuQueue EXCEPT ![i] = [gpuQueue[i] EXCEPT !.executed = TRUE]]
    BY <1>2
  <2>3. [gpuQueue[i] EXCEPT !.executed = TRUE].executed
    BY <2>1 DEF Entry
  <2> QED
    BY <1>0, <2>2, <2>3
<1>5. ~HasRun(t) /\ HasRun(t)'
  <2>1. ~RunIn(gpuQueue, t)
    BY <1>0, <1>t, <1>2, RunAt
  <2>2. RunIn(gpuQueue', t)
    BY <1>1, <1>3, <1>4, RunAt
  <2> QED
    BY <1>1, <1>2, <2>1, <2>2, HasRunAt
<1>6. ASSUME NEW u \in Threads, u # t PROVE RunIn(gpuQueue', u) <=> RunIn(gpuQueue, u)
  BY <1>0, <1>t, <1>3, <1>4, <1>6, RunAt
<1>7. m_mutex = t \/ staging' = staging
  <2>1. CASE o.kind = "d2h"
    BY <1>0, <1>1, <2>1 DEF Engine, Disciplined, Locked, InCopy, CopyKinds
  <2>2. CASE o.kind # "d2h"
    BY <1>t, <2>2 DEF Execute
  <2> QED
    BY <2>1, <2>2
<1>8. \A u \in Threads \ {t} : CallSeen(u)' = CallSeen(u)
  BY <1>0, <1>1, <1>2, <1>6, <1>7, OthersSeen DEF OthersStay
<1>9. CallSeen(t) = [phase |-> "pending", op |-> o]
  BY <1>1, <1>5 DEF CallSeen
<1>10. o.kind = "h2d" => staging = o.value
  BY <1>1 DEF Alive, Carried
<1>11. dev' = Copies!Written(o, dev)
  <2>1. o.kind \in {"h2d", "launch", "d2d", "d2h"}
    BY <1>1 DEF MemoryKinds, CopyKinds
  <2> QED
    BY <1>t, <1>10, <2>1 DEF Execute, Copies!Written
<1>12. CallSeen(t)' = [phase |-> "done", op |-> o,
                       read |-> IF o.kind = "d2h" THEN dev[o.src] ELSE "none"]
  <2>1. o.kind = "d2h" => staging' = dev[o.src]
    BY <1>t DEF Execute
  <2> QED
    BY <1>1, <1>2, <1>5, <2>1 DEF CallSeen
<1>13. Copies!Effect(t)
  BY <1>1, <1>8, <1>9, <1>11, <1>12, ServiceSteps, SeenInOne
<1> QED
  BY <1>1, <1>13 DEF Copies!Next

\* The signal that follows is not seen.
LEMMA SignalRefines ==
    ASSUME Alive, Signal
    PROVE  UNCHANGED <<dev, Seen>>
<1>1. /\ gpuQueue # << >> /\ gpuQueue' = Tail(gpuQueue) /\ gpuQueue \in Seq(Entry)
      /\ Head(gpuQueue).executed /\ UNCHANGED <<pc, op, dev, staging>>
  BY QueueTyped DEF Signal, memory, Alive, Engine, Typed
<1>2. /\ Len(gpuQueue) \in Nat /\ Len(gpuQueue) > 0 /\ Len(gpuQueue') = Len(gpuQueue) - 1
      /\ \A i \in 1 .. Len(gpuQueue') : gpuQueue'[i] = gpuQueue[i + 1] /\ i + 1 \in 1 .. Len(gpuQueue)
      /\ gpuQueue' \in Seq(Entry) /\ gpuQueue[1].executed
  BY <1>1, TailAt
<1>3. ASSUME NEW u \in Threads PROVE RunIn(gpuQueue', u) <=> RunIn(gpuQueue, u)
  <2>1. ASSUME NEW i \in 1 .. Len(gpuQueue), i # 1
        PROVE  i - 1 \in 1 .. Len(gpuQueue') /\ gpuQueue'[i - 1] = gpuQueue[i]
    BY <1>2, <2>1
  <2>2. RunIn(gpuQueue', u) => RunIn(gpuQueue, u)
    <3> SUFFICES ASSUME RunIn(gpuQueue', u), NEW i \in 1 .. Len(gpuQueue), gpuQueue[i].thread = u
                 PROVE  gpuQueue[i].executed
      BY <1>1, RunAt
    <3>1. \A k \in 1 .. Len(gpuQueue') : gpuQueue'[k].thread = u => gpuQueue'[k].executed
      BY <1>2, RunAt
    <3> QED
      BY <1>2, <2>1, <3>1
  <2>3. RunIn(gpuQueue, u) => RunIn(gpuQueue', u)
    <3> SUFFICES ASSUME RunIn(gpuQueue, u), NEW i \in 1 .. Len(gpuQueue'), gpuQueue'[i].thread = u
                 PROVE  gpuQueue'[i].executed
      BY <1>2, RunAt
    <3>1. \A k \in 1 .. Len(gpuQueue) : gpuQueue[k].thread = u => gpuQueue[k].executed
      BY <1>1, RunAt
    <3> QED
      BY <1>2, <3>1
  <2> QED
    BY <2>2, <2>3
<1>4. ASSUME NEW u \in Threads PROVE CallSeen(u)' = CallSeen(u)
  <2>1. HasRun(u)' <=> HasRun(u)
    BY <1>1, <1>3, HasRunAt
  <2> QED
    BY <1>1, <2>1 DEF CallSeen
<1> QED
  BY <1>1, <1>4, Unseen

\* Nothing else is seen.
LEMMA StutterRefines ==
    ASSUME UNCHANGED vars
    PROVE  UNCHANGED <<dev, Seen>>
BY DEF vars, memory, gpu, Seen, CallSeen, HasRun

-----------------------------------------------------------------------------
\* Every step of the engine is one of CopyService or none.
LEMMA StepRefines ==
    ASSUME Alive, ~DeviceCanBeLost, [Next]_vars
    PROVE  [Copies!Next]_<<dev, Seen>>
<1>1. ~LoseDevice
  BY DEF LoseDevice
<1> QED
  BY NextCases, <1>1, CallRefines, InsideRefines, SubmitRefines, WaitRefines, UnstageRefines,
     ExecuteRefines, SignalRefines, StutterRefines

\* The device lives on.
LEMMA StepAlive ==
    ASSUME Alive, ~DeviceCanBeLost, [Next]_vars
    PROVE  Alive'
<1>1. Engine'
  BY StepTyped, StepDisciplined, StepCounted, StepAwaited, StepOwing DEF Alive, Engine
<1>2. ~lost'
  BY NextCases DEF Alive, LoseDevice, Call, Initialize, LockRuntime, EnterIdle, WaitIdle, Grow, Stage,
     LockStream, LockQueue, Submit, WaitSemaphore, Unstage, ReadValue, ReadCounter, Compare,
     Signal, Execute, vars, gpu
<1> QED
  BY <1>1, <1>2, StepCarried DEF Alive

\* At first all threads are idle.
LEMMA InitRefines == Init => Alive /\ Copies!Init
<1> SUFFICES ASSUME Init PROVE Alive /\ Copies!Init
  OBVIOUS
<1>1. Alive
  BY InitEngine DEF Init, Alive, Carried
<1>2. dev \in [Addrs -> Values]
  BY DEF Init
<1>3. \A t \in Threads : CallSeen(t) = [phase |-> "idle"]
  BY DEF Init, CallSeen
<1> QED
  BY <1>1, <1>2, <1>3 DEF Copies!Init, Copies!Idle

\* With a device that is not lost, the copies and launches of any number of threads
\* behave as instantaneous operations on device memory.
THEOREM EngineImplementsCopyService ==
    ASSUME ~DeviceCanBeLost
    PROVE  Spec => ImplementsCopyService
<1>1. Alive /\ [Next]_vars => Alive' /\ [Copies!Next]_<<dev, Seen>>
  BY StepAlive, StepRefines
<1>2. Init => Alive /\ Copies!Init
  BY InitRefines
<1>3. Spec => Copies!Init /\ [][Copies!Next]_<<dev, Seen>>
  BY <1>1, <1>2, PTL DEF Spec
<1> QED
  BY <1>3, PTL DEF ImplementsCopyService, Copies!Spec, Seen
=============================================================================
