----------------------------- MODULE CopyService -----------------------------
(***************************************************************************)
(* What cudaMemcpy, cudaMemset and cudaLaunchSpirv promise a caller about  *)
(* device memory, with no staging buffer, no locks and no queue: each call *)
(* takes effect once, at one instant between its invocation and its        *)
(* return, and a read returns what the device held at that instant.        *)
(***************************************************************************)
CONSTANTS
    Threads,
    Addrs,      \* device locations
    Values,     \* contents of a location
    MemoryOps   \* the calls that touch device memory

VARIABLES
    dev,        \* device memory
    call        \* what each thread has in progress, or "idle"

Idle == [phase |-> "idle"]

\* What an effect does to device memory.
Written(op, mem) ==
    CASE op.kind \in {"h2d", "launch"} -> [mem EXCEPT ![op.dst] = op.value]
      [] op.kind = "d2d" -> [mem EXCEPT ![op.dst] = mem[op.src]]
      [] op.kind = "d2h" -> mem

Init ==
    /\ dev \in [Addrs -> Values]
    /\ call = [t \in Threads |-> Idle]

Invoke(t) ==
    /\ call[t] = Idle
    /\ \E op \in MemoryOps : call' = [call EXCEPT ![t] = [phase |-> "pending", op |-> op]]
    /\ UNCHANGED dev

Effect(t) ==
    /\ call[t].phase = "pending"
    /\ dev' = Written(call[t].op, dev)
    /\ call' = [call EXCEPT ![t] =
          [phase |-> "done", op |-> call[t].op,
           read |-> IF call[t].op.kind = "d2h" THEN dev[call[t].op.src] ELSE "none"]]

Return(t) ==
    /\ call[t].phase = "done"
    /\ call' = [call EXCEPT ![t] = Idle]
    /\ UNCHANGED dev

Next == \E t \in Threads : Invoke(t) \/ Effect(t) \/ Return(t)

Spec == Init /\ [][Next]_<<dev, call>>
=============================================================================
