---------------------------- MODULE ContextStack ----------------------------
(***************************************************************************)
(* CUDA contexts in src/runtime/nvcuda_driver.cpp: a thread_local stack of *)
(* contexts, the registries g_ctxDevice and g_primaryCtx under             *)
(* g_driverMutex, and the reference count of the primary context.  There   *)
(* is one device (cudaGetDeviceCount always answers 1).                    *)
(*                                                                         *)
(* A context is the address of its CUctx_st; "allocated" is the set of     *)
(* addresses operator new has given out and delete has not taken back, so  *)
(* an address can come back.  The program that calls the API is well       *)
(* behaved: it passes contexts it has been given and that it has not       *)
(* destroyed, and it tears a context down from one thread at a time.       *)
(***************************************************************************)
EXTENDS Integers, SequencesExt

CONSTANTS
    Threads,
    Contexts,   \* addresses of CUctx_st objects
    NoCtx,      \* the null context
    MaxDepth,   \* bound: depth of a stack
    MaxRetains  \* bound: primary retains of a thread in progress

ASSUME ContextStackAssumption ==
    /\ NoCtx \notin Contexts
    /\ MaxDepth \in Nat /\ MaxRetains \in Nat

VARIABLES
    t_ctxStack,         \* thread -> its stack, the top last
    g_ctxDevice,        \* contexts registered for the device
    g_primaryCtx,       \* the primary context, or NoCtx
    g_primaryRefcount,  \* its count, 0 when there is no entry
    allocated,
    pc, target,         \* per thread: where in cuCtxDestroy it is, and of what
    destroyedBy,        \* the thread that freed an address last
    retained,           \* per thread: retains the program has not released
    forced              \* whether this program resets or destroys the primary context

registry == <<g_ctxDevice, g_primaryCtx, g_primaryRefcount>>
destroying == <<pc, target>>
vars == <<t_ctxStack, registry, allocated, destroying, destroyedBy, retained, forced>>

Init ==
    /\ t_ctxStack = [t \in Threads |-> << >>]
    /\ g_ctxDevice = {} /\ g_primaryCtx = NoCtx /\ g_primaryRefcount = 0
    /\ allocated = {}
    /\ pc = [t \in Threads |-> "idle"]
    /\ target = [t \in Threads |-> NoCtx]
    /\ destroyedBy = [c \in Contexts |-> {}]
    /\ retained = [t \in Threads |-> 0]
    /\ forced \in BOOLEAN

Push(t, c) ==
    /\ Len(t_ctxStack[t]) < MaxDepth
    /\ t_ctxStack' = [t_ctxStack EXCEPT ![t] = Append(@, c)]

eraseOnce(stack, c) == RemoveFirst(stack, c)    \* mutant: one occurrence only

\* The slots that do not hold c, in order.
eraseFromStack(stack, c) ==
    FlattenSeq([k \in DOMAIN stack |-> IF stack[k] = c THEN << >> ELSE <<stack[k]>>])

\* operator new: an address that is free, whoever had it before.
New(c) ==
    /\ c \notin allocated
    /\ allocated' = allocated \cup {c}
    /\ destroyedBy' = [destroyedBy EXCEPT ![c] = {}]

Delete(t, c) ==
    /\ allocated' = allocated \ {c}
    /\ destroyedBy' = [destroyedBy EXCEPT ![c] = {t}]

\* Contexts no thread is busy destroying: what the program may pass.
Usable == allocated \ {target[t] : t \in Threads}

-----------------------------------------------------------------------------
CtxCreate(t) ==
    /\ pc[t] = "idle"
    /\ \E c \in Contexts :
          /\ New(c) /\ Push(t, c)
          /\ g_ctxDevice' = g_ctxDevice \cup {c}
    /\ UNCHANGED <<g_primaryCtx, g_primaryRefcount, destroying, retained, forced>>

CtxPushCurrent(t) ==
    /\ pc[t] = "idle"
    /\ \E c \in Usable : Push(t, c)
    /\ UNCHANGED <<registry, allocated, destroying, destroyedBy, retained, forced>>

CtxPopCurrent(t) ==
    /\ pc[t] = "idle" /\ t_ctxStack[t] # << >>
    /\ t_ctxStack' = [t_ctxStack EXCEPT ![t] = Front(@)]
    /\ UNCHANGED <<registry, allocated, destroying, destroyedBy, retained, forced>>

CtxSetCurrent(t) ==
    /\ pc[t] = "idle"
    /\ \E c \in Usable \cup {NoCtx} :
          t_ctxStack' = [t_ctxStack EXCEPT ![t] =
              IF c = NoCtx THEN << >>
              ELSE IF @ = << >> THEN <<c>>
              ELSE Append(Front(@), c)]
    /\ UNCHANGED <<registry, allocated, destroying, destroyedBy, retained, forced>>

\* cuCtxGetCurrent creates a context where there is none.
CtxGetCurrent(t) == t_ctxStack[t] = << >> /\ CtxCreate(t)

\* cuCtxDestroy_v2 in its three parts: detach from the caller's stack, clear
\* the registries under g_driverMutex, free.
DestroyDetach(t) ==
    /\ pc[t] = "idle"
    /\ \E c \in Usable :
          /\ c = g_primaryCtx => forced
          /\ target' = [target EXCEPT ![t] = c]
          /\ t_ctxStack' = [t_ctxStack EXCEPT ![t] = eraseFromStack(@, c)]
    /\ pc' = [pc EXCEPT ![t] = "unregister"]
    /\ UNCHANGED <<registry, allocated, destroyedBy, retained, forced>>

\* Mutant: the primary registry not looked at.
UnregisterPlain(t) ==
    /\ pc[t] = "unregister"
    /\ g_ctxDevice' = g_ctxDevice \ {target[t]}
    /\ pc' = [pc EXCEPT ![t] = "delete"]
    /\ UNCHANGED <<t_ctxStack, g_primaryCtx, g_primaryRefcount, allocated, target,
                   destroyedBy, retained, forced>>

DestroyUnregister(t) ==
    /\ pc[t] = "unregister"
    /\ g_ctxDevice' = g_ctxDevice \ {target[t]}
    /\ IF g_primaryCtx = target[t]
       THEN g_primaryCtx' = NoCtx /\ g_primaryRefcount' = 0
       ELSE UNCHANGED <<g_primaryCtx, g_primaryRefcount>>
    /\ pc' = [pc EXCEPT ![t] = "delete"]
    /\ UNCHANGED <<t_ctxStack, allocated, target, destroyedBy, retained, forced>>

DestroyDelete(t) ==
    /\ pc[t] = "delete"
    /\ Delete(t, target[t])
    /\ pc' = [pc EXCEPT ![t] = "idle"]
    /\ target' = [target EXCEPT ![t] = NoCtx]
    /\ UNCHANGED <<t_ctxStack, registry, retained, forced>>

-----------------------------------------------------------------------------
(* The primary context; each operation holds g_driverMutex throughout. *)

PrimaryCtxRetain(t) ==
    /\ pc[t] = "idle" /\ retained[t] < MaxRetains
    /\ IF g_primaryCtx # NoCtx
       THEN /\ g_primaryRefcount' = g_primaryRefcount + 1
            /\ UNCHANGED <<g_primaryCtx, g_ctxDevice, allocated, destroyedBy>>
       ELSE \E c \in Contexts :
              /\ New(c)
              /\ g_primaryCtx' = c /\ g_primaryRefcount' = 1
              /\ g_ctxDevice' = g_ctxDevice \cup {c}
    /\ retained' = [retained EXCEPT ![t] = @ + 1]
    /\ UNCHANGED <<t_ctxStack, destroying, forced>>

\* What Release at count zero and Reset share.
DropPrimary(t) ==
    /\ g_primaryCtx' = NoCtx /\ g_primaryRefcount' = 0
    /\ g_ctxDevice' = g_ctxDevice \ {g_primaryCtx}
    /\ t_ctxStack' = [t_ctxStack EXCEPT ![t] = eraseFromStack(@, g_primaryCtx)]
    /\ Delete(t, g_primaryCtx)

NearlyLastRelease == g_primaryRefcount - 1 <= 1     \* mutant: off by one

LastRelease == g_primaryRefcount - 1 <= 0

\* A program releases what it has retained; without a primary context the call
\* is an error.
PrimaryCtxRelease(t) ==
    /\ pc[t] = "idle" /\ retained[t] > 0
    /\ retained' = [retained EXCEPT ![t] = @ - 1]
    /\ \/ /\ g_primaryCtx = NoCtx
          /\ UNCHANGED <<t_ctxStack, registry, allocated, destroyedBy>>
       \/ /\ g_primaryCtx \in Usable
          /\ IF LastRelease
             THEN DropPrimary(t)
             ELSE /\ g_primaryRefcount' = g_primaryRefcount - 1
                  /\ UNCHANGED <<t_ctxStack, g_primaryCtx, g_ctxDevice, allocated, destroyedBy>>
    /\ UNCHANGED <<destroying, forced>>

PrimaryCtxReset(t) ==
    /\ forced
    /\ pc[t] = "idle" /\ g_primaryCtx \in Usable
    /\ DropPrimary(t)
    /\ UNCHANGED <<destroying, retained, forced>>

-----------------------------------------------------------------------------
Next ==
    \E t \in Threads :
        \/ CtxCreate(t) \/ CtxPushCurrent(t) \/ CtxPopCurrent(t)
        \/ CtxSetCurrent(t) \/ CtxGetCurrent(t)
        \/ DestroyDetach(t) \/ DestroyUnregister(t) \/ DestroyDelete(t)
        \/ PrimaryCtxRetain(t) \/ PrimaryCtxRelease(t) \/ PrimaryCtxReset(t)

Spec == Init /\ [][Next]_vars

-----------------------------------------------------------------------------
(* Properties. *)

\* The registries, the destroys and the counts have their types.
TypeOK ==
    /\ g_ctxDevice \subseteq Contexts
    /\ g_primaryCtx \in Contexts \cup {NoCtx}
    /\ g_primaryRefcount \in Nat
    /\ allocated \subseteq Contexts
    /\ pc \in [Threads -> {"idle", "unregister", "delete"}]
    /\ target \in [Threads -> Contexts \cup {NoCtx}]
    /\ retained \in [Threads -> Nat]

\* The registries name exactly the contexts that exist, except those a thread
\* has unregistered and is about to free: nothing is freed twice or while
\* registered, and nothing is forgotten, with destroys, releases and resets
\* of several threads interleaved (206-225, 292-342).
RegistryExact ==
    /\ g_ctxDevice = allocated \ {target[t] : t \in {u \in Threads : pc[u] = "delete"}}
    /\ g_primaryCtx # NoCtx => g_primaryCtx \in g_ctxDevice
    /\ g_primaryCtx = NoCtx <=> g_primaryRefcount = 0
    /\ \A t \in Threads : target[t] # NoCtx => target[t] \in allocated

\* A context on a thread's stack was not freed by that thread: however often a
\* thread pushed a context, destroying it leaves no occurrence behind (55-59).
OwnDestroyDetaches ==
    \A t \in Threads : \A c \in ToSet(t_ctxStack[t]) : t \notin destroyedBy[c]

\* While some thread has not released a primary context it retained, no other
\* thread's release frees it (297-329), if nobody resets or destroys it.
RetainedPrimaryLives ==
    ~forced /\ (\E t \in Threads : retained[t] > 0) => g_primaryCtx \in allocated

\* docs/architecture.md:111 "destroying a context detaches it everywhere (no
\* use-after-free via stale stack slots)".
NoStaleStackSlot ==
    \A t \in Threads : ToSet(t_ctxStack[t]) \subseteq allocated
=============================================================================
