---------------------------- MODULE ContextProofs ----------------------------
(***************************************************************************)
(* The registries of contexts name exactly the contexts that exist, for    *)
(* any number of threads, addresses, retains and stack depths.             *)
(*                                                                         *)
(* RegistryExact alone is not inductive: that a thread frees what nobody   *)
(* else is freeing needs the targets of two threads to differ, and that a  *)
(* context just made is not taken for one about to be freed needs every    *)
(* target to be allocated.  Registered adds both.                          *)
(*                                                                         *)
(* That a retained primary context lives rests on the count being the      *)
(* number of retains in progress.  The retains are a set, of a thread and  *)
(* a number each, whose cardinality needs no sum over the threads.         *)
(***************************************************************************)
EXTENDS ContextStack, DataInduction, FiniteSetTheorems

\* Contexts unregistered and about to be freed.
Leaving == {target[t] : t \in {u \in Threads : pc[u] = "delete"}}

Types ==
    /\ allocated \subseteq Contexts /\ g_primaryRefcount \in Nat
    /\ g_primaryCtx \in Contexts \cup {NoCtx}
    /\ pc \in [Threads -> {"idle", "unregister", "delete"}]
    /\ target \in [Threads -> Contexts \cup {NoCtx}]

Targets ==
    /\ \A t \in Threads : target[t] = NoCtx <=> pc[t] = "idle"
    /\ \A t \in Threads : target[t] # NoCtx => target[t] \in allocated
    /\ \A t, u \in Threads : target[t] = target[u] /\ target[t] # NoCtx => t = u

Names ==
    /\ g_ctxDevice = allocated \ Leaving
    /\ g_primaryCtx # NoCtx => g_primaryCtx \in g_ctxDevice
    /\ g_primaryCtx = NoCtx <=> g_primaryRefcount = 0

Registered == Types /\ Targets /\ Names

-----------------------------------------------------------------------------
\* Nothing is registered, made or destroyed at first.
LEMMA InitRegistered == Init => Registered
<1> SUFFICES ASSUME Init PROVE Registered
  OBVIOUS
<1>1. Leaving = {}
  BY DEF Init, Leaving
<1> QED
  BY <1>1 DEF Init, Registered, Types, Targets, Names

\* Where the threads are busy destroying is not touched, so the same contexts are leaving.
LEMMA SameLeaving ==
    ASSUME UNCHANGED destroying
    PROVE  Leaving' = Leaving /\ pc' = pc /\ target' = target
BY DEF destroying, Leaving

\* A context is made and registered, as the primary one or not.
LEMMA Make ==
    ASSUME Registered, NEW c \in Contexts, New(c), g_ctxDevice' = g_ctxDevice \cup {c},
           UNCHANGED destroying,
           \/ UNCHANGED <<g_primaryCtx, g_primaryRefcount>>
           \/ g_primaryCtx' = c /\ g_primaryRefcount' = 1
    PROVE  Registered'
<1>1. Leaving' = Leaving /\ pc' = pc /\ target' = target
  BY SameLeaving
<1>2. c \notin allocated /\ allocated' = allocated \cup {c} /\ c # NoCtx
  BY ContextStackAssumption DEF New
<1>3. c \notin Leaving
  BY <1>2 DEF Registered, Types, Targets, Leaving
<1>4. Types'
  BY <1>1, <1>2 DEF Registered, Types
<1>5. Targets'
  BY <1>1, <1>2 DEF Registered, Targets
<1>6. Names'
  BY <1>1, <1>2, <1>3 DEF Registered, Names
<1> QED
  BY <1>4, <1>5, <1>6 DEF Registered

\* The primary context is unregistered and freed at once, while no thread destroys it.
LEMMA Drop ==
    ASSUME Registered, NEW t \in Threads, DropPrimary(t), g_primaryCtx \in Usable,
           UNCHANGED destroying
    PROVE  Registered'
<1>1. Leaving' = Leaving /\ pc' = pc /\ target' = target
  BY SameLeaving
<1>2. /\ g_primaryCtx' = NoCtx /\ g_primaryRefcount' = 0
      /\ g_ctxDevice' = g_ctxDevice \ {g_primaryCtx}
      /\ allocated' = allocated \ {g_primaryCtx}
  BY DEF DropPrimary, Delete
<1>3. \A u \in Threads : target[u] # g_primaryCtx
  BY DEF Usable
<1>4. Types'
  BY <1>1, <1>2 DEF Registered, Types
<1>5. Targets'
  BY <1>1, <1>2, <1>3 DEF Registered, Targets
<1>6. Names'
  BY <1>1, <1>2 DEF Registered, Names
<1> QED
  BY <1>4, <1>5, <1>6 DEF Registered

\* Only stacks change.
LEMMA StacksOnly ==
    ASSUME Registered, UNCHANGED <<registry, allocated, destroying>>
    PROVE  Registered'
<1>1. Leaving' = Leaving /\ pc' = pc /\ target' = target
  BY SameLeaving
<1> QED
  BY <1>1 DEF Registered, Types, Targets, Names, registry

-----------------------------------------------------------------------------
\* cuCtxDestroy_v2 (206-229): its first part marks a context no other thread destroys.
LEMMA DetachStep ==
    ASSUME Registered, NEW t \in Threads, DestroyDetach(t)
    PROVE  Registered'
<1>1. PICK c \in Usable : target' = [target EXCEPT ![t] = c]
  BY DEF DestroyDetach
<1>2. /\ pc[t] = "idle" /\ pc' = [pc EXCEPT ![t] = "unregister"]
      /\ g_ctxDevice' = g_ctxDevice /\ g_primaryCtx' = g_primaryCtx
      /\ g_primaryRefcount' = g_primaryRefcount /\ allocated' = allocated
  BY DEF DestroyDetach, registry
<1>3. c \in allocated /\ c \in Contexts /\ c # NoCtx /\ \A u \in Threads : target[u] # c
  BY ContextStackAssumption DEF Usable, Registered, Types
<1>4. Leaving' = Leaving
  <2>1. \A u \in Threads : pc'[u] = "delete" <=> pc[u] = "delete"
    BY <1>2 DEF Registered, Types
  <2>2. \A u \in Threads : pc[u] = "delete" => target'[u] = target[u]
    BY <1>1, <1>2 DEF Registered, Types
  <2> QED
    BY <2>1, <2>2 DEF Leaving
<1>5. Types'
  BY <1>1, <1>2, <1>3 DEF Registered, Types
<1>6. Targets'
  BY <1>1, <1>2, <1>3 DEF Registered, Types, Targets
<1>7. Names'
  BY <1>2, <1>4 DEF Registered, Names
<1> QED
  BY <1>5, <1>6, <1>7 DEF Registered

\* The second part clears the registries: the context is leaving.
LEMMA UnregisterStep ==
    ASSUME Registered, NEW t \in Threads, DestroyUnregister(t)
    PROVE  Registered'
<1>1. /\ pc[t] = "unregister" /\ pc' = [pc EXCEPT ![t] = "delete"]
      /\ g_ctxDevice' = g_ctxDevice \ {target[t]} /\ allocated' = allocated /\ target' = target
      /\ IF g_primaryCtx = target[t]
         THEN g_primaryCtx' = NoCtx /\ g_primaryRefcount' = 0
         ELSE g_primaryCtx' = g_primaryCtx /\ g_primaryRefcount' = g_primaryRefcount
  BY DEF DestroyUnregister
<1>2. Leaving' = Leaving \cup {target[t]}
  <2>1. \A u \in Threads : pc'[u] = "delete" <=> pc[u] = "delete" \/ u = t
    BY <1>1 DEF Registered, Types
  <2> QED
    BY <1>1, <2>1 DEF Leaving
<1>3. Types'
  BY <1>1 DEF Registered, Types
<1>4. Targets'
  BY <1>1 DEF Registered, Types, Targets
<1>5. Names'
  BY <1>1, <1>2 DEF Registered, Names
<1> QED
  BY <1>3, <1>4, <1>5 DEF Registered

\* The third frees it: no other thread has the same target, so nothing else is leaving
\* or stays behind.
LEMMA DeleteStep ==
    ASSUME Registered, NEW t \in Threads, DestroyDelete(t)
    PROVE  Registered'
<1>1. /\ pc[t] = "delete" /\ pc' = [pc EXCEPT ![t] = "idle"]
      /\ target' = [target EXCEPT ![t] = NoCtx]
      /\ allocated' = allocated \ {target[t]}
      /\ g_ctxDevice' = g_ctxDevice /\ g_primaryCtx' = g_primaryCtx
      /\ g_primaryRefcount' = g_primaryRefcount
  BY DEF DestroyDelete, Delete, registry
<1>2. target[t] # NoCtx /\ target[t] \in Leaving
  BY <1>1 DEF Registered, Targets, Leaving
<1>3. Leaving' = Leaving \ {target[t]}
  <2>1. \A u \in Threads : pc'[u] = "delete" <=> pc[u] = "delete" /\ u # t
    BY <1>1 DEF Registered, Types
  <2>2. \A u \in Threads : u # t => target'[u] = target[u]
    BY <1>1 DEF Registered, Types
  <2>3. \A u \in Threads : target[u] = target[t] => u = t
    BY <1>2 DEF Registered, Targets
  <2>4. \A x : x \in Leaving' <=> \E u \in Threads : pc[u] = "delete" /\ u # t /\ x = target[u]
    BY <2>1, <2>2 DEF Leaving
  <2>5. \A x : x \in Leaving <=> \E u \in Threads : pc[u] = "delete" /\ x = target[u]
    BY DEF Leaving
  <2> QED
    BY <2>3, <2>4, <2>5
<1>4. Types'
  BY <1>1 DEF Registered, Types
<1>5. Targets'
  BY <1>1, <1>2 DEF Registered, Types, Targets
<1>6. Names'
  BY <1>1, <1>2, <1>3 DEF Registered, Names
<1> QED
  BY <1>4, <1>5, <1>6 DEF Registered

\* The primary context's count goes up, or the context is made.
LEMMA RetainStep ==
    ASSUME Registered, NEW t \in Threads, PrimaryCtxRetain(t)
    PROVE  Registered'
<1>1. UNCHANGED destroying
  BY DEF PrimaryCtxRetain
<1>2. CASE g_primaryCtx # NoCtx
  <2>1. /\ g_primaryRefcount' = g_primaryRefcount + 1 /\ g_primaryCtx' = g_primaryCtx
        /\ g_ctxDevice' = g_ctxDevice /\ allocated' = allocated
    BY <1>2 DEF PrimaryCtxRetain
  <2>2. Leaving' = Leaving /\ pc' = pc /\ target' = target
    BY <1>1, SameLeaving
  <2> QED
    BY <1>2, <2>1, <2>2 DEF Registered, Types, Targets, Names
<1>3. CASE g_primaryCtx = NoCtx
  <2>1. PICK c \in Contexts : /\ New(c) /\ g_primaryCtx' = c /\ g_primaryRefcount' = 1
                              /\ g_ctxDevice' = g_ctxDevice \cup {c}
    BY <1>3 DEF PrimaryCtxRetain
  <2> QED
    BY <1>1, <2>1, Make
<1> QED
  BY <1>2, <1>3

\* The count goes down, or the context goes.
LEMMA ReleaseStep ==
    ASSUME Registered, NEW t \in Threads, PrimaryCtxRelease(t)
    PROVE  Registered'
<1>1. UNCHANGED destroying
  BY DEF PrimaryCtxRelease
<1>2. CASE g_primaryCtx = NoCtx /\ UNCHANGED <<t_ctxStack, registry, allocated, destroyedBy>>
  BY <1>1, <1>2, StacksOnly
<1>3. CASE g_primaryCtx \in Usable /\ LastRelease /\ DropPrimary(t)
  BY <1>1, <1>3, Drop
<1>4. CASE /\ g_primaryCtx \in Usable /\ ~LastRelease
           /\ g_primaryRefcount' = g_primaryRefcount - 1
           /\ UNCHANGED <<t_ctxStack, g_primaryCtx, g_ctxDevice, allocated, destroyedBy>>
  <2>1. Leaving' = Leaving /\ pc' = pc /\ target' = target
    BY <1>1, SameLeaving
  <2>2. g_primaryRefcount' \in Nat /\ g_primaryRefcount' # 0 /\ g_primaryCtx # NoCtx
    BY <1>4, ContextStackAssumption DEF Registered, Types, LastRelease, Usable
  <2> QED
    BY <1>4, <2>1, <2>2 DEF Registered, Types, Targets, Names
<1> QED
  BY <1>2, <1>3, <1>4 DEF PrimaryCtxRelease

\* Every step keeps the registries exact.
LEMMA StepRegistered ==
    ASSUME Registered, [Next]_vars
    PROVE  Registered'
<1>1. CASE UNCHANGED vars
  BY <1>1, StacksOnly DEF vars
<1>2. ASSUME NEW t \in Threads, CtxCreate(t) PROVE Registered'
  BY <1>2, Make DEF CtxCreate
<1>3. ASSUME NEW t \in Threads, CtxPushCurrent(t) \/ CtxPopCurrent(t) \/ CtxSetCurrent(t)
      PROVE  Registered'
  BY <1>3, StacksOnly DEF CtxPushCurrent, CtxPopCurrent, CtxSetCurrent
<1>4. ASSUME NEW t \in Threads, CtxGetCurrent(t) PROVE Registered'
  BY <1>2, <1>4 DEF CtxGetCurrent
<1>5. ASSUME NEW t \in Threads, PrimaryCtxReset(t) PROVE Registered'
  BY <1>5, Drop DEF PrimaryCtxReset
<1> QED
  BY <1>1, <1>2, <1>3, <1>4, <1>5, DetachStep, UnregisterStep, DeleteStep, RetainStep, ReleaseStep
     DEF Next

\* nvcuda_driver.cpp:206-225, 292-342: with any number of threads creating, destroying,
\* retaining, releasing and resetting, nothing is freed twice, freed while registered, or
\* forgotten.
THEOREM RegistriesExact == Spec => []RegistryExact
<1>1. Registered => RegistryExact
  BY DEF Registered, Targets, Names, Leaving, RegistryExact
<1> QED
  BY <1>1, InitRegistered, StepRegistered, PTL DEF Spec

-----------------------------------------------------------------------------
\* The retains of thread t, numbered, when it has f[t], and those of all threads.
Retains(f, t) == {<<t, k>> : k \in 1..f[t]}
AllRetains(f) == UNION {Retains(f, t) : t \in Threads}

Outstanding == AllRetains(retained)

Counted ==
    /\ retained \in [Threads -> Nat] /\ forced \in BOOLEAN
    /\ ~forced =>
         /\ IsFiniteSet(Outstanding) /\ Cardinality(Outstanding) = g_primaryRefcount
         /\ \A t \in Threads : target[t] = g_primaryCtx => g_primaryCtx = NoCtx

\* What is in AllRetains: pairs, and which.
LEMMA RetainsAre ==
    ASSUME NEW f \in [Threads -> Nat]
    PROVE  /\ AllRetains(f) \subseteq Threads \X Nat
           /\ \A t \in Threads, k \in Nat :
                <<t, k>> \in AllRetains(f) <=> 1 <= k /\ k <= f[t]
<1>1. ASSUME NEW x \in AllRetains(f) PROVE x \in Threads \X Nat
  <2>1. PICK t \in Threads : x \in Retains(f, t)
    BY DEF AllRetains
  <2>2. PICK k \in 1..f[t] : x = <<t, k>>
    BY <2>1 DEF Retains
  <2>3. k \in Nat
    OBVIOUS
  <2> QED
    BY <2>2, <2>3
<1>2. ASSUME NEW t \in Threads, NEW k \in Nat
      PROVE  <<t, k>> \in AllRetains(f) <=> 1 <= k /\ k <= f[t]
  <2>1. <<t, k>> \in AllRetains(f) <=> k \in 1..f[t]
    BY DEF AllRetains, Retains
  <2>2. f[t] \in Nat
    OBVIOUS
  <2> QED
    BY <2>1, <2>2
<1> QED
  BY <1>1, <1>2

\* At first nothing is retained.
LEMMA InitCounted == Init => Counted
<1> SUFFICES ASSUME Init PROVE Counted
  OBVIOUS
<1>1. \A t \in Threads : retained[t] = 0
  BY DEF Init
<1>2. Outstanding = {}
  <2>1. \A t \in Threads : Retains(retained, t) = {}
    BY <1>1 DEF Retains
  <2> QED
    BY <2>1 DEF Outstanding, AllRetains
<1>3. IsFiniteSet(Outstanding) /\ Cardinality(Outstanding) = 0
  BY <1>2, FS_EmptySet
<1> QED
  BY <1>3 DEF Init, Counted

\* A step that leaves the retains and the count alone, and frees or destroys no primary
\* context.
LEMMA CountKept ==
    ASSUME Counted, UNCHANGED <<retained, forced, g_primaryCtx, g_primaryRefcount>>,
           ~forced => \A t \in Threads : target'[t] = g_primaryCtx => g_primaryCtx = NoCtx
    PROVE  Counted'
<1>1. Outstanding' = Outstanding
  BY DEF Outstanding, AllRetains, Retains
<1> QED
  BY <1>1 DEF Counted

\* A program that forces may do what it likes.
LEMMA Forced ==
    ASSUME Counted, forced, UNCHANGED <<retained, forced>>
    PROVE  Counted'
BY DEF Counted

\* A retain adds one element.
LEMMA RetainAdds ==
    ASSUME Counted, NEW t \in Threads, retained' = [retained EXCEPT ![t] = @ + 1],
           IsFiniteSet(Outstanding)
    PROVE  IsFiniteSet(Outstanding)' /\ Cardinality(Outstanding)' = Cardinality(Outstanding) + 1
<1> DEFINE x == <<t, retained[t] + 1>>
<1>1. retained \in [Threads -> Nat]
  BY DEF Counted
<1>2. \A u \in Threads : retained'[u] = IF u = t THEN retained[u] + 1 ELSE retained[u]
  BY <1>1
<1>3. retained' \in [Threads -> Nat] /\ retained[t] \in Nat
  BY <1>1
<1>4. x \notin Outstanding
  BY <1>1, <1>3, RetainsAre DEF Outstanding
<1>5. /\ Outstanding' \subseteq Threads \X Nat
      /\ \A u \in Threads, k \in Nat :
           <<u, k>> \in Outstanding' <=> 1 <= k /\ k <= retained'[u]
  BY <1>3, RetainsAre DEF Outstanding
<1>6. Outstanding' = Outstanding \cup {x}
  <2>1. x \in Threads \X Nat
    BY <1>3
  <2>2. ASSUME NEW u \in Threads, NEW k \in Nat
        PROVE  <<u, k>> \in Outstanding' <=> <<u, k>> \in Outstanding \/ <<u, k>> = x
    <3>1. <<u, k>> \in Outstanding <=> 1 <= k /\ k <= retained[u]
      BY <1>1, RetainsAre DEF Outstanding
    <3>2. <<u, k>> \in Outstanding' <=> 1 <= k /\ k <= retained'[u]
      BY <1>5
    <3>3. <<u, k>> = x <=> u = t /\ k = retained[t] + 1
      OBVIOUS
    <3>4. retained[u] \in Nat
      BY <1>1
    <3> HIDE DEF x
    <3> QED
      BY <1>2, <3>1, <3>2, <3>3, <3>4
  <2>3. Outstanding \subseteq Threads \X Nat
    BY <1>1, RetainsAre DEF Outstanding
  <2> HIDE DEF x
  <2> QED
    BY <1>5, <2>1, <2>2, <2>3
<1> QED
  BY <1>4, <1>6, FS_AddElement

\* A release takes one away.
LEMMA ReleaseRemoves ==
    ASSUME Counted, NEW t \in Threads, retained[t] > 0,
           retained' = [retained EXCEPT ![t] = @ - 1], IsFiniteSet(Outstanding)
    PROVE  /\ retained' \in [Threads -> Nat] /\ Outstanding # {}
           /\ IsFiniteSet(Outstanding)' /\ Cardinality(Outstanding)' = Cardinality(Outstanding) - 1
<1> DEFINE x == <<t, retained[t]>>
<1>1. retained \in [Threads -> Nat]
  BY DEF Counted
<1>2. \A u \in Threads : retained'[u] = IF u = t THEN retained[u] - 1 ELSE retained[u]
  BY <1>1
<1>3. retained' \in [Threads -> Nat] /\ retained[t] \in Nat
  BY <1>1
<1>4. x \in Outstanding
  BY <1>1, <1>3, RetainsAre DEF Outstanding
<1>5. /\ Outstanding' \subseteq Threads \X Nat
      /\ \A u \in Threads, k \in Nat :
           <<u, k>> \in Outstanding' <=> 1 <= k /\ k <= retained'[u]
  BY <1>3, RetainsAre DEF Outstanding
<1>6. Outstanding' = Outstanding \ {x}
  <2>1. ASSUME NEW u \in Threads, NEW k \in Nat
        PROVE  <<u, k>> \in Outstanding' <=> <<u, k>> \in Outstanding /\ <<u, k>> # x
    <3>1. <<u, k>> \in Outstanding <=> 1 <= k /\ k <= retained[u]
      BY <1>1, RetainsAre DEF Outstanding
    <3>2. <<u, k>> \in Outstanding' <=> 1 <= k /\ k <= retained'[u]
      BY <1>5
    <3>3. <<u, k>> = x <=> u = t /\ k = retained[t]
      OBVIOUS
    <3>4. retained[u] \in Nat
      BY <1>1
    <3> HIDE DEF x
    <3> QED
      BY <1>2, <3>1, <3>2, <3>3, <3>4
  <2>2. Outstanding \subseteq Threads \X Nat
    BY <1>1, RetainsAre DEF Outstanding
  <2> HIDE DEF x
  <2> QED
    BY <1>5, <2>1, <2>2
<1> QED
  BY <1>3, <1>4, <1>6, FS_RemoveElement

\* A retain keeps the count.
LEMMA RetainCounted ==
    ASSUME Registered, Counted, NEW t \in Threads, PrimaryCtxRetain(t)
    PROVE  Counted'
<1>1. retained' = [retained EXCEPT ![t] = @ + 1] /\ forced' = forced /\ target' = target
  BY DEF PrimaryCtxRetain, destroying
<1>2. retained' \in [Threads -> Nat]
  BY <1>1 DEF Counted
<1>3. ASSUME ~forced
      PROVE  /\ IsFiniteSet(Outstanding)' /\ Cardinality(Outstanding)' = g_primaryRefcount'
             /\ \A u \in Threads : target'[u] = g_primaryCtx' => g_primaryCtx' = NoCtx
  <2>1. /\ IsFiniteSet(Outstanding)
        /\ IsFiniteSet(Outstanding)' /\ Cardinality(Outstanding)' = g_primaryRefcount + 1
    BY <1>1, <1>3, RetainAdds DEF Counted
  <2>2. CASE g_primaryCtx # NoCtx
    <3>1. g_primaryRefcount' = g_primaryRefcount + 1 /\ g_primaryCtx' = g_primaryCtx
      BY <2>2 DEF PrimaryCtxRetain
    <3> QED
      BY <1>1, <1>3, <2>1, <3>1 DEF Counted
  <2>3. CASE g_primaryCtx = NoCtx
    <3>1. PICK c \in Contexts : New(c) /\ g_primaryCtx' = c /\ g_primaryRefcount' = 1
      BY <2>3 DEF PrimaryCtxRetain
    <3>2. g_primaryRefcount = 0
      BY <2>3 DEF Registered, Names
    <3>3. c \notin allocated /\ c # NoCtx
      BY <3>1, ContextStackAssumption DEF New
    <3>4. \A u \in Threads : target[u] # c
      BY <3>3 DEF Registered, Targets
    <3> QED
      BY <1>1, <2>1, <3>1, <3>2, <3>4
  <2> QED
    BY <2>2, <2>3
<1> QED
  BY <1>1, <1>2, <1>3 DEF Counted

\* A release keeps the count, and the last one is the one that finds it at one.
LEMMA ReleaseCounted ==
    ASSUME Registered, Counted, NEW t \in Threads, PrimaryCtxRelease(t)
    PROVE  Counted'
<1>1. /\ retained[t] > 0 /\ retained' = [retained EXCEPT ![t] = @ - 1]
      /\ forced' = forced /\ target' = target
  BY DEF PrimaryCtxRelease, destroying
<1>2. CASE forced
  <2>1. retained' \in [Threads -> Nat]
    BY <1>1 DEF Counted
  <2> QED
    BY <1>1, <1>2, <2>1 DEF Counted
<1>3. CASE ~forced
  <2>1. /\ IsFiniteSet(Outstanding) /\ Cardinality(Outstanding) = g_primaryRefcount
        /\ \A u \in Threads : target[u] = g_primaryCtx => g_primaryCtx = NoCtx
    BY <1>3 DEF Counted
  <2>2. /\ retained' \in [Threads -> Nat] /\ Outstanding # {}
        /\ IsFiniteSet(Outstanding)' /\ Cardinality(Outstanding)' = g_primaryRefcount - 1
    BY <1>1, <2>1, ReleaseRemoves
  <2>3. g_primaryRefcount # 0 /\ g_primaryCtx # NoCtx /\ g_primaryRefcount \in Nat
    BY <2>1, <2>2, FS_EmptySet DEF Registered, Types, Names
  <2>4. CASE LastRelease /\ DropPrimary(t)
    <3>1. g_primaryCtx' = NoCtx /\ g_primaryRefcount' = 0
      BY <2>4 DEF DropPrimary
    <3>2. g_primaryRefcount - 1 = 0
      BY <2>3, <2>4 DEF LastRelease
    <3> QED
      BY <1>1, <1>3, <2>2, <3>1, <3>2 DEF Counted
  <2>5. CASE g_primaryRefcount' = g_primaryRefcount - 1 /\ g_primaryCtx' = g_primaryCtx
    BY <1>1, <1>3, <2>1, <2>2, <2>5 DEF Counted
  <2> QED
    BY <2>3, <2>4, <2>5 DEF PrimaryCtxRelease
<1> QED
  BY <1>2, <1>3

\* Destroying a context leaves the primary one alone unless the program forces.
LEMMA DestroyCounted ==
    ASSUME Registered, Counted, NEW t \in Threads,
           DestroyDetach(t) \/ DestroyUnregister(t) \/ DestroyDelete(t)
    PROVE  Counted'
<1>0. CASE forced
  BY <1>0, Forced DEF DestroyDetach, DestroyUnregister, DestroyDelete
<1>1. CASE ~forced /\ DestroyDetach(t)
  <2>1. PICK c \in Usable : (c = g_primaryCtx => forced) /\ target' = [target EXCEPT ![t] = c]
    BY <1>1 DEF DestroyDetach
  <2>2. UNCHANGED <<retained, forced, g_primaryCtx, g_primaryRefcount>>
    BY <1>1 DEF DestroyDetach, registry
  <2>3. \A u \in Threads : target'[u] = g_primaryCtx => g_primaryCtx = NoCtx
    BY <1>1, <2>1 DEF Counted, Registered, Types
  <2> QED
    BY <2>2, <2>3, CountKept
<1>2. CASE ~forced /\ DestroyUnregister(t)
  <2>1. /\ pc[t] = "unregister" /\ target' = target /\ UNCHANGED <<retained, forced>>
        /\ IF g_primaryCtx = target[t]
           THEN g_primaryCtx' = NoCtx /\ g_primaryRefcount' = 0
           ELSE UNCHANGED <<g_primaryCtx, g_primaryRefcount>>
    BY <1>2 DEF DestroyUnregister
  <2>2. target[t] # NoCtx
    BY <2>1 DEF Registered, Targets
  <2>3. g_primaryCtx # target[t]
    BY <1>2, <2>2 DEF Counted
  <2> QED
    BY <1>2, <2>1, <2>3, CountKept DEF Counted
<1>3. CASE ~forced /\ DestroyDelete(t)
  <2>1. /\ target' = [target EXCEPT ![t] = NoCtx]
        /\ UNCHANGED <<retained, forced, g_primaryCtx, g_primaryRefcount>>
    BY <1>3 DEF DestroyDelete, registry
  <2>2. \A u \in Threads : target'[u] = g_primaryCtx => g_primaryCtx = NoCtx
    BY <1>3, <2>1 DEF Counted, Registered, Types
  <2> QED
    BY <2>1, <2>2, CountKept
<1> QED
  BY <1>0, <1>1, <1>2, <1>3

\* Every step keeps the count.
LEMMA StepCounted ==
    ASSUME Registered, Counted, [Next]_vars
    PROVE  Counted'
<1>1. ASSUME target' = target, UNCHANGED <<retained, forced, g_primaryCtx, g_primaryRefcount>>
      PROVE  Counted'
  BY <1>1, CountKept DEF Counted
<1>2. CASE UNCHANGED vars
  BY <1>1, <1>2 DEF vars, registry, destroying
<1>3. ASSUME NEW t \in Threads, CtxCreate(t) PROVE Counted'
  BY <1>1, <1>3 DEF CtxCreate, destroying
<1>4. ASSUME NEW t \in Threads, CtxPushCurrent(t) \/ CtxPopCurrent(t) \/ CtxSetCurrent(t)
      PROVE  Counted'
  BY <1>1, <1>4 DEF CtxPushCurrent, CtxPopCurrent, CtxSetCurrent, registry, destroying
<1>5. ASSUME NEW t \in Threads, CtxGetCurrent(t) PROVE Counted'
  BY <1>3, <1>5 DEF CtxGetCurrent
<1>6. ASSUME NEW t \in Threads, PrimaryCtxReset(t) PROVE Counted'
  BY <1>6, Forced DEF PrimaryCtxReset
<1> QED
  BY <1>2, <1>3, <1>4, <1>5, <1>6, RetainCounted, ReleaseCounted, DestroyCounted DEF Next

\* The registries and the count keep their types: a release never takes it below zero.
THEOREM TypeCorrect == Spec => []TypeOK
<1>1. Registered /\ Counted => TypeOK
  BY DEF Registered, Types, Names, Counted, TypeOK
<1> QED
  BY <1>1, InitRegistered, StepRegistered, InitCounted, StepCounted, PTL DEF Spec

\* nvcuda_driver.cpp:297-329: as long as nobody resets or destroys the primary context, no
\* thread's release frees it while another has retained it, whatever the number of threads
\* and retains.
THEOREM RetainedPrimaryStays == Spec => []RetainedPrimaryLives
<1>1. Registered /\ Counted => RetainedPrimaryLives
  <2> SUFFICES ASSUME Registered, Counted, ~forced, NEW t \in Threads, retained[t] > 0
               PROVE  g_primaryCtx \in allocated
    BY DEF RetainedPrimaryLives
  <2>1. <<t, 1>> \in Outstanding
    BY RetainsAre DEF Counted, Outstanding
  <2>2. g_primaryRefcount # 0
    BY <2>1, FS_EmptySet DEF Counted
  <2> QED
    BY <2>2 DEF Registered, Names
<1> QED
  BY <1>1, InitRegistered, StepRegistered, InitCounted, StepCounted, PTL DEF Spec

-----------------------------------------------------------------------------
\* What the stack of t may hold: what t has not freed since operator new gave it out, and
\* is not about to free.
Clean(t) == {c \in Contexts : t \notin destroyedBy[c] /\ c # target[t]}

Detached ==
    /\ DOMAIN t_ctxStack = Threads
    /\ \A t \in Threads : t_ctxStack[t] \in Seq(Clean(t))
    /\ destroyedBy \in [Contexts -> SUBSET Threads]
    /\ \A c \in allocated : destroyedBy[c] = {}

\* What std::remove leaves is on the stack, and is not c.
LEMMA Erased ==
    ASSUME NEW S, NEW stack \in Seq(S), NEW c
    PROVE  eraseFromStack(stack, c) \in Seq(ToSet(stack) \ {c})
<1> DEFINE T == ToSet(stack) \ {c}
           ss == [k \in DOMAIN stack |-> IF stack[k] = c THEN << >> ELSE <<stack[k]>>]
<1>1. DOMAIN stack = 1..Len(stack) /\ Len(stack) \in Nat
    BY LenProperties
<1>2. ASSUME NEW k \in DOMAIN stack
      PROVE  (IF stack[k] = c THEN << >> ELSE <<stack[k]>>) \in Seq(T)
    <2>1. CASE stack[k] = c
        BY <2>1, EmptySeq
    <2>2. CASE stack[k] # c
        <3>1. stack[k] \in T
            BY <2>2 DEF ToSet
        <3> HIDE DEF T
        <3> QED
            BY <2>2, <3>1
    <2> QED
        BY <2>1, <2>2
<1> HIDE DEF T
<1>3. ss \in [1..Len(stack) -> Seq(T)]
    BY <1>1, <1>2
<1>4. ss \in Seq(Seq(T))
    <2> DEFINE Q == Seq(T)
               n == Len(stack)
    <2>1. ss \in [1..n -> Q] /\ n \in Nat
        BY <1>1, <1>3
    <2> HIDE DEF Q, n, ss
    <2>2. ss \in Seq(Q)
        BY <2>1
    <2> QED
        BY <2>2 DEF Q
<1>5. FlattenSeq(ss) \in Seq(T)
    <2> HIDE DEF ss
    <2>1. PICK F : Concatenates(F, T, ss) /\ FlattenSeq(ss) = F[Len(ss)]
        BY <1>4, FlattenConcatenates
    <2>2. Len(ss) \in Nat
        BY <1>4, LenProperties
    <2>3. F[Len(ss)] \in Seq(T)
        BY <2>1, <2>2 DEF Concatenates
    <2> QED
        BY <2>1, <2>3
<1> QED
    BY <1>5 DEF T, eraseFromStack

\* A sequence over a set is one over a larger set.
LEMMA SeqMonotone ==
    ASSUME NEW S, NEW T, S \subseteq T, NEW s \in Seq(S)
    PROVE  s \in Seq(T)
<1>1. Len(s) \in Nat /\ s \in [1..Len(s) -> S]
    BY LenProperties
<1> DEFINE n == Len(s)
<1>2. n \in Nat /\ s \in [1..n -> T]
    BY <1>1
<1> HIDE DEF n
<1> QED
    BY <1>2

\* Erasing c from a stack of members of S.
LEMMA ErasedClean ==
    ASSUME NEW S, NEW T, NEW stack \in Seq(S), NEW c, S \ {c} \subseteq T
    PROVE  eraseFromStack(stack, c) \in Seq(T)
<1>1. DOMAIN stack = 1..Len(stack) /\ \A k \in 1..Len(stack) : stack[k] \in S
    BY LenProperties, ElementOfSeq
<1>2. ToSet(stack) \ {c} \subseteq T
    BY <1>1 DEF ToSet
<1> QED
    <2> DEFINE left == ToSet(stack) \ {c}
               q == eraseFromStack(stack, c)
    <2>1. q \in Seq(left)
        BY Erased
    <2>2. left \subseteq T
        BY <1>2
    <2> HIDE DEF left, q
    <2>3. q \in Seq(T)
        BY <2>1, <2>2, SeqMonotone
    <2> QED
        BY <2>3 DEF q

\* At most the stack of t changes, and the other threads may hold what they held.
LEMMA StackStep ==
    ASSUME Detached, NEW t \in Threads, NEW s, t_ctxStack' = [t_ctxStack EXCEPT ![t] = s],
           s \in Seq(Clean(t)'), \A u \in Threads \ {t} : Clean(u) \subseteq Clean(u)',
           destroyedBy' \in [Contexts -> SUBSET Threads],
           \A c \in allocated' : destroyedBy'[c] = {}
    PROVE  Detached'
<1>1. DOMAIN t_ctxStack' = Threads /\ t_ctxStack'[t] = s
      /\ \A u \in Threads \ {t} : t_ctxStack'[u] = t_ctxStack[u]
    BY DEF Detached
<1>2. ASSUME NEW u \in Threads
      PROVE  t_ctxStack'[u] \in Seq(Clean(u)')
    <2>1. CASE u = t
        BY <1>1, <2>1
    <2>2. CASE u # t
        <3>1. t_ctxStack[u] \in Seq(Clean(u)) /\ Clean(u) \subseteq Clean(u)'
            BY <2>2 DEF Detached
        <3>2. t_ctxStack[u] \in Seq(Clean(u)')
            BY <3>1, SeqMonotone
        <3> QED
            BY <1>1, <2>2, <3>2
    <2> QED
        BY <2>1, <2>2
<1> QED
    BY <1>1, <1>2 DEF Detached

\* No stack changes.
LEMMA StacksKept ==
    ASSUME Detached, t_ctxStack' = t_ctxStack, \A u \in Threads : Clean(u) \subseteq Clean(u)',
           destroyedBy' \in [Contexts -> SUBSET Threads],
           \A c \in allocated' : destroyedBy'[c] = {}
    PROVE  Detached'
<1>1. ASSUME NEW u \in Threads
      PROVE  t_ctxStack'[u] \in Seq(Clean(u)')
    <2>1. t_ctxStack[u] \in Seq(Clean(u)) /\ Clean(u) \subseteq Clean(u)'
        BY DEF Detached
    <2> QED
        BY <2>1, SeqMonotone
<1> QED
    BY <1>1 DEF Detached

\* operator new gives out an address: the threads may hold it again.
LEMMA NewClean ==
    ASSUME Registered, Detached, NEW c \in Contexts, New(c), target' = target
    PROVE  /\ \A u \in Threads : Clean(u) \subseteq Clean(u)' /\ c \in Clean(u)'
           /\ destroyedBy' \in [Contexts -> SUBSET Threads]
           /\ \A x \in allocated' : destroyedBy'[x] = {}
<1>1. c \notin allocated /\ allocated' = allocated \cup {c} /\ c # NoCtx
      /\ destroyedBy' = [destroyedBy EXCEPT ![c] = {}]
    BY ContextStackAssumption DEF New
<1>2. \A u \in Threads : target[u] # c
    BY <1>1 DEF Registered, Targets
<1>3. destroyedBy' \in [Contexts -> SUBSET Threads] /\ destroyedBy'[c] = {}
      /\ \A x \in Contexts \ {c} : destroyedBy'[x] = destroyedBy[x]
    BY <1>1 DEF Detached
<1>4. \A x \in allocated' : destroyedBy'[x] = {}
    BY <1>1, <1>3 DEF Detached, Registered, Types
<1> QED
    BY <1>2, <1>3, <1>4 DEF Clean

\* A context is pushed on a stack.
LEMMA PushClean ==
    ASSUME Detached, NEW t \in Threads, NEW c, Push(t, c), c \in Clean(t)',
           \A u \in Threads : Clean(u) \subseteq Clean(u)',
           destroyedBy' \in [Contexts -> SUBSET Threads],
           \A x \in allocated' : destroyedBy'[x] = {}
    PROVE  Detached'
<1>1. t_ctxStack' = [t_ctxStack EXCEPT ![t] = Append(t_ctxStack[t], c)]
    BY DEF Push, Detached
<1>2. t_ctxStack[t] \in Seq(Clean(t)')
    BY SeqMonotone DEF Detached
<1>3. Append(t_ctxStack[t], c) \in Seq(Clean(t)')
    BY <1>2, AppendProperties
<1> QED
    BY <1>1, <1>3, StackStep

\* Nothing is freed, and no target changes.
LEMMA CleanKept ==
    ASSUME Detached, UNCHANGED <<allocated, destroyedBy, target>>
    PROVE  /\ \A u \in Threads : Clean(u)' = Clean(u)
           /\ destroyedBy' \in [Contexts -> SUBSET Threads]
           /\ \A x \in allocated' : destroyedBy'[x] = {}
BY DEF Detached, Clean

\* What a program may push is clean for every thread.
LEMMA UsableClean ==
    ASSUME Registered, Detached, NEW c \in Usable, NEW u \in Threads
    PROVE  c \in Clean(u)
BY DEF Usable, Detached, Clean, Registered, Types

\* The primary context is freed and leaves the stack of the thread that frees it.
LEMMA DropClean ==
    ASSUME Registered, Detached, NEW t \in Threads, DropPrimary(t), g_primaryCtx \in Usable,
           UNCHANGED destroying
    PROVE  Detached'
<1> DEFINE c == g_primaryCtx
<1>1. /\ t_ctxStack' = [t_ctxStack EXCEPT ![t] = eraseFromStack(t_ctxStack[t], c)]
      /\ allocated' = allocated \ {c} /\ destroyedBy' = [destroyedBy EXCEPT ![c] = {t}]
      /\ target' = target
    BY DEF DropPrimary, Delete, destroying, Detached
<1>2. c \in Contexts
    BY DEF Usable, Registered, Types
<1> HIDE DEF c
<1>3. /\ destroyedBy' \in [Contexts -> SUBSET Threads] /\ destroyedBy'[c] = {t}
      /\ \A x \in Contexts \ {c} : destroyedBy'[x] = destroyedBy[x]
    BY <1>1, <1>2 DEF Detached
<1>4. \A x \in allocated' : destroyedBy'[x] = {}
    BY <1>1, <1>3 DEF Detached, Registered, Types
<1>5. \A u \in Threads \ {t} : Clean(u) \subseteq Clean(u)'
    BY <1>1, <1>3 DEF Clean
<1>6. Clean(t) \ {c} \subseteq Clean(t)'
    BY <1>1, <1>3 DEF Clean
<1>7. eraseFromStack(t_ctxStack[t], c) \in Seq(Clean(t)')
    BY <1>6, ErasedClean DEF Detached
<1> QED
    BY <1>1, <1>3, <1>4, <1>5, <1>7, StackStep

\* In the initial states no stack holds a context that its thread destroyed.
LEMMA InitDetached == Init => Detached
BY EmptySeq DEF Init, Detached

\* cuCtxDestroy_v2 detaches what it is about to free.
LEMMA DetachDetached ==
    ASSUME Registered, Detached, NEW t \in Threads, DestroyDetach(t)
    PROVE  Detached'
<1>1. PICK c \in Usable :
        /\ target' = [target EXCEPT ![t] = c]
        /\ t_ctxStack' = [t_ctxStack EXCEPT ![t] = eraseFromStack(@, c)]
    BY DEF DestroyDetach
<1>2. allocated' = allocated /\ destroyedBy' = destroyedBy
    BY DEF DestroyDetach
<1>3. target'[t] = c /\ \A u \in Threads \ {t} : target'[u] = target[u]
    BY <1>1 DEF Registered, Types
<1>4. Clean(t) \ {c} \subseteq Clean(t)' /\ \A u \in Threads \ {t} : Clean(u) \subseteq Clean(u)'
    BY <1>2, <1>3 DEF Clean
<1>5. eraseFromStack(t_ctxStack[t], c) \in Seq(Clean(t)')
    BY <1>4, ErasedClean DEF Detached
<1>6. t_ctxStack' = [t_ctxStack EXCEPT ![t] = eraseFromStack(t_ctxStack[t], c)]
    BY <1>1
<1>7. destroyedBy' \in [Contexts -> SUBSET Threads] /\ \A x \in allocated' : destroyedBy'[x] = {}
    BY <1>2 DEF Detached
<1> QED
    BY <1>4, <1>5, <1>6, <1>7, StackStep

\* When it frees it, the context is not on the stack.
LEMMA DeleteDetached ==
    ASSUME Registered, Detached, NEW t \in Threads, DestroyDelete(t)
    PROVE  Detached'
<1> DEFINE c == target[t]
<1>1. /\ target' = [target EXCEPT ![t] = NoCtx] /\ t_ctxStack' = t_ctxStack
      /\ allocated' = allocated \ {c} /\ destroyedBy' = [destroyedBy EXCEPT ![c] = {t}]
      /\ pc[t] = "delete"
    BY DEF DestroyDelete, Delete
<1>2. c \in Contexts
    BY <1>1 DEF Registered, Types, Targets
<1>3. \A u \in Threads \ {t} : target'[u] = target[u] /\ target[u] # c
    BY <1>1 DEF Registered, Types, Targets
<1>4. /\ destroyedBy' \in [Contexts -> SUBSET Threads] /\ destroyedBy'[c] = {t}
      /\ \A x \in Contexts \ {c} : destroyedBy'[x] = destroyedBy[x]
    <2> HIDE DEF c
    <2> QED
        BY <1>1, <1>2 DEF Detached
<1>5. \A x \in allocated' : destroyedBy'[x] = {}
    BY <1>1, <1>4 DEF Detached, Registered, Types
<1>6. target'[t] = NoCtx /\ NoCtx \notin Contexts
    BY <1>1, ContextStackAssumption DEF Registered, Types
<1>7. ASSUME NEW u \in Threads
      PROVE  Clean(u) \subseteq Clean(u)'
    <2>1. CASE u = t
        BY <1>4, <1>6, <2>1 DEF Clean
    <2>2. CASE u # t
        BY <1>3, <1>4, <2>2 DEF Clean
    <2> QED
        BY <2>1, <2>2
<1> QED
    BY <1>1, <1>4, <1>5, <1>7, StacksKept

\* cuCtxPopCurrent and cuCtxSetCurrent.
LEMMA CurrentDetached ==
    ASSUME Registered, Detached, NEW t \in Threads, CtxPopCurrent(t) \/ CtxSetCurrent(t)
    PROVE  Detached'
<1>1. UNCHANGED <<allocated, destroyedBy, target>>
    BY DEF CtxPopCurrent, CtxSetCurrent, destroying
<1>2. /\ \A u \in Threads : Clean(u)' = Clean(u)
      /\ destroyedBy' \in [Contexts -> SUBSET Threads]
      /\ \A x \in allocated' : destroyedBy'[x] = {}
    BY <1>1, CleanKept
<1>3. t_ctxStack[t] \in Seq(Clean(t))
    BY DEF Detached
<1>4. t_ctxStack[t] # << >> => Front(t_ctxStack[t]) \in Seq(Clean(t))
    <2>1. Len(t_ctxStack[t]) \in Nat /\ \A k \in 1..(Len(t_ctxStack[t]) - 1) : t_ctxStack[t][k] \in Clean(t)
        BY <1>3, LenProperties, ElementOfSeq
    <2> QED
        BY <2>1, SubSeqProperties DEF Front
<1>5. \E s \in Seq(Clean(t)) : t_ctxStack' = [t_ctxStack EXCEPT ![t] = s]
    <2>1. CASE CtxPopCurrent(t)
        BY <1>4, <2>1 DEF CtxPopCurrent
    <2>2. CASE CtxSetCurrent(t)
        <3>1. PICK c \in Usable \cup {NoCtx} :
                t_ctxStack' = [t_ctxStack EXCEPT ![t] =
                    IF c = NoCtx THEN << >>
                    ELSE IF @ = << >> THEN <<c>>
                    ELSE Append(Front(@), c)]
            BY <2>2 DEF CtxSetCurrent
        <3>2. c # NoCtx => c \in Clean(t)
            BY UsableClean
        <3>3. CASE c = NoCtx
            <4>1. << >> \in Seq(Clean(t))
                BY EmptySeq
            <4> QED
                BY <3>1, <3>3, <4>1
        <3>4. CASE c # NoCtx /\ t_ctxStack[t] = << >>
            <4>1. <<c>> \in Seq(Clean(t))
                BY <3>2, <3>4
            <4> QED
                BY <3>1, <3>4, <4>1
        <3>5. CASE c # NoCtx /\ t_ctxStack[t] # << >>
            <4>1. Append(Front(t_ctxStack[t]), c) \in Seq(Clean(t))
                BY <1>4, <3>2, <3>5, AppendProperties
            <4> QED
                BY <3>1, <3>5, <4>1
        <3> QED
            BY <3>3, <3>4, <3>5
    <2> QED
        BY <2>1, <2>2
<1>6. PICK s \in Seq(Clean(t)) : t_ctxStack' = [t_ctxStack EXCEPT ![t] = s]
    BY <1>5
<1>7. s \in Seq(Clean(t)')
    BY <1>2
<1> QED
    BY <1>2, <1>6, <1>7, StackStep

\* Every step keeps the stacks clean.
LEMMA StepDetached ==
    ASSUME Registered, Detached, [Next]_vars
    PROVE  Detached'
<1>1. ASSUME UNCHANGED <<t_ctxStack, allocated, destroyedBy, target>>
      PROVE  Detached'
    BY <1>1, CleanKept, StacksKept
<1>2. CASE UNCHANGED vars
    BY <1>1, <1>2 DEF vars, destroying
<1>3. ASSUME NEW t \in Threads, CtxCreate(t) PROVE Detached'
    <2>1. PICK c \in Contexts : New(c) /\ Push(t, c)
        BY <1>3 DEF CtxCreate
    <2>2. target' = target
        BY <1>3 DEF CtxCreate, destroying
    <2> QED
        BY <2>1, <2>2, NewClean, PushClean
<1>4. ASSUME NEW t \in Threads, CtxPushCurrent(t) PROVE Detached'
    <2>1. PICK c \in Usable : Push(t, c)
        BY <1>4 DEF CtxPushCurrent
    <2>2. UNCHANGED <<allocated, destroyedBy, target>>
        BY <1>4 DEF CtxPushCurrent, destroying
    <2>3. c \in Clean(t)' /\ \A u \in Threads : Clean(u) \subseteq Clean(u)'
        BY <2>2, CleanKept, UsableClean
    <2> QED
        BY <2>1, <2>2, <2>3, CleanKept, PushClean
<1>5. ASSUME NEW t \in Threads, CtxGetCurrent(t) PROVE Detached'
    BY <1>3, <1>5 DEF CtxGetCurrent
<1>6. ASSUME NEW t \in Threads, DestroyUnregister(t) PROVE Detached'
    BY <1>1, <1>6 DEF DestroyUnregister
<1>7. ASSUME NEW t \in Threads, PrimaryCtxRetain(t) PROVE Detached'
    <2>1. target' = target /\ t_ctxStack' = t_ctxStack
        BY <1>7 DEF PrimaryCtxRetain, destroying
    <2>2. CASE UNCHANGED <<allocated, destroyedBy>>
        BY <1>1, <2>1, <2>2
    <2>3. CASE \E c \in Contexts : New(c)
        <3>1. PICK c \in Contexts : New(c)
            BY <2>3
        <3> QED
            BY <2>1, <3>1, NewClean, StacksKept
    <2> QED
        BY <1>7, <2>2, <2>3 DEF PrimaryCtxRetain
<1>8. ASSUME NEW t \in Threads, PrimaryCtxRelease(t) PROVE Detached'
    <2>1. UNCHANGED destroying /\ target' = target
        BY <1>8 DEF PrimaryCtxRelease, destroying
    <2>2. CASE g_primaryCtx \in Usable /\ DropPrimary(t)
        BY <2>1, <2>2, DropClean
    <2>3. CASE UNCHANGED <<t_ctxStack, allocated, destroyedBy>>
        BY <1>1, <2>1, <2>3
    <2> QED
        BY <1>8, <2>2, <2>3 DEF PrimaryCtxRelease
<1>9. ASSUME NEW t \in Threads, PrimaryCtxReset(t) PROVE Detached'
    BY <1>9, DropClean DEF PrimaryCtxReset
<1> QED
    BY <1>2, <1>3, <1>4, <1>5, <1>6, <1>7, <1>8, <1>9, DetachDetached, DeleteDetached, CurrentDetached
       DEF Next

\* nvcuda_driver.cpp:55-59, 206-229: however often a thread pushed a context, and whatever
\* other threads do with its address meanwhile, what the thread frees is not on its stack.
THEOREM FreedIsDetached == Spec => []OwnDestroyDetaches
<1>1. Detached => OwnDestroyDetaches
    <2> SUFFICES ASSUME Detached, NEW t \in Threads, NEW c \in ToSet(t_ctxStack[t])
                 PROVE  t \notin destroyedBy[c]
        BY DEF OwnDestroyDetaches
    <2>1. t_ctxStack[t] \in Seq(Clean(t))
        BY DEF Detached
    <2>2. PICK k \in DOMAIN t_ctxStack[t] : c = t_ctxStack[t][k]
        BY DEF ToSet
    <2>3. c \in Clean(t)
        BY <2>1, <2>2, LenProperties, ElementOfSeq
    <2> QED
        BY <2>3 DEF Clean
<1> QED
    BY <1>1, InitRegistered, StepRegistered, InitDetached, StepDetached, PTL DEF Spec
=============================================================================
