--------------------------- MODULE MCContextStack ---------------------------
(***************************************************************************)
(* Small instances of ContextStack: two threads, stacks three deep, and    *)
(* fewer addresses than the contexts created, so that addresses come back. *)
(***************************************************************************)
EXTENDS ContextStack

CONSTANTS t1, t2, c1, c2, c3

Symmetry == Permutations(Threads) \cup Permutations(Contexts)
=============================================================================
