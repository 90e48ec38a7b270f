---------------------------- MODULE MCAllocator ----------------------------
(***************************************************************************)
(* A small instance of Allocator: granules of 2 bytes, slabs of 8, a size_t *)
(* of 20 values.  Four granules per slab let a chunk be free with used or   *)
(* free chunks on either side; the two bases make two adjacent slabs, a     *)
(* slab beside a dedicated block, or a dedicated block too large for the    *)
(* space that is left.  The sizes round up to 1, 2, 3 granules, to the      *)
(* dedicated threshold and past it, and the last overflows the rounding.    *)
(***************************************************************************)
EXTENDS Allocator

MCBases == {2, 10}
MCSizes == {0, 1, 3, 6, 7, 9, MaxWord}
MCPointers == {p \in 0 .. 16 : p % Align = 0} \cup {3}
=============================================================================
