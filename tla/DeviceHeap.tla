----------------------------- MODULE DeviceHeap -----------------------------
(***************************************************************************)
(* What the device-memory API (cudaMalloc, cudaFree, cudaDeviceReset)      *)
(* promises its caller, with no slabs, no chunks and no Vulkan: the heap   *)
(* is a set of live ranges, a successful malloc adds a fresh aligned range *)
(* that overlaps no live one, a successful free removes exactly the range  *)
(* that malloc returned, and a call that fails leaves the heap as it was.  *)
(***************************************************************************)
EXTENDS Integers

CONSTANTS
    Align,      \* allocation granule in bytes (256 in the code)
    MaxWord,    \* largest value of size_t and of a device address
    Sizes,      \* sizes a caller requests
    Pointers    \* pointers a caller passes to cudaFree

VARIABLES
    live,       \* the live ranges, each [base, size]
    ret         \* the last call and what it returned

Word == 0 .. MaxWord

\* A live range is a whole number of granules and starts on a granule.
Granules == {w \in Word : w % Align = 0}

Overlap(b1, s1, b2, s2) == b1 < b2 + s2 /\ b2 < b1 + s1

\* Failures a call can report whatever its arguments.
Refuse(op, arg, code) ==
    /\ ret' = [op |-> op, arg |-> arg, code |-> code, ptr |-> 0]
    /\ UNCHANGED live

Init ==
    /\ live = {}
    /\ ret = [op |-> "none", arg |-> 0, code |-> "Success", ptr |-> 0]

\* The range granted to a request of n bytes is n rounded up to granules.
Grant(n, base, size) ==
    /\ ret' = [op |-> "malloc", arg |-> n, code |-> "Success", ptr |-> base]
    /\ base + size <= MaxWord + 1
    /\ \A r \in live : ~Overlap(base, size, r.base, r.size)
    /\ live' = live \cup {[base |-> base, size |-> size]}

Malloc(n) ==
    \/ n = 0 /\ Refuse("malloc", n, "Success")
    \/ /\ n > 0
       /\ \E size \in {g \in Granules : n <= g /\ g < n + Align} :
             \E base \in Granules \ {0} : Grant(n, base, size)
    \/ n > 0 /\ Refuse("malloc", n, "MemoryAllocation")
    \/ n > 0 /\ live = {} /\ Refuse("malloc", n, "InitError")

Free(p) ==
    \/ p = 0 /\ Refuse("free", p, "Success")
    \/ \E r \in live :
          /\ r.base = p
          /\ live' = live \ {r}
          /\ ret' = [op |-> "free", arg |-> p, code |-> "Success", ptr |-> 0]
    \/ /\ p # 0
       /\ \A r \in live : r.base # p
       /\ Refuse("free", p, "InvalidValue")
    \/ p # 0 /\ live = {} /\ Refuse("free", p, "InitError")

Reset ==
    /\ live' = {}
    /\ ret' = [op |-> "reset", arg |-> 0, code |-> "Success", ptr |-> 0]

Next ==
    \/ \E n \in Sizes : Malloc(n)
    \/ \E p \in Pointers : Free(p)
    \/ Reset

Spec == Init /\ [][Next]_<<live, ret>>
=============================================================================
