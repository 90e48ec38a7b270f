------------------------------ MODULE Allocator ------------------------------
(***************************************************************************)
(* The device-memory allocator of src/runtime/cuda_runtime.cpp: 64 MB      *)
(* slabs carved first-fit into 256-byte granules, chunks coalesced when    *)
(* they are freed, dedicated Vulkan memory for the large requests, and the *)
(* map m_allocations from a device address to its allocation.  Every       *)
(* operation runs its whole body under m_mutex, so one operation is one    *)
(* step.  Not here: a reset by another thread between a call's initialize() *)
(* and its body, when m_mutex is free.  The Vulkan driver is external: it   *)
(* may refuse memory, or place a block at any address of Bases where it     *)
(* overlaps no other block.                                                *)
(***************************************************************************)
EXTENDS Integers, SequencesExt

CONSTANTS
    Align,      \* allocation granule in bytes (256)
    SlabSize,   \* DEFAULT_SLAB_SIZE, also the dedicated threshold (64 MB)
    MaxWord,    \* SIZE_MAX, the largest size_t and device address
    Bases,      \* addresses at which the driver may place a block
    Sizes,      \* sizes a caller requests
    Pointers    \* pointers a caller passes to cudaFree

ASSUME AllocatorAssumption ==
    /\ Align \in Nat \ {0}
    /\ SlabSize \in Nat \ {0} /\ SlabSize % Align = 0
    /\ MaxWord \in Nat
    /\ Bases \subseteq {b \in 1 .. MaxWord : b % Align = 0}
    /\ Sizes \subseteq 0 .. MaxWord
    /\ Pointers \subseteq 0 .. MaxWord

VARIABLES
    m_initialized,
    m_slabs,        \* sequence of [baseAddress, totalSize, chunks]
    m_allocations,  \* device address -> allocation record
    ret             \* the last call and what it returned

vars == <<m_initialized, m_slabs, m_allocations, ret>>

Word == 0 .. MaxWord

Chunk == [offset : Nat, size : Nat, is_free : BOOLEAN]
Slab == [baseAddress : Word, totalSize : Nat, chunks : Seq(Chunk)]
Allocation == [slab_index : Nat, offset : Nat, size : Nat, is_dedicated : BOOLEAN]

Overlap(b1, s1, b2, s2) == b1 < b2 + s2 /\ b2 < b1 + s1

-----------------------------------------------------------------------------
(* size_t arithmetic: (size + 255) & ~255, wrapping as the code's does. *)

AlignUp(n) ==
    LET sum == (n + (Align - 1)) % (MaxWord + 1)
    IN  sum - (sum % Align)

NeverRejected(n) == FALSE       \* mutant: the overflow guards dropped

\* The overflow guard and the "wrapped" test after the rounding.
Rejected(n) == n > MaxWord - (Align - 1) \/ AlignUp(n) < n

-----------------------------------------------------------------------------
(* One slab's vector of chunks. *)

FreeChunk(off, n) == [offset |-> off, size |-> n, is_free |-> TRUE]
UsedChunk(off, n) == [offset |-> off, size |-> n, is_free |-> FALSE]

\* Mutant: the remainder computed the wrong way round.
CarveSwapped(chunks, c, n) ==
    LET off  == chunks[c].offset
        rem  == n - chunks[c].size
        used == [chunks EXCEPT ![c] = UsedChunk(off, n)]
    IN  IF rem # 0 THEN InsertAt(used, c + 1, FreeChunk(off + n, rem)) ELSE used

\* Take n bytes from the front of free chunk c; what is left of it becomes a
\* free chunk of its own right behind.
Carve(chunks, c, n) ==
    LET off  == chunks[c].offset
        rem  == chunks[c].size - n
        used == [chunks EXCEPT ![c] = UsedChunk(off, n)]
    IN  IF rem > 0 THEN InsertAt(used, c + 1, FreeChunk(off + n, rem)) ELSE used

\* Absorb free chunk c + 1 into free chunk c.
Absorb(chunks, c) ==
    LET merged == FreeChunk(chunks[c].offset, chunks[c].size + chunks[c + 1].size)
    IN  RemoveAt([chunks EXCEPT ![c] = merged], c + 1)

\* Mutants: a neighbour never absorbed, or absorbed although it is used.
NoCoalescing(chunks, c) == chunks
CoalesceForwardUsed(chunks, c) == IF c < Len(chunks) THEN Absorb(chunks, c) ELSE chunks

CoalesceForward(chunks, c) ==
    IF c < Len(chunks) /\ chunks[c + 1].is_free THEN Absorb(chunks, c) ELSE chunks

CoalesceBackward(chunks, c) ==
    IF c > 1 /\ chunks[c - 1].is_free THEN Absorb(chunks, c - 1) ELSE chunks

\* What free() does to the chunk it found.
Release(chunks, c) ==
    LET freed == FreeChunk(chunks[c].offset, chunks[c].size)
    IN  CoalesceBackward(CoalesceForward([chunks EXCEPT ![c] = freed], c), c)

\* Mutant: any free chunk, whatever its size.
FittingAnySize(n) ==
    {p \in UNION {{i} \X (1 .. Len(m_slabs[i].chunks)) : i \in 1 .. Len(m_slabs)} :
        m_slabs[p[1]].chunks[p[2]].is_free}

\* The chunks of all slabs that hold n bytes, and the one the two nested
\* loops of malloc meet first.
Fitting(n) ==
    {p \in UNION {{i} \X (1 .. Len(m_slabs[i].chunks)) : i \in 1 .. Len(m_slabs)} :
        LET k == m_slabs[p[1]].chunks[p[2]] IN k.is_free /\ k.size >= n}

IsFirstOf(p, S) ==
    \A q \in S : p[1] < q[1] \/ (p[1] = q[1] /\ p[2] <= q[2])

-----------------------------------------------------------------------------
(* The driver.  A block never overlaps the blocks it has already handed out. *)

DriverCanPlace(b, size) ==
    /\ b + size <= MaxWord + 1
    /\ \A i \in 1 .. Len(m_slabs) :
          ~Overlap(b, size, m_slabs[i].baseAddress, m_slabs[i].totalSize)
    /\ \A a \in DOMAIN m_allocations :
          m_allocations[a].is_dedicated => ~Overlap(b, size, a, m_allocations[a].size)

-----------------------------------------------------------------------------
Reply(op, arg, code, ptr) ==
    ret' = [op |-> op, arg |-> arg, code |-> code, ptr |-> ptr]

DedicatedAllocation(size) ==
    [slab_index |-> 0, offset |-> 0, size |-> size, is_dedicated |-> TRUE]

\* Mutant: the offset in the slab not recorded.
SlabAllocationAtZero(i, off, size) ==
    [slab_index |-> i, offset |-> 0, size |-> size, is_dedicated |-> FALSE]

SlabAllocation(i, off, size) ==
    [slab_index |-> i, offset |-> off, size |-> size, is_dedicated |-> FALSE]

\* m_allocations[a] = alloc
Register(a, alloc) ==
    m_allocations' = [x \in DOMAIN m_allocations \cup {a} |->
                        IF x = a THEN alloc ELSE m_allocations[x]]

Init ==
    /\ m_initialized = FALSE
    /\ m_slabs = << >>
    /\ m_allocations = [x \in {} |-> 0]
    /\ ret = [op |-> "none", arg |-> 0, code |-> "Success", ptr |-> 0]

\* initialize() may fail only while the runtime is not initialised.
InitializeFails ==
    /\ ~m_initialized
    /\ UNCHANGED <<m_initialized, m_slabs, m_allocations>>

AllocateDedicated(n, size) ==
    \E b \in Bases :
        /\ DriverCanPlace(b, size)
        /\ Register(b, DedicatedAllocation(size))
        /\ Reply("malloc", n, "Success", b)
        /\ UNCHANGED m_slabs

CarveFromSlab(n, size) ==
    \E p \in Fitting(size) :
        /\ IsFirstOf(p, Fitting(size))
        /\ LET slab == m_slabs[p[1]]
               off  == slab.chunks[p[2]].offset
               addr == slab.baseAddress + off
           IN  /\ m_slabs' = [m_slabs EXCEPT ![p[1]].chunks = Carve(@, p[2], size)]
               /\ Register(addr, SlabAllocation(p[1], off, size))
               /\ Reply("malloc", n, "Success", addr)

AllocateSlab(n, size) ==
    \E b \in Bases :
        /\ Fitting(size) = {}
        /\ DriverCanPlace(b, SlabSize)
        /\ m_slabs' = Append(m_slabs,
               [baseAddress |-> b, totalSize |-> SlabSize,
                chunks |-> Carve(<<FreeChunk(0, SlabSize)>>, 1, size)])
        /\ Register(b, SlabAllocation(Len(m_slabs) + 1, 0, size))
        /\ Reply("malloc", n, "Success", b)

\* A driver that refuses the memory, on either path that asks it for some.
DriverRefuses(n, size) ==
    /\ size >= SlabSize \/ Fitting(size) = {}
    /\ Reply("malloc", n, "MemoryAllocation", 0)
    /\ UNCHANGED <<m_slabs, m_allocations>>

MallocLocked(n) ==
    \/ /\ Rejected(n)
       /\ Reply("malloc", n, "MemoryAllocation", 0)
       /\ UNCHANGED <<m_slabs, m_allocations>>
    \/ ~Rejected(n) /\ AlignUp(n) >= SlabSize /\ AllocateDedicated(n, AlignUp(n))
    \/ ~Rejected(n) /\ AlignUp(n) < SlabSize /\ CarveFromSlab(n, AlignUp(n))
    \/ ~Rejected(n) /\ AlignUp(n) < SlabSize /\ AllocateSlab(n, AlignUp(n))
    \/ ~Rejected(n) /\ DriverRefuses(n, AlignUp(n))

Malloc(n) ==
    \/ /\ n = 0
       /\ Reply("malloc", n, "Success", 0)
       /\ UNCHANGED <<m_initialized, m_slabs, m_allocations>>
    \/ n > 0 /\ InitializeFails /\ Reply("malloc", n, "InitError", 0)
    \/ n > 0 /\ m_initialized' = TRUE /\ MallocLocked(n)

\* The chunk free() looks for: the first whose offset is the allocation's.
IsChunkAt(chunks, c, off) ==
    /\ c \in 1 .. Len(chunks)
    /\ chunks[c].offset = off
    /\ \A d \in 1 .. c - 1 : chunks[d].offset # off

FreeLocked(p) ==
    LET alloc == m_allocations[p] IN
    /\ m_allocations' = Restrict(m_allocations, DOMAIN m_allocations \ {p})
    /\ IF alloc.is_dedicated
       THEN UNCHANGED m_slabs /\ Reply("free", p, "Success", 0)
       ELSE LET chunks == m_slabs[alloc.slab_index].chunks IN
            IF \E c \in 1 .. Len(chunks) : chunks[c].offset = alloc.offset
            THEN /\ \E c \in 1 .. Len(chunks) :
                       /\ IsChunkAt(chunks, c, alloc.offset)
                       /\ m_slabs' = [m_slabs EXCEPT ![alloc.slab_index].chunks = Release(@, c)]
                 /\ Reply("free", p, "Success", 0)
            ELSE UNCHANGED m_slabs /\ Reply("free", p, "InvalidValue", 0)

Free(p) ==
    \/ /\ p = 0
       /\ Reply("free", p, "Success", 0)
       /\ UNCHANGED <<m_initialized, m_slabs, m_allocations>>
    \/ p # 0 /\ InitializeFails /\ Reply("free", p, "InitError", 0)
    \/ /\ p # 0 /\ p \notin DOMAIN m_allocations
       /\ m_initialized' = TRUE
       /\ Reply("free", p, "InvalidValue", 0)
       /\ UNCHANGED <<m_slabs, m_allocations>>
    \/ p # 0 /\ p \in DOMAIN m_allocations /\ m_initialized' = TRUE /\ FreeLocked(p)

\* cudaDeviceReset: destroys every slab and dedicated block, without looking
\* at who still uses them.
Cleanup ==
    /\ IF m_initialized
       THEN m_slabs' = << >> /\ m_allocations' = [x \in {} |-> 0]
       ELSE UNCHANGED <<m_slabs, m_allocations>>
    /\ m_initialized' = FALSE
    /\ Reply("reset", 0, "Success", 0)

Next ==
    \/ \E n \in Sizes : Malloc(n)
    \/ \E p \in Pointers : Free(p)
    \/ Cleanup

Spec == Init /\ [][Next]_vars

-----------------------------------------------------------------------------
(* Lookups.  They change no state: they are operators. *)

\* findAllocation: the greatest registered address <= addr (upper_bound, then
\* one step back), if addr lies inside its size.  A set of at most one key.
FindAllocation(addr) ==
    {a \in DOMAIN m_allocations :
        /\ a <= addr
        /\ \A b \in DOMAIN m_allocations : b <= addr => b <= a
        /\ addr - a < m_allocations[a].size}

\* Mutant: the end of the range computed in size_t, where it can wrap.
CheckRangeWrapping(addr, count) ==
    /\ count # 0
    /\ \E a \in FindAllocation(addr) :
          (count + (addr - a)) % (MaxWord + 1) <= m_allocations[a].size

\* checkRangeLocked: the copy and memset guard, with its wrap-free comparison.
CheckRangeLocked(addr, count) ==
    /\ count # 0
    /\ \E a \in FindAllocation(addr) : count <= m_allocations[a].size - (addr - a)

-----------------------------------------------------------------------------
(* Properties. *)

TypeOK ==
    /\ m_initialized \in BOOLEAN
    /\ m_slabs \in Seq(Slab)
    /\ DOMAIN m_allocations \subseteq Word
    /\ \A a \in DOMAIN m_allocations : m_allocations[a] \in Allocation

\* No two live allocations share a byte, whatever sequence of malloc, free and
\* reset led here (malloc 383-460, free 462-502).
LiveDisjoint ==
    \A a, b \in DOMAIN m_allocations :
        a # b => ~Overlap(a, m_allocations[a].size, b, m_allocations[b].size)

\* The chunks of a slab tile it: they start at 0, each begins where the one
\* before it ends, the last ends at totalSize, and no two neighbours are both
\* free.  Broken by a split or a coalescing that loses or doubles bytes.
ChunksTile ==
    \A i \in 1 .. Len(m_slabs) :
        LET s == m_slabs[i].chunks IN
        /\ s # << >> /\ s[1].offset = 0
        /\ s[Len(s)].offset + s[Len(s)].size = m_slabs[i].totalSize
        /\ \A c \in 1 .. Len(s) - 1 :
              /\ s[c + 1].offset = s[c].offset + s[c].size
              /\ ~(s[c].is_free /\ s[c + 1].is_free)

\* The map and the chunk lists, two records of the same fact kept by hand,
\* agree: the used chunks are exactly the slab allocations.  It is why free
\* never reaches its final "return cudaErrorInvalidValue" after having already
\* erased the map entry (cuda_runtime.cpp:470, 501).
UsedChunks ==
    UNION {{[addr |-> m_slabs[i].baseAddress + m_slabs[i].chunks[c].offset,
             index |-> i, size |-> m_slabs[i].chunks[c].size] :
               c \in {d \in 1 .. Len(m_slabs[i].chunks) : ~m_slabs[i].chunks[d].is_free}} :
           i \in 1 .. Len(m_slabs)}

RegistryMatchesChunks ==
    UsedChunks = {[addr |-> a, index |-> m_allocations[a].slab_index,
                   size |-> m_allocations[a].size] :
                     a \in {b \in DOMAIN m_allocations : ~m_allocations[b].is_dedicated}}

\* Some stretch of n bytes of some slab is touched by no live allocation.
\* Stated on the map, never on the chunk lists.
GapExists(n) ==
    \E i \in 1 .. Len(m_slabs) :
        \E o \in {x \in 0 .. m_slabs[i].totalSize - n : x % Align = 0} :
            \A a \in DOMAIN m_allocations :
                ~Overlap(m_slabs[i].baseAddress + o, n, a, m_allocations[a].size)

\* The heap grows by a slab, or a request below the dedicated threshold fails,
\* only when no contiguous gap could have served it: freeing always makes the
\* whole merged gap available again (the coalescing of free 485-499).
GrowsOnlyWhenNoGap ==
    [][\/ Len(m_slabs') > Len(m_slabs)
       \/ /\ ret'.op = "malloc" /\ ret'.code = "MemoryAllocation"
          /\ ~Rejected(ret'.arg) /\ AlignUp(ret'.arg) < SlabSize
       => ~GapExists(AlignUp(ret'.arg))]_vars

\* findAllocation, which looks only at the nearest registered address below,
\* finds the live allocation containing an address exactly when there is one,
\* and checkRangeLocked accepts a range exactly when every byte of it lies in
\* that one allocation, sizes near SIZE_MAX included (504-527).
LookupExact ==
    \A addr \in Word :
        LET owner == {a \in DOMAIN m_allocations :
                        a <= addr /\ addr < a + m_allocations[a].size}
        IN  /\ FindAllocation(addr) = owner
            /\ \A count \in Word :
                  CheckRangeLocked(addr, count) <=>
                      \E a \in owner : 0 < count /\ addr + count <= a + m_allocations[a].size

\* The inductive invariant behind LiveDisjoint.  Order is stated for every two
\* chunks and not for neighbours only, so that it needs no induction.
OrderedUpTo(chunks, n, total) ==
    /\ \A c \in 1 .. n : chunks[c].size > 0 /\ chunks[c].offset + chunks[c].size <= total
    /\ \A c, d \in 1 .. n : c < d => chunks[c].offset + chunks[c].size <= chunks[d].offset

Ordered(chunks, total) == OrderedUpTo(chunks, Len(chunks), total)

SlabsOrdered ==
    \A i \in 1 .. Len(m_slabs) :
        /\ m_slabs[i].baseAddress + m_slabs[i].totalSize <= MaxWord + 1
        /\ Ordered(m_slabs[i].chunks, m_slabs[i].totalSize)

\* The blocks the driver handed out and has not been given back.
SlabsDisjoint ==
    \A i, j \in 1 .. Len(m_slabs) :
        i # j => ~Overlap(m_slabs[i].baseAddress, m_slabs[i].totalSize,
                          m_slabs[j].baseAddress, m_slabs[j].totalSize)

DedicatedDisjoint ==
    \A a \in DOMAIN m_allocations : m_allocations[a].is_dedicated =>
        /\ \A i \in 1 .. Len(m_slabs) :
              ~Overlap(a, m_allocations[a].size,
                       m_slabs[i].baseAddress, m_slabs[i].totalSize)
        /\ \A b \in DOMAIN m_allocations : m_allocations[b].is_dedicated /\ a # b =>
              ~Overlap(a, m_allocations[a].size, b, m_allocations[b].size)

\* Chunk c of slab i is what backs the allocation at address a.
Backs(i, c, a) ==
    /\ i = m_allocations[a].slab_index
    /\ m_slabs[i].chunks[c] = UsedChunk(m_allocations[a].offset, m_allocations[a].size)
    /\ a = m_slabs[i].baseAddress + m_allocations[a].offset

AllocationsBacked ==
    \A a \in DOMAIN m_allocations : ~m_allocations[a].is_dedicated =>
        \E i \in 1 .. Len(m_slabs) : \E c \in 1 .. Len(m_slabs[i].chunks) : Backs(i, c, a)

AllocatorInvariant ==
    TypeOK /\ SlabsOrdered /\ SlabsDisjoint /\ DedicatedDisjoint /\ AllocationsBacked

\* What the client sees of the heap, and that it is what DeviceHeap promises.
Heap == INSTANCE DeviceHeap WITH
            live <- {[base |-> a, size |-> m_allocations[a].size] : a \in DOMAIN m_allocations}

ImplementsDeviceHeap == Heap!Spec
=============================================================================
