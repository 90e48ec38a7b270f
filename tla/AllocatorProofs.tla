-------------------------- MODULE AllocatorProofs ---------------------------
(***************************************************************************)
(* AllocatorInvariant is an inductive invariant of Allocator, for every    *)
(* granule, slab size, word size, driver placement and request: no two     *)
(* live allocations ever share a byte.  First come lemmas about one slab's *)
(* chunks.                                                                 *)
(***************************************************************************)
EXTENDS Allocator, SequenceTheorems, TLAPS

-----------------------------------------------------------------------------
(***************************************************************************)
(* Lemmas about the operators of Allocator on one slab's sequence of       *)
(* chunks: what carving, absorbing and releasing a chunk do to the order   *)
(* of the chunks and to the used chunks they do not touch.                 *)
(***************************************************************************)

\* Insertion shifts what lies behind it by one.
LEMMA InsertAtElements ==
    ASSUME NEW S, NEW s \in Seq(S), NEW i \in 1 .. Len(s) + 1, NEW e \in S
    PROVE  /\ InsertAt(s, i, e) \in Seq(S)
           /\ Len(InsertAt(s, i, e)) = Len(s) + 1
           /\ \A k \in 1 .. Len(s) + 1 :
                 InsertAt(s, i, e)[k] = IF k < i THEN s[k] ELSE IF k = i THEN e ELSE s[k - 1]
<1> DEFINE front == SubSeq(s, 1, i - 1)
           back  == SubSeq(s, i, Len(s))
           mid   == <<e>>
<1>1. Len(s) \in Nat /\ \A k \in 1 .. Len(s) : s[k] \in S
    BY LenProperties, ElementOfSeq
<1>2. /\ front \in Seq(S) /\ Len(front) = i - 1
      /\ \A k \in 1 .. i - 1 : front[k] = s[k]
    <2>1. \A k \in 1 .. i - 1 : s[k] \in S
        BY <1>1
    <2>2. /\ front \in Seq(S)
          /\ Len(front) = IF 1 <= i - 1 THEN i - 1 - 1 + 1 ELSE 0
          /\ \A k \in 1 .. i - 1 - 1 + 1 : front[k] = s[1 + k - 1]
        BY <1>1, <2>1, SubSeqProperties
    <2> QED
        BY <2>2, <1>1
<1>3. /\ back \in Seq(S) /\ Len(back) = Len(s) - i + 1
      /\ \A k \in 1 .. Len(s) - i + 1 : back[k] = s[i + k - 1]
    <2>1. \A k \in i .. Len(s) : s[k] \in S
        BY <1>1
    <2>2. /\ back \in Seq(S)
          /\ Len(back) = IF i <= Len(s) THEN Len(s) - i + 1 ELSE 0
          /\ \A k \in 1 .. Len(s) - i + 1 : back[k] = s[i + k - 1]
        BY <1>1, <2>1, SubSeqProperties
    <2> QED
        BY <2>2, <1>1
<1>4. mid \in Seq(S) /\ Len(mid) = 1 /\ mid[1] = e
    OBVIOUS
<1>5. /\ front \o mid \in Seq(S) /\ Len(front \o mid) = i
      /\ \A k \in 1 .. i : (front \o mid)[k] = IF k <= i - 1 THEN front[k] ELSE mid[k - (i - 1)]
    <2> HIDE DEF front, mid
    <2>1. /\ front \o mid \in Seq(S) /\ Len(front \o mid) = Len(front) + Len(mid)
          /\ \A k \in 1 .. Len(front) + Len(mid) : (front \o mid)[k] =
                IF k <= Len(front) THEN front[k] ELSE mid[k - Len(front)]
        BY <1>2, <1>4, ConcatProperties
    <2>2. Len(front) = i - 1 /\ Len(mid) = 1
        BY <1>2, <1>4
    <2> QED
        BY <1>1, <2>1, <2>2
<1>6. /\ (front \o mid) \o back \in Seq(S)
      /\ Len((front \o mid) \o back) = Len(s) + 1
      /\ \A k \in 1 .. Len(s) + 1 : ((front \o mid) \o back)[k] =
            IF k <= i THEN (front \o mid)[k] ELSE back[k - i]
    <2> DEFINE fm == front \o mid
    <2> HIDE DEF fm, back
    <2>1. fm \in Seq(S) /\ Len(fm) = i
        BY <1>5 DEF fm
    <2> QED
        BY <1>1, <1>3, <2>1, ConcatProperties DEF fm
<1>7. InsertAt(s, i, e) = (front \o mid) \o back
    BY DEF InsertAt
<1> HIDE DEF front, mid, back
<1> QED
    BY <1>1, <1>2, <1>3, <1>4, <1>5, <1>6, <1>7, SMTT(30)

\* Removal closes the gap.
LEMMA RemoveAtElements ==
    ASSUME NEW S, NEW s \in Seq(S), NEW i \in 1 .. Len(s)
    PROVE  /\ RemoveAt(s, i) \in Seq(S)
           /\ Len(RemoveAt(s, i)) = Len(s) - 1
           /\ \A k \in 1 .. Len(s) - 1 :
                 RemoveAt(s, i)[k] = IF k < i THEN s[k] ELSE s[k + 1]
<1> DEFINE front == SubSeq(s, 1, i - 1)
           back  == SubSeq(s, i + 1, Len(s))
<1>1. Len(s) \in Nat /\ \A k \in 1 .. Len(s) : s[k] \in S
    BY LenProperties, ElementOfSeq
<1>2. /\ front \in Seq(S) /\ Len(front) = i - 1
      /\ \A k \in 1 .. i - 1 : front[k] = s[k]
    <2>1. \A k \in 1 .. i - 1 : s[k] \in S
        BY <1>1
    <2>2. /\ front \in Seq(S)
          /\ Len(front) = IF 1 <= i - 1 THEN i - 1 - 1 + 1 ELSE 0
          /\ \A k \in 1 .. i - 1 - 1 + 1 : front[k] = s[1 + k - 1]
        BY <1>1, <2>1, SubSeqProperties
    <2> QED
        BY <2>2, <1>1
<1>3. /\ back \in Seq(S) /\ Len(back) = Len(s) - i
      /\ \A k \in 1 .. Len(s) - i : back[k] = s[i + k]
    <2>1. \A k \in i + 1 .. Len(s) : s[k] \in S
        BY <1>1
    <2>2. /\ back \in Seq(S)
          /\ Len(back) = IF i + 1 <= Len(s) THEN Len(s) - (i + 1) + 1 ELSE 0
          /\ \A k \in 1 .. Len(s) - (i + 1) + 1 : back[k] = s[(i + 1) + k - 1]
        BY <1>1, <2>1, SubSeqProperties
    <2> QED
        BY <2>2, <1>1
<1>4. RemoveAt(s, i) = front \o back
    BY DEF RemoveAt
<1> HIDE DEF front, back
<1>5. /\ front \o back \in Seq(S) /\ Len(front \o back) = Len(s) - 1
      /\ \A k \in 1 .. Len(s) - 1 : (front \o back)[k] =
            IF k <= i - 1 THEN front[k] ELSE back[k - (i - 1)]
    <2>1. /\ front \o back \in Seq(S) /\ Len(front \o back) = Len(front) + Len(back)
          /\ \A k \in 1 .. Len(front) + Len(back) : (front \o back)[k] =
                IF k <= Len(front) THEN front[k] ELSE back[k - Len(front)]
        BY <1>2, <1>3, ConcatProperties
    <2>2. Len(front) = i - 1 /\ Len(back) = Len(s) - i
        BY <1>2, <1>3
    <2> QED
        BY <1>1, <2>1, <2>2
<1> QED
    BY <1>1, <1>2, <1>3, <1>4, <1>5

-----------------------------------------------------------------------------
(* Chunk sequences.  The lemmas name their hypotheses about functions on    *)
(* 1 .. n, so that a use of a lemma matches names and not formulas.         *)

\* Seq(Chunk) behind a name: the lemmas below need its facts, not the set.
ChunkSeq(s) == s \in Seq(Chunk)

\* Every used chunk of s, but for the one at position c, is a chunk of r.
KeepsUsedBut(s, r, c) ==
    \A k \in 1 .. Len(s) : k # c /\ ~s[k].is_free => \E m \in 1 .. Len(r) : r[m] = s[k]

\* t is s with entry c replaced by u.
IsReplace(s, t, n, c, u) == \A d \in 1 .. n : t[d] = IF d = c THEN u ELSE s[d]

\* r is t with v inserted at position i.
IsInsert(t, r, n, i, v) ==
    \A k \in 1 .. n + 1 : r[k] = IF k < i THEN t[k] ELSE IF k = i THEN v ELSE t[k - 1]

\* r is t without entry i.
IsRemove(t, r, n, i) ==
    \A k \in 1 .. n - 1 : r[k] = IF k < i THEN t[k] ELSE t[k + 1]

\* r is s with entry c replaced by u and v.
IsSplit(s, r, n, c, u, v) ==
    /\ \A k \in 1 .. c - 1 : r[k] = s[k]
    /\ r[c] = u /\ r[c + 1] = v
    /\ \A k \in c + 1 .. n : r[k + 1] = s[k]

\* r is s with entries c and c + 1 replaced by u.
IsMerge(s, r, n, c, u) ==
    /\ \A k \in 1 .. c - 1 : r[k] = s[k]
    /\ r[c] = u
    /\ \A k \in c + 1 .. n - 1 : r[k] = s[k + 1]

\* Chunks u and v tile chunk k.
Tiles(u, v, k) ==
    /\ u.offset \in Nat /\ u.size \in Nat /\ v.offset \in Nat /\ v.size \in Nat
    /\ u.offset = k.offset /\ u.size > 0 /\ v.size > 0
    /\ v.offset = u.offset + u.size /\ u.size + v.size = k.size

\* Chunk u reaches from where j begins to where k ends, or less far.
Spans(u, j, k) ==
    /\ u.offset \in Nat /\ u.size \in Nat /\ u.size > 0
    /\ u.offset = j.offset /\ u.offset + u.size <= k.offset + k.size

\* The numbers in a chunk are natural numbers.
Sized(s, n) == \A d \in 1 .. n : s[d].offset \in Nat /\ s[d].size \in Nat

-----------------------------------------------------------------------------
\* What the sequence lemmas say of chunk sequences.
LEMMA ChunkAccess ==
    ASSUME NEW s, ChunkSeq(s)
    PROVE  /\ Len(s) \in Nat
           /\ Sized(s, Len(s))
           /\ \A c \in 1 .. Len(s) : s[c] \in Chunk /\ s[c].is_free \in BOOLEAN
<1>1. Len(s) \in Nat
    BY LenProperties DEF ChunkSeq
<1>2. \A c \in 1 .. Len(s) : s[c] \in Chunk
    BY ElementOfSeq DEF ChunkSeq
<1> QED
    BY <1>1, <1>2 DEF Chunk, Sized

\* Replacing one chunk of a sequence of chunks.
LEMMA ChunkExcept ==
    ASSUME NEW s, ChunkSeq(s), NEW c \in 1 .. Len(s), NEW k \in Chunk
    PROVE  /\ ChunkSeq([s EXCEPT ![c] = k])
           /\ Len([s EXCEPT ![c] = k]) = Len(s)
           /\ IsReplace(s, [s EXCEPT ![c] = k], Len(s), c, k)
BY ExceptSeq DEF ChunkSeq, IsReplace

\* Inserting a chunk behind chunk c.
LEMMA ChunkInsert ==
    ASSUME NEW s, ChunkSeq(s), NEW i \in 1 .. Len(s) + 1, NEW e \in Chunk
    PROVE  /\ ChunkSeq(InsertAt(s, i, e))
           /\ Len(InsertAt(s, i, e)) = Len(s) + 1
           /\ IsInsert(s, InsertAt(s, i, e), Len(s), i, e)
BY InsertAtElements DEF ChunkSeq, IsInsert

\* Removing chunk c.
LEMMA ChunkRemove ==
    ASSUME NEW s, ChunkSeq(s), NEW i \in 1 .. Len(s)
    PROVE  /\ ChunkSeq(RemoveAt(s, i))
           /\ Len(RemoveAt(s, i)) = Len(s) - 1
           /\ IsRemove(s, RemoveAt(s, i), Len(s), i)
BY RemoveAtElements DEF ChunkSeq, IsRemove

\* The fields of a chunk and their types.
LEMMA ChunkFields ==
    ASSUME NEW off \in Nat, NEW n \in Nat
    PROVE  /\ FreeChunk(off, n) \in Chunk /\ UsedChunk(off, n) \in Chunk
           /\ FreeChunk(off, n).offset = off /\ UsedChunk(off, n).offset = off
           /\ FreeChunk(off, n).size = n /\ UsedChunk(off, n).size = n
           /\ FreeChunk(off, n).is_free /\ ~UsedChunk(off, n).is_free
BY DEF FreeChunk, UsedChunk, Chunk

-----------------------------------------------------------------------------
\* Splitting chunk c in two chunks that tile it keeps the order.
LEMMA SplitKeepsOrder ==
    ASSUME NEW n \in Nat, NEW s, NEW r, NEW total \in Nat,
           Sized(s, n), OrderedUpTo(s, n, total), NEW c \in 1 .. n, NEW u, NEW v,
           Tiles(u, v, s[c]), IsSplit(s, r, n, c, u, v)
    PROVE  OrderedUpTo(r, n + 1, total)
<1>1. \A d \in 1 .. n : s[d].offset \in Nat /\ s[d].size \in Nat
    BY DEF Sized
<1>2. /\ \A d \in 1 .. n : s[d].size > 0 /\ s[d].offset + s[d].size <= total
      /\ \A d, e \in 1 .. n : d < e => s[d].offset + s[d].size <= s[e].offset
    BY DEF OrderedUpTo
<1>3. /\ \A k \in 1 .. c - 1 : r[k] = s[k]
      /\ r[c] = u /\ r[c + 1] = v
      /\ \A k \in c + 1 .. n : r[k + 1] = s[k]
    BY DEF IsSplit
<1>4. /\ u.offset \in Nat /\ u.size \in Nat /\ v.offset \in Nat /\ v.size \in Nat
      /\ u.offset = s[c].offset /\ u.size > 0 /\ v.size > 0
      /\ v.offset = u.offset + u.size /\ u.size + v.size = s[c].size
    BY DEF Tiles
<1>5. ASSUME NEW k \in 1 .. n + 1
      PROVE  \/ k \in 1 .. c - 1 \/ k = c \/ k = c + 1
             \/ \E j \in c + 1 .. n : k = j + 1
    <2>1. CASE k > c + 1
        <3>1. k - 1 \in c + 1 .. n /\ k = (k - 1) + 1
            BY <1>1, <2>1
        <3> QED
            BY <3>1
    <2> QED
        BY <1>1, <2>1
\* The position in s a position of r comes from bounds what r holds there.
<1>6. ASSUME NEW k \in 1 .. n + 1
      PROVE  \E d \in 1 .. n :
                /\ s[d].offset <= r[k].offset /\ 0 < r[k].size
                /\ r[k].offset + r[k].size <= s[d].offset + s[d].size
                /\ r[k].offset \in Nat /\ r[k].size \in Nat
                /\ d = IF k <= c THEN k ELSE k - 1
    <2>1. CASE k \in 1 .. c - 1
        <3>1. k \in 1 .. n /\ r[k] = s[k]
            BY <1>3, <2>1
        <3> QED
            BY <1>1, <1>2, <2>1, <3>1
    <2>2. CASE k = c
        BY <1>1, <1>2, <1>3, <1>4, <2>2
    <2>3. CASE k = c + 1
        BY <1>1, <1>2, <1>3, <1>4, <2>3
    <2>4. ASSUME NEW j \in c + 1 .. n, k = j + 1
          PROVE  /\ j \in 1 .. n /\ s[j].offset <= r[k].offset /\ 0 < r[k].size
                 /\ r[k].offset + r[k].size <= s[j].offset + s[j].size
                 /\ r[k].offset \in Nat /\ r[k].size \in Nat
                 /\ j = IF k <= c THEN k ELSE k - 1
        <3>1. j \in 1 .. n /\ r[k] = s[j]
            BY <1>3, <2>4
        <3> QED
            BY <1>1, <1>2, <2>4, <3>1
    <2> QED
        BY <1>5, <2>1, <2>2, <2>3, <2>4
<1>7. ASSUME NEW k \in 1 .. n + 1
      PROVE  r[k].size > 0 /\ r[k].offset + r[k].size <= total
    BY <1>1, <1>2, <1>6, SMTT(30)
<1>8. ASSUME NEW k \in 1 .. n + 1, NEW m \in 1 .. n + 1, k < m
      PROVE  r[k].offset + r[k].size <= r[m].offset
    <2>1. CASE k = c /\ m = c + 1
        BY <1>1, <1>3, <1>4, <2>1
    <2>2. CASE ~(k = c /\ m = c + 1)
        <3>1. PICK d \in 1 .. n :
                 /\ r[k].offset + r[k].size <= s[d].offset + s[d].size
                 /\ r[k].offset \in Nat /\ r[k].size \in Nat
                 /\ d = IF k <= c THEN k ELSE k - 1
            BY <1>6
        <3>2. PICK e \in 1 .. n :
                 /\ s[e].offset <= r[m].offset /\ r[m].offset \in Nat
                 /\ e = IF m <= c THEN m ELSE m - 1
            BY <1>6
        <3>3. d < e
            BY <1>1, <1>8, <2>2, <3>1, <3>2
        <3>4. s[d].offset + s[d].size <= s[e].offset
            BY <1>2, <3>3
        <3>5. s[d].offset \in Nat /\ s[d].size \in Nat /\ s[e].offset \in Nat
            BY <1>1
        <3> QED
            BY <3>1, <3>2, <3>4, <3>5
    <2> QED
        BY <2>1, <2>2
<1> QED
    BY <1>7, <1>8 DEF OrderedUpTo

\* Replacing entry c by u and inserting v behind it splits c.
LEMMA ReplaceInsertSplits ==
    ASSUME NEW n \in Nat, NEW s, NEW t, NEW r, NEW c \in 1 .. n, NEW u, NEW v,
           IsReplace(s, t, n, c, u), IsInsert(t, r, n, c + 1, v)
    PROVE  IsSplit(s, r, n, c, u, v)
<1>1. \A d \in 1 .. n : t[d] = IF d = c THEN u ELSE s[d]
    BY DEF IsReplace
<1>2. \A k \in 1 .. n + 1 :
         r[k] = IF k < c + 1 THEN t[k] ELSE IF k = c + 1 THEN v ELSE t[k - 1]
    BY DEF IsInsert
<1>3. \A k \in 1 .. c - 1 : r[k] = s[k]
    BY <1>1, <1>2
<1>4. r[c] = u /\ r[c + 1] = v
    BY <1>1, <1>2
<1>5. ASSUME NEW k \in c + 1 .. n
      PROVE  r[k + 1] = s[k]
    <2>1. r[k + 1] = t[(k + 1) - 1]
        BY <1>2
    <2> QED
        BY <1>1, <2>1
<1> QED
    BY <1>3, <1>4, <1>5 DEF IsSplit

\* A split keeps the chunks other than c.
LEMMA SplitKeepsUsed ==
    ASSUME NEW s, NEW r, NEW c \in 1 .. Len(s), NEW u, NEW v, Len(s) \in Nat,
           Len(r) = Len(s) + 1, IsSplit(s, r, Len(s), c, u, v)
    PROVE  KeepsUsedBut(s, r, c)
<1>1. ASSUME NEW k \in 1 .. Len(s), k # c
      PROVE  \E m \in 1 .. Len(r) : r[m] = s[k]
    <2>1. CASE k < c
        BY <2>1 DEF IsSplit
    <2>2. CASE k > c
        <3>1. k + 1 \in 1 .. Len(r) /\ r[k + 1] = s[k]
            BY <2>2 DEF IsSplit
        <3> QED
            BY <3>1
    <2> QED
        BY <1>1, <2>1, <2>2
<1> QED
    BY <1>1 DEF KeepsUsedBut

\* Merging chunks c and c + 1 into one that spans them keeps the order.
LEMMA MergeKeepsOrder ==
    ASSUME NEW n \in Nat, NEW s, NEW r, NEW total \in Nat,
           Sized(s, n), OrderedUpTo(s, n, total), NEW c \in 1 .. n, c + 1 <= n, NEW u,
           Spans(u, s[c], s[c + 1]), IsMerge(s, r, n, c, u)
    PROVE  OrderedUpTo(r, n - 1, total)
<1>1. \A d \in 1 .. n : s[d].offset \in Nat /\ s[d].size \in Nat
    BY DEF Sized
<1>2. /\ \A d \in 1 .. n : s[d].size > 0 /\ s[d].offset + s[d].size <= total
      /\ \A d, e \in 1 .. n : d < e => s[d].offset + s[d].size <= s[e].offset
    BY DEF OrderedUpTo
<1>3. /\ \A k \in 1 .. c - 1 : r[k] = s[k]
      /\ r[c] = u
      /\ \A k \in c + 1 .. n - 1 : r[k] = s[k + 1]
    BY DEF IsMerge
<1>4. /\ u.offset \in Nat /\ u.size \in Nat /\ u.size > 0
      /\ u.offset = s[c].offset /\ u.offset + u.size <= s[c + 1].offset + s[c + 1].size
    BY DEF Spans
\* What r holds at k begins with one chunk of s and ends by another.
<1>5. ASSUME NEW k \in 1 .. n - 1
      PROVE  \E d, e \in 1 .. n :
                /\ r[k].offset \in Nat /\ r[k].size \in Nat /\ r[k].size > 0
                /\ r[k].offset = s[d].offset
                /\ r[k].offset + r[k].size <= s[e].offset + s[e].size
                /\ d = IF k <= c THEN k ELSE k + 1
                /\ e = IF k < c THEN k ELSE k + 1
    <2>1. CASE k < c
        <3>1. k \in 1 .. n /\ r[k] = s[k]
            BY <1>3, <2>1
        <3> QED
            BY <1>1, <1>2, <2>1, <3>1
    <2>2. CASE k = c
        BY <1>3, <1>4, <2>2
    <2>3. CASE k > c
        <3>1. k + 1 \in 1 .. n /\ r[k] = s[k + 1]
            BY <1>3, <2>3
        <3> QED
            BY <1>1, <1>2, <2>3, <3>1
    <2> QED
        BY <2>1, <2>2, <2>3
<1>6. ASSUME NEW k \in 1 .. n - 1
      PROVE  r[k].size > 0 /\ r[k].offset + r[k].size <= total
    <2>1. PICK e \in 1 .. n :
             /\ r[k].offset \in Nat /\ r[k].size \in Nat /\ r[k].size > 0
             /\ r[k].offset + r[k].size <= s[e].offset + s[e].size
        BY <1>5
    <2> QED
        BY <1>1, <1>2, <2>1
<1>7. ASSUME NEW k \in 1 .. n - 1, NEW m \in 1 .. n - 1, k < m
      PROVE  r[k].offset + r[k].size <= r[m].offset
    <2>1. PICK e \in 1 .. n :
             /\ r[k].offset \in Nat /\ r[k].size \in Nat
             /\ r[k].offset + r[k].size <= s[e].offset + s[e].size
             /\ e = IF k < c THEN k ELSE k + 1
        BY <1>5
    <2>2. PICK d \in 1 .. n :
             /\ r[m].offset = s[d].offset
             /\ d = IF m <= c THEN m ELSE m + 1
        BY <1>5
    <2>3. e < d
        BY <1>7, <2>1, <2>2
    <2>4. s[e].offset + s[e].size <= s[d].offset
        BY <1>2, <2>3
    <2> QED
        BY <1>1, <2>1, <2>2, <2>4
<1> QED
    BY <1>6, <1>7 DEF OrderedUpTo

\* Replacing entry c by u and removing the next merges them.
LEMMA ReplaceRemoveMerges ==
    ASSUME NEW n \in Nat, NEW s, NEW t, NEW r, NEW c \in 1 .. n, c + 1 <= n, NEW u,
           IsReplace(s, t, n, c, u), IsRemove(t, r, n, c + 1)
    PROVE  IsMerge(s, r, n, c, u)
<1>1. \A d \in 1 .. n : t[d] = IF d = c THEN u ELSE s[d]
    BY DEF IsReplace
<1>2. \A k \in 1 .. n - 1 : r[k] = IF k < c + 1 THEN t[k] ELSE t[k + 1]
    BY DEF IsRemove
<1>3. \A k \in 1 .. c - 1 : r[k] = s[k]
    BY <1>1, <1>2
<1>4. r[c] = u
    BY <1>1, <1>2
<1>5. ASSUME NEW k \in c + 1 .. n - 1
      PROVE  r[k] = s[k + 1]
    <2>1. r[k] = t[k + 1] /\ k + 1 \in 1 .. n /\ k + 1 # c
        BY <1>2
    <2> QED
        BY <1>1, <2>1
<1> QED
    BY <1>3, <1>4, <1>5 DEF IsMerge

\* A merge keeps the chunks other than the two merged.
LEMMA MergeKeeps ==
    ASSUME NEW s, NEW r, NEW c \in 1 .. Len(s), NEW u, Len(s) \in Nat, c + 1 <= Len(s),
           Len(r) = Len(s) - 1, IsMerge(s, r, Len(s), c, u),
           NEW k \in 1 .. Len(s), k # c, k # c + 1
    PROVE  \E m \in 1 .. Len(r) : r[m] = s[k]
<1>1. CASE k < c
    BY <1>1 DEF IsMerge
<1>2. CASE k > c + 1
    <2>1. k - 1 \in c + 1 .. Len(s) - 1
        BY <1>2
    <2>2. r[k - 1] = s[(k - 1) + 1]
        BY <2>1 DEF IsMerge
    <2> QED
        BY <2>1, <2>2
<1> QED
    BY <1>1, <1>2

-----------------------------------------------------------------------------
\* Carving n bytes from free chunk c leaves the chunks in order, yields a used
\* chunk of n bytes at the old offset, and keeps every other chunk.
LEMMA CarveKeepsOrder ==
    ASSUME NEW s, ChunkSeq(s), NEW total \in Nat, Ordered(s, total),
           NEW c \in 1 .. Len(s), NEW n \in Nat, n > 0, n <= s[c].size
    PROVE  /\ ChunkSeq(Carve(s, c, n))
           /\ Ordered(Carve(s, c, n), total)
           /\ KeepsUsedBut(s, Carve(s, c, n), c)
           /\ c \in 1 .. Len(Carve(s, c, n))
           /\ Carve(s, c, n)[c] = UsedChunk(s[c].offset, n)
<1> DEFINE u    == UsedChunk(s[c].offset, n)
           used == [s EXCEPT ![c] = u]
           off  == s[c].offset + n
           left == s[c].size - n
           rem  == FreeChunk(off, left)
           ins  == InsertAt(used, c + 1, rem)
<1>1. Len(s) \in Nat /\ Sized(s, Len(s)) /\ s[c].offset \in Nat /\ s[c].size \in Nat
    BY ChunkAccess DEF Sized
<1>2. u \in Chunk /\ u.offset = s[c].offset /\ u.size = n
    BY <1>1, ChunkFields
<1>3. /\ ChunkSeq(used) /\ Len(used) = Len(s)
      /\ IsReplace(s, used, Len(s), c, u)
    BY <1>2, ChunkExcept
<1>4. Carve(s, c, n) = IF s[c].size - n > 0 THEN ins ELSE used
    BY DEF Carve
<1>5. OrderedUpTo(s, Len(s), total)
    BY DEF Ordered
<1>6. CASE s[c].size - n > 0
    <2>1. off \in Nat /\ left \in Nat
        BY <1>1, <1>6
    <2>2. rem \in Chunk /\ rem.offset = off /\ rem.size = left
        <3> HIDE DEF off, left
        <3> QED
            BY <2>1, ChunkFields
    <2>3. Tiles(u, rem, s[c])
        BY <1>1, <1>2, <1>6, <2>1, <2>2, SMTT(30) DEF Tiles
    <2> HIDE DEF u, used, rem
    <2>4. c + 1 \in 1 .. Len(used) + 1
        BY <1>1, <1>3
    <2>5. /\ ChunkSeq(ins) /\ Len(ins) = Len(used) + 1
          /\ IsInsert(used, ins, Len(used), c + 1, rem)
        BY <1>3, <2>2, <2>4, ChunkInsert
    <2> HIDE DEF ins
    <2>6. Len(ins) = Len(s) + 1 /\ c \in 1 .. Len(ins) /\ IsInsert(used, ins, Len(s), c + 1, rem)
        BY <1>1, <1>3, <2>5
    <2>7. IsSplit(s, ins, Len(s), c, u, rem)
        BY <1>1, <1>3, <2>6, ReplaceInsertSplits
    <2>8. OrderedUpTo(ins, Len(s) + 1, total)
        BY <1>1, <1>5, <2>3, <2>7, SplitKeepsOrder
    <2>9. KeepsUsedBut(s, ins, c)
        BY <1>1, <2>6, <2>7, SplitKeepsUsed
    <2>10. ins[c] = u
        BY <2>7 DEF IsSplit
    <2> QED
        BY <1>4, <1>6, <2>5, <2>6, <2>8, <2>9, <2>10 DEF u, Ordered
<1>7. CASE ~(s[c].size - n > 0)
    <2> HIDE DEF u, used
    <2>1. n = s[c].size
        BY <1>1, <1>7
    <2>2. \A d \in 1 .. Len(s) : used[d].offset = s[d].offset /\ used[d].size = s[d].size
        BY <1>2, <1>3, <2>1 DEF IsReplace
    <2>3. Ordered(used, total)
        BY <1>3, <1>5, <2>2 DEF Ordered, OrderedUpTo
    <2>4. KeepsUsedBut(s, used, c)
        BY <1>3 DEF KeepsUsedBut, IsReplace
    <2>5. c \in 1 .. Len(used) /\ used[c] = u
        BY <1>3 DEF IsReplace
    <2> QED
        BY <1>3, <1>4, <1>7, <2>3, <2>4, <2>5 DEF u
<1> QED
    BY <1>6, <1>7

\* The fields of the chunk that spans two.
LEMMA MergedFields ==
    ASSUME NEW off, NEW m, NEW n, off \in Nat, m \in Nat, n \in Nat
    PROVE  /\ FreeChunk(off, m + n) \in Chunk
           /\ FreeChunk(off, m + n).offset = off
           /\ FreeChunk(off, m + n).size = m + n
           /\ FreeChunk(off, m + n).is_free
<1>1. m + n \in Nat
    OBVIOUS
<1> QED
    BY <1>1, ChunkFields

\* A chunk as long as j and k together, from where j begins, spans the two.
LEMMA SpansTwo ==
    ASSUME NEW u, NEW j, NEW k,
           j.offset \in Nat, j.size \in Nat, k.offset \in Nat, k.size \in Nat,
           j.size > 0, j.offset + j.size <= k.offset,
           u.offset = j.offset, u.size = j.size + k.size
    PROVE  Spans(u, j, k)
BY DEF Spans

\* Absorbing chunk c + 1 leaves the chunks in order and keeps every used chunk
\* other than those two; the chunk at c is free.
LEMMA AbsorbKeepsOrder ==
    ASSUME NEW s, ChunkSeq(s), NEW total \in Nat, Ordered(s, total),
           NEW c \in 1 .. Len(s), c + 1 <= Len(s), s[c + 1].is_free
    PROVE  /\ ChunkSeq(Absorb(s, c))
           /\ Ordered(Absorb(s, c), total)
           /\ KeepsUsedBut(s, Absorb(s, c), c)
           /\ c \in 1 .. Len(Absorb(s, c))
           /\ Absorb(s, c)[c].is_free
<1> DEFINE both == s[c].size + s[c + 1].size
           u    == FreeChunk(s[c].offset, both)
           repl == [s EXCEPT ![c] = u]
           r    == RemoveAt(repl, c + 1)
<1>1. /\ Len(s) \in Nat /\ c + 1 \in 1 .. Len(s) /\ Sized(s, Len(s))
      /\ s[c].offset \in Nat /\ s[c].size \in Nat
      /\ s[c + 1].offset \in Nat /\ s[c + 1].size \in Nat
    BY ChunkAccess DEF Sized
<1>2. OrderedUpTo(s, Len(s), total)
    BY DEF Ordered
<1>3. s[c].size > 0 /\ s[c].offset + s[c].size <= s[c + 1].offset
    BY <1>1, <1>2 DEF OrderedUpTo
<1>4. /\ u \in Chunk /\ u.offset = s[c].offset /\ u.size = both
      /\ u.is_free
    BY <1>1, MergedFields, SMTT(30)
<1>5. Absorb(s, c) = r
    BY DEF Absorb
<1> HIDE DEF u, both
<1>6. Spans(u, s[c], s[c + 1])
    BY <1>1, <1>3, <1>4, SpansTwo DEF both
<1>7. /\ ChunkSeq(repl) /\ Len(repl) = Len(s)
      /\ IsReplace(s, repl, Len(s), c, u)
    BY <1>4, ChunkExcept
<1> HIDE DEF repl
<1>8. /\ ChunkSeq(r) /\ Len(r) = Len(s) - 1
      /\ IsRemove(repl, r, Len(s), c + 1)
    <2>1. c + 1 \in 1 .. Len(repl)
        BY <1>1, <1>7
    <2>2. /\ ChunkSeq(r) /\ Len(r) = Len(repl) - 1
          /\ IsRemove(repl, r, Len(repl), c + 1)
        BY <1>7, <2>1, ChunkRemove
    <2> QED
        BY <1>7, <2>2
<1> HIDE DEF r
<1>9. IsMerge(s, r, Len(s), c, u)
    BY <1>1, <1>7, <1>8, ReplaceRemoveMerges
<1>10. OrderedUpTo(r, Len(s) - 1, total)
    BY <1>1, <1>2, <1>6, <1>9, MergeKeepsOrder
<1>11. KeepsUsedBut(s, r, c)
    <2>1. ASSUME NEW k \in 1 .. Len(s), k # c, ~s[k].is_free
          PROVE  \E m \in 1 .. Len(r) : r[m] = s[k]
        <3>1. k # c + 1
            BY <2>1
        <3> QED
            BY <1>1, <1>8, <1>9, <2>1, <3>1, MergeKeeps, SMTT(30)
    <2> QED
        BY <2>1 DEF KeepsUsedBut
<1>12. c \in 1 .. Len(r) /\ r[c] = u
    BY <1>1, <1>8, <1>9 DEF IsMerge
<1> QED
    BY <1>4, <1>5, <1>8, <1>10, <1>11, <1>12 DEF Ordered

\* Keeping composes: s to t forgetting c, t to r forgetting a free chunk of t.
LEMMA KeepsTwice ==
    ASSUME NEW s, NEW t, NEW r, NEW c, NEW d \in 1 .. Len(t),
           KeepsUsedBut(s, t, c), t[d].is_free, KeepsUsedBut(t, r, d)
    PROVE  KeepsUsedBut(s, r, c)
<1>1. ASSUME NEW k \in 1 .. Len(s), k # c, ~s[k].is_free
      PROVE  \E m \in 1 .. Len(r) : r[m] = s[k]
    <2>1. PICK m \in 1 .. Len(t) : t[m] = s[k]
        BY <1>1 DEF KeepsUsedBut
    <2>2. m # d /\ ~t[m].is_free
        BY <1>1, <2>1
    <2> QED
        BY <2>1, <2>2 DEF KeepsUsedBut
<1> QED
    BY <1>1 DEF KeepsUsedBut

\* Releasing chunk c leaves the chunks in order and keeps every used chunk but c.
LEMMA ReleaseKeepsOrder ==
    ASSUME NEW s, ChunkSeq(s), NEW total \in Nat, Ordered(s, total), NEW c \in 1 .. Len(s)
    PROVE  /\ ChunkSeq(Release(s, c))
           /\ Ordered(Release(s, c), total)
           /\ KeepsUsedBut(s, Release(s, c), c)
<1> DEFINE u == FreeChunk(s[c].offset, s[c].size)
           f == [s EXCEPT ![c] = u]
           g == CoalesceForward(f, c)
           h == CoalesceBackward(g, c)
<1>1. Len(s) \in Nat /\ s[c].offset \in Nat /\ s[c].size \in Nat
    BY ChunkAccess DEF Sized
<1>2. u \in Chunk /\ u.offset = s[c].offset /\ u.size = s[c].size /\ u.is_free
    BY <1>1, ChunkFields, SMTT(30)
<1>3. Release(s, c) = h
    BY DEF Release
<1> HIDE DEF u
<1>4. /\ ChunkSeq(f) /\ Len(f) = Len(s)
      /\ IsReplace(s, f, Len(s), c, u)
    BY <1>2, ChunkExcept
<1> HIDE DEF f
<1>5. /\ Ordered(f, total) /\ KeepsUsedBut(s, f, c)
      /\ c \in 1 .. Len(f) /\ f[c].is_free
    <2>1. \A d \in 1 .. Len(s) : f[d].offset = s[d].offset /\ f[d].size = s[d].size
        BY <1>2, <1>4 DEF IsReplace
    <2>2. Ordered(f, total)
        BY <1>4, <2>1 DEF Ordered, OrderedUpTo
    <2>3. KeepsUsedBut(s, f, c)
        BY <1>4 DEF KeepsUsedBut, IsReplace
    <2> QED
        BY <1>2, <1>4, <2>2, <2>3 DEF IsReplace
<1>6. /\ ChunkSeq(g) /\ Ordered(g, total) /\ KeepsUsedBut(s, g, c)
      /\ c \in 1 .. Len(g) /\ g[c].is_free
    <2>1. CASE c < Len(f) /\ f[c + 1].is_free
        <3>1. g = Absorb(f, c)
            BY <2>1 DEF CoalesceForward
        <3>2. c + 1 <= Len(f)
            BY <1>1, <1>4, <2>1
        <3> HIDE DEF g
        <3>3. /\ ChunkSeq(g) /\ Ordered(g, total) /\ KeepsUsedBut(f, g, c)
              /\ c \in 1 .. Len(g) /\ g[c].is_free
            BY <1>4, <1>5, <2>1, <3>1, <3>2, AbsorbKeepsOrder
        <3> QED
            BY <1>5, <3>3, KeepsTwice
    <2>2. CASE ~(c < Len(f) /\ f[c + 1].is_free)
        <3>1. g = f
            BY <2>2 DEF CoalesceForward
        <3> QED
            BY <1>4, <1>5, <3>1
    <2> QED
        BY <2>1, <2>2
<1> HIDE DEF g
<1>7. ChunkSeq(h) /\ Ordered(h, total) /\ KeepsUsedBut(s, h, c)
    <2>1. CASE c > 1 /\ g[c - 1].is_free
        <3>1. h = Absorb(g, c - 1)
            BY <2>1 DEF CoalesceBackward
        <3>2. c - 1 \in 1 .. Len(g) /\ (c - 1) + 1 <= Len(g) /\ g[(c - 1) + 1].is_free
            <4>1. (c - 1) + 1 = c /\ Len(g) \in Nat
                BY <1>6, ChunkAccess
            <4> QED
                BY <1>6, <2>1, <4>1
        <3> HIDE DEF h
        <3>3. ChunkSeq(h) /\ Ordered(h, total) /\ KeepsUsedBut(g, h, c - 1)
            BY <1>6, <3>1, <3>2, AbsorbKeepsOrder
        <3> QED
            BY <1>6, <2>1, <3>2, <3>3, KeepsTwice
    <2>2. CASE ~(c > 1 /\ g[c - 1].is_free)
        <3>1. h = g
            BY <2>2 DEF CoalesceBackward
        <3> QED
            BY <1>6, <3>1
    <2> QED
        BY <2>1, <2>2
<1> QED
    BY <1>3, <1>7

-----------------------------------------------------------------------------
\* Seq(Slab) behind a name.
SlabSeq(s) == s \in Seq(Slab)

\* t is s with the chunks of slab i replaced by x.
IsRechunk(s, t, i, x) ==
    /\ Len(t) = Len(s)
    /\ \A j \in 1 .. Len(s) :
          /\ t[j].baseAddress = s[j].baseAddress /\ t[j].totalSize = s[j].totalSize
          /\ t[j].chunks = IF j = i THEN x ELSE s[j].chunks

\* An entry of m_slabs is a slab, and its chunks are a sequence of chunks.
LEMMA SlabAccess ==
    ASSUME NEW s, SlabSeq(s)
    PROVE  /\ Len(s) \in Nat
           /\ \A i \in 1 .. Len(s) :
                 /\ s[i] \in Slab /\ s[i].baseAddress \in Nat /\ s[i].totalSize \in Nat
                 /\ ChunkSeq(s[i].chunks)
<1>1. Len(s) \in Nat
    BY LenProperties DEF SlabSeq
<1>2. \A i \in 1 .. Len(s) : s[i] \in Slab
    BY ElementOfSeq DEF SlabSeq
<1> QED
    BY <1>1, <1>2 DEF Slab, Word, ChunkSeq

\* Giving slab i new chunks changes nothing else of m_slabs.
LEMMA SlabExcept ==
    ASSUME NEW s, SlabSeq(s), NEW i \in 1 .. Len(s), NEW x, ChunkSeq(x)
    PROVE  /\ SlabSeq([s EXCEPT ![i].chunks = x])
           /\ IsRechunk(s, [s EXCEPT ![i].chunks = x], i, x)
<1> DEFINE e == [s[i] EXCEPT !.chunks = x]
           t == [s EXCEPT ![i] = e]
<1>1. s[i] \in Slab
    BY SlabAccess
<1>2. /\ e \in Slab /\ e.chunks = x
      /\ e.baseAddress = s[i].baseAddress /\ e.totalSize = s[i].totalSize
    BY <1>1 DEF Slab, ChunkSeq
<1>3. [s EXCEPT ![i].chunks = x] = t
    OBVIOUS
<1> HIDE DEF e
<1>4. t \in Seq(Slab) /\ Len(t) = Len(s) /\ \A j \in 1 .. Len(s) : t[j] = IF j = i THEN e ELSE s[j]
    BY <1>2, ExceptSeq DEF SlabSeq
<1> HIDE DEF t
<1> QED
    BY <1>2, <1>3, <1>4 DEF SlabSeq, IsRechunk

\* A slab pushed at the back leaves those before it where they were.
LEMMA SlabAppend ==
    ASSUME NEW s, SlabSeq(s), NEW e \in Slab
    PROVE  /\ SlabSeq(Append(s, e)) /\ Len(Append(s, e)) = Len(s) + 1
           /\ \A j \in 1 .. Len(s) : Append(s, e)[j] = s[j]
           /\ Append(s, e)[Len(s) + 1] = e
BY AppendProperties DEF SlabSeq

\* The fields of an allocation record and their types.
LEMMA AllocationFields ==
    ASSUME NEW i, NEW off, NEW n, i \in Nat, off \in Nat, n \in Nat
    PROVE  /\ SlabAllocation(i, off, n) \in Allocation
           /\ SlabAllocation(i, off, n).slab_index = i
           /\ SlabAllocation(i, off, n).offset = off
           /\ SlabAllocation(i, off, n).size = n
           /\ ~SlabAllocation(i, off, n).is_dedicated
           /\ DedicatedAllocation(n) \in Allocation
           /\ DedicatedAllocation(n).size = n
           /\ DedicatedAllocation(n).is_dedicated
BY DEF SlabAllocation, DedicatedAllocation, Allocation

\* Overlapping does not depend on the order in which the ranges are named.
LEMMA OverlapSymmetric ==
    ASSUME NEW a, NEW m, NEW b, NEW n
    PROVE  Overlap(a, m, b, n) <=> Overlap(b, n, a, m)
BY DEF Overlap

\* Range (y, k) lies inside range (b, n).
Inside(y, k, b, n) == b <= y /\ y + k <= b + n

\* What lies inside a range apart from another is apart from it too.
LEMMA OverlapInside ==
    ASSUME NEW a, NEW m, NEW b, NEW n, NEW y, NEW k,
           a \in Nat, m \in Nat, b \in Nat, n \in Nat, y \in Nat, k \in Nat,
           Inside(y, k, b, n), ~Overlap(a, m, b, n)
    PROVE  ~Overlap(a, m, y, k)
BY DEF Inside, Overlap

\* A request that survives the overflow guard rounds to a positive number.
LEMMA AlignUpPositive ==
    ASSUME NEW n \in Nat, n > 0, ~Rejected(n)
    PROVE  AlignUp(n) \in Nat /\ AlignUp(n) > 0
<1>1. Align \in Nat /\ Align > 0 /\ MaxWord \in Nat
    BY AllocatorAssumption
<1>2. (n + (Align - 1)) % (MaxWord + 1) \in Int
    BY <1>1
<1>3. ASSUME NEW m \in Int PROVE m - (m % Align) \in Int
    BY <1>1
<1>4. AlignUp(n) \in Int
    BY <1>2, <1>3 DEF AlignUp
<1>5. AlignUp(n) >= n
    BY <1>4 DEF Rejected
<1> QED
    BY <1>4, <1>5

-----------------------------------------------------------------------------
\* Chunk c of slab i is where the allocation at address x is.
Sits(i, c, x) ==
    /\ m_slabs[i].chunks[c].offset = m_allocations[x].offset
    /\ m_slabs[i].chunks[c].size = m_allocations[x].size
    /\ x = m_slabs[i].baseAddress + m_allocations[x].offset
    /\ Inside(x, m_allocations[x].size, m_slabs[i].baseAddress, m_slabs[i].totalSize)

\* The typing facts the later proofs need, without Seq in sight.
LEMMA InvariantTypes ==
    ASSUME AllocatorInvariant
    PROVE  /\ SlabSeq(m_slabs) /\ Len(m_slabs) \in Nat
           /\ \A i \in 1 .. Len(m_slabs) :
                 /\ m_slabs[i].baseAddress \in Nat /\ m_slabs[i].totalSize \in Nat
                 /\ ChunkSeq(m_slabs[i].chunks)
                 /\ m_slabs[i].baseAddress + m_slabs[i].totalSize <= MaxWord + 1
                 /\ Ordered(m_slabs[i].chunks, m_slabs[i].totalSize)
           /\ \A x \in DOMAIN m_allocations :
                 /\ x \in Nat /\ m_allocations[x] \in Allocation
                 /\ m_allocations[x].size \in Nat /\ m_allocations[x].offset \in Nat
                 /\ m_allocations[x].slab_index \in Nat
<1>1. SlabSeq(m_slabs)
    BY DEF AllocatorInvariant, TypeOK, SlabSeq
<1>2. \A x \in DOMAIN m_allocations :
         /\ x \in Nat /\ m_allocations[x] \in Allocation
         /\ m_allocations[x].size \in Nat /\ m_allocations[x].offset \in Nat
         /\ m_allocations[x].slab_index \in Nat
    BY DEF AllocatorInvariant, TypeOK, Word, Allocation
<1>3. \A i \in 1 .. Len(m_slabs) :
         /\ m_slabs[i].baseAddress + m_slabs[i].totalSize <= MaxWord + 1
         /\ Ordered(m_slabs[i].chunks, m_slabs[i].totalSize)
    BY DEF AllocatorInvariant, SlabsOrdered
<1> QED
    BY <1>1, <1>2, <1>3, SlabAccess

\* An allocation carved from a slab is exactly one of its chunks and so lies
\* inside the slab.
LEMMA SlabAllocationsSit ==
    ASSUME AllocatorInvariant, NEW x \in DOMAIN m_allocations, ~m_allocations[x].is_dedicated
    PROVE  \E i \in 1 .. Len(m_slabs) : \E c \in 1 .. Len(m_slabs[i].chunks) : Sits(i, c, x)
<1>1. PICK i \in 1 .. Len(m_slabs) : \E c \in 1 .. Len(m_slabs[i].chunks) : Backs(i, c, x)
    BY DEF AllocatorInvariant, AllocationsBacked
<1>2. PICK c \in 1 .. Len(m_slabs[i].chunks) : Backs(i, c, x)
    BY <1>1
<1>3. /\ m_slabs[i].chunks[c].offset = m_allocations[x].offset
      /\ m_slabs[i].chunks[c].size = m_allocations[x].size
      /\ x = m_slabs[i].baseAddress + m_allocations[x].offset
    BY <1>2 DEF Backs, UsedChunk
<1>4. /\ m_allocations[x].offset \in Nat /\ m_allocations[x].size \in Nat
      /\ m_slabs[i].baseAddress \in Nat /\ m_slabs[i].totalSize \in Nat
    BY InvariantTypes
<1>5. m_allocations[x].offset + m_allocations[x].size <= m_slabs[i].totalSize
    <2>1. Ordered(m_slabs[i].chunks, m_slabs[i].totalSize)
        BY InvariantTypes
    <2> QED
        BY <1>3, <2>1 DEF Ordered, OrderedUpTo
<1>6. Inside(x, m_allocations[x].size, m_slabs[i].baseAddress, m_slabs[i].totalSize)
    BY <1>3, <1>4, <1>5, SMTT(30) DEF Inside
<1> QED
    BY <1>3, <1>6 DEF Sits

\* No two live allocations share a byte: the reason is the invariant.
LEMMA InvariantSeparates == AllocatorInvariant => LiveDisjoint
<1> SUFFICES ASSUME AllocatorInvariant,
                    NEW a \in DOMAIN m_allocations, NEW b \in DOMAIN m_allocations, a # b
             PROVE  ~Overlap(a, m_allocations[a].size, b, m_allocations[b].size)
    BY DEF LiveDisjoint
<1>1. \A i \in 1 .. Len(m_slabs) :
         m_slabs[i].baseAddress \in Nat /\ m_slabs[i].totalSize \in Nat
    BY InvariantTypes
<1>2. \A x \in DOMAIN m_allocations :
         x \in Nat /\ m_allocations[x].size \in Nat /\ m_allocations[x].offset \in Nat
    BY InvariantTypes
<1>3. ASSUME NEW x \in DOMAIN m_allocations, NEW y \in DOMAIN m_allocations,
             m_allocations[x].is_dedicated, ~m_allocations[y].is_dedicated
      PROVE  ~Overlap(x, m_allocations[x].size, y, m_allocations[y].size)
    <2>1. PICK i \in 1 .. Len(m_slabs) : \E c \in 1 .. Len(m_slabs[i].chunks) : Sits(i, c, y)
        BY <1>3, SlabAllocationsSit
    <2>2. Inside(y, m_allocations[y].size, m_slabs[i].baseAddress, m_slabs[i].totalSize)
        BY <2>1 DEF Sits
    <2>3. ~Overlap(x, m_allocations[x].size, m_slabs[i].baseAddress, m_slabs[i].totalSize)
        BY <1>3 DEF AllocatorInvariant, DedicatedDisjoint
    <2>4. /\ x \in Nat /\ m_allocations[x].size \in Nat
          /\ y \in Nat /\ m_allocations[y].size \in Nat
          /\ m_slabs[i].baseAddress \in Nat /\ m_slabs[i].totalSize \in Nat
        BY <1>1, <1>2
    <2> QED
        BY <2>2, <2>3, <2>4, OverlapInside, SMTT(30)
<1>4. CASE m_allocations[a].is_dedicated /\ m_allocations[b].is_dedicated
    BY <1>4 DEF AllocatorInvariant, DedicatedDisjoint
<1>5. CASE m_allocations[a].is_dedicated /\ ~m_allocations[b].is_dedicated
    BY <1>3, <1>5
<1>6. CASE ~m_allocations[a].is_dedicated /\ m_allocations[b].is_dedicated
    BY <1>3, <1>6, OverlapSymmetric
<1>7. CASE ~m_allocations[a].is_dedicated /\ ~m_allocations[b].is_dedicated
    <2>1. PICK i \in 1 .. Len(m_slabs) : \E c \in 1 .. Len(m_slabs[i].chunks) : Sits(i, c, a)
        BY <1>7, SlabAllocationsSit
    <2>2. PICK c \in 1 .. Len(m_slabs[i].chunks) : Sits(i, c, a)
        BY <2>1
    <2>3. PICK j \in 1 .. Len(m_slabs) : \E d \in 1 .. Len(m_slabs[j].chunks) : Sits(j, d, b)
        BY <1>7, SlabAllocationsSit
    <2>4. PICK d \in 1 .. Len(m_slabs[j].chunks) : Sits(j, d, b)
        BY <2>3
    <2>5. CASE i # j
        <3>1. /\ Inside(a, m_allocations[a].size, m_slabs[i].baseAddress, m_slabs[i].totalSize)
              /\ Inside(b, m_allocations[b].size, m_slabs[j].baseAddress, m_slabs[j].totalSize)
            BY <2>2, <2>4 DEF Sits
        <3>6. /\ a \in Nat /\ m_allocations[a].size \in Nat
              /\ b \in Nat /\ m_allocations[b].size \in Nat
              /\ m_slabs[i].baseAddress \in Nat /\ m_slabs[i].totalSize \in Nat
              /\ m_slabs[j].baseAddress \in Nat /\ m_slabs[j].totalSize \in Nat
            BY <1>1, <1>2
        <3>2. ~Overlap(m_slabs[i].baseAddress, m_slabs[i].totalSize,
                       m_slabs[j].baseAddress, m_slabs[j].totalSize)
            BY <2>5 DEF AllocatorInvariant, SlabsDisjoint
        <3>3. ~Overlap(m_slabs[i].baseAddress, m_slabs[i].totalSize, b, m_allocations[b].size)
            BY <3>1, <3>2, <3>6, OverlapInside
        <3>4. ~Overlap(b, m_allocations[b].size, m_slabs[i].baseAddress, m_slabs[i].totalSize)
            BY <3>3, OverlapSymmetric
        <3>5. ~Overlap(b, m_allocations[b].size, a, m_allocations[a].size)
            BY <3>1, <3>4, <3>6, OverlapInside, SMTT(30)
        <3> QED
            BY <3>5, OverlapSymmetric
    <2>6. CASE i = j
        <3>1. /\ m_slabs[i].chunks[c].offset = m_allocations[a].offset
              /\ m_slabs[i].chunks[c].size = m_allocations[a].size
              /\ a = m_slabs[i].baseAddress + m_allocations[a].offset
              /\ m_slabs[i].chunks[d].offset = m_allocations[b].offset
              /\ m_slabs[i].chunks[d].size = m_allocations[b].size
              /\ b = m_slabs[i].baseAddress + m_allocations[b].offset
            BY <2>2, <2>4, <2>6 DEF Sits
        <3>2. c # d
            BY <3>1
        <3>3. c < d \/ d < c
            <4>1. Len(m_slabs[i].chunks) \in Nat
                BY InvariantTypes, ChunkAccess
            <4> QED
                BY <2>6, <3>2, <4>1
        <3>4. \/ m_allocations[a].offset + m_allocations[a].size <= m_allocations[b].offset
              \/ m_allocations[b].offset + m_allocations[b].size <= m_allocations[a].offset
            <4>1. Ordered(m_slabs[i].chunks, m_slabs[i].totalSize)
                BY InvariantTypes
            <4> QED
                BY <2>6, <3>1, <3>3, <4>1 DEF Ordered, OrderedUpTo
        <3>5. a + m_allocations[a].size <= b \/ b + m_allocations[b].size <= a
            <4> DEFINE oa == m_allocations[a].offset
                       sa == m_allocations[a].size
                       ob == m_allocations[b].offset
                       sb == m_allocations[b].size
                       base == m_slabs[i].baseAddress
            <4>1. oa \in Nat /\ sa \in Nat /\ ob \in Nat /\ sb \in Nat /\ base \in Nat
                BY <1>1, <1>2
            <4>2. a = base + oa /\ b = base + ob
                BY <3>1
            <4>3. oa + sa <= ob \/ ob + sb <= oa
                BY <3>4
            <4> HIDE DEF oa, sa, ob, sb, base
            <4>4. a + sa <= b \/ b + sb <= a
                BY <4>1, <4>2, <4>3
            <4> QED
                BY <4>4 DEF sa, sb
        <3>6. /\ a \in Nat /\ m_allocations[a].size \in Nat
              /\ b \in Nat /\ m_allocations[b].size \in Nat
            BY <1>2
        <3> QED
            BY <3>5, <3>6, SMTT(30) DEF Overlap
    <2> QED
        BY <2>5, <2>6
<1> QED
    BY <1>4, <1>5, <1>6, <1>7

-----------------------------------------------------------------------------
(* One lemma per kind of step. *)

\* A dedicated allocation of the next state is one of this state.
NoNewDedicated ==
    \A a \in DOMAIN m_allocations' : m_allocations'[a].is_dedicated =>
        /\ a \in DOMAIN m_allocations /\ m_allocations[a].is_dedicated
        /\ m_allocations'[a].size = m_allocations[a].size

AllocationsTyped ==
    /\ DOMAIN m_allocations \subseteq Word
    /\ \A a \in DOMAIN m_allocations : m_allocations[a] \in Allocation

\* AllocatorInvariant, conjunct by conjunct.
LEMMA InvariantParts ==
    ASSUME AllocatorInvariant
    PROVE  /\ m_initialized \in BOOLEAN /\ AllocationsTyped
           /\ SlabsOrdered /\ SlabsDisjoint /\ DedicatedDisjoint /\ AllocationsBacked
BY DEF AllocatorInvariant, TypeOK, AllocationsTyped

\* What m_allocations[a] = alloc does to the domain and to the values.
LEMMA RegisterMap ==
    ASSUME NEW a, NEW alloc, Register(a, alloc)
    PROVE  /\ DOMAIN m_allocations' = DOMAIN m_allocations \cup {a}
           /\ \A x \in DOMAIN m_allocations' :
                 m_allocations'[x] = IF x = a THEN alloc ELSE m_allocations[x]
BY DEF Register

\* New chunks for slab i disturb no block.
LEMMA RechunkBlocks ==
    ASSUME AllocatorInvariant, NEW i \in 1 .. Len(m_slabs), NEW x, ChunkSeq(x),
           Ordered(x, m_slabs[i].totalSize), NoNewDedicated,
           m_slabs' = [m_slabs EXCEPT ![i].chunks = x]
    PROVE  /\ SlabSeq(m_slabs') /\ IsRechunk(m_slabs, m_slabs', i, x)
           /\ SlabsOrdered' /\ SlabsDisjoint' /\ DedicatedDisjoint'
<1>1. SlabSeq(m_slabs)
    BY InvariantTypes
<1>2. SlabSeq(m_slabs') /\ IsRechunk(m_slabs, m_slabs', i, x)
    BY <1>1, SlabExcept
<1>3. /\ Len(m_slabs') = Len(m_slabs)
      /\ \A j \in 1 .. Len(m_slabs) :
            /\ m_slabs'[j].baseAddress = m_slabs[j].baseAddress
            /\ m_slabs'[j].totalSize = m_slabs[j].totalSize
            /\ m_slabs'[j].chunks = IF j = i THEN x ELSE m_slabs[j].chunks
    BY <1>2 DEF IsRechunk
<1>4. SlabsOrdered'
    BY <1>3, InvariantParts DEF SlabsOrdered
<1>5. SlabsDisjoint'
    BY <1>3, InvariantParts DEF SlabsDisjoint
<1>6. DedicatedDisjoint'
    BY <1>3, InvariantParts DEF DedicatedDisjoint, NoNewDedicated
<1> QED
    BY <1>2, <1>4, <1>5, <1>6

\* An allocation that stays, backed by another chunk than chunk c of slab i,
\* stays backed when the new chunks of slab i keep the used ones but c.
LEMMA RechunkBacks ==
    ASSUME NEW i, NEW x, NEW c, IsRechunk(m_slabs, m_slabs', i, x),
           KeepsUsedBut(m_slabs[i].chunks, x, c),
           NEW y \in DOMAIN m_allocations, m_allocations'[y] = m_allocations[y],
           NEW j \in 1 .. Len(m_slabs), NEW k \in 1 .. Len(m_slabs[j].chunks),
           Backs(j, k, y), j # i \/ k # c
    PROVE  \E l \in 1 .. Len(m_slabs') : \E m \in 1 .. Len(m_slabs'[l].chunks) : Backs(l, m, y)'
<1>1. /\ j \in 1 .. Len(m_slabs')
      /\ m_slabs'[j].baseAddress = m_slabs[j].baseAddress
      /\ m_slabs'[j].chunks = IF j = i THEN x ELSE m_slabs[j].chunks
    BY DEF IsRechunk
<1>2. \E m \in 1 .. Len(m_slabs'[j].chunks) : m_slabs'[j].chunks[m] = m_slabs[j].chunks[k]
    <2>1. CASE j = i
        <3>1. k # c /\ ~m_slabs[i].chunks[k].is_free
            BY <2>1 DEF Backs, UsedChunk
        <3> QED
            BY <1>1, <2>1, <3>1 DEF KeepsUsedBut
    <2>2. CASE j # i
        BY <1>1, <2>2
    <2> QED
        BY <2>1, <2>2
<1>3. PICK m \in 1 .. Len(m_slabs'[j].chunks) : m_slabs'[j].chunks[m] = m_slabs[j].chunks[k]
    BY <1>2
<1>4. Backs(j, m, y)'
    BY <1>1, <1>3 DEF Backs
<1> QED
    BY <1>1, <1>4

\* A call that changes neither slabs nor allocations keeps the invariant.
LEMMA UnchangedStep ==
    ASSUME AllocatorInvariant, UNCHANGED <<m_slabs, m_allocations>>, m_initialized' \in BOOLEAN
    PROVE  AllocatorInvariant'
BY DEF AllocatorInvariant, TypeOK, SlabsOrdered, SlabsDisjoint, DedicatedDisjoint,
       AllocationsBacked, Backs

\* cudaDeviceReset keeps the invariant (cleanup 870-927).
LEMMA CleanupStep ==
    ASSUME AllocatorInvariant, Cleanup
    PROVE  AllocatorInvariant'
<1>1. CASE m_initialized
    <2>1. m_slabs' = << >> /\ DOMAIN m_allocations' = {} /\ m_initialized' = FALSE
        BY <1>1 DEF Cleanup
    <2>2. Len(m_slabs') = 0 /\ m_slabs' \in Seq(Slab)
        BY <2>1
    <2>3. TypeOK'
        BY <2>1, <2>2 DEF TypeOK
    <2>4. SlabsOrdered' /\ SlabsDisjoint' /\ DedicatedDisjoint' /\ AllocationsBacked'
        BY <2>1, <2>2 DEF SlabsOrdered, SlabsDisjoint, DedicatedDisjoint, AllocationsBacked
    <2> QED
        BY <2>3, <2>4 DEF AllocatorInvariant
<1>2. CASE ~m_initialized
    BY <1>2, UnchangedStep DEF Cleanup
<1> QED
    BY <1>1, <1>2

\* A dedicated block keeps the invariant (allocateDedicated 315-381).
LEMMA DedicatedStep ==
    ASSUME AllocatorInvariant, NEW n, NEW size \in Nat, m_initialized' = TRUE,
           AllocateDedicated(n, size)
    PROVE  AllocatorInvariant'
<1>1. PICK b \in Bases :
         /\ DriverCanPlace(b, size)
         /\ Register(b, DedicatedAllocation(size))
         /\ m_slabs' = m_slabs
    BY DEF AllocateDedicated
<1>2. /\ DOMAIN m_allocations' = DOMAIN m_allocations \cup {b}
      /\ \A x \in DOMAIN m_allocations' : m_allocations'[x] =
            IF x = b THEN DedicatedAllocation(size) ELSE m_allocations[x]
    BY <1>1, RegisterMap
<1>3. /\ DedicatedAllocation(size) \in Allocation /\ DedicatedAllocation(size).size = size
      /\ DedicatedAllocation(size).is_dedicated
    BY AllocationFields
<1>4. b \in Word
    BY AllocatorAssumption DEF Word
<1>5. TypeOK'
    BY <1>1, <1>2, <1>3, <1>4 DEF AllocatorInvariant, TypeOK
<1>6. SlabsOrdered' /\ SlabsDisjoint'
    BY <1>1, InvariantParts DEF SlabsOrdered, SlabsDisjoint
<1>7. /\ \A i \in 1 .. Len(m_slabs) :
            ~Overlap(b, size, m_slabs[i].baseAddress, m_slabs[i].totalSize)
      /\ \A a \in DOMAIN m_allocations :
            m_allocations[a].is_dedicated => ~Overlap(b, size, a, m_allocations[a].size)
    BY <1>1 DEF DriverCanPlace
<1>8. DedicatedDisjoint'
    <2>1. ASSUME NEW a \in DOMAIN m_allocations', m_allocations'[a].is_dedicated,
                 NEW i \in 1 .. Len(m_slabs')
          PROVE  ~Overlap(a, m_allocations'[a].size,
                          m_slabs'[i].baseAddress, m_slabs'[i].totalSize)
        BY <1>1, <1>2, <1>3, <1>7, <2>1, InvariantParts DEF DedicatedDisjoint
    <2>2. ASSUME NEW a \in DOMAIN m_allocations', m_allocations'[a].is_dedicated,
                 NEW c \in DOMAIN m_allocations', m_allocations'[c].is_dedicated, a # c
          PROVE  ~Overlap(a, m_allocations'[a].size, c, m_allocations'[c].size)
        <3>1. CASE a = b
            BY <1>2, <1>3, <1>7, <2>2, <3>1
        <3>2. CASE c = b
            <4>1. ~Overlap(c, m_allocations'[c].size, a, m_allocations'[a].size)
                BY <1>2, <1>3, <1>7, <2>2, <3>2
            <4> QED
                BY <4>1, OverlapSymmetric
        <3>3. CASE a # b /\ c # b
            BY <1>2, <2>2, <3>3, InvariantParts DEF DedicatedDisjoint
        <3> QED
            BY <3>1, <3>2, <3>3
    <2> QED
        BY <2>1, <2>2 DEF DedicatedDisjoint
<1>9. AllocationsBacked'
    BY <1>1, <1>2, <1>3, InvariantParts DEF AllocationsBacked, Backs
<1> QED
    BY <1>5, <1>6, <1>8, <1>9 DEF AllocatorInvariant

\* Where the loops of malloc stop: a free chunk that is large enough.
LEMMA FittingChunk ==
    ASSUME NEW n, NEW p \in Fitting(n)
    PROVE  /\ p[1] \in 1 .. Len(m_slabs)
           /\ p[2] \in 1 .. Len(m_slabs[p[1]].chunks)
           /\ m_slabs[p[1]].chunks[p[2]].is_free
           /\ n <= m_slabs[p[1]].chunks[p[2]].size
<1>1. PICK i \in 1 .. Len(m_slabs) : p \in {i} \X (1 .. Len(m_slabs[i].chunks))
    BY DEF Fitting
<1>2. p[1] = i /\ p[2] \in 1 .. Len(m_slabs[i].chunks)
    BY <1>1
<1>3. m_slabs[p[1]].chunks[p[2]].is_free /\ m_slabs[p[1]].chunks[p[2]].size >= n
    BY DEF Fitting
<1>4. ASSUME NEW z, z >= n PROVE n <= z
    BY <1>4
<1> QED
    BY <1>1, <1>2, <1>3, <1>4

\* Carving from an existing slab keeps the invariant (malloc 405-432).
LEMMA CarveStep ==
    ASSUME AllocatorInvariant, NEW n, NEW size \in Nat, size > 0, m_initialized' = TRUE,
           CarveFromSlab(n, size)
    PROVE  AllocatorInvariant'
<1>1. PICK p \in Fitting(size) :
         LET off == m_slabs[p[1]].chunks[p[2]].offset
         IN  /\ m_slabs' = [m_slabs EXCEPT ![p[1]].chunks = Carve(@, p[2], size)]
             /\ Register(m_slabs[p[1]].baseAddress + off, SlabAllocation(p[1], off, size))
    BY ZenonT(60) DEF CarveFromSlab
<1> DEFINE i    == p[1]
           c    == p[2]
           s    == m_slabs[i].chunks
           off  == s[c].offset
           x    == Carve(s, c, size)
           addr == m_slabs[i].baseAddress + off
           rec  == SlabAllocation(i, off, size)
<1>2. i \in 1 .. Len(m_slabs) /\ c \in 1 .. Len(s) /\ s[c].is_free /\ size <= s[c].size
    BY FittingChunk
<1>3. m_slabs' = [m_slabs EXCEPT ![i].chunks = x] /\ Register(addr, rec)
    BY <1>1
<1>4. /\ i \in Nat /\ ChunkSeq(s) /\ Ordered(s, m_slabs[i].totalSize)
      /\ m_slabs[i].baseAddress \in Nat /\ m_slabs[i].totalSize \in Nat
      /\ m_slabs[i].baseAddress + m_slabs[i].totalSize <= MaxWord + 1
    BY <1>2, InvariantTypes, SMTT(30)
<1>5. off \in Nat /\ s[c].size \in Nat /\ off + s[c].size <= m_slabs[i].totalSize
    BY <1>2, <1>4, ChunkAccess DEF Sized, Ordered, OrderedUpTo
<1> HIDE DEF s, i, c
<1>6. /\ ChunkSeq(x) /\ Ordered(x, m_slabs[i].totalSize) /\ KeepsUsedBut(s, x, c)
      /\ c \in 1 .. Len(x) /\ x[c] = UsedChunk(off, size)
    BY <1>2, <1>4, CarveKeepsOrder, ZenonT(60)
<1> HIDE DEF x, off
<1>7. /\ rec \in Allocation /\ rec.slab_index = i /\ rec.offset = off /\ rec.size = size
      /\ ~rec.is_dedicated
    BY <1>4, <1>5, AllocationFields
<1>8. addr \in Word
    <2> DEFINE base  == m_slabs[i].baseAddress
               total == m_slabs[i].totalSize
               room  == s[c].size
    <2>1. base \in Nat /\ total \in Nat /\ base + total <= MaxWord + 1 /\ MaxWord \in Nat
        BY <1>4, AllocatorAssumption
    <2>2. off \in Nat /\ room \in Nat /\ off + room <= total /\ size <= room
        BY <1>2, <1>5
    <2> HIDE DEF base, total, room
    <2>3. base + off \in Nat /\ base + off <= MaxWord
        BY <2>1, <2>2
    <2> QED
        BY <2>1, <2>3 DEF Word, base
<1> HIDE DEF rec
<1>9. /\ DOMAIN m_allocations' = DOMAIN m_allocations \cup {addr}
      /\ \A y \in DOMAIN m_allocations' :
            m_allocations'[y] = IF y = addr THEN rec ELSE m_allocations[y]
    <2> HIDE DEF addr
    <2> QED
        BY <1>3, RegisterMap
<1>10. NoNewDedicated
    BY <1>7, <1>9 DEF NoNewDedicated
<1>11. /\ SlabSeq(m_slabs') /\ IsRechunk(m_slabs, m_slabs', i, x)
       /\ SlabsOrdered' /\ SlabsDisjoint' /\ DedicatedDisjoint'
    BY <1>2, <1>3, <1>6, <1>10, RechunkBlocks
<1>12. AllocationsTyped'
    BY <1>7, <1>8, <1>9, InvariantParts DEF AllocationsTyped
<1>13. AllocationsBacked'
    <2> HIDE DEF addr
    <2>5. PICK a \in Word : a = addr
        BY <1>8
    <2>1. ASSUME NEW y \in DOMAIN m_allocations', ~m_allocations'[y].is_dedicated, y # a
          PROVE  \E l \in 1 .. Len(m_slabs') : \E m \in 1 .. Len(m_slabs'[l].chunks) : Backs(l, m, y)'
        <3>1. /\ y \in DOMAIN m_allocations /\ m_allocations'[y] = m_allocations[y]
              /\ ~m_allocations[y].is_dedicated
            BY <1>9, <2>1, <2>5
        <3>2. PICK j \in 1 .. Len(m_slabs) : \E k \in 1 .. Len(m_slabs[j].chunks) : Backs(j, k, y)
            BY <3>1, InvariantParts DEF AllocationsBacked
        <3>3. PICK k \in 1 .. Len(m_slabs[j].chunks) : Backs(j, k, y)
            BY <3>2
        <3>4. j # i \/ k # c
            BY <1>2, <3>3 DEF Backs, UsedChunk, s
        <3>5. KeepsUsedBut(m_slabs[i].chunks, x, c)
            BY <1>6 DEF s
        <3> QED
            BY <1>11, <3>1, <3>3, <3>4, <3>5, RechunkBacks
    <2>2. /\ i \in 1 .. Len(m_slabs') /\ m_slabs'[i].chunks = x
          /\ m_slabs'[i].baseAddress = m_slabs[i].baseAddress
        BY <1>2, <1>11 DEF IsRechunk
    <2>3. m_allocations'[a] = rec
        BY <1>9, <2>5
    <2>4. Backs(i, c, a)'
        <3>1. a = m_slabs'[i].baseAddress + off
            BY <2>2, <2>5 DEF addr
        <3> QED
            BY <1>6, <1>7, <2>2, <2>3, <3>1 DEF Backs
    <2>6. ASSUME NEW y \in DOMAIN m_allocations', ~m_allocations'[y].is_dedicated
          PROVE  \E l \in 1 .. Len(m_slabs') : \E m \in 1 .. Len(m_slabs'[l].chunks) : Backs(l, m, y)'
        <3>1. CASE y = a
            BY <1>6, <2>2, <2>4, <3>1
        <3> QED
            BY <2>1, <2>6, <3>1
    <2> QED
        BY <2>6 DEF AllocationsBacked
<1> QED
    BY <1>11, <1>12, <1>13, SMTT(30) DEF AllocatorInvariant, TypeOK, SlabSeq, AllocationsTyped

\* Freeing a live allocation keeps the invariant (free 468-501).
LEMMA FreeStep ==
    ASSUME AllocatorInvariant, NEW p \in DOMAIN m_allocations, m_initialized' = TRUE,
           FreeLocked(p)
    PROVE  AllocatorInvariant'
<1> DEFINE alloc == m_allocations[p]
           i     == alloc.slab_index
           s     == m_slabs[i].chunks
<1>1. m_allocations' = Restrict(m_allocations, DOMAIN m_allocations \ {p})
    BY DEF FreeLocked
<1>2. /\ DOMAIN m_allocations' = DOMAIN m_allocations \ {p}
      /\ \A y \in DOMAIN m_allocations' : m_allocations'[y] = m_allocations[y]
    BY <1>1 DEF Restrict
<1>3. AllocationsTyped'
    BY <1>2, InvariantParts DEF AllocationsTyped
<1>4. NoNewDedicated
    BY <1>2 DEF NoNewDedicated
<1>5. CASE m_slabs' = m_slabs
    <2>1. SlabsOrdered' /\ SlabsDisjoint'
        BY <1>5, InvariantParts DEF SlabsOrdered, SlabsDisjoint
    <2>2. DedicatedDisjoint'
        BY <1>2, <1>5, InvariantParts DEF DedicatedDisjoint
    <2>3. AllocationsBacked'
        BY <1>2, <1>5, InvariantParts, SMTT(30) DEF AllocationsBacked, Backs
    <2>4. TypeOK'
        BY <1>3, <1>5 DEF AllocatorInvariant, TypeOK, AllocationsTyped
    <2> QED
        BY <2>1, <2>2, <2>3, <2>4 DEF AllocatorInvariant
<1>6. CASE /\ ~alloc.is_dedicated
           /\ \E c \in 1 .. Len(s) :
                 /\ IsChunkAt(s, c, alloc.offset)
                 /\ m_slabs' = [m_slabs EXCEPT ![i].chunks = Release(@, c)]
    <2>1. PICK c \in 1 .. Len(s) :
             /\ s[c].offset = alloc.offset
             /\ m_slabs' = [m_slabs EXCEPT ![i].chunks = Release(@, c)]
        BY <1>6 DEF IsChunkAt
    <2> DEFINE x == Release(s, c)
    <2>2. m_slabs' = [m_slabs EXCEPT ![i].chunks = x]
        BY <2>1
    <2>3. i \in 1 .. Len(m_slabs) /\ p = m_slabs[i].baseAddress + alloc.offset
        BY <1>6, InvariantParts DEF AllocationsBacked, Backs
    <2>4. ChunkSeq(s) /\ Ordered(s, m_slabs[i].totalSize) /\ m_slabs[i].totalSize \in Nat
        BY <2>3, InvariantTypes
    <2>5. ChunkSeq(x) /\ Ordered(x, m_slabs[i].totalSize) /\ KeepsUsedBut(s, x, c)
        <3> HIDE DEF s, i
        <3> QED
            BY <2>4, ReleaseKeepsOrder
    <2> HIDE DEF x
    <2>6. /\ SlabSeq(m_slabs') /\ IsRechunk(m_slabs, m_slabs', i, x)
          /\ SlabsOrdered' /\ SlabsDisjoint' /\ DedicatedDisjoint'
        BY <1>4, <2>2, <2>3, <2>5, RechunkBlocks
    <2>7. ASSUME NEW y \in DOMAIN m_allocations', ~m_allocations'[y].is_dedicated
          PROVE  \E l \in 1 .. Len(m_slabs') : \E m \in 1 .. Len(m_slabs'[l].chunks) : Backs(l, m, y)'
        <3>1. /\ y \in DOMAIN m_allocations /\ y # p /\ m_allocations'[y] = m_allocations[y]
              /\ ~m_allocations[y].is_dedicated
            BY <1>2, <2>7
        <3>2. PICK j \in 1 .. Len(m_slabs) : \E k \in 1 .. Len(m_slabs[j].chunks) : Backs(j, k, y)
            BY <3>1, InvariantParts DEF AllocationsBacked
        <3>3. PICK k \in 1 .. Len(m_slabs[j].chunks) : Backs(j, k, y)
            BY <3>2
        <3>4. j # i \/ k # c
            BY <2>1, <2>3, <3>1, <3>3 DEF Backs, UsedChunk
        <3> HIDE DEF i
        <3> QED
            BY <2>5, <2>6, <3>1, <3>3, <3>4, RechunkBacks
    <2>8. AllocationsBacked'
        BY <2>7 DEF AllocationsBacked
    <2> QED
        BY <1>3, <2>6, <2>8 DEF AllocatorInvariant, TypeOK, SlabSeq, AllocationsTyped
<1> QED
    BY <1>5, <1>6 DEF FreeLocked

\* A new slab: one chunk of the whole size, carved from the front.
LEMMA SlabStep ==
    ASSUME AllocatorInvariant, NEW n, NEW size \in Nat, size > 0, size < SlabSize,
           m_initialized' = TRUE, AllocateSlab(n, size)
    PROVE  AllocatorInvariant'
<1> DEFINE whole == <<FreeChunk(0, SlabSize)>>
           x     == Carve(whole, 1, size)
           rec   == SlabAllocation(Len(m_slabs) + 1, 0, size)
           idx   == Len(m_slabs) + 1
<1>1. PICK b \in Bases :
         /\ DriverCanPlace(b, SlabSize)
         /\ m_slabs' = Append(m_slabs, [baseAddress |-> b, totalSize |-> SlabSize, chunks |-> x])
         /\ Register(b, rec)
    BY DEF AllocateSlab
<1> DEFINE slab == [baseAddress |-> b, totalSize |-> SlabSize, chunks |-> x]
<1>2. SlabSize \in Nat /\ SlabSize > 0 /\ MaxWord \in Nat
    BY AllocatorAssumption
<1>3. b \in Word /\ b \in Nat
    BY AllocatorAssumption DEF Word
<1>4. ChunkSeq(whole) /\ Len(whole) = 1 /\ whole[1] = FreeChunk(0, SlabSize)
    <2>1. FreeChunk(0, SlabSize) \in Chunk
        BY <1>2, ChunkFields
    <2> QED
        BY <2>1 DEF ChunkSeq
<1>5. whole[1].offset = 0 /\ whole[1].size = SlabSize
    BY <1>2, <1>4, ChunkFields
<1> HIDE DEF whole
<1>6. Ordered(whole, SlabSize)
    BY <1>2, <1>4, <1>5 DEF Ordered, OrderedUpTo
<1>7. /\ ChunkSeq(x) /\ Ordered(x, SlabSize)
      /\ 1 \in 1 .. Len(x) /\ x[1] = UsedChunk(0, size)
    <2>1. 1 \in 1 .. Len(whole) /\ size <= whole[1].size
        BY <1>2, <1>4, <1>5
    <2> QED
        BY <1>2, <1>4, <1>5, <1>6, <2>1, CarveKeepsOrder
<1> HIDE DEF x
<1>8. slab \in Slab
    BY <1>2, <1>3, <1>7 DEF Slab, ChunkSeq
<1>9. slab.baseAddress = b /\ slab.totalSize = SlabSize /\ slab.chunks = x
    OBVIOUS
<1>10. m_slabs' = Append(m_slabs, slab)
    BY <1>1
<1> HIDE DEF slab
<1>11. SlabSeq(m_slabs) /\ Len(m_slabs) \in Nat
    BY InvariantTypes
<1>12. /\ SlabSeq(m_slabs') /\ Len(m_slabs') = idx
       /\ \A j \in 1 .. Len(m_slabs) : m_slabs'[j] = m_slabs[j]
       /\ m_slabs'[idx] = slab
    BY <1>8, <1>10, <1>11, SlabAppend
<1>13. /\ rec \in Allocation /\ rec.slab_index = idx /\ rec.offset = 0 /\ rec.size = size
       /\ ~rec.is_dedicated
    <2>1. idx \in Nat
        BY <1>11
    <2> QED
        BY <2>1, AllocationFields
<1>14. PICK k : k = idx
    OBVIOUS
<1>15. /\ DOMAIN m_allocations' = DOMAIN m_allocations \cup {b}
       /\ \A y \in DOMAIN m_allocations' :
             m_allocations'[y] = IF y = b THEN rec ELSE m_allocations[y]
    BY <1>1, RegisterMap
<1> HIDE DEF rec
\* A slab of the next state is an old one, or the new one.
<1>16. ASSUME NEW i \in 1 .. Len(m_slabs')
       PROVE  \/ i \in 1 .. Len(m_slabs) /\ m_slabs'[i] = m_slabs[i]
              \/ i = k /\ m_slabs'[i] = slab
    <2>1. CASE i = idx
        BY <1>12, <1>14, <2>1
    <2>2. CASE i # idx
        <3>1. i \in 1 .. Len(m_slabs)
            BY <1>11, <1>12, <2>2
        <3> QED
            BY <1>12, <3>1
    <2> QED
        BY <2>1, <2>2
<1>17. k \in 1 .. Len(m_slabs') /\ m_slabs'[k] = slab
    BY <1>11, <1>12, <1>14
<1>18. b + SlabSize <= MaxWord + 1
    BY <1>1 DEF DriverCanPlace
<1>19. SlabsOrdered'
    BY <1>7, <1>9, <1>16, <1>18, InvariantParts DEF SlabsOrdered
<1>20. /\ \A i \in 1 .. Len(m_slabs) :
             ~Overlap(b, SlabSize, m_slabs[i].baseAddress, m_slabs[i].totalSize)
       /\ \A a \in DOMAIN m_allocations :
             m_allocations[a].is_dedicated => ~Overlap(b, SlabSize, a, m_allocations[a].size)
    BY <1>1 DEF DriverCanPlace
<1>21. SlabsDisjoint'
    BY <1>9, <1>16, <1>20, InvariantParts, OverlapSymmetric DEF SlabsDisjoint
<1>22. NoNewDedicated
    BY <1>13, <1>15 DEF NoNewDedicated
<1>23. DedicatedDisjoint'
    <2>1. ASSUME NEW a \in DOMAIN m_allocations', m_allocations'[a].is_dedicated,
                 NEW i \in 1 .. Len(m_slabs')
          PROVE  ~Overlap(a, m_allocations'[a].size,
                          m_slabs'[i].baseAddress, m_slabs'[i].totalSize)
        <3>1. /\ a \in DOMAIN m_allocations /\ m_allocations[a].is_dedicated
              /\ m_allocations'[a].size = m_allocations[a].size
            BY <1>22, <2>1 DEF NoNewDedicated
        <3>2. ~Overlap(a, m_allocations[a].size, b, SlabSize)
            BY <1>20, <3>1, OverlapSymmetric
        <3> QED
            BY <1>9, <1>16, <3>1, <3>2, InvariantParts DEF DedicatedDisjoint
    <2>2. ASSUME NEW a \in DOMAIN m_allocations', m_allocations'[a].is_dedicated,
                 NEW c \in DOMAIN m_allocations', m_allocations'[c].is_dedicated, a # c
          PROVE  ~Overlap(a, m_allocations'[a].size, c, m_allocations'[c].size)
        BY <1>22, <2>2, InvariantParts DEF DedicatedDisjoint, NoNewDedicated
    <2> QED
        BY <2>1, <2>2 DEF DedicatedDisjoint
<1>24. AllocationsTyped'
    BY <1>3, <1>13, <1>15, InvariantParts DEF AllocationsTyped
<1>25. AllocationsBacked'
    <2>1. Backs(k, 1, b)'
        <3>1. m_allocations'[b] = rec
            BY <1>15
        <3>2. b = b + 0
            BY <1>3
        <3> QED
            BY <1>7, <1>9, <1>13, <1>14, <1>17, <3>1, <3>2 DEF Backs
    <2>2. ASSUME NEW y \in DOMAIN m_allocations', ~m_allocations'[y].is_dedicated, y # b
          PROVE  \E l \in 1 .. Len(m_slabs') : \E m \in 1 .. Len(m_slabs'[l].chunks) : Backs(l, m, y)'
        <3>1. /\ y \in DOMAIN m_allocations /\ m_allocations'[y] = m_allocations[y]
              /\ ~m_allocations[y].is_dedicated
            BY <1>15, <2>2
        <3>2. PICK j \in 1 .. Len(m_slabs) : \E c \in 1 .. Len(m_slabs[j].chunks) : Backs(j, c, y)
            BY <3>1, InvariantParts DEF AllocationsBacked
        <3>3. j \in 1 .. Len(m_slabs') /\ m_slabs'[j] = m_slabs[j]
            BY <1>11, <1>12
        <3> QED
            BY <3>1, <3>2, <3>3 DEF Backs
    <2>3. ASSUME NEW y \in DOMAIN m_allocations', ~m_allocations'[y].is_dedicated
          PROVE  \E l \in 1 .. Len(m_slabs') : \E m \in 1 .. Len(m_slabs'[l].chunks) : Backs(l, m, y)'
        <3>1. CASE y = b
            BY <1>7, <1>9, <1>17, <2>1, <3>1
        <3> QED
            BY <2>2, <2>3, <3>1
    <2> QED
        BY <2>3 DEF AllocationsBacked
<1> QED
    BY <1>12, <1>19, <1>21, <1>23, <1>24, <1>25
       DEF AllocatorInvariant, TypeOK, SlabSeq, AllocationsTyped

-----------------------------------------------------------------------------
\* Malloc keeps the invariant on every path.
LEMMA MallocStep ==
    ASSUME AllocatorInvariant, NEW n \in Sizes, Malloc(n)
    PROVE  AllocatorInvariant'
<1>1. n \in Nat
    BY AllocatorAssumption
<1>2. CASE UNCHANGED <<m_initialized, m_slabs, m_allocations>>
    BY <1>2, UnchangedStep, InvariantParts
<1>3. CASE n > 0 /\ m_initialized' = TRUE /\ MallocLocked(n)
    <2>1. CASE UNCHANGED <<m_slabs, m_allocations>>
        BY <1>3, <2>1, UnchangedStep
    <2>2. CASE ~Rejected(n)
        <3> DEFINE size == AlignUp(n)
        <3>1. size \in Nat /\ size > 0
            BY <1>1, <1>3, <2>2, AlignUpPositive
        <3> HIDE DEF size
        <3>2. CASE AllocateDedicated(n, size)
            BY <1>3, <3>1, <3>2, DedicatedStep
        <3>3. CASE CarveFromSlab(n, size)
            BY <1>3, <3>1, <3>3, CarveStep
        <3>4. CASE size < SlabSize /\ AllocateSlab(n, size)
            BY <1>3, <3>1, <3>4, SlabStep
        <3> QED
            BY <1>3, <2>1, <2>2, <3>2, <3>3, <3>4 DEF MallocLocked, DriverRefuses, size
    <2> QED
        BY <1>3, <2>1, <2>2 DEF MallocLocked
<1> QED
    BY <1>2, <1>3 DEF Malloc, InitializeFails

\* Free keeps the invariant on every path.
LEMMA FreeKeeps ==
    ASSUME AllocatorInvariant, NEW p \in Pointers, Free(p)
    PROVE  AllocatorInvariant'
<1>1. CASE UNCHANGED <<m_initialized, m_slabs, m_allocations>>
    BY <1>1, UnchangedStep, InvariantParts
<1>2. CASE m_initialized' = TRUE /\ UNCHANGED <<m_slabs, m_allocations>>
    BY <1>2, UnchangedStep
<1>3. CASE p \in DOMAIN m_allocations /\ m_initialized' = TRUE /\ FreeLocked(p)
    BY <1>3, FreeStep
<1> QED
    BY <1>1, <1>2, <1>3 DEF Free, InitializeFails

\* With no slab and no allocation, nothing overlaps.
LEMMA InitInvariant == Init => AllocatorInvariant
<1> SUFFICES ASSUME Init PROVE AllocatorInvariant
    OBVIOUS
<1>1. m_slabs = << >> /\ DOMAIN m_allocations = {} /\ m_initialized = FALSE
    BY DEF Init
<1>2. Len(m_slabs) = 0 /\ m_slabs \in Seq(Slab)
    BY <1>1
<1>3. TypeOK
    BY <1>1, <1>2 DEF TypeOK
<1>4. SlabsOrdered /\ SlabsDisjoint /\ DedicatedDisjoint /\ AllocationsBacked
    BY <1>1, <1>2 DEF SlabsOrdered, SlabsDisjoint, DedicatedDisjoint, AllocationsBacked
<1> QED
    BY <1>3, <1>4 DEF AllocatorInvariant

\* The invariant holds of every state of every behaviour: sizes, offsets and
\* addresses keep their types, the chunks of each slab stay in order inside it,
\* the driver's blocks stay apart and every slab allocation is backed by a used
\* chunk (malloc 383-460, free 462-502, cleanup 870-927).
THEOREM InvariantHolds == Spec => []AllocatorInvariant
<1>1. Init => AllocatorInvariant
    BY InitInvariant
<1>2. AllocatorInvariant /\ [Next]_vars => AllocatorInvariant'
    <2> SUFFICES ASSUME AllocatorInvariant, [Next]_vars
                 PROVE  AllocatorInvariant'
        OBVIOUS
    <2>1. ASSUME NEW n \in Sizes, Malloc(n) PROVE AllocatorInvariant'
        BY <2>1, MallocStep
    <2>2. ASSUME NEW p \in Pointers, Free(p) PROVE AllocatorInvariant'
        BY <2>2, FreeKeeps
    <2>3. CASE Cleanup
        BY <2>3, CleanupStep
    <2>4. CASE UNCHANGED vars
        BY <2>4, UnchangedStep, InvariantParts DEF vars
    <2> QED
        BY <2>1, <2>2, <2>3, <2>4 DEF Next
<1> QED
    BY <1>1, <1>2, PTL DEF Spec

\* TypeOK is the part of the invariant that types the state (types of
\* cuda_runtime.cpp 19-64).
THEOREM TypeCorrect == Spec => []TypeOK
<1>1. AllocatorInvariant => TypeOK
    BY DEF AllocatorInvariant
<1> QED
    BY <1>1, InvariantHolds, PTL

\* Two allocations that are live at the same time never share a byte, for every
\* granule, slab size, driver and sequence of calls (malloc 383-460, free 462-502).
THEOREM LiveAllocationsDisjoint == Spec => []LiveDisjoint
BY InvariantSeparates, InvariantHolds, PTL

\* Why the nearest registered address below is enough: any other key between an
\* allocation's start and an address inside it would be inside it as well.
LEMMA SeparationMakesLookupExact == AllocatorInvariant => LookupExact
<1> SUFFICES ASSUME AllocatorInvariant, NEW addr \in Word
             PROVE  LET owner == {a \in DOMAIN m_allocations :
                                    a <= addr /\ addr < a + m_allocations[a].size}
                    IN  /\ FindAllocation(addr) = owner
                        /\ \A count \in Word :
                              CheckRangeLocked(addr, count) <=>
                                  \E a \in owner :
                                      0 < count /\ addr + count <= a + m_allocations[a].size
    BY DEF LookupExact
<1> DEFINE owner == {a \in DOMAIN m_allocations :
                       a <= addr /\ addr < a + m_allocations[a].size}
<1>1. addr \in Nat /\ MaxWord \in Nat
    BY AllocatorAssumption DEF Word
<1>2. \A x \in DOMAIN m_allocations : x \in Nat /\ m_allocations[x].size \in Nat
    BY InvariantTypes
<1>3. ASSUME NEW a \in owner, NEW b \in DOMAIN m_allocations, b <= addr
      PROVE  b <= a
    <2>1. SUFFICES ASSUME a < b PROVE FALSE
        BY <1>2
    <2>2. a \in Nat /\ b \in Nat /\ m_allocations[a].size \in Nat /\ m_allocations[b].size \in Nat
        BY <1>2
    <2>3. ~Overlap(a, m_allocations[a].size, b, m_allocations[b].size)
        BY <2>1, <2>2, InvariantSeparates DEF LiveDisjoint
    <2>4. a <= addr /\ addr < a + m_allocations[a].size
        OBVIOUS
    <2>5. b < a + m_allocations[a].size
        BY <1>1, <1>3, <2>2, <2>4
    <2> QED
        BY <2>1, <2>2, <2>3, <2>5 DEF Overlap
<1>4. ASSUME NEW a \in DOMAIN m_allocations
      PROVE  addr - a < m_allocations[a].size <=> addr < a + m_allocations[a].size
    BY <1>1, <1>2
<1>5. FindAllocation(addr) = owner
    BY <1>3, <1>4 DEF FindAllocation
<1>6. ASSUME NEW count \in Word
      PROVE  CheckRangeLocked(addr, count) <=>
                 \E a \in owner : 0 < count /\ addr + count <= a + m_allocations[a].size
    <2>1. count \in Nat
        BY <1>1 DEF Word
    <2>2. ASSUME NEW a \in owner
          PROVE  count <= m_allocations[a].size - (addr - a)
                     <=> addr + count <= a + m_allocations[a].size
        BY <1>1, <1>2, <2>1
    <2>3. count # 0 <=> 0 < count
        BY <2>1
    <2> HIDE DEF owner
    <2> QED
        BY <1>5, <2>2, <2>3 DEF CheckRangeLocked
<1> QED
    BY <1>5, <1>6

\* Lookups by address answer for every address and length, the largest a size_t
\* holds included (findAllocation and checkRangeLocked, 504-527).
THEOREM LookupsAreExact == Spec => []LookupExact
BY SeparationMakesLookupExact, InvariantHolds, PTL
-----------------------------------------------------------------------------
(***************************************************************************)
(* The allocator implements DeviceHeap, and its map and its chunk lists    *)
(* say the same.                                                           *)
(*                                                                         *)
(* AllocatorInvariant says that what is allocated is apart.  DeviceHeap    *)
(* also promises multiples of Align, for which the chunks must lie on      *)
(* granules (Granular), and that a call that grants a range grants one     *)
(* that is new, for which no allocation may be empty.  Owned is the        *)
(* converse of AllocationsBacked: a used chunk is in the map.              *)
(***************************************************************************)

Granular ==
    /\ \A i \in 1 .. Len(m_slabs) :
          /\ m_slabs[i].baseAddress % Align = 0 /\ m_slabs[i].baseAddress > 0
          /\ \A c \in 1 .. Len(m_slabs[i].chunks) : m_slabs[i].chunks[c].offset % Align = 0
    /\ \A a \in DOMAIN m_allocations : m_allocations[a].size > 0
    /\ ~m_initialized => DOMAIN m_allocations = {}

\* Chunk c of slab i is some allocation's.
OwnedChunk(i, c) ==
    \E a \in DOMAIN m_allocations : ~m_allocations[a].is_dedicated /\ Backs(i, c, a)

Owned ==
    \A i \in 1 .. Len(m_slabs) : \A c \in 1 .. Len(m_slabs[i].chunks) :
        ~m_slabs[i].chunks[c].is_free => OwnedChunk(i, c)

HeapInvariant == AllocatorInvariant /\ Granular /\ Owned

-----------------------------------------------------------------------------
(* Arithmetic of granules. *)

\* A multiple of Align is Align times something.
LEMMA GranuleFactor ==
    ASSUME NEW a \in Nat
    PROVE  a % Align = 0 <=> \E q \in Nat : a = Align * q
<1>1. Align \in Nat /\ Align > 0
    BY AllocatorAssumption
<1>2. a = Align * (a \div Align) + (a % Align) /\ a \div Align \in Nat /\ a % Align \in Nat
    BY <1>1
<1>3. ASSUME NEW q \in Nat, a = Align * q PROVE a % Align = 0
    <2>1. (Align * q) % Align = 0
        BY <1>1, SMTT(60)
    <2> QED
        BY <1>3, <2>1
<1>4. ASSUME a % Align = 0 PROVE a = Align * (a \div Align)
    <2> DEFINE q == a \div Align
               m == Align * q
    <2>1. a = m + (a % Align) /\ m \in Nat
        BY <1>1, <1>2
    <2> HIDE DEF m
    <2>2. a = m
        BY <1>4, <2>1
    <2> QED
        BY <2>2 DEF m
<1> QED
    BY <1>2, <1>3, <1>4

\* The sum of two multiples of Align is one.
LEMMA GranuleSum ==
    ASSUME NEW a \in Nat, NEW b \in Nat, a % Align = 0, b % Align = 0
    PROVE  (a + b) % Align = 0
<1>1. Align \in Nat /\ Align > 0
    BY AllocatorAssumption
<1>2. PICK p \in Nat : a = Align * p
    BY GranuleFactor
<1>3. PICK q \in Nat : b = Align * q
    BY GranuleFactor
<1>4. Align * p + Align * q = Align * (p + q)
    BY <1>1
<1>5. p + q \in Nat /\ a + b \in Nat
    OBVIOUS
<1>6. \E r \in Nat : a + b = Align * r
    BY <1>2, <1>3, <1>4, <1>5
<1> QED
    BY <1>5, <1>6, GranuleFactor

\* What malloc rounds a size to: the next multiple of Align, with no overflow.
LEMMA AlignUpRounds ==
    ASSUME NEW n \in Nat, n > 0, ~Rejected(n)
    PROVE  /\ AlignUp(n) \in Nat /\ AlignUp(n) <= MaxWord
           /\ AlignUp(n) % Align = 0
           /\ n <= AlignUp(n) /\ AlignUp(n) < n + Align
<1>1. Align \in Nat /\ Align > 0 /\ MaxWord \in Nat
    BY AllocatorAssumption
<1> DEFINE sum == n + (Align - 1)
<1>2. sum \in Nat /\ sum <= MaxWord /\ sum < n + Align
    BY <1>1 DEF Rejected
<1> HIDE DEF sum
<1>3. sum % (MaxWord + 1) = sum
    BY <1>1, <1>2
<1>4. AlignUp(n) = sum - (sum % Align)
    BY <1>3 DEF AlignUp, sum
<1>5. (sum - (sum % Align)) % Align = 0
    BY <1>1, <1>2
<1>6. sum % Align \in Nat
    BY <1>1, <1>2
<1>7. AlignUp(n) >= n /\ AlignUp(n) \in Nat
    BY AlignUpPositive DEF Rejected
<1> QED
    BY <1>1, <1>2, <1>4, <1>5, <1>6, <1>7

-----------------------------------------------------------------------------
(* Where the chunks of a changed slab come from. *)

\* r is s with chunk c carved: its other chunks are of s, the rest of c is free.
CarvedFrom(r, s, c, n) ==
    \A k \in 1 .. Len(r) :
        \/ \E m \in 1 .. Len(s) : m # c /\ r[k] = s[m]
        \/ k = c /\ r[k] = UsedChunk(s[c].offset, n)
        \/ r[k].is_free /\ r[k].offset = s[c].offset + n

\* The used chunks of r are chunks of s, and every chunk of r begins where one of s does.
MergedFrom(r, s) ==
    \A k \in 1 .. Len(r) : \E m \in 1 .. Len(s) :
        r[k].offset = s[m].offset /\ (~r[k].is_free => r[k] = s[m])

\* The same, with chunk c freed.
ReleasedFrom(r, s, c) ==
    \A k \in 1 .. Len(r) : \E m \in 1 .. Len(s) :
        r[k].offset = s[m].offset /\ (~r[k].is_free => m # c /\ r[k] = s[m])

\* Carving makes no chunk but the two it splits c in.
LEMMA CarveOrigin ==
    ASSUME NEW s, ChunkSeq(s), NEW c \in 1 .. Len(s), NEW n \in Nat, n <= s[c].size
    PROVE  CarvedFrom(Carve(s, c, n), s, c, n)
<1> DEFINE u    == UsedChunk(s[c].offset, n)
           used == [s EXCEPT ![c] = u]
           off  == s[c].offset + n
           left == s[c].size - n
           rem  == FreeChunk(off, left)
           ins  == InsertAt(used, c + 1, rem)
<1>1. Len(s) \in Nat /\ s[c].offset \in Nat /\ s[c].size \in Nat
    BY ChunkAccess DEF Sized
<1>2. u \in Chunk
    BY <1>1, ChunkFields
<1>3. ChunkSeq(used) /\ Len(used) = Len(s) /\ IsReplace(s, used, Len(s), c, u)
    BY <1>2, ChunkExcept
<1>4. Carve(s, c, n) = IF left > 0 THEN ins ELSE used
    BY DEF Carve
<1>5. \A k \in 1 .. Len(s) : used[k] = IF k = c THEN u ELSE s[k]
    BY <1>3 DEF IsReplace
<1>6. off \in Nat /\ left \in Nat
    BY <1>1
<1>7. rem \in Chunk /\ rem.offset = off /\ rem.is_free
    <2> HIDE DEF off, left
    <2> QED
        BY <1>6, ChunkFields
<1>8. c + 1 \in 1 .. Len(used) + 1
    BY <1>1, <1>3
<1> HIDE DEF used, rem, left
<1>9. Len(ins) = Len(used) + 1 /\ IsInsert(used, ins, Len(used), c + 1, rem)
    BY <1>3, <1>7, <1>8, ChunkInsert
<1> HIDE DEF ins, u
<1>10. ASSUME NEW k \in 1 .. Len(ins)
       PROVE  \/ \E m \in 1 .. Len(s) : m # c /\ ins[k] = s[m]
              \/ k = c /\ ins[k] = u
              \/ ins[k] = rem
    <2>1. k \in 1 .. Len(s) + 1
        BY <1>3, <1>9
    <2>2. ins[k] = IF k < c + 1 THEN used[k] ELSE IF k = c + 1 THEN rem ELSE used[k - 1]
        BY <1>3, <1>9, <2>1 DEF IsInsert
    <2>3. CASE k < c + 1
        BY <1>1, <1>5, <2>1, <2>2, <2>3
    <2>4. CASE k > c + 1
        <3>1. k - 1 \in 1 .. Len(s) /\ k - 1 # c
            BY <1>1, <2>1, <2>4
        <3> QED
            BY <1>5, <2>2, <2>4, <3>1
    <2>5. CASE k = c + 1
        BY <2>2, <2>5
    <2> QED
        BY <2>1, <2>3, <2>4, <2>5
<1>11. CASE left > 0
    BY <1>4, <1>7, <1>10, <1>11 DEF CarvedFrom, u, off
<1>12. CASE ~(left > 0)
    BY <1>3, <1>4, <1>5, <1>12 DEF CarvedFrom, u
<1> QED
    BY <1>11, <1>12

\* Absorbing makes one free chunk, where the first of the two was.
LEMMA AbsorbOrigin ==
    ASSUME NEW s, ChunkSeq(s), NEW c \in 1 .. Len(s), c + 1 <= Len(s)
    PROVE  /\ ChunkSeq(Absorb(s, c)) /\ Len(Absorb(s, c)) = Len(s) - 1
           /\ MergedFrom(Absorb(s, c), s)
<1> DEFINE both == s[c].size + s[c + 1].size
           u    == FreeChunk(s[c].offset, both)
           repl == [s EXCEPT ![c] = u]
           r    == RemoveAt(repl, c + 1)
<1>1. /\ Len(s) \in Nat /\ c + 1 \in 1 .. Len(s)
      /\ s[c].offset \in Nat /\ s[c].size \in Nat /\ s[c + 1].size \in Nat
    BY ChunkAccess DEF Sized
<1>2. u \in Chunk /\ u.offset = s[c].offset /\ u.is_free
    BY <1>1, MergedFields
<1>3. Absorb(s, c) = r
    BY DEF Absorb
<1> HIDE DEF u
<1>4. ChunkSeq(repl) /\ Len(repl) = Len(s) /\ IsReplace(s, repl, Len(s), c, u)
    BY <1>2, ChunkExcept
<1>5. \A k \in 1 .. Len(s) : repl[k] = IF k = c THEN u ELSE s[k]
    BY <1>4 DEF IsReplace
<1> HIDE DEF repl
<1>6. ChunkSeq(r) /\ Len(r) = Len(s) - 1 /\ IsRemove(repl, r, Len(s), c + 1)
    <2>1. c + 1 \in 1 .. Len(repl)
        BY <1>1, <1>4
    <2> QED
        BY <1>4, <2>1, ChunkRemove
<1> HIDE DEF r
<1>7. ASSUME NEW k \in 1 .. Len(r)
      PROVE  \E m \in 1 .. Len(s) : r[k] = repl[m]
    <2>1. k \in 1 .. Len(s) - 1 /\ k \in 1 .. Len(s) /\ k + 1 \in 1 .. Len(s)
        BY <1>1, <1>6
    <2>2. r[k] = IF k < c + 1 THEN repl[k] ELSE repl[k + 1]
        BY <1>6, <2>1 DEF IsRemove
    <2> QED
        BY <2>1, <2>2
<1>8. MergedFrom(r, s)
    BY <1>2, <1>5, <1>7 DEF MergedFrom
<1> QED
    BY <1>3, <1>6, <1>8

\* Coming from composes.
LEMMA MergedTwice ==
    ASSUME NEW s, NEW t, NEW r, MergedFrom(t, s), MergedFrom(r, t)
    PROVE  MergedFrom(r, s)
BY ZenonT(60) DEF MergedFrom

\* Releasing chunk c uses no chunk that was not used before.
LEMMA ReleaseOrigin ==
    ASSUME NEW s, ChunkSeq(s), NEW c \in 1 .. Len(s)
    PROVE  ReleasedFrom(Release(s, c), s, c)
<1> DEFINE u == FreeChunk(s[c].offset, s[c].size)
           f == [s EXCEPT ![c] = u]
           g == CoalesceForward(f, c)
           h == CoalesceBackward(g, c)
<1>1. Len(s) \in Nat /\ s[c].offset \in Nat /\ s[c].size \in Nat
    BY ChunkAccess DEF Sized
<1>2. u \in Chunk /\ u.offset = s[c].offset /\ u.is_free
    BY <1>1, ChunkFields, SMTT(30)
<1>3. Release(s, c) = h
    BY DEF Release
<1> HIDE DEF u
<1>4. ChunkSeq(f) /\ Len(f) = Len(s) /\ IsReplace(s, f, Len(s), c, u)
    BY <1>2, ChunkExcept
<1>5. \A k \in 1 .. Len(s) : f[k] = IF k = c THEN u ELSE s[k]
    BY <1>4 DEF IsReplace
<1> HIDE DEF f
<1>6. ChunkSeq(g) /\ MergedFrom(g, f) /\ c <= Len(g)
    <2>1. CASE c < Len(f) /\ f[c + 1].is_free
        <3>1. g = Absorb(f, c)
            BY <2>1 DEF CoalesceForward
        <3>2. c \in 1 .. Len(f) /\ c + 1 <= Len(f)
            BY <1>1, <1>4, <2>1
        <3> HIDE DEF g
        <3>3. ChunkSeq(g) /\ Len(g) = Len(f) - 1 /\ MergedFrom(g, f)
            BY <1>4, <3>1, <3>2, AbsorbOrigin
        <3> QED
            BY <1>1, <1>4, <3>2, <3>3
    <2>2. CASE ~(c < Len(f) /\ f[c + 1].is_free)
        <3>1. g = f
            BY <2>2 DEF CoalesceForward
        <3>2. MergedFrom(f, f)
            BY DEF MergedFrom
        <3> QED
            BY <1>1, <1>4, <3>1, <3>2
    <2> QED
        BY <2>1, <2>2
<1> HIDE DEF g
<1>7. MergedFrom(h, g)
    <2>1. CASE c > 1 /\ g[c - 1].is_free
        <3>1. h = Absorb(g, c - 1)
            BY <2>1 DEF CoalesceBackward
        <3>2. Len(g) \in Nat
            BY <1>6, ChunkAccess
        <3>3. c - 1 \in 1 .. Len(g) /\ (c - 1) + 1 <= Len(g)
            BY <1>6, <2>1, <3>2
        <3> HIDE DEF h
        <3> QED
            BY <1>6, <3>1, <3>3, AbsorbOrigin
    <2>2. CASE ~(c > 1 /\ g[c - 1].is_free)
        <3>1. h = g
            BY <2>2 DEF CoalesceBackward
        <3>2. MergedFrom(g, g)
            BY DEF MergedFrom
        <3> QED
            BY <3>1, <3>2
    <2> QED
        BY <2>1, <2>2
<1> HIDE DEF h
<1>8. MergedFrom(h, f)
    BY <1>6, <1>7, MergedTwice
<1>9. ReleasedFrom(h, s, c)
    BY <1>2, <1>4, <1>5, <1>8, ZenonT(60) DEF MergedFrom, ReleasedFrom
<1> QED
    BY <1>3, <1>9

-----------------------------------------------------------------------------
(* What is granted is new. *)

\* What HeapInvariant says of the numbers in it, with Seq out of sight.
LEMMA HeapNumbers ==
    ASSUME HeapInvariant
    PROVE  /\ Len(m_slabs) \in Nat /\ SlabSeq(m_slabs)
           /\ \A i \in 1 .. Len(m_slabs) :
                 /\ ChunkSeq(m_slabs[i].chunks) /\ Len(m_slabs[i].chunks) \in Nat
                 /\ m_slabs[i].baseAddress \in Nat /\ m_slabs[i].totalSize \in Nat
                 /\ m_slabs[i].baseAddress + m_slabs[i].totalSize <= MaxWord + 1
                 /\ \A c \in 1 .. Len(m_slabs[i].chunks) :
                       LET k == m_slabs[i].chunks[c] IN
                       /\ k.offset \in Nat /\ k.size \in Nat /\ k.size > 0
                       /\ k.offset + k.size <= m_slabs[i].totalSize
                 /\ \A c, d \in 1 .. Len(m_slabs[i].chunks) :
                       c < d => m_slabs[i].chunks[c].offset + m_slabs[i].chunks[c].size
                                    <= m_slabs[i].chunks[d].offset
           /\ \A x \in DOMAIN m_allocations :
                 /\ x \in Nat /\ x <= MaxWord
                 /\ m_allocations[x].size \in Nat /\ m_allocations[x].size > 0
                 /\ m_allocations[x].offset \in Nat
<1>1. AllocatorInvariant /\ Granular
    BY DEF HeapInvariant
<1>2. ASSUME NEW i \in 1 .. Len(m_slabs)
      PROVE  /\ ChunkSeq(m_slabs[i].chunks) /\ Len(m_slabs[i].chunks) \in Nat
             /\ \A c \in 1 .. Len(m_slabs[i].chunks) :
                   m_slabs[i].chunks[c].offset \in Nat /\ m_slabs[i].chunks[c].size \in Nat
    BY <1>1, InvariantTypes, ChunkAccess DEF Sized
<1>3. \A i \in 1 .. Len(m_slabs) : OrderedUpTo(m_slabs[i].chunks, Len(m_slabs[i].chunks), m_slabs[i].totalSize)
    BY <1>1, InvariantTypes DEF Ordered
<1>4. \A x \in DOMAIN m_allocations : x \in Word /\ m_allocations[x].size > 0
    BY <1>1, InvariantParts DEF AllocationsTyped, Granular
<1>5. MaxWord \in Nat
    BY AllocatorAssumption
<1> QED
    BY <1>1, <1>2, <1>3, <1>4, <1>5, InvariantTypes DEF OrderedUpTo, Word

\* Two chunks of a slab that begin at the same place are one.
LEMMA ChunksBeginApart ==
    ASSUME HeapInvariant, NEW i \in 1 .. Len(m_slabs),
           NEW c \in 1 .. Len(m_slabs[i].chunks), NEW d \in 1 .. Len(m_slabs[i].chunks),
           m_slabs[i].chunks[c].offset = m_slabs[i].chunks[d].offset
    PROVE  c = d
<1>1. c \in Nat /\ d \in Nat
    BY HeapNumbers
<1>2. ASSUME NEW a \in 1 .. Len(m_slabs[i].chunks), NEW b \in 1 .. Len(m_slabs[i].chunks), a < b
      PROVE  m_slabs[i].chunks[a].offset # m_slabs[i].chunks[b].offset
    <2> DEFINE ka == m_slabs[i].chunks[a]
               kb == m_slabs[i].chunks[b]
    <2>1. ka.offset \in Nat /\ ka.size \in Nat /\ ka.size > 0 /\ ka.offset + ka.size <= kb.offset
        BY <1>2, HeapNumbers
    <2>2. kb.offset \in Nat
        BY HeapNumbers
    <2> HIDE DEF ka, kb
    <2>3. ka.offset # kb.offset
        BY <2>1, <2>2
    <2> QED
        BY <2>3 DEF ka, kb
<1> QED
    BY <1>1, <1>2

\* An allocation of a slab lies in it and begins where its chunk does.
LEMMA BackedInside ==
    ASSUME HeapInvariant, NEW a \in DOMAIN m_allocations, ~m_allocations[a].is_dedicated
    PROVE  \E j \in 1 .. Len(m_slabs) : \E k \in 1 .. Len(m_slabs[j].chunks) :
              /\ Backs(j, k, a)
              /\ ~m_slabs[j].chunks[k].is_free
              /\ m_slabs[j].chunks[k].offset = m_allocations[a].offset
              /\ a = m_slabs[j].baseAddress + m_slabs[j].chunks[k].offset
              /\ m_slabs[j].baseAddress <= a
              /\ a < m_slabs[j].baseAddress + m_slabs[j].totalSize
<1>1. PICK j \in 1 .. Len(m_slabs) : \E k \in 1 .. Len(m_slabs[j].chunks) : Backs(j, k, a)
    BY InvariantParts DEF HeapInvariant, AllocationsBacked
<1>2. PICK k \in 1 .. Len(m_slabs[j].chunks) : Backs(j, k, a)
    BY <1>1
<1> DEFINE chunk == m_slabs[j].chunks[k]
           base  == m_slabs[j].baseAddress
           total == m_slabs[j].totalSize
<1>3. /\ ~chunk.is_free /\ chunk.offset = m_allocations[a].offset /\ a = base + chunk.offset
    BY <1>2 DEF Backs, UsedChunk
<1>4. /\ chunk.offset \in Nat /\ chunk.size \in Nat /\ chunk.size > 0
      /\ chunk.offset + chunk.size <= total /\ base \in Nat /\ total \in Nat
    BY HeapNumbers
<1> HIDE DEF chunk, base, total
<1>5. base <= a /\ a < base + total
    BY <1>3, <1>4, SMTT(30)
<1> QED
    BY <1>2, <1>3, <1>5 DEF chunk, base, total

\* The address of a free chunk is no allocation's.
LEMMA FreeChunkIsNew ==
    ASSUME HeapInvariant, NEW i \in 1 .. Len(m_slabs), NEW c \in 1 .. Len(m_slabs[i].chunks),
           m_slabs[i].chunks[c].is_free
    PROVE  m_slabs[i].baseAddress + m_slabs[i].chunks[c].offset \notin DOMAIN m_allocations
<1> DEFINE base  == m_slabs[i].baseAddress
           total == m_slabs[i].totalSize
           off   == m_slabs[i].chunks[c].offset
           room  == m_slabs[i].chunks[c].size
<1>1. /\ base \in Nat /\ total \in Nat /\ off \in Nat /\ room \in Nat /\ room > 0
      /\ off + room <= total
    BY HeapNumbers
<1> SUFFICES ASSUME NEW a \in DOMAIN m_allocations, a = base + off PROVE FALSE
    OBVIOUS
<1>2. a \in Nat /\ m_allocations[a].size \in Nat /\ m_allocations[a].size > 0
    BY HeapNumbers
<1> HIDE DEF base, total, off, room
<1>3. base <= a /\ a < base + total
    BY <1>1
<1>4. CASE m_allocations[a].is_dedicated
    <2>1. ~Overlap(a, m_allocations[a].size, base, total)
        BY <1>4, InvariantParts DEF HeapInvariant, DedicatedDisjoint, base, total
    <2> QED
        BY <1>1, <1>2, <1>3, <2>1 DEF Overlap
<1>5. CASE ~m_allocations[a].is_dedicated
    <2>1. PICK j \in 1 .. Len(m_slabs) : \E k \in 1 .. Len(m_slabs[j].chunks) :
              /\ ~m_slabs[j].chunks[k].is_free
              /\ a = m_slabs[j].baseAddress + m_slabs[j].chunks[k].offset
              /\ m_slabs[j].baseAddress <= a
              /\ a < m_slabs[j].baseAddress + m_slabs[j].totalSize
        BY <1>5, BackedInside
    <2>2. PICK k \in 1 .. Len(m_slabs[j].chunks) :
              /\ ~m_slabs[j].chunks[k].is_free
              /\ a = m_slabs[j].baseAddress + m_slabs[j].chunks[k].offset
        BY <2>1
    <2>3. CASE j = i
        <3>1. k # c
            BY <2>2, <2>3
        <3>2. m_slabs[i].chunks[k].offset = off
            <4>1. m_slabs[i].chunks[k].offset \in Nat /\ a = base + m_slabs[i].chunks[k].offset
                BY <2>2, <2>3, HeapNumbers DEF base
            <4> QED
                BY <1>1, <4>1, SMTT(30)
        <3> QED
            BY <2>2, <2>3, <3>1, <3>2, ChunksBeginApart DEF off
    <2>4. CASE j # i
        <3> DEFINE bj == m_slabs[j].baseAddress
                   tj == m_slabs[j].totalSize
        <3>1. ~Overlap(base, total, bj, tj)
            BY <2>4, InvariantParts DEF HeapInvariant, SlabsDisjoint, base, total
        <3>2. bj \in Nat /\ tj \in Nat /\ bj <= a /\ a < bj + tj
            BY <2>1, HeapNumbers
        <3> HIDE DEF bj, tj
        <3> QED
            BY <1>1, <1>2, <1>3, <3>1, <3>2 DEF Overlap
    <2> QED
        BY <2>3, <2>4
<1> QED
    BY <1>4, <1>5

\* Where the driver places a block is no allocation's address.
LEMMA PlaceIsNew ==
    ASSUME HeapInvariant, NEW b \in Bases, NEW size \in Nat, size > 0, DriverCanPlace(b, size)
    PROVE  b \notin DOMAIN m_allocations
<1> SUFFICES ASSUME b \in DOMAIN m_allocations PROVE FALSE
    OBVIOUS
<1>1. b \in Nat /\ m_allocations[b].size \in Nat /\ m_allocations[b].size > 0
    BY HeapNumbers
<1>2. CASE m_allocations[b].is_dedicated
    <2>1. ~Overlap(b, size, b, m_allocations[b].size)
        BY <1>2 DEF DriverCanPlace
    <2> QED
        BY <1>1, <2>1 DEF Overlap
<1>3. CASE ~m_allocations[b].is_dedicated
    <2>1. PICK j \in 1 .. Len(m_slabs) :
              /\ m_slabs[j].baseAddress <= b
              /\ b < m_slabs[j].baseAddress + m_slabs[j].totalSize
        BY <1>3, BackedInside
    <2>2. ~Overlap(b, size, m_slabs[j].baseAddress, m_slabs[j].totalSize)
        BY DEF DriverCanPlace
    <2>3. m_slabs[j].baseAddress \in Nat /\ m_slabs[j].totalSize \in Nat
        BY HeapNumbers
    <2> QED
        BY <1>1, <2>1, <2>2, <2>3 DEF Overlap
<1> QED
    BY <1>2, <1>3

-----------------------------------------------------------------------------
(* One lemma per kind of step: HeapInvariant is kept, and what the step    *)
(* does to the map is a grant of a new range, or takes one away.           *)

\* The call grants n bytes at a, a range that the map did not have.
Grants(n, a, size) ==
    /\ a \in Nat /\ a > 0 /\ a % Align = 0 /\ a + size <= MaxWord + 1
    /\ a \notin DOMAIN m_allocations
    /\ DOMAIN m_allocations' = DOMAIN m_allocations \cup {a}
    /\ m_allocations'[a].size = size
    /\ \A x \in DOMAIN m_allocations : m_allocations'[x] = m_allocations[x]
    /\ Reply("malloc", n, "Success", a)

\* An entry of the map at a new address.
LEMMA RegisterGrants ==
    ASSUME NEW n, NEW size, NEW a \in Nat, a > 0, a % Align = 0, a + size <= MaxWord + 1,
           a \notin DOMAIN m_allocations,
           NEW alloc, alloc.size = size, Register(a, alloc), Reply("malloc", n, "Success", a)
    PROVE  Grants(n, a, size) /\ m_allocations'[a] = alloc
<1>1. /\ DOMAIN m_allocations' = DOMAIN m_allocations \cup {a}
      /\ \A x \in DOMAIN m_allocations' :
            m_allocations'[x] = IF x = a THEN alloc ELSE m_allocations[x]
    BY RegisterMap
<1>2. m_allocations'[a] = alloc /\ \A x \in DOMAIN m_allocations : m_allocations'[x] = m_allocations[x]
    BY <1>1
<1> QED
    BY <1>1, <1>2 DEF Grants

\* A chunk that stays where it was, as it was, stays its allocation's.
LEMMA OwnerStays ==
    ASSUME NEW y \in DOMAIN m_allocations, y \in DOMAIN m_allocations',
           ~m_allocations[y].is_dedicated, m_allocations'[y] = m_allocations[y],
           NEW j, NEW k, NEW m, Backs(j, k, y),
           m_slabs'[j].baseAddress = m_slabs[j].baseAddress,
           m_slabs'[j].chunks[m] = m_slabs[j].chunks[k]
    PROVE  OwnedChunk(j, m)'
<1>1. Backs(j, m, y)'
    BY DEF Backs
<1> QED
    BY <1>1 DEF OwnedChunk

\* A call that changes neither slabs nor allocations.
LEMMA UnchangedHeap ==
    ASSUME HeapInvariant, UNCHANGED <<m_slabs, m_allocations>>, m_initialized' \in BOOLEAN,
           m_initialized' = m_initialized \/ m_initialized' = TRUE
    PROVE  HeapInvariant'
<1>1. AllocatorInvariant'
    BY UnchangedStep DEF HeapInvariant
<1>2. Granular'
    BY DEF HeapInvariant, Granular
<1>3. Owned'
    BY DEF HeapInvariant, Owned, OwnedChunk, Backs
<1> QED
    BY <1>1, <1>2, <1>3 DEF HeapInvariant

\* A dedicated block.
LEMMA DedicatedHeap ==
    ASSUME HeapInvariant, NEW n, NEW size \in Nat, size > 0, m_initialized' = TRUE,
           AllocateDedicated(n, size)
    PROVE  HeapInvariant' /\ \E a : Grants(n, a, size)
<1>1. PICK b \in Bases :
         /\ DriverCanPlace(b, size)
         /\ Register(b, DedicatedAllocation(size))
         /\ Reply("malloc", n, "Success", b)
         /\ m_slabs' = m_slabs
    BY DEF AllocateDedicated
<1>2. b \notin DOMAIN m_allocations
    BY <1>1, PlaceIsNew
<1>3. b \in Nat /\ b > 0 /\ b % Align = 0 /\ b + size <= MaxWord + 1
    BY <1>1, AllocatorAssumption DEF DriverCanPlace
<1>4. DedicatedAllocation(size).size = size
    BY AllocationFields
<1>5. Grants(n, b, size)
    BY <1>1, <1>2, <1>3, <1>4, RegisterGrants
<1>6. AllocatorInvariant'
    BY DedicatedStep DEF HeapInvariant
<1>7. Granular'
    BY <1>1, <1>5 DEF HeapInvariant, Granular, Grants
<1>8. Owned'
    <2> SUFFICES ASSUME NEW i \in 1 .. Len(m_slabs), NEW c \in 1 .. Len(m_slabs[i].chunks),
                        ~m_slabs[i].chunks[c].is_free
                 PROVE  OwnedChunk(i, c)'
        BY <1>1 DEF Owned
    <2>1. PICK y \in DOMAIN m_allocations : ~m_allocations[y].is_dedicated /\ Backs(i, c, y)
        BY DEF HeapInvariant, Owned, OwnedChunk
    <2> QED
        BY <1>1, <1>5, <2>1, OwnerStays DEF Grants
<1> QED
    BY <1>5, <1>6, <1>7, <1>8 DEF HeapInvariant

\* The chunks of a slab begin on granules.
OnGranules(s) == \A c \in 1 .. Len(s) : s[c].offset % Align = 0

\* Carving a whole number of granules keeps the chunks on granules.
LEMMA CarveOnGranules ==
    ASSUME NEW s, ChunkSeq(s), OnGranules(s), NEW c \in 1 .. Len(s),
           NEW n \in Nat, n <= s[c].size, n % Align = 0
    PROVE  OnGranules(Carve(s, c, n))
<1> DEFINE r == Carve(s, c, n)
<1>1. s[c].offset \in Nat /\ s[c].offset % Align = 0
    BY ChunkAccess DEF Sized, OnGranules
<1>2. (s[c].offset + n) % Align = 0
    BY <1>1, GranuleSum
<1>3. UsedChunk(s[c].offset, n).offset = s[c].offset
    BY <1>1, ChunkFields
<1>4. CarvedFrom(r, s, c, n)
    BY CarveOrigin
<1> HIDE DEF r
<1>5. OnGranules(r)
    BY <1>1, <1>2, <1>3, <1>4 DEF CarvedFrom, OnGranules
<1> QED
    BY <1>5 DEF r

\* A chunk carved from an existing slab.
LEMMA CarveHeap ==
    ASSUME HeapInvariant, NEW n, NEW size \in Nat, size > 0, size % Align = 0,
           m_initialized' = TRUE, CarveFromSlab(n, size)
    PROVE  HeapInvariant' /\ \E a : Grants(n, a, size)
<1>1. PICK p \in Fitting(size) :
         /\ IsFirstOf(p, Fitting(size))
         /\ LET slab == m_slabs[p[1]]
                off  == slab.chunks[p[2]].offset
                addr == slab.baseAddress + off
            IN  /\ m_slabs' = [m_slabs EXCEPT ![p[1]].chunks = Carve(@, p[2], size)]
                /\ Register(addr, SlabAllocation(p[1], off, size))
                /\ Reply("malloc", n, "Success", addr)
    BY ZenonT(60) DEF CarveFromSlab
<1> DEFINE i    == p[1]
           c    == p[2]
           s    == m_slabs[i].chunks
           off  == s[c].offset
           base == m_slabs[i].baseAddress
           x    == Carve(s, c, size)
           addr == base + off
           rec  == SlabAllocation(i, off, size)
<1>2. i \in 1 .. Len(m_slabs) /\ c \in 1 .. Len(s) /\ s[c].is_free /\ size <= s[c].size
    BY FittingChunk, SMTT(30)
<1>3. /\ m_slabs' = [m_slabs EXCEPT ![i].chunks = x] /\ Register(addr, rec)
      /\ Reply("malloc", n, "Success", addr)
    BY <1>1
<1>4. addr \notin DOMAIN m_allocations
    BY <1>2, FreeChunkIsNew
<1>5. /\ i \in Nat /\ ChunkSeq(s) /\ base \in Nat /\ base > 0 /\ base % Align = 0
      /\ OnGranules(s) /\ SlabSeq(m_slabs)
    BY <1>2, HeapNumbers, SMTT(30) DEF HeapInvariant, Granular, OnGranules
<1>6. /\ off \in Nat /\ s[c].size \in Nat /\ off + s[c].size <= m_slabs[i].totalSize
      /\ m_slabs[i].totalSize \in Nat /\ base + m_slabs[i].totalSize <= MaxWord + 1
    BY <1>2, HeapNumbers
<1>7. off % Align = 0
    BY <1>2, <1>5 DEF OnGranules
<1>8. addr \in Nat /\ addr > 0 /\ addr % Align = 0
    <2>1. addr % Align = 0
        BY <1>5, <1>6, <1>7, GranuleSum
    <2>2. addr \in Nat /\ addr > 0
        <3> HIDE DEF base, off
        <3> QED
            BY <1>5, <1>6
    <2> QED
        BY <2>1, <2>2
<1>9. addr + size <= MaxWord + 1
    <2> DEFINE total == m_slabs[i].totalSize
               room  == s[c].size
    <2>1. /\ base \in Nat /\ off \in Nat /\ room \in Nat /\ total \in Nat /\ MaxWord \in Nat
          /\ off + room <= total /\ base + total <= MaxWord + 1 /\ size <= room
        BY <1>2, <1>5, <1>6, AllocatorAssumption
    <2> HIDE DEF base, off, total, room
    <2> QED
        BY <2>1
<1>10. rec.size = size /\ rec.slab_index = i /\ rec.offset = off /\ ~rec.is_dedicated
    BY <1>5, <1>6, AllocationFields
<1>11. CarvedFrom(x, s, c, size) /\ OnGranules(x)
    BY <1>2, <1>5, CarveOrigin, CarveOnGranules
<1>12. AllocatorInvariant'
    BY CarveStep DEF HeapInvariant
<1>13. ChunkSeq(x)
    <2>1. Ordered(s, m_slabs[i].totalSize)
        BY <1>2, InvariantTypes, SMTT(30) DEF HeapInvariant
    <2> HIDE DEF s, c
    <2> QED
        BY <1>2, <1>5, <1>6, <2>1, CarveKeepsOrder
<1> HIDE DEF x
<1>14. IsRechunk(m_slabs, m_slabs', i, x)
    BY <1>2, <1>3, <1>5, <1>13, SlabExcept, ZenonT(60)
<1> HIDE DEF rec
<1>15. PICK a \in Nat : a = addr
    BY <1>8
<1> HIDE DEF addr
<1>16. Grants(n, a, size) /\ m_allocations'[a] = rec
    BY <1>3, <1>4, <1>8, <1>9, <1>10, <1>15, RegisterGrants
<1>17. Granular'
    <2>1. \A j \in 1 .. Len(m_slabs') :
             /\ m_slabs'[j].baseAddress % Align = 0 /\ m_slabs'[j].baseAddress > 0
             /\ OnGranules(m_slabs'[j].chunks)
        BY <1>11, <1>14, SMTT(30) DEF IsRechunk, HeapInvariant, Granular, OnGranules
    <2>2. \A y \in DOMAIN m_allocations' : m_allocations'[y].size > 0
        BY <1>16 DEF Grants, HeapInvariant, Granular
    <2> QED
        BY <2>1, <2>2 DEF Granular, OnGranules
<1>18. Owned'
    <2> SUFFICES ASSUME NEW j \in 1 .. Len(m_slabs'), NEW m \in 1 .. Len(m_slabs'[j].chunks),
                        ~m_slabs'[j].chunks[m].is_free
                 PROVE  OwnedChunk(j, m)'
        BY DEF Owned
    <2>1. /\ j \in 1 .. Len(m_slabs) /\ m_slabs'[j].baseAddress = m_slabs[j].baseAddress
          /\ m_slabs'[j].chunks = IF j = i THEN x ELSE m_slabs[j].chunks
        BY <1>14 DEF IsRechunk
    <2>2. ASSUME NEW k \in 1 .. Len(m_slabs[j].chunks),
                 m_slabs'[j].chunks[m] = m_slabs[j].chunks[k]
          PROVE  OwnedChunk(j, m)'
        <3>1. PICK y \in DOMAIN m_allocations : ~m_allocations[y].is_dedicated /\ Backs(j, k, y)
            BY <2>1, <2>2 DEF HeapInvariant, Owned, OwnedChunk
        <3> QED
            BY <1>16, <2>1, <2>2, <3>1, OwnerStays DEF Grants
    <2>3. CASE j # i
        BY <2>1, <2>2, <2>3
    <2>4. CASE j = i /\ m_slabs'[j].chunks[m] = UsedChunk(off, size)
        <3>1. a = m_slabs'[j].baseAddress + off
            BY <1>15, <2>1, <2>4, SMTT(30) DEF addr
        <3>2. Backs(j, m, a)'
            BY <1>10, <1>16, <2>4, <3>1 DEF Backs
        <3>3. a \in DOMAIN m_allocations' /\ ~m_allocations'[a].is_dedicated
            BY <1>10, <1>16 DEF Grants
        <3> QED
            BY <3>2, <3>3 DEF OwnedChunk
    <2>5. CASE j = i /\ m_slabs'[j].chunks[m] # UsedChunk(off, size)
        <3>1. PICK k \in 1 .. Len(s) : x[m] = s[k]
            BY <1>11, <2>1, <2>5 DEF CarvedFrom
        <3> QED
            BY <2>1, <2>2, <2>5, <3>1
    <2> QED
        BY <2>3, <2>4, <2>5
<1> QED
    BY <1>12, <1>16, <1>17, <1>18 DEF HeapInvariant

\* A new slab, the first chunk of which is granted.
LEMMA SlabHeap ==
    ASSUME HeapInvariant, NEW n, NEW size \in Nat, size > 0, size < SlabSize, size % Align = 0,
           m_initialized' = TRUE, AllocateSlab(n, size)
    PROVE  HeapInvariant' /\ \E a : Grants(n, a, size)
<1> DEFINE whole == <<FreeChunk(0, SlabSize)>>
           x     == Carve(whole, 1, size)
           idx   == Len(m_slabs) + 1
           rec   == SlabAllocation(idx, 0, size)
<1>1. PICK b \in Bases :
         /\ DriverCanPlace(b, SlabSize)
         /\ m_slabs' = Append(m_slabs, [baseAddress |-> b, totalSize |-> SlabSize, chunks |-> x])
         /\ Register(b, rec)
         /\ Reply("malloc", n, "Success", b)
    BY DEF AllocateSlab
<1> DEFINE slab == [baseAddress |-> b, totalSize |-> SlabSize, chunks |-> x]
<1>2. SlabSize \in Nat /\ SlabSize > 0 /\ MaxWord \in Nat /\ Align \in Nat /\ Align > 0
    BY AllocatorAssumption
<1>3. b \in Word /\ b \in Nat /\ b > 0 /\ b % Align = 0 /\ b + SlabSize <= MaxWord + 1
    BY <1>1, AllocatorAssumption DEF Word, DriverCanPlace
<1>4. b \notin DOMAIN m_allocations
    BY <1>1, <1>2, PlaceIsNew
<1>5. ChunkSeq(whole) /\ Len(whole) = 1 /\ whole[1] = FreeChunk(0, SlabSize)
    <2>1. FreeChunk(0, SlabSize) \in Chunk
        BY <1>2, ChunkFields
    <2> QED
        BY <2>1 DEF ChunkSeq
<1>6. whole[1].offset = 0 /\ whole[1].size = SlabSize
    BY <1>2, <1>5, ChunkFields
<1> HIDE DEF whole
<1>7. 1 \in 1 .. Len(whole) /\ size <= whole[1].size /\ Ordered(whole, SlabSize)
    BY <1>2, <1>5, <1>6 DEF Ordered, OrderedUpTo
<1>8. OnGranules(whole)
    <2>1. 0 % Align = 0
        BY <1>2
    <2> QED
        BY <1>5, <1>6, <2>1 DEF OnGranules
<1>9. ChunkSeq(x) /\ CarvedFrom(x, whole, 1, size) /\ OnGranules(x)
    BY <1>2, <1>5, <1>7, <1>8, CarveKeepsOrder, CarveOrigin, CarveOnGranules
<1> HIDE DEF x
<1>10. SlabSeq(m_slabs) /\ Len(m_slabs) \in Nat
    BY HeapNumbers
<1>11. rec.size = size /\ rec.slab_index = idx /\ rec.offset = 0 /\ ~rec.is_dedicated
    BY <1>10, AllocationFields
<1>12. slab \in Slab
    BY <1>2, <1>3, <1>9 DEF Slab, ChunkSeq
<1>13. slab.baseAddress = b /\ slab.chunks = x
    OBVIOUS
<1>14. m_slabs' = Append(m_slabs, slab)
    BY <1>1
<1> HIDE DEF slab
<1>15. /\ Len(m_slabs') = idx /\ m_slabs'[idx] = slab
       /\ \A j \in 1 .. Len(m_slabs) : m_slabs'[j] = m_slabs[j]
    BY <1>10, <1>12, <1>14, SlabAppend
<1> HIDE DEF rec
<1>16. Grants(n, b, size) /\ m_allocations'[b] = rec
    <2>1. b + size <= MaxWord + 1
        BY <1>2, <1>3
    <2> QED
        BY <1>1, <1>3, <1>4, <1>11, <2>1, RegisterGrants
<1>17. PICK k : k = idx
    OBVIOUS
<1>18. ASSUME NEW j \in 1 .. Len(m_slabs')
       PROVE  \/ j \in 1 .. Len(m_slabs) /\ m_slabs'[j] = m_slabs[j]
              \/ j = k /\ m_slabs'[j] = slab
    <2>1. CASE j = idx
        BY <1>15, <1>17, <2>1
    <2>2. CASE j # idx
        <3>1. j \in 1 .. Len(m_slabs)
            BY <1>10, <1>15, <2>2
        <3> QED
            BY <1>15, <3>1
    <2> QED
        BY <2>1, <2>2
<1>19. AllocatorInvariant'
    BY SlabStep DEF HeapInvariant
<1>20. Granular'
    <2>1. \A j \in 1 .. Len(m_slabs') :
             /\ m_slabs'[j].baseAddress % Align = 0 /\ m_slabs'[j].baseAddress > 0
             /\ OnGranules(m_slabs'[j].chunks)
        BY <1>3, <1>9, <1>13, <1>18 DEF HeapInvariant, Granular, OnGranules
    <2>2. \A y \in DOMAIN m_allocations' : m_allocations'[y].size > 0
        BY <1>16 DEF Grants, HeapInvariant, Granular
    <2> QED
        BY <2>1, <2>2 DEF Granular, OnGranules
<1>21. Owned'
    <2> SUFFICES ASSUME NEW j \in 1 .. Len(m_slabs'), NEW m \in 1 .. Len(m_slabs'[j].chunks),
                        ~m_slabs'[j].chunks[m].is_free
                 PROVE  OwnedChunk(j, m)'
        BY DEF Owned
    <2>1. CASE j \in 1 .. Len(m_slabs) /\ m_slabs'[j] = m_slabs[j]
        <3>1. PICK y \in DOMAIN m_allocations : ~m_allocations[y].is_dedicated /\ Backs(j, m, y)
            BY <2>1 DEF HeapInvariant, Owned, OwnedChunk
        <3> QED
            BY <1>16, <2>1, <3>1, OwnerStays DEF Grants
    <2>2. CASE j = k /\ m_slabs'[j] = slab
        <3>1. x[m] = UsedChunk(0, size)
            BY <1>5, <1>6, <1>9, <1>13, <2>2 DEF CarvedFrom
        <3>2. b = b + 0
            BY <1>3
        <3>3. Backs(j, m, b)'
            BY <1>11, <1>13, <1>16, <1>17, <2>2, <3>1, <3>2 DEF Backs
        <3>4. b \in DOMAIN m_allocations' /\ ~m_allocations'[b].is_dedicated
            BY <1>11, <1>16 DEF Grants
        <3> QED
            BY <3>3, <3>4 DEF OwnedChunk
    <2> QED
        BY <1>18, <2>1, <2>2
<1> QED
    BY <1>16, <1>19, <1>20, <1>21 DEF HeapInvariant

\* The call takes the range at p away, and it always finds what it looks for.
Releases(p) ==
    /\ DOMAIN m_allocations' = DOMAIN m_allocations \ {p}
    /\ \A x \in DOMAIN m_allocations' : m_allocations'[x] = m_allocations[x]
    /\ Reply("free", p, "Success", 0)

\* Freeing a live allocation.
LEMMA FreeHeap ==
    ASSUME HeapInvariant, NEW p \in DOMAIN m_allocations, m_initialized' = TRUE, FreeLocked(p)
    PROVE  HeapInvariant' /\ Releases(p)
<1> DEFINE alloc == m_allocations[p]
           i     == alloc.slab_index
           s     == m_slabs[i].chunks
<1>1. m_allocations' = Restrict(m_allocations, DOMAIN m_allocations \ {p})
    BY DEF FreeLocked
<1>2. /\ DOMAIN m_allocations' = DOMAIN m_allocations \ {p}
      /\ \A y \in DOMAIN m_allocations' : m_allocations'[y] = m_allocations[y]
    BY <1>1 DEF Restrict
<1>3. AllocatorInvariant'
    BY FreeStep DEF HeapInvariant
<1>4. \A y \in DOMAIN m_allocations' : m_allocations'[y].size > 0
    BY <1>2 DEF HeapInvariant, Granular
<1>5. CASE alloc.is_dedicated
    <2>1. m_slabs' = m_slabs /\ Reply("free", p, "Success", 0)
        BY <1>5 DEF FreeLocked
    <2>2. Granular'
        BY <1>4, <2>1 DEF HeapInvariant, Granular
    <2>3. Owned'
        <3> SUFFICES ASSUME NEW j \in 1 .. Len(m_slabs), NEW c \in 1 .. Len(m_slabs[j].chunks),
                            ~m_slabs[j].chunks[c].is_free
                     PROVE  OwnedChunk(j, c)'
            BY <2>1 DEF Owned
        <3>1. PICK y \in DOMAIN m_allocations : ~m_allocations[y].is_dedicated /\ Backs(j, c, y)
            BY DEF HeapInvariant, Owned, OwnedChunk
        <3>2. y \in DOMAIN m_allocations'
            BY <1>2, <1>5, <3>1
        <3> QED
            BY <1>2, <2>1, <3>1, <3>2, OwnerStays
    <2> QED
        BY <1>2, <1>3, <2>1, <2>2, <2>3 DEF HeapInvariant, Releases
<1>6. CASE ~alloc.is_dedicated
    <2>1. i \in 1 .. Len(m_slabs) /\ \E c \in 1 .. Len(s) : s[c].offset = alloc.offset
        <3>1. PICK l \in 1 .. Len(m_slabs) : \E k \in 1 .. Len(m_slabs[l].chunks) : Backs(l, k, p)
            BY <1>6 DEF HeapInvariant, AllocatorInvariant, AllocationsBacked
        <3> QED
            BY <3>1 DEF Backs, UsedChunk
    <2>2. /\ \E c \in 1 .. Len(s) :
                /\ IsChunkAt(s, c, alloc.offset)
                /\ m_slabs' = [m_slabs EXCEPT ![i].chunks = Release(@, c)]
          /\ Reply("free", p, "Success", 0)
        BY <1>6, <2>1 DEF FreeLocked
    <2>3. PICK c \in 1 .. Len(s) :
             /\ s[c].offset = alloc.offset
             /\ m_slabs' = [m_slabs EXCEPT ![i].chunks = Release(@, c)]
        BY <2>2 DEF IsChunkAt
    <2> DEFINE x == Release(s, c)
    <2>4. m_slabs' = [m_slabs EXCEPT ![i].chunks = x]
        BY <2>3
    <2>5. /\ ChunkSeq(s) /\ OnGranules(s) /\ m_slabs[i].totalSize \in Nat /\ SlabSeq(m_slabs)
          /\ Ordered(s, m_slabs[i].totalSize)
        BY <2>1, HeapNumbers, InvariantTypes DEF HeapInvariant, Granular, OnGranules
    <2>6. ChunkSeq(x) /\ ReleasedFrom(x, s, c)
        <3> HIDE DEF s, i
        <3> QED
            BY <2>5, ReleaseKeepsOrder, ReleaseOrigin
    <2> HIDE DEF x
    <2>7. IsRechunk(m_slabs, m_slabs', i, x)
        BY <2>1, <2>4, <2>5, <2>6, SlabExcept
    <2>8. Granular'
        <3>1. OnGranules(x)
            BY <2>5, <2>6 DEF ReleasedFrom, OnGranules
        <3>2. \A j \in 1 .. Len(m_slabs') :
                 /\ m_slabs'[j].baseAddress % Align = 0 /\ m_slabs'[j].baseAddress > 0
                 /\ OnGranules(m_slabs'[j].chunks)
            BY <2>7, <3>1, SMTT(30) DEF IsRechunk, HeapInvariant, Granular, OnGranules
        <3> QED
            BY <1>4, <3>2 DEF Granular, OnGranules
    <2>9. Owned'
        <3> SUFFICES ASSUME NEW j \in 1 .. Len(m_slabs'), NEW m \in 1 .. Len(m_slabs'[j].chunks),
                            ~m_slabs'[j].chunks[m].is_free
                     PROVE  OwnedChunk(j, m)'
            BY DEF Owned
        <3>1. /\ j \in 1 .. Len(m_slabs) /\ m_slabs'[j].baseAddress = m_slabs[j].baseAddress
              /\ m_slabs'[j].chunks = IF j = i THEN x ELSE m_slabs[j].chunks
            BY <2>7 DEF IsRechunk
        <3>2. ASSUME NEW k \in 1 .. Len(m_slabs[j].chunks), j # i \/ k # c,
                     m_slabs'[j].chunks[m] = m_slabs[j].chunks[k]
              PROVE  OwnedChunk(j, m)'
            <4>1. PICK y \in DOMAIN m_allocations : ~m_allocations[y].is_dedicated /\ Backs(j, k, y)
                BY <3>1, <3>2 DEF HeapInvariant, Owned, OwnedChunk
            <4>2. y # p
                <5> SUFFICES ASSUME y = p PROVE FALSE
                    OBVIOUS
                <5>1. j = i /\ s[k].offset = s[c].offset
                    BY <2>3, <4>1 DEF Backs, UsedChunk
                <5>2. k = c
                    BY <2>1, <5>1, ChunksBeginApart
                <5> QED
                    BY <3>2, <5>1, <5>2
            <4>3. y \in DOMAIN m_allocations'
                BY <1>2, <4>1, <4>2
            <4> QED
                BY <1>2, <3>1, <3>2, <4>1, <4>3, OwnerStays
        <3>3. CASE j # i
            BY <3>1, <3>2, <3>3
        <3>4. CASE j = i
            <4>1. PICK k \in 1 .. Len(s) : k # c /\ x[m] = s[k]
                BY <2>6, <3>1, <3>4 DEF ReleasedFrom
            <4> QED
                BY <3>1, <3>2, <3>4, <4>1
        <3> QED
            BY <3>3, <3>4
    <2> QED
        BY <1>2, <1>3, <2>2, <2>8, <2>9 DEF HeapInvariant, Releases
<1> QED
    BY <1>5, <1>6

\* A reset.
LEMMA CleanupHeap ==
    ASSUME HeapInvariant, Cleanup
    PROVE  HeapInvariant' /\ DOMAIN m_allocations' = {}
<1>1. AllocatorInvariant'
    BY CleanupStep DEF HeapInvariant
<1>2. CASE m_initialized
    <2>1. Len(m_slabs') = 0 /\ DOMAIN m_allocations' = {}
        BY <1>2 DEF Cleanup
    <2>2. Granular' /\ Owned'
        BY <2>1 DEF Granular, Owned
    <2> QED
        BY <1>1, <2>1, <2>2 DEF HeapInvariant
<1>3. CASE ~m_initialized
    <2>1. UNCHANGED <<m_slabs, m_allocations>> /\ m_initialized' = FALSE
        BY <1>3 DEF Cleanup
    <2>2. m_initialized \in BOOLEAN /\ DOMAIN m_allocations = {}
        BY <1>3, InvariantParts DEF HeapInvariant, Granular
    <2>3. m_initialized' = m_initialized
        BY <1>3, <2>1, <2>2
    <2> QED
        BY <2>1, <2>2, <2>3, UnchangedHeap
<1> QED
    BY <1>2, <1>3

-----------------------------------------------------------------------------
(* Every step maps to a step of DeviceHeap, or to none. *)

\* What DeviceHeap sees: the ranges of the map.
Live == {[base |-> a, size |-> m_allocations[a].size] : a \in DOMAIN m_allocations}

\* The map alone decides what is seen.
LEMMA LiveUnchanged ==
    ASSUME UNCHANGED m_allocations
    PROVE  UNCHANGED Live
BY DEF Live

\* An empty map is an empty heap.
LEMMA LiveEmpty ==
    ASSUME HeapInvariant, ~m_initialized
    PROVE  Live = {}
BY DEF HeapInvariant, Granular, Live

\* What holds because of the invariant holds in the next state as well.
LEMMA SeparatedNext == AllocatorInvariant' => LiveDisjoint'
BY InvariantSeparates, PTL

\* A grant is one range more, apart from those there were.
LEMMA LiveGrows ==
    ASSUME HeapInvariant, HeapInvariant', NEW n, NEW a, NEW size, Grants(n, a, size)
    PROVE  /\ Live' = Live \cup {[base |-> a, size |-> size]}
           /\ \A r \in Live : ~Overlap(a, size, r.base, r.size)
<1>1. /\ DOMAIN m_allocations' = DOMAIN m_allocations \cup {a}
      /\ m_allocations'[a].size = size /\ a \notin DOMAIN m_allocations
      /\ \A x \in DOMAIN m_allocations : m_allocations'[x] = m_allocations[x]
    BY DEF Grants
<1>2. Live' = Live \cup {[base |-> a, size |-> size]}
    BY <1>1 DEF Live
<1>3. LiveDisjoint'
    BY SeparatedNext DEF HeapInvariant
<1>4. ASSUME NEW x \in DOMAIN m_allocations
      PROVE  ~Overlap(a, size, x, m_allocations[x].size)
    BY <1>1, <1>3 DEF LiveDisjoint
<1>5. \A r \in Live : ~Overlap(a, size, r.base, r.size)
    BY <1>4 DEF Live
<1> QED
    BY <1>2, <1>5

\* A grant is a Grant.
LEMMA GrantRefines ==
    ASSUME HeapInvariant, HeapInvariant', NEW n \in Sizes, n > 0, ~Rejected(n),
           NEW a, Grants(n, a, AlignUp(n))
    PROVE  Heap!Malloc(n)
<1> DEFINE size == AlignUp(n)
<1>1. n \in Nat /\ MaxWord \in Nat /\ Align \in Nat
    BY AllocatorAssumption
<1>2. /\ size \in Nat /\ size <= MaxWord /\ size % Align = 0 /\ n <= size /\ size < n + Align
    BY <1>1, AlignUpRounds
<1>3. /\ Live' = Live \cup {[base |-> a, size |-> size]}
      /\ \A r \in Live : ~Overlap(a, size, r.base, r.size)
    BY LiveGrows
<1>4. /\ a \in Nat /\ a > 0 /\ a % Align = 0 /\ a + size <= MaxWord + 1
      /\ Reply("malloc", n, "Success", a)
    BY DEF Grants
<1> HIDE DEF size
<1>5. size \in {g \in Heap!Granules : n <= g /\ g < n + Align}
    BY <1>1, <1>2 DEF Heap!Granules, Heap!Word
<1>6. a \in Heap!Granules \ {0}
    <2>1. a <= MaxWord
        BY <1>1, <1>2, <1>4
    <2> QED
        BY <1>4, <2>1 DEF Heap!Granules, Heap!Word
<1>7. \A r \in Live : ~Heap!Overlap(a, size, r.base, r.size)
    BY <1>3 DEF Overlap, Heap!Overlap
<1>8. Heap!Grant(n, a, size)
    BY <1>3, <1>4, <1>7 DEF Heap!Grant, Live, Reply
<1> QED
    BY <1>5, <1>6, <1>8 DEF Heap!Malloc

\* A call that changes no allocation, and its answer.
LEMMA RefuseRefines ==
    ASSUME NEW op, NEW arg, NEW code, Reply(op, arg, code, 0), UNCHANGED m_allocations
    PROVE  Heap!Refuse(op, arg, code)
<1>1. Live' = Live
    BY LiveUnchanged
<1> QED
    BY <1>1 DEF Heap!Refuse, Reply, Live

\* cudaMalloc is a Malloc, and keeps the invariant.
LEMMA MallocRefines ==
    ASSUME HeapInvariant, NEW n \in Sizes, Malloc(n)
    PROVE  HeapInvariant' /\ Heap!Malloc(n)
<1>1. n \in Nat /\ m_initialized \in BOOLEAN
    BY AllocatorAssumption, InvariantParts DEF HeapInvariant
<1>2. CASE /\ n = 0 /\ Reply("malloc", n, "Success", 0)
           /\ UNCHANGED <<m_initialized, m_slabs, m_allocations>>
    <2>1. Heap!Refuse("malloc", n, "Success")
        BY <1>2, RefuseRefines
    <2> QED
        BY <1>1, <1>2, <2>1, UnchangedHeap DEF Heap!Malloc
<1>3. CASE n > 0 /\ InitializeFails /\ Reply("malloc", n, "InitError", 0)
    <2>1. Heap!Refuse("malloc", n, "InitError")
        BY <1>3, RefuseRefines DEF InitializeFails
    <2>2. Live = {}
        BY <1>3, LiveEmpty DEF InitializeFails
    <2> QED
        BY <1>1, <1>3, <2>1, <2>2, UnchangedHeap DEF InitializeFails, Heap!Malloc, Live
<1>4. CASE /\ n > 0 /\ m_initialized' = TRUE /\ Reply("malloc", n, "MemoryAllocation", 0)
           /\ UNCHANGED <<m_slabs, m_allocations>>
    <2>1. Heap!Refuse("malloc", n, "MemoryAllocation")
        BY <1>4, RefuseRefines
    <2> QED
        BY <1>1, <1>4, <2>1, UnchangedHeap DEF Heap!Malloc
<1>5. ASSUME n > 0, m_initialized' = TRUE, ~Rejected(n),
             \/ AllocateDedicated(n, AlignUp(n))
             \/ CarveFromSlab(n, AlignUp(n))
             \/ AlignUp(n) < SlabSize /\ AllocateSlab(n, AlignUp(n))
      PROVE  HeapInvariant' /\ Heap!Malloc(n)
    <2>1. AlignUp(n) \in Nat /\ AlignUp(n) > 0 /\ AlignUp(n) % Align = 0
        BY <1>1, <1>5, AlignUpRounds, AlignUpPositive
    <2>2. HeapInvariant' /\ \E a : Grants(n, a, AlignUp(n))
        BY <1>5, <2>1, DedicatedHeap, CarveHeap, SlabHeap
    <2> QED
        BY <1>5, <2>2, GrantRefines
<1> QED
    BY <1>2, <1>3, <1>4, <1>5 DEF Malloc, MallocLocked, DriverRefuses

\* cudaFree is a Free, and keeps the invariant.
LEMMA FreeRefines ==
    ASSUME HeapInvariant, NEW p \in Pointers, Free(p)
    PROVE  HeapInvariant' /\ Heap!Free(p)
<1>1. m_initialized \in BOOLEAN
    BY InvariantParts DEF HeapInvariant
<1>2. CASE /\ p = 0 /\ Reply("free", p, "Success", 0)
           /\ UNCHANGED <<m_initialized, m_slabs, m_allocations>>
    <2>1. Heap!Refuse("free", p, "Success")
        BY <1>2, RefuseRefines
    <2> QED
        BY <1>1, <1>2, <2>1, UnchangedHeap DEF Heap!Free
<1>3. CASE p # 0 /\ InitializeFails /\ Reply("free", p, "InitError", 0)
    <2>1. Heap!Refuse("free", p, "InitError")
        BY <1>3, RefuseRefines DEF InitializeFails
    <2>2. Live = {}
        BY <1>3, LiveEmpty DEF InitializeFails
    <2> QED
        BY <1>1, <1>3, <2>1, <2>2, UnchangedHeap DEF InitializeFails, Heap!Free, Live
<1>4. CASE /\ p # 0 /\ p \notin DOMAIN m_allocations /\ m_initialized' = TRUE
           /\ Reply("free", p, "InvalidValue", 0) /\ UNCHANGED <<m_slabs, m_allocations>>
    <2>1. Heap!Refuse("free", p, "InvalidValue")
        BY <1>4, RefuseRefines
    <2>2. \A r \in Live : r.base # p
        BY <1>4 DEF Live
    <2> QED
        BY <1>1, <1>4, <2>1, <2>2, UnchangedHeap DEF Heap!Free, Live
<1>5. CASE p # 0 /\ p \in DOMAIN m_allocations /\ m_initialized' = TRUE /\ FreeLocked(p)
    <2> DEFINE r == [base |-> p, size |-> m_allocations[p].size]
    <2>1. HeapInvariant' /\ Releases(p)
        BY <1>5, FreeHeap
    <2>2. Live' = Live \ {r}
        <3>1. \A x \in DOMAIN m_allocations : x # p => [base |-> x, size |-> m_allocations[x].size] # r
            OBVIOUS
        <3> QED
            BY <2>1, <3>1 DEF Releases, Live
    <2>3. r \in Live /\ r.base = p
        BY <1>5 DEF Live
    <2>4. ret' = [op |-> "free", arg |-> p, code |-> "Success", ptr |-> 0]
        BY <2>1 DEF Releases, Reply
    <2> HIDE DEF r
    <2> QED
        BY <2>1, <2>2, <2>3, <2>4 DEF Heap!Free, Live
<1> QED
    BY <1>2, <1>3, <1>4, <1>5 DEF Free

\* cudaDeviceReset is a Reset, and keeps the invariant.
LEMMA CleanupRefines ==
    ASSUME HeapInvariant, Cleanup
    PROVE  HeapInvariant' /\ Heap!Reset
<1>1. HeapInvariant' /\ Live' = {}
    BY CleanupHeap DEF Live
<1> QED
    BY <1>1 DEF Cleanup, Heap!Reset, Reply, Live

\* Init and every step.
LEMMA HeapSteps ==
    /\ Init => HeapInvariant /\ Heap!Init
    /\ HeapInvariant /\ [Next]_vars => HeapInvariant' /\ [Heap!Next]_<<Live, ret>>
<1>1. Init => HeapInvariant /\ Heap!Init
    <2> SUFFICES ASSUME Init PROVE HeapInvariant /\ Heap!Init
        OBVIOUS
    <2>1. Len(m_slabs) = 0 /\ DOMAIN m_allocations = {}
        BY DEF Init
    <2>2. AllocatorInvariant
        BY InitInvariant
    <2>3. Granular /\ Owned
        BY <2>1 DEF Granular, Owned
    <2>4. Live = {}
        BY <2>1 DEF Live
    <2> QED
        BY <2>2, <2>3, <2>4 DEF Init, HeapInvariant, Heap!Init, Live
<1>2. HeapInvariant /\ [Next]_vars => HeapInvariant' /\ [Heap!Next]_<<Live, ret>>
    <2> SUFFICES ASSUME HeapInvariant, [Next]_vars
                 PROVE  HeapInvariant' /\ [Heap!Next]_<<Live, ret>>
        OBVIOUS
    <2>1. ASSUME NEW n \in Sizes, Malloc(n) PROVE HeapInvariant' /\ Heap!Next
        BY <2>1, MallocRefines DEF Heap!Next
    <2>2. ASSUME NEW p \in Pointers, Free(p) PROVE HeapInvariant' /\ Heap!Next
        BY <2>2, FreeRefines DEF Heap!Next
    <2>3. CASE Cleanup
        BY <2>3, CleanupRefines DEF Heap!Next
    <2>4. CASE UNCHANGED vars
        <3>1. m_initialized \in BOOLEAN
            BY InvariantParts DEF HeapInvariant
        <3>2. UNCHANGED Live /\ UNCHANGED ret
            BY <2>4, LiveUnchanged DEF vars
        <3> QED
            BY <2>4, <3>1, <3>2, UnchangedHeap DEF vars
    <2> QED
        BY <2>1, <2>2, <2>3, <2>4 DEF Next
<1> QED
    BY <1>1, <1>2

-----------------------------------------------------------------------------
\* The allocator is the heap its callers were promised: a range that cudaMalloc
\* returns is new, aligned, as long as was asked and apart from every live one,
\* cudaFree takes back exactly it, and a call that fails changes nothing, for
\* every granule, slab size, driver and request (malloc 383-460, free 462-502,
\* cleanup 870-927).
THEOREM AllocatorImplementsHeap == Spec => ImplementsDeviceHeap
<1>1. Spec => Heap!Init /\ [][Heap!Next]_<<Live, ret>>
    BY HeapSteps, PTL DEF Spec
<1> QED
    BY <1>1, PTL DEF ImplementsDeviceHeap, Heap!Spec, Live

\* The two records agree: the reason is that each is in the other.
LEMMA InvariantMatches == HeapInvariant => RegistryMatchesChunks
<1> SUFFICES ASSUME HeapInvariant PROVE RegistryMatchesChunks
    OBVIOUS
<1> DEFINE Slabbed == {[addr |-> a, index |-> m_allocations[a].slab_index,
                        size |-> m_allocations[a].size] :
                          a \in {b \in DOMAIN m_allocations : ~m_allocations[b].is_dedicated}}
           Used(i, c) == [addr |-> m_slabs[i].baseAddress + m_slabs[i].chunks[c].offset,
                          index |-> i, size |-> m_slabs[i].chunks[c].size]
<1>1. ASSUME NEW i \in 1 .. Len(m_slabs), NEW c \in 1 .. Len(m_slabs[i].chunks),
             NEW a \in DOMAIN m_allocations, Backs(i, c, a)
      PROVE  Used(i, c) = [addr |-> a, index |-> m_allocations[a].slab_index,
                           size |-> m_allocations[a].size]
    BY <1>1 DEF Backs, UsedChunk
<1>2. UsedChunks \subseteq Slabbed
    <2> SUFFICES ASSUME NEW u \in UsedChunks PROVE u \in Slabbed
        OBVIOUS
    <2>1. PICK i \in 1 .. Len(m_slabs) :
              u \in {Used(i, c) : c \in {d \in 1 .. Len(m_slabs[i].chunks) : ~m_slabs[i].chunks[d].is_free}}
        BY DEF UsedChunks
    <2>2. PICK c \in 1 .. Len(m_slabs[i].chunks) : ~m_slabs[i].chunks[c].is_free /\ u = Used(i, c)
        BY <2>1
    <2>3. PICK a \in DOMAIN m_allocations : ~m_allocations[a].is_dedicated /\ Backs(i, c, a)
        BY <2>2 DEF HeapInvariant, Owned, OwnedChunk
    <2> QED
        BY <1>1, <2>2, <2>3
<1>3. Slabbed \subseteq UsedChunks
    <2> SUFFICES ASSUME NEW a \in DOMAIN m_allocations, ~m_allocations[a].is_dedicated
                 PROVE  [addr |-> a, index |-> m_allocations[a].slab_index,
                         size |-> m_allocations[a].size] \in UsedChunks
        OBVIOUS
    <2>1. PICK i \in 1 .. Len(m_slabs) : \E c \in 1 .. Len(m_slabs[i].chunks) : Backs(i, c, a)
        BY InvariantParts DEF HeapInvariant, AllocationsBacked
    <2>2. PICK c \in 1 .. Len(m_slabs[i].chunks) : Backs(i, c, a)
        BY <2>1
    <2>3. ~m_slabs[i].chunks[c].is_free
        BY <2>2 DEF Backs, UsedChunk
    <2>4. Used(i, c) \in UsedChunks
        BY <2>3 DEF UsedChunks
    <2> QED
        BY <1>1, <2>2, <2>4
<1>4. UsedChunks = Slabbed
    BY <1>2, <1>3
<1> QED
    BY <1>4 DEF RegistryMatchesChunks

\* The map and the chunk lists never disagree, so free() never reaches the error
\* it returns after it erased the entry (462-502).
THEOREM RegistryMatches == Spec => []RegistryMatchesChunks
BY HeapSteps, InvariantMatches, PTL DEF Spec

-----------------------------------------------------------------------------
(***************************************************************************)
(* The chunks of every slab tile it, and no two free ones are neighbours:  *)
(* carving and coalescing lose no byte and double none.  ChunksTile is     *)
(* inductive with the allocator's other invariant; the lemmas follow the   *)
(* two things the allocator does to a sequence of chunks, the split of one *)
(* and the merge of two, and between them the pairs of free neighbours     *)
(* that free() has yet to merge.                                           *)
(***************************************************************************)

\* Every byte of the slab is in a chunk.  It follows from Abut by induction along
\* the chunks; as a part of the invariant it needs none.
Covered(s, n, total) ==
    \A o \in Nat : o < total =>
        \E c \in 1 .. n : s[c].offset <= o /\ o < s[c].offset + s[c].size

\* The n chunks of s cover 0 .. total - 1, one behind the other.
Abut(s, n, total) ==
    /\ Covered(s, n, total)
    /\ n \in Nat /\ n > 0 /\ s[1].offset = 0 /\ s[n].offset + s[n].size = total
    /\ \A k \in 1 .. n - 1 : s[k + 1].offset = s[k].offset + s[k].size

\* No chunk and the next are both free, but for the pairs that begin in E.
Pairless(s, n, E) == \A k \in 1 .. n - 1 : k \notin E => ~(s[k].is_free /\ s[k + 1].is_free)

\* A slab's chunks as ChunksTile wants them.
Tiled(s, total) == Abut(s, Len(s), total) /\ Pairless(s, Len(s), {})

-----------------------------------------------------------------------------
(* A split and a merge. *)

\* IsSplit, entry by entry of the result.
SplitAt(s, r, n, c, u, v) ==
    /\ r[c] = u /\ r[c + 1] = v
    /\ \A k \in 1 .. n + 1 : (k < c => r[k] = s[k]) /\ (k > c + 1 => r[k] = s[k - 1])

\* The entries of a sequence one of whose entries was split.
LEMMA SplitEntries ==
    ASSUME NEW n \in Nat, NEW s, NEW r, NEW c \in 1 .. n, NEW u, NEW v, IsSplit(s, r, n, c, u, v)
    PROVE  SplitAt(s, r, n, c, u, v)
<1>1. ASSUME NEW k \in 1 .. n + 1, k > c + 1 PROVE r[k] = s[k - 1]
    <2>1. k - 1 \in c + 1 .. n /\ (k - 1) + 1 = k
        BY <1>1
    <2>2. r[(k - 1) + 1] = s[k - 1]
        BY <2>1 DEF IsSplit
    <2> QED
        BY <2>1, <2>2
<1> QED
    BY <1>1 DEF IsSplit, SplitAt

\* Chunks that abut still do when one is split.
LEMMA SplitAbut ==
    ASSUME NEW n \in Nat, NEW s, NEW r, NEW total \in Nat, NEW c \in 1 .. n, NEW u, NEW v,
           Sized(s, n), Abut(s, n, total), Tiles(u, v, s[c]), IsSplit(s, r, n, c, u, v)
    PROVE  Abut(r, n + 1, total)
<1>1. /\ r[c] = u /\ r[c + 1] = v
      /\ \A k \in 1 .. n + 1 : (k < c => r[k] = s[k]) /\ (k > c + 1 => r[k] = s[k - 1])
    <2>1. SplitAt(s, r, n, c, u, v)
        BY SplitEntries
    <2> QED
        BY <2>1 DEF SplitAt
<1>2. /\ u.offset = s[c].offset /\ v.offset = u.offset + u.size
      /\ v.offset + v.size = s[c].offset + s[c].size
    BY DEF Tiles, Sized
<1>3. /\ s[1].offset = 0 /\ s[n].offset + s[n].size = total /\ Covered(s, n, total)
      /\ \A k \in 1 .. n - 1 : s[k + 1].offset = s[k].offset + s[k].size
    BY DEF Abut
<1>4. r[1].offset = 0
    BY <1>1, <1>2, <1>3
<1>5. r[n + 1].offset + r[n + 1].size = total
    <2>1. CASE c = n
        BY <1>1, <1>2, <1>3, <2>1
    <2>2. CASE c # n
        <3>1. r[n + 1] = s[n]
            BY <1>1, <2>2
        <3> QED
            BY <1>3, <3>1
    <2> QED
        BY <2>1, <2>2
<1>6. ASSUME NEW k \in 1 .. n PROVE r[k + 1].offset = r[k].offset + r[k].size
    <2>1. CASE k + 1 < c
        BY <1>1, <1>3, <2>1
    <2>2. CASE k + 1 = c
        <3>1. r[k] = s[k] /\ r[k + 1] = u /\ s[k + 1] = s[c] /\ k \in 1 .. n - 1
            BY <1>1, <2>2
        <3> QED
            BY <1>2, <1>3, <3>1
    <2>3. CASE k = c
        BY <1>1, <1>2, <2>3
    <2>4. CASE k = c + 1
        <3>1. r[k] = v /\ r[k + 1] = s[c + 1] /\ c \in 1 .. n - 1
            BY <1>1, <2>4
        <3> QED
            BY <1>2, <1>3, <3>1
    <2>5. CASE k > c + 1
        <3>1. r[k] = s[k - 1] /\ r[k + 1] = s[(k - 1) + 1] /\ k - 1 \in 1 .. n - 1
            BY <1>1, <2>5
        <3> QED
            BY <1>3, <3>1
    <2> QED
        BY <2>1, <2>2, <2>3, <2>4, <2>5
<1>7. Covered(r, n + 1, total)
    <2> SUFFICES ASSUME NEW o \in Nat, o < total
                 PROVE  \E d \in 1 .. n + 1 : r[d].offset <= o /\ o < r[d].offset + r[d].size
        BY DEF Covered
    <2>1. PICK d \in 1 .. n : s[d].offset <= o /\ o < s[d].offset + s[d].size
        BY <1>3 DEF Covered
    <2>2. CASE d < c
        <3>1. d \in 1 .. n + 1 /\ r[d] = s[d]
            BY <1>1, <2>2
        <3> QED
            BY <2>1, <3>1
    <2>3. CASE d > c
        <3>1. d + 1 \in 1 .. n + 1 /\ r[d + 1] = s[d]
            BY <1>1, <2>3
        <3> QED
            BY <2>1, <3>1
    <2>4. CASE d = c
        <3>1. c \in 1 .. n + 1 /\ c + 1 \in 1 .. n + 1 /\ r[c] = u /\ r[c + 1] = v
            BY <1>1
        <3>2. u.offset <= o /\ o < v.offset + v.size /\ v.offset \in Nat
            BY <1>2, <2>1, <2>4 DEF Tiles
        <3>3. o < v.offset \/ v.offset <= o
            BY <3>2
        <3> QED
            BY <1>2, <3>1, <3>2, <3>3
    <2> QED
        BY <2>2, <2>3, <2>4
<1> QED
    BY <1>4, <1>5, <1>6, <1>7 DEF Abut

\* Splitting a free chunk in a used and a free one makes no pair.
LEMMA SplitPairless ==
    ASSUME NEW n \in Nat, NEW s, NEW r, NEW c \in 1 .. n, NEW u, NEW v,
           Pairless(s, n, {}), s[c].is_free, ~u.is_free, IsSplit(s, r, n, c, u, v)
    PROVE  Pairless(r, n + 1, {})
<1>1. /\ r[c] = u /\ r[c + 1] = v
      /\ \A k \in 1 .. n + 1 : (k < c => r[k] = s[k]) /\ (k > c + 1 => r[k] = s[k - 1])
    <2>1. SplitAt(s, r, n, c, u, v)
        BY SplitEntries
    <2> QED
        BY <2>1 DEF SplitAt
<1>2. \A k \in 1 .. n - 1 : ~(s[k].is_free /\ s[k + 1].is_free)
    BY DEF Pairless
<1>3. ASSUME NEW k \in 1 .. n PROVE ~(r[k].is_free /\ r[k + 1].is_free)
    <2>1. CASE k + 1 < c
        BY <1>1, <1>2, <2>1
    <2>2. CASE k + 1 = c \/ k = c
        BY <1>1, <2>2
    <2>3. CASE k = c + 1
        <3>1. r[k + 1] = s[c + 1] /\ c \in 1 .. n - 1
            BY <1>1, <2>3
        <3> QED
            BY <1>2, <3>1
    <2>4. CASE k > c + 1
        <3>1. r[k] = s[k - 1] /\ r[k + 1] = s[(k - 1) + 1] /\ k - 1 \in 1 .. n - 1
            BY <1>1, <2>4
        <3> QED
            BY <1>2, <3>1
    <2> QED
        BY <2>1, <2>2, <2>3, <2>4
<1> QED
    BY <1>3 DEF Pairless

\* Chunks that abut still do when two are merged.
LEMMA MergeAbut ==
    ASSUME NEW n \in Nat, NEW s, NEW r, NEW total \in Nat, NEW c \in 1 .. n, c + 1 <= n, NEW u,
           Sized(s, n), Abut(s, n, total), IsMerge(s, r, n, c, u),
           u.offset = s[c].offset, u.size = s[c].size + s[c + 1].size
    PROVE  Abut(r, n - 1, total)
<1>1. /\ \A k \in 1 .. c - 1 : r[k] = s[k]
      /\ r[c] = u
      /\ \A k \in c + 1 .. n - 1 : r[k] = s[k + 1]
    BY DEF IsMerge
<1>2. /\ s[1].offset = 0 /\ s[n].offset + s[n].size = total /\ Covered(s, n, total)
      /\ \A k \in 1 .. n - 1 : s[k + 1].offset = s[k].offset + s[k].size
    BY DEF Abut
<1>3. u.offset + u.size = s[c + 1].offset + s[c + 1].size
    <2>1. c \in 1 .. n /\ c + 1 \in 1 .. n /\ c \in 1 .. n - 1
        OBVIOUS
    <2>2. s[c].offset \in Nat /\ s[c].size \in Nat /\ s[c + 1].size \in Nat
        BY <2>1 DEF Sized
    <2>3. s[c + 1].offset = s[c].offset + s[c].size
        BY <1>2, <2>1
    <2> QED
        BY <2>2, <2>3
<1>4. r[1].offset = 0
    BY <1>1, <1>2
<1>5. r[n - 1].offset + r[n - 1].size = total
    <2>1. CASE c = n - 1
        BY <1>1, <1>2, <1>3, <2>1
    <2>2. CASE c # n - 1
        <3>1. n - 1 \in c + 1 .. n - 1 /\ (n - 1) + 1 = n
            BY <2>2
        <3>2. r[n - 1] = s[n]
            BY <1>1, <3>1
        <3> QED
            BY <1>2, <3>2
    <2> QED
        BY <2>1, <2>2
<1>6. ASSUME NEW k \in 1 .. (n - 1) - 1 PROVE r[k + 1].offset = r[k].offset + r[k].size
    <2>1. CASE k + 1 < c
        BY <1>1, <1>2, <2>1
    <2>2. CASE k + 1 = c
        <3>1. r[k] = s[k] /\ r[k + 1] = u /\ s[k + 1] = s[c] /\ k \in 1 .. n - 1
            BY <1>1, <2>2
        <3> QED
            BY <1>2, <3>1
    <2>3. CASE k = c
        <3>1. r[k + 1] = s[(c + 1) + 1] /\ c + 1 \in 1 .. n - 1
            BY <1>1, <2>3
        <3> QED
            BY <1>1, <1>2, <1>3, <2>3, <3>1
    <2>4. CASE k > c
        <3>1. r[k] = s[k + 1] /\ r[k + 1] = s[(k + 1) + 1] /\ k + 1 \in 1 .. n - 1
            BY <1>1, <2>4
        <3> QED
            BY <1>2, <3>1
    <2> QED
        BY <2>1, <2>2, <2>3, <2>4
<1>7. Covered(r, n - 1, total)
    <2> SUFFICES ASSUME NEW o \in Nat, o < total
                 PROVE  \E d \in 1 .. n - 1 : r[d].offset <= o /\ o < r[d].offset + r[d].size
        BY DEF Covered
    <2>1. PICK d \in 1 .. n : s[d].offset <= o /\ o < s[d].offset + s[d].size
        BY <1>2 DEF Covered
    <2>2. CASE d < c
        <3>1. d \in 1 .. n - 1 /\ r[d] = s[d]
            BY <1>1, <2>2
        <3> QED
            BY <2>1, <3>1
    <2>3. CASE d > c + 1
        <3>1. d - 1 \in c + 1 .. n - 1 /\ (d - 1) + 1 = d
            BY <2>3
        <3>2. r[d - 1] = s[d] /\ d - 1 \in 1 .. n - 1
            BY <1>1, <3>1
        <3> QED
            BY <2>1, <3>2
    <2>4. CASE d = c \/ d = c + 1
        <3>1. c \in 1 .. n /\ c + 1 \in 1 .. n /\ c \in 1 .. n - 1
            OBVIOUS
        <3>2. /\ s[c].offset \in Nat /\ s[c].size \in Nat
              /\ s[c + 1].offset \in Nat /\ s[c + 1].size \in Nat
            BY <3>1 DEF Sized
        <3>3. s[c + 1].offset = s[c].offset + s[c].size
            BY <1>2, <3>1
        <3>4. u.offset <= o /\ o < u.offset + u.size
            BY <1>3, <2>1, <2>4, <3>2, <3>3
        <3> QED
            BY <1>1, <3>1, <3>4
    <2> QED
        BY <2>2, <2>3, <2>4
<1> QED
    BY <1>4, <1>5, <1>6, <1>7 DEF Abut

\* Merging two free chunks makes no pair and removes one.
LEMMA MergePairless ==
    ASSUME NEW n \in Nat, NEW s, NEW r, NEW c \in 1 .. n, c + 1 <= n, NEW u, NEW E,
           E \subseteq {c - 1, c}, Pairless(s, n, E), s[c].is_free, s[c + 1].is_free,
           IsMerge(s, r, n, c, u)
    PROVE  Pairless(r, n - 1, E \ {c})
<1>1. /\ \A k \in 1 .. c - 1 : r[k] = s[k]
      /\ r[c] = u
      /\ \A k \in c + 1 .. n - 1 : r[k] = s[k + 1]
    BY DEF IsMerge
<1>2. \A k \in 1 .. n - 1 : k \notin E => ~(s[k].is_free /\ s[k + 1].is_free)
    BY DEF Pairless
<1>3. ASSUME NEW k \in 1 .. (n - 1) - 1, k \notin E \ {c}
      PROVE  ~(r[k].is_free /\ r[k + 1].is_free)
    <2>1. CASE k + 1 < c
        BY <1>1, <1>2, <2>1
    <2>2. CASE k + 1 = c
        <3>1. r[k] = s[k] /\ s[k + 1] = s[c] /\ k \in 1 .. n - 1 /\ k \notin E
            BY <1>1, <1>3, <2>2
        <3> QED
            BY <1>2, <3>1
    <2>3. CASE k = c
        <3>1. r[k + 1] = s[(c + 1) + 1] /\ c + 1 \in 1 .. n - 1 /\ c + 1 \notin E
            BY <1>1, <2>3
        <3> QED
            BY <1>2, <3>1
    <2>4. CASE k > c
        <3>1. r[k] = s[k + 1] /\ r[k + 1] = s[(k + 1) + 1] /\ k + 1 \in 1 .. n - 1 /\ k + 1 \notin E
            BY <1>1, <2>4
        <3> QED
            BY <1>2, <3>1
    <2> QED
        BY <2>1, <2>2, <2>3, <2>4
<1> QED
    BY <1>3 DEF Pairless

-----------------------------------------------------------------------------
(* What Carve, Absorb and Release do. *)

\* Replacing a chunk by one of the same place and size moves nothing.
LEMMA ReplaceAbut ==
    ASSUME NEW n \in Nat, NEW s, NEW t, NEW total, NEW c \in 1 .. n, NEW u,
           Abut(s, n, total), IsReplace(s, t, n, c, u),
           u.offset = s[c].offset, u.size = s[c].size
    PROVE  Abut(t, n, total)
<1>1. \A d \in 1 .. n : t[d].offset = s[d].offset /\ t[d].size = s[d].size
    BY DEF IsReplace
<1>2. 1 \in 1 .. n /\ n \in 1 .. n /\ \A k \in 1 .. n - 1 : k \in 1 .. n /\ k + 1 \in 1 .. n
    BY DEF Abut
<1>3. Covered(t, n, total)
    BY <1>1 DEF Abut, Covered
<1> QED
    BY <1>1, <1>2, <1>3 DEF Abut

\* Carving a free chunk keeps the slab tiled.
LEMMA CarveTiled ==
    ASSUME NEW s, ChunkSeq(s), NEW total \in Nat, Tiled(s, total),
           NEW c \in 1 .. Len(s), s[c].is_free, NEW n \in Nat, n > 0, n <= s[c].size
    PROVE  Tiled(Carve(s, c, n), total)
<1> DEFINE u    == UsedChunk(s[c].offset, n)
           used == [s EXCEPT ![c] = u]
           off  == s[c].offset + n
           left == s[c].size - n
           rem  == FreeChunk(off, left)
           ins  == InsertAt(used, c + 1, rem)
<1>1. Len(s) \in Nat /\ Sized(s, Len(s)) /\ s[c].offset \in Nat /\ s[c].size \in Nat
    BY ChunkAccess DEF Sized
<1>2. u \in Chunk /\ u.offset = s[c].offset /\ u.size = n /\ ~u.is_free
    BY <1>1, ChunkFields, SMTT(30)
<1>3. ChunkSeq(used) /\ Len(used) = Len(s) /\ IsReplace(s, used, Len(s), c, u)
    BY <1>2, ChunkExcept
<1>4. Carve(s, c, n) = IF s[c].size - n > 0 THEN ins ELSE used
    BY DEF Carve
<1>5. Abut(s, Len(s), total) /\ Pairless(s, Len(s), {})
    BY DEF Tiled
<1>6. CASE s[c].size - n > 0
    <2>1. off \in Nat /\ left \in Nat
        BY <1>1, <1>6, SMTT(30)
    <2>2. rem \in Chunk /\ rem.offset = off /\ rem.size = left
        <3> HIDE DEF off, left
        <3> QED
            BY <2>1, ChunkFields
    <2>3. Tiles(u, rem, s[c])
        BY <1>1, <1>2, <1>6, <2>1, <2>2, SMTT(30) DEF Tiles
    <2> HIDE DEF u, used, rem
    <2>4. c + 1 \in 1 .. Len(used) + 1
        BY <1>1, <1>3
    <2>5. Len(ins) = Len(used) + 1 /\ IsInsert(used, ins, Len(used), c + 1, rem)
        BY <1>3, <2>2, <2>4, ChunkInsert
    <2> HIDE DEF ins
    <2>6. Len(ins) = Len(s) + 1 /\ IsInsert(used, ins, Len(s), c + 1, rem)
        BY <1>3, <2>5
    <2>7. IsSplit(s, ins, Len(s), c, u, rem)
        BY <1>1, <1>3, <2>6, ReplaceInsertSplits
    <2>8. Abut(ins, Len(s) + 1, total)
        BY <1>1, <1>5, <2>3, <2>7, SplitAbut
    <2>9. Pairless(ins, Len(s) + 1, {})
        BY <1>1, <1>2, <1>5, <2>7, SplitPairless
    <2> QED
        BY <1>4, <1>6, <2>6, <2>8, <2>9 DEF Tiled
<1>7. CASE ~(s[c].size - n > 0)
    <2> HIDE DEF u, used
    <2>1. u.size = s[c].size
        BY <1>1, <1>2, <1>7
    <2>2. Abut(used, Len(s), total)
        BY <1>1, <1>2, <1>3, <1>5, <2>1, ReplaceAbut
    <2>3. \A d \in 1 .. Len(s) : used[d].is_free => s[d].is_free
        BY <1>2, <1>3 DEF IsReplace
    <2>4. Pairless(used, Len(s), {})
        BY <1>1, <1>5, <2>3 DEF Pairless
    <2> QED
        BY <1>3, <1>4, <1>7, <2>2, <2>4 DEF Tiled
<1> QED
    BY <1>6, <1>7

\* Absorbing free chunk c + 1 into free chunk c removes that pair and makes none.
LEMMA AbsorbTiled ==
    ASSUME NEW s, ChunkSeq(s), NEW total \in Nat, NEW c \in 1 .. Len(s), c + 1 <= Len(s),
           s[c].is_free, s[c + 1].is_free, Abut(s, Len(s), total),
           NEW E, E \subseteq {c - 1, c}, Pairless(s, Len(s), E)
    PROVE  /\ ChunkSeq(Absorb(s, c)) /\ Len(Absorb(s, c)) = Len(s) - 1
           /\ c \in 1 .. Len(Absorb(s, c)) /\ Absorb(s, c)[c].is_free
           /\ Abut(Absorb(s, c), Len(Absorb(s, c)), total)
           /\ Pairless(Absorb(s, c), Len(Absorb(s, c)), E \ {c})
<1> DEFINE both == s[c].size + s[c + 1].size
           u    == FreeChunk(s[c].offset, both)
           repl == [s EXCEPT ![c] = u]
           r    == RemoveAt(repl, c + 1)
<1>1. /\ Len(s) \in Nat /\ c + 1 \in 1 .. Len(s) /\ Sized(s, Len(s))
      /\ s[c].offset \in Nat /\ s[c].size \in Nat /\ s[c + 1].size \in Nat
    BY ChunkAccess DEF Sized
<1>2. u \in Chunk /\ u.offset = s[c].offset /\ u.size = both /\ u.is_free
    BY <1>1, MergedFields, SMTT(30)
<1>3. Absorb(s, c) = r
    BY DEF Absorb
<1> HIDE DEF u
<1>4. ChunkSeq(repl) /\ Len(repl) = Len(s) /\ IsReplace(s, repl, Len(s), c, u)
    BY <1>2, ChunkExcept
<1> HIDE DEF repl
<1>5. ChunkSeq(r) /\ Len(r) = Len(s) - 1 /\ IsRemove(repl, r, Len(s), c + 1)
    <2>1. c + 1 \in 1 .. Len(repl)
        BY <1>1, <1>4
    <2>2. ChunkSeq(r) /\ Len(r) = Len(repl) - 1 /\ IsRemove(repl, r, Len(repl), c + 1)
        BY <1>4, <2>1, ChunkRemove
    <2> QED
        BY <1>4, <2>2
<1> HIDE DEF r
<1>6. IsMerge(s, r, Len(s), c, u)
    BY <1>1, <1>4, <1>5, ReplaceRemoveMerges
<1>7. Abut(r, Len(s) - 1, total)
    BY <1>1, <1>2, <1>6, MergeAbut
<1>8. Pairless(r, Len(s) - 1, E \ {c})
    BY <1>1, <1>6, MergePairless
<1>9. c \in 1 .. Len(r) /\ r[c] = u
    BY <1>1, <1>5, <1>6 DEF IsMerge
<1> QED
    BY <1>2, <1>3, <1>5, <1>7, <1>8, <1>9

\* Releasing a chunk merges all that it may: the slab is tiled again.
LEMMA ReleaseTiled ==
    ASSUME NEW s, ChunkSeq(s), NEW total \in Nat, Tiled(s, total), NEW c \in 1 .. Len(s)
    PROVE  Tiled(Release(s, c), total)
<1> DEFINE u == FreeChunk(s[c].offset, s[c].size)
           f == [s EXCEPT ![c] = u]
           g == CoalesceForward(f, c)
           h == CoalesceBackward(g, c)
<1>1. Len(s) \in Nat /\ s[c].offset \in Nat /\ s[c].size \in Nat
    BY ChunkAccess DEF Sized
<1>2. u \in Chunk /\ u.offset = s[c].offset /\ u.size = s[c].size /\ u.is_free
    BY <1>1, ChunkFields
<1>3. Release(s, c) = h
    BY DEF Release
<1>4. Abut(s, Len(s), total) /\ Pairless(s, Len(s), {})
    BY DEF Tiled
<1> HIDE DEF u
<1>5. ChunkSeq(f) /\ Len(f) = Len(s) /\ IsReplace(s, f, Len(s), c, u)
    BY <1>2, ChunkExcept
<1> HIDE DEF f
<1>6. Abut(f, Len(f), total) /\ f[c].is_free /\ c \in 1 .. Len(f) /\ Len(f) \in Nat
    BY <1>1, <1>2, <1>4, <1>5, ReplaceAbut DEF IsReplace
<1>7. Pairless(f, Len(f), {c - 1, c})
    <2>1. ASSUME NEW k \in 1 .. Len(s) - 1, k # c - 1, k # c
          PROVE  ~(f[k].is_free /\ f[k + 1].is_free)
        <3>1. f[k] = s[k] /\ f[k + 1] = s[k + 1]
            BY <1>1, <1>5, <2>1 DEF IsReplace
        <3> QED
            BY <1>4, <3>1 DEF Pairless
    <2> QED
        BY <1>5, <2>1 DEF Pairless
<1>8. /\ ChunkSeq(g) /\ Abut(g, Len(g), total) /\ Pairless(g, Len(g), {c - 1})
      /\ c \in 1 .. Len(g) /\ g[c].is_free
    <2>1. CASE c < Len(f) /\ f[c + 1].is_free
        <3>1. g = Absorb(f, c)
            BY <2>1 DEF CoalesceForward
        <3>2. c + 1 <= Len(f)
            BY <1>6, <2>1
        <3>3. {c - 1, c} \ {c} = {c - 1}
            BY <1>6
        <3> HIDE DEF g
        <3>4. PICK E : E = {c - 1, c}
            OBVIOUS
        <3>5. /\ ChunkSeq(g) /\ Abut(g, Len(g), total) /\ Pairless(g, Len(g), E \ {c})
              /\ c \in 1 .. Len(g) /\ g[c].is_free
            BY <1>5, <1>6, <1>7, <2>1, <3>1, <3>2, <3>4, AbsorbTiled
        <3> QED
            BY <3>3, <3>4, <3>5
    <2>2. CASE ~(c < Len(f) /\ f[c + 1].is_free)
        <3>1. g = f
            BY <2>2 DEF CoalesceForward
        <3>2. ASSUME NEW k \in 1 .. Len(f) - 1, k # c - 1
              PROVE  ~(f[k].is_free /\ f[k + 1].is_free)
            BY <1>6, <1>7, <2>2, <3>2 DEF Pairless
        <3>3. Pairless(f, Len(f), {c - 1})
            BY <3>2 DEF Pairless
        <3> QED
            BY <1>5, <1>6, <3>1, <3>3
    <2> QED
        BY <2>1, <2>2
<1> HIDE DEF g
<1>9. Len(g) \in Nat
    BY <1>8, ChunkAccess
<1>10. CASE c > 1 /\ g[c - 1].is_free
    <2>1. h = Absorb(g, c - 1)
        BY <1>10 DEF CoalesceBackward
    <2>2. PICK d \in 1 .. Len(g) : d = c - 1
        BY <1>8, <1>10
    <2>3. d + 1 = c /\ d + 1 <= Len(g) /\ g[d].is_free /\ g[d + 1].is_free
        BY <1>8, <1>9, <1>10, <2>2
    <2>4. PICK E : E = {d}
        OBVIOUS
    <2>5. E \subseteq {d - 1, d} /\ E \ {d} = {} /\ Pairless(g, Len(g), E)
        BY <1>8, <2>2, <2>4
    <2> HIDE DEF h
    <2>6. Abut(h, Len(h), total) /\ Pairless(h, Len(h), E \ {d})
        BY <1>8, <2>1, <2>2, <2>3, <2>5, AbsorbTiled
    <2> QED
        BY <1>3, <2>5, <2>6 DEF Tiled
<1>11. CASE ~(c > 1 /\ g[c - 1].is_free)
    <2>1. h = g
        BY <1>11 DEF CoalesceBackward
    <2>2. ASSUME NEW k \in 1 .. Len(g) - 1 PROVE ~(g[k].is_free /\ g[k + 1].is_free)
        BY <1>8, <1>9, <1>11, <2>2 DEF Pairless
    <2>3. Pairless(g, Len(g), {})
        BY <2>2 DEF Pairless
    <2> QED
        BY <1>3, <1>8, <2>1, <2>3 DEF Tiled
<1> QED
    BY <1>10, <1>11

-----------------------------------------------------------------------------
(* The steps. *)

\* ChunksTile in the words of the lemmas above.
AllTiled == \A i \in 1 .. Len(m_slabs) : Tiled(m_slabs[i].chunks, m_slabs[i].totalSize)

\* A slab that is tiled has a chunk, and the rest is the same said otherwise.
LEMMA TiledIsTile == AllocatorInvariant /\ AllTiled => ChunksTile
<1> SUFFICES ASSUME AllocatorInvariant, AllTiled, NEW i \in 1 .. Len(m_slabs)
             PROVE  LET s == m_slabs[i].chunks IN
                    /\ s # << >> /\ s[1].offset = 0
                    /\ s[Len(s)].offset + s[Len(s)].size = m_slabs[i].totalSize
                    /\ \A c \in 1 .. Len(s) - 1 :
                          /\ s[c + 1].offset = s[c].offset + s[c].size
                          /\ ~(s[c].is_free /\ s[c + 1].is_free)
    BY DEF ChunksTile
<1> DEFINE s == m_slabs[i].chunks
<1>1. Abut(s, Len(s), m_slabs[i].totalSize) /\ Pairless(s, Len(s), {})
    BY DEF AllTiled, Tiled
<1>2. Len(s) > 0
    BY <1>1 DEF Abut
<1>3. s # << >>
    BY <1>2
<1> HIDE DEF s
<1> QED
    BY <1>1, <1>3 DEF Abut, Pairless, s

\* Giving slab i new chunks that tile it keeps every slab tiled.
LEMMA RechunkTiled ==
    ASSUME AllocatorInvariant, AllTiled, NEW i \in 1 .. Len(m_slabs), NEW x, ChunkSeq(x),
           Tiled(x, m_slabs[i].totalSize), m_slabs' = [m_slabs EXCEPT ![i].chunks = x]
    PROVE  AllTiled'
<1>1. IsRechunk(m_slabs, m_slabs', i, x)
    BY InvariantTypes, SlabExcept
<1> QED
    BY <1>1 DEF AllTiled, IsRechunk

\* Carving from a slab.
LEMMA CarveStepTiled ==
    ASSUME AllocatorInvariant, AllTiled, NEW n, NEW size \in Nat, size > 0, CarveFromSlab(n, size)
    PROVE  AllTiled'
<1>1. PICK p \in Fitting(size) : m_slabs' = [m_slabs EXCEPT ![p[1]].chunks = Carve(@, p[2], size)]
    BY DEF CarveFromSlab
<1> DEFINE i == p[1]
           c == p[2]
           s == m_slabs[i].chunks
           x == Carve(s, c, size)
<1>2. i \in 1 .. Len(m_slabs) /\ c \in 1 .. Len(s) /\ s[c].is_free /\ size <= s[c].size
    BY FittingChunk
<1>3. m_slabs' = [m_slabs EXCEPT ![i].chunks = x]
    BY <1>1
<1>4. /\ ChunkSeq(s) /\ Ordered(s, m_slabs[i].totalSize) /\ m_slabs[i].totalSize \in Nat
      /\ Tiled(s, m_slabs[i].totalSize)
    BY <1>2, InvariantTypes DEF AllTiled
<1> HIDE DEF s, c, i
<1>5. ChunkSeq(x) /\ Tiled(x, m_slabs[i].totalSize)
    BY <1>2, <1>4, CarveKeepsOrder, CarveTiled
<1> HIDE DEF x
<1> QED
    BY <1>2, <1>3, <1>5, RechunkTiled

\* A new slab.
LEMMA SlabStepTiled ==
    ASSUME AllocatorInvariant, AllTiled, NEW n, NEW size \in Nat, size > 0, size < SlabSize,
           AllocateSlab(n, size)
    PROVE  AllTiled'
<1> DEFINE whole == <<FreeChunk(0, SlabSize)>>
           x     == Carve(whole, 1, size)
<1>1. PICK b \in Bases :
         m_slabs' = Append(m_slabs, [baseAddress |-> b, totalSize |-> SlabSize, chunks |-> x])
    BY DEF AllocateSlab
<1> DEFINE slab == [baseAddress |-> b, totalSize |-> SlabSize, chunks |-> x]
<1>2. SlabSize \in Nat /\ SlabSize > 0 /\ b \in Word
    BY AllocatorAssumption DEF Word
<1>3. ChunkSeq(whole) /\ Len(whole) = 1 /\ whole[1] = FreeChunk(0, SlabSize)
    <2>1. FreeChunk(0, SlabSize) \in Chunk
        BY <1>2, ChunkFields
    <2> QED
        BY <2>1 DEF ChunkSeq
<1>4. whole[1].offset = 0 /\ whole[1].size = SlabSize /\ whole[1].is_free
    BY <1>2, <1>3, ChunkFields
<1> HIDE DEF whole
<1>5. /\ Tiled(whole, SlabSize) /\ Ordered(whole, SlabSize)
      /\ 1 \in 1 .. Len(whole) /\ size <= whole[1].size
    <2>1. Covered(whole, 1, SlabSize)
        BY <1>2, <1>4 DEF Covered
    <2> QED
        BY <1>2, <1>3, <1>4, <2>1 DEF Tiled, Abut, Pairless, Ordered, OrderedUpTo
<1>6. ChunkSeq(x) /\ Tiled(x, SlabSize)
    BY <1>2, <1>3, <1>4, <1>5, CarveKeepsOrder, CarveTiled
<1> HIDE DEF x
<1>7. slab \in Slab /\ slab.totalSize = SlabSize /\ slab.chunks = x
    BY <1>2, <1>6 DEF Slab, ChunkSeq
<1>8. m_slabs' = Append(m_slabs, slab)
    BY <1>1
<1> HIDE DEF slab
<1>9. SlabSeq(m_slabs) /\ Len(m_slabs) \in Nat
    BY InvariantTypes
<1>10. /\ Len(m_slabs') = Len(m_slabs) + 1 /\ m_slabs'[Len(m_slabs) + 1] = slab
       /\ \A j \in 1 .. Len(m_slabs) : m_slabs'[j] = m_slabs[j]
    BY <1>7, <1>8, <1>9, SlabAppend
<1>11. ASSUME NEW j \in 1 .. Len(m_slabs')
       PROVE  Tiled(m_slabs'[j].chunks, m_slabs'[j].totalSize)
    <2>1. CASE j = Len(m_slabs) + 1
        BY <1>6, <1>7, <1>10, <2>1
    <2>2. CASE j # Len(m_slabs) + 1
        <3>1. j \in 1 .. Len(m_slabs)
            BY <1>9, <1>10, <2>2
        <3> QED
            BY <1>10, <3>1 DEF AllTiled
    <2> QED
        BY <2>1, <2>2
<1> QED
    BY <1>11 DEF AllTiled

\* Freeing a live allocation.
LEMMA FreeStepTiled ==
    ASSUME AllocatorInvariant, AllTiled, NEW p \in DOMAIN m_allocations, FreeLocked(p)
    PROVE  AllTiled'
<1> DEFINE alloc == m_allocations[p]
           i     == alloc.slab_index
           s     == m_slabs[i].chunks
<1>1. CASE m_slabs' = m_slabs
    BY <1>1 DEF AllTiled
<1>2. CASE /\ ~alloc.is_dedicated
           /\ \E c \in 1 .. Len(s) : m_slabs' = [m_slabs EXCEPT ![i].chunks = Release(@, c)]
    <2>1. PICK c \in 1 .. Len(s) : m_slabs' = [m_slabs EXCEPT ![i].chunks = Release(@, c)]
        BY <1>2
    <2> DEFINE x == Release(s, c)
    <2>2. m_slabs' = [m_slabs EXCEPT ![i].chunks = x]
        BY <2>1
    <2>3. i \in 1 .. Len(m_slabs)
        BY <1>2, InvariantParts DEF AllocationsBacked, Backs
    <2>4. /\ ChunkSeq(s) /\ Ordered(s, m_slabs[i].totalSize) /\ m_slabs[i].totalSize \in Nat
          /\ Tiled(s, m_slabs[i].totalSize)
        BY <2>3, InvariantTypes DEF AllTiled
    <2> HIDE DEF s, i
    <2>5. ChunkSeq(x) /\ Tiled(x, m_slabs[i].totalSize)
        BY <2>4, ReleaseKeepsOrder, ReleaseTiled
    <2> HIDE DEF x
    <2> QED
        BY <2>2, <2>3, <2>5, RechunkTiled
<1> QED
    BY <1>1, <1>2 DEF FreeLocked

\* Every step.
LEMMA TilingSteps ==
    /\ Init => AllTiled
    /\ AllocatorInvariant /\ AllTiled /\ [Next]_vars => AllTiled'
<1>1. Init => AllTiled
    BY DEF Init, AllTiled
<1>2. ASSUME AllocatorInvariant, AllTiled, [Next]_vars
      PROVE  AllTiled'
    <2>1. CASE m_slabs' = m_slabs
        BY <1>2, <2>1 DEF AllTiled
    <2>2. ASSUME NEW n \in Sizes, Malloc(n), m_slabs' # m_slabs PROVE AllTiled'
        <3> DEFINE size == AlignUp(n)
        <3>1. n \in Nat
            BY AllocatorAssumption
        <3>2. /\ n > 0 /\ ~Rejected(n) /\ size < SlabSize
              /\ CarveFromSlab(n, size) \/ AllocateSlab(n, size)
            BY <2>2 DEF Malloc, MallocLocked, InitializeFails, AllocateDedicated, DriverRefuses
        <3>3. size \in Nat /\ size > 0
            BY <3>1, <3>2, AlignUpPositive
        <3> HIDE DEF size
        <3> QED
            BY <1>2, <3>2, <3>3, CarveStepTiled, SlabStepTiled
    <2>3. ASSUME NEW p \in Pointers, Free(p), m_slabs' # m_slabs PROVE AllTiled'
        BY <1>2, <2>3, FreeStepTiled DEF Free, InitializeFails
    <2>4. CASE Cleanup
        <3>1. m_slabs' = m_slabs \/ m_slabs' = << >>
            BY <2>4 DEF Cleanup
        <3> QED
            BY <2>1, <3>1 DEF AllTiled
    <2> QED
        BY <1>2, <2>1, <2>2, <2>3, <2>4 DEF Next, vars
<1> QED
    BY <1>1, <1>2

\* However malloc splits and free merges, a slab's chunks account for every byte
\* of it exactly once, and free space is never left in pieces: what is free and
\* adjacent is one chunk, which the first-fit search can use whole (405-432, 475-499).
THEOREM ChunksAlwaysTile == Spec => []ChunksTile
BY TilingSteps, TiledIsTile, InvariantHolds, PTL DEF Spec

-----------------------------------------------------------------------------
(* The heap grows only when it must. *)

\* The used chunks of slab i that a gap of it meets: none.
LEMMA GapMeetsNoUsed ==
    ASSUME HeapInvariant, NEW i \in 1 .. Len(m_slabs), NEW o \in Nat, NEW n \in Nat,
           \A a \in DOMAIN m_allocations :
               ~Overlap(m_slabs[i].baseAddress + o, n, a, m_allocations[a].size),
           NEW c \in 1 .. Len(m_slabs[i].chunks), ~m_slabs[i].chunks[c].is_free
    PROVE  \/ m_slabs[i].chunks[c].offset + m_slabs[i].chunks[c].size <= o
           \/ o + n <= m_slabs[i].chunks[c].offset
<1> DEFINE base == m_slabs[i].baseAddress
           off  == m_slabs[i].chunks[c].offset
           size == m_slabs[i].chunks[c].size
<1>1. PICK a \in DOMAIN m_allocations : ~m_allocations[a].is_dedicated /\ Backs(i, c, a)
    BY DEF HeapInvariant, Owned, OwnedChunk
<1>2. a = base + off /\ m_allocations[a].size = size
    BY <1>1 DEF Backs, UsedChunk
<1>3. ~Overlap(base + o, n, base + off, size)
    BY <1>2
<1>4. base \in Nat /\ off \in Nat /\ size \in Nat
    BY HeapNumbers
<1> HIDE DEF base, off, size
<1>5. off + size <= o \/ o + n <= off
    BY <1>3, <1>4 DEF Overlap
<1> QED
    BY <1>5 DEF off, size

\* When no free chunk holds n bytes, no n bytes in a row are free: a gap would
\* begin in a free chunk too short for it and so run into the next, a used one.
LEMMA NoGap ==
    ASSUME HeapInvariant, AllTiled, NEW n \in Nat, n > 0, Fitting(n) = {}
    PROVE  ~GapExists(n)
<1> SUFFICES ASSUME NEW i \in 1 .. Len(m_slabs), NEW o \in 0 .. m_slabs[i].totalSize - n,
                    \A a \in DOMAIN m_allocations :
                        ~Overlap(m_slabs[i].baseAddress + o, n, a, m_allocations[a].size)
             PROVE  FALSE
    BY DEF GapExists
<1> DEFINE s     == m_slabs[i].chunks
           total == m_slabs[i].totalSize
<1>1. /\ Len(s) \in Nat /\ total \in Nat /\ o \in Nat
      /\ \A c \in 1 .. Len(s) : s[c].offset \in Nat /\ s[c].size \in Nat /\ s[c].size > 0
    BY HeapNumbers
<1>2. o + n <= total
    BY <1>1
<1>3. Abut(s, Len(s), total) /\ Pairless(s, Len(s), {})
    BY DEF AllTiled, Tiled
<1>4. \A c \in 1 .. Len(s) : ~s[c].is_free => s[c].offset + s[c].size <= o \/ o + n <= s[c].offset
    BY <1>1, GapMeetsNoUsed
<1>5. PICK c \in 1 .. Len(s) : s[c].offset <= o /\ o < s[c].offset + s[c].size
    <2>1. o < total
        BY <1>1, <1>2
    <2> QED
        BY <1>1, <1>3, <2>1 DEF Abut, Covered
<1>6. s[c].is_free
    BY <1>1, <1>4, <1>5, SMTT(30)
<1>7. ~(s[c].size >= n)
    <2>1. <<i, c>> \in UNION {{j} \X (1 .. Len(m_slabs[j].chunks)) : j \in 1 .. Len(m_slabs)}
        OBVIOUS
    <2>2. <<i, c>>[1] = i /\ <<i, c>>[2] = c
        OBVIOUS
    <2>3. m_slabs[i].chunks[c].is_free /\ <<i, c>> \notin Fitting(n)
        BY <1>6
    <2> QED
        BY <2>1, <2>2, <2>3 DEF Fitting
<1> HIDE DEF s, total
<1>8. s[c].offset + s[c].size < o + n
    BY <1>1, <1>5, <1>7, SMTT(30)
<1>9. c # Len(s)
    BY <1>1, <1>2, <1>3, <1>8 DEF Abut
<1>10. c \in 1 .. Len(s) - 1 /\ c + 1 \in 1 .. Len(s)
    BY <1>1, <1>9
<1>11. s[c + 1].offset = s[c].offset + s[c].size /\ ~s[c + 1].is_free
    BY <1>3, <1>6, <1>10 DEF Abut, Pairless
<1>12. s[c + 1].offset + s[c + 1].size <= o \/ o + n <= s[c + 1].offset
    BY <1>4, <1>10, <1>11
<1>13. s[c].offset \in Nat /\ s[c].size \in Nat /\ s[c + 1].size \in Nat
    BY <1>1, <1>10
<1> DEFINE end  == s[c].offset + s[c].size
           next == s[c + 1].offset
           room == s[c + 1].size
<1>14. end \in Nat /\ o < end /\ end < o + n /\ next = end /\ room \in Nat
    BY <1>5, <1>8, <1>11, <1>13, SMTT(30)
<1>15. next + room <= o \/ o + n <= next
    BY <1>12
<1> HIDE DEF end, next, room
<1> QED
    BY <1>1, <1>14, <1>15

\* New chunks for a slab make no slab.
LEMMA SameSlabs ==
    ASSUME AllocatorInvariant, NEW i \in 1 .. Len(m_slabs), NEW x, ChunkSeq(x),
           m_slabs' = [m_slabs EXCEPT ![i].chunks = x]
    PROVE  Len(m_slabs') = Len(m_slabs)
BY InvariantTypes, SlabExcept DEF IsRechunk

\* Carving makes no slab.
LEMMA CarveGrowsNothing ==
    ASSUME AllocatorInvariant, NEW n, NEW size \in Nat, size > 0, CarveFromSlab(n, size)
    PROVE  Len(m_slabs') = Len(m_slabs)
<1>1. PICK p \in Fitting(size) : m_slabs' = [m_slabs EXCEPT ![p[1]].chunks = Carve(@, p[2], size)]
    BY DEF CarveFromSlab
<1> DEFINE i == p[1]
           c == p[2]
           s == m_slabs[i].chunks
           x == Carve(s, c, size)
<1>2. i \in 1 .. Len(m_slabs) /\ c \in 1 .. Len(s) /\ size <= s[c].size
    BY FittingChunk
<1>3. m_slabs' = [m_slabs EXCEPT ![i].chunks = x]
    BY <1>1
<1>4. ChunkSeq(s) /\ Ordered(s, m_slabs[i].totalSize) /\ m_slabs[i].totalSize \in Nat
    BY <1>2, InvariantTypes
<1> HIDE DEF s, c, i
<1>5. ChunkSeq(x)
    BY <1>2, <1>4, CarveKeepsOrder
<1> HIDE DEF x
<1> QED
    BY <1>2, <1>3, <1>5, SameSlabs

\* Freeing makes no slab.
LEMMA FreeGrowsNothing ==
    ASSUME AllocatorInvariant, NEW p \in DOMAIN m_allocations, FreeLocked(p)
    PROVE  Len(m_slabs') = Len(m_slabs) /\ ret'.op = "free"
<1> DEFINE alloc == m_allocations[p]
           i     == alloc.slab_index
           s     == m_slabs[i].chunks
<1>1. ret'.op = "free"
    BY DEF FreeLocked, Reply
<1>2. CASE m_slabs' = m_slabs
    BY <1>1, <1>2
<1>3. CASE /\ ~alloc.is_dedicated
           /\ \E c \in 1 .. Len(s) : m_slabs' = [m_slabs EXCEPT ![i].chunks = Release(@, c)]
    <2>1. PICK c \in 1 .. Len(s) : m_slabs' = [m_slabs EXCEPT ![i].chunks = Release(@, c)]
        BY <1>3
    <2> DEFINE x == Release(s, c)
    <2>2. m_slabs' = [m_slabs EXCEPT ![i].chunks = x]
        BY <2>1
    <2>3. i \in 1 .. Len(m_slabs)
        BY <1>3, InvariantParts DEF AllocationsBacked, Backs
    <2>4. ChunkSeq(s) /\ Ordered(s, m_slabs[i].totalSize) /\ m_slabs[i].totalSize \in Nat
        BY <2>3, InvariantTypes
    <2> HIDE DEF s, i
    <2>5. ChunkSeq(x)
        BY <2>4, ReleaseKeepsOrder
    <2> HIDE DEF x
    <2> QED
        BY <1>1, <2>2, <2>3, <2>5, SameSlabs
<1> QED
    BY <1>2, <1>3 DEF FreeLocked

\* What GrowsOnlyWhenNoGap speaks of: a new slab, or a small request refused.
GrowsOrRefuses ==
    \/ Len(m_slabs') > Len(m_slabs)
    \/ /\ ret'.op = "malloc" /\ ret'.code = "MemoryAllocation"
       /\ ~Rejected(ret'.arg) /\ AlignUp(ret'.arg) < SlabSize

\* Neither happens but in malloc, when nothing fits.
LEMMA GrowthSearched ==
    ASSUME AllocatorInvariant, Next, GrowsOrRefuses
    PROVE  /\ ret'.arg \in Nat /\ ret'.arg > 0 /\ ~Rejected(ret'.arg)
           /\ Fitting(AlignUp(ret'.arg)) = {}
<1>1. Len(m_slabs) \in Nat /\ SlabSize \in Nat
    BY InvariantTypes, AllocatorAssumption
<1>2. ASSUME NEW n \in Sizes, Malloc(n)
      PROVE  n > 0 /\ ret'.arg = n /\ ~Rejected(n) /\ Fitting(AlignUp(n)) = {}
    <2>1. n \in Nat
        BY AllocatorAssumption
    <2>2. ret'.arg = n
        <3>1. ASSUME NEW code, NEW ptr, Reply("malloc", n, code, ptr) PROVE ret'.arg = n
            BY <3>1 DEF Reply
        <3>2. ASSUME NEW size, AllocateDedicated(n, size) PROVE ret'.arg = n
            BY <3>1, <3>2 DEF AllocateDedicated
        <3>3. ASSUME NEW size, CarveFromSlab(n, size) PROVE ret'.arg = n
            BY <3>1, <3>3 DEF CarveFromSlab
        <3>4. ASSUME NEW size, AllocateSlab(n, size) PROVE ret'.arg = n
            BY <3>1, <3>4 DEF AllocateSlab
        <3> QED
            BY <1>2, <3>1, <3>2, <3>3, <3>4 DEF Malloc, MallocLocked, DriverRefuses
    <2>3. CASE n > 0 /\ ~Rejected(n)
        <3> DEFINE size == AlignUp(n)
        <3>1. size \in Nat /\ size > 0
            BY <2>1, <2>3, AlignUpPositive
        <3>2. CASE AllocateDedicated(n, size)
            BY <1>1, <3>2 DEF AllocateDedicated, Reply, GrowsOrRefuses
        <3>3. CASE CarveFromSlab(n, size)
            <4>1. ret'.code = "Success"
                BY <3>3 DEF CarveFromSlab, Reply
            <4> HIDE DEF size
            <4>2. Len(m_slabs') = Len(m_slabs)
                BY <3>1, <3>3, CarveGrowsNothing
            <4> QED
                BY <1>1, <4>1, <4>2 DEF GrowsOrRefuses
        <3>4. CASE AllocateSlab(n, size)
            BY <2>2, <2>3, <3>4 DEF AllocateSlab
        <3>5. CASE DriverRefuses(n, size)
            <4>1. m_slabs' = m_slabs /\ (size >= SlabSize \/ Fitting(size) = {})
                BY <3>5 DEF DriverRefuses
            <4>2. size < SlabSize
                BY <1>1, <2>2, <4>1 DEF GrowsOrRefuses
            <4> HIDE DEF size
            <4>3. Fitting(size) = {}
                BY <1>1, <3>1, <4>1, <4>2
            <4> QED
                BY <2>2, <2>3, <4>3 DEF size
        <3>6. CASE UNCHANGED <<m_initialized, m_slabs, m_allocations>> /\ ret'.code = "InitError"
            BY <1>1, <3>6 DEF GrowsOrRefuses
        <3> QED
            BY <1>2, <2>1, <2>3, <3>2, <3>3, <3>4, <3>5, <3>6
               DEF Malloc, MallocLocked, InitializeFails, Reply
    <2>4. CASE ~(n > 0 /\ ~Rejected(n))
        <3>1. m_slabs' = m_slabs
            BY <1>2, <2>1, <2>4 DEF Malloc, MallocLocked, InitializeFails
        <3>2. ret'.code = "MemoryAllocation" => Rejected(n)
            BY <1>2, <2>1, <2>4 DEF Malloc, InitializeFails, Reply
        <3> QED
            BY <1>1, <2>2, <3>1, <3>2 DEF GrowsOrRefuses
    <2> QED
        BY <2>2, <2>3, <2>4
<1>3. ASSUME NEW p \in Pointers, Free(p) PROVE FALSE
    <2>1. Len(m_slabs') = Len(m_slabs) /\ ret'.op = "free"
        <3>1. CASE p \in DOMAIN m_allocations /\ FreeLocked(p)
            BY <3>1, FreeGrowsNothing
        <3>2. CASE ~(p \in DOMAIN m_allocations /\ FreeLocked(p))
            BY <1>3, <3>2 DEF Free, InitializeFails, Reply
        <3> QED
            BY <3>1, <3>2
    <2> QED
        BY <1>1, <2>1 DEF GrowsOrRefuses
<1>4. CASE Cleanup
    <2>1. ret'.op = "reset" /\ (m_slabs' = m_slabs \/ m_slabs' = << >>)
        BY <1>4 DEF Cleanup, Reply
    <2> QED
        BY <1>1, <2>1 DEF GrowsOrRefuses
<1> QED
    BY <1>2, <1>3, <1>4, AllocatorAssumption DEF Next

\* A step that grows the heap or refuses a small request leaves no gap unused.
LEMMA StepLeavesNoGap ==
    ASSUME HeapInvariant, AllTiled, [Next]_vars
    PROVE  [GrowsOrRefuses => ~GapExists(AlignUp(ret'.arg))]_vars
<1> SUFFICES ASSUME Next, GrowsOrRefuses PROVE ~GapExists(AlignUp(ret'.arg))
    OBVIOUS
<1>1. /\ ret'.arg \in Nat /\ ret'.arg > 0 /\ ~Rejected(ret'.arg)
      /\ Fitting(AlignUp(ret'.arg)) = {}
    BY GrowthSearched DEF HeapInvariant
<1>2. PICK n \in Nat : n = ret'.arg
    BY <1>1
<1>3. AlignUp(n) \in Nat /\ AlignUp(n) > 0 /\ Fitting(AlignUp(n)) = {}
    BY <1>1, <1>2, AlignUpPositive
<1>4. ~GapExists(AlignUp(n))
    BY <1>3, NoGap
<1> QED
    BY <1>2, <1>4

\* malloc asks the driver for a slab, or gives up on a small request, only when no
\* run of free bytes in any slab could have served it: freeing always makes the
\* whole merged gap available again (383-460, 485-499).
THEOREM GrowsOnlyWhenItMust == Spec => GrowsOnlyWhenNoGap
<1>1. HeapInvariant => AllocatorInvariant
    BY DEF HeapInvariant
<1>2. Spec => [][GrowsOrRefuses => ~GapExists(AlignUp(ret'.arg))]_vars
    BY <1>1, HeapSteps, TilingSteps, StepLeavesNoGap, PTL DEF Spec
<1> QED
    BY <1>2, PTL DEF GrowsOnlyWhenNoGap, GrowsOrRefuses
=============================================================================
