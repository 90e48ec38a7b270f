--------------------------- MODULE MCStreamEngine ---------------------------
(***************************************************************************)
(* Small instances of StreamEngine.  Stream s1 plays the default stream,   *)
(* which the blocking copies use, s2 a stream the program created.  The     *)
(* copies of 1 fit the staging buffer, the copies of 3 make it grow.        *)
(***************************************************************************)
EXTENDS StreamEngine

CONSTANTS t1, t2, t3, s1, s2, a1, a2, v1, v2

H2D(s, dst, v, n) == [kind |-> "h2d", stream |-> s, dst |-> dst, value |-> v, count |-> n]
D2H(s, src, n) == [kind |-> "d2h", stream |-> s, src |-> src, count |-> n]
D2D(s, src, dst) == [kind |-> "d2d", stream |-> s, src |-> src, dst |-> dst]
Launch(s, dst, v) == [kind |-> "launch", stream |-> s, dst |-> dst, value |-> v]
Ask(kind, s) == [kind |-> kind, stream |-> s]

\* Every kind of call, two of each copy.
AllOps == {H2D(s1, a1, v1, 1), H2D(s2, a1, v2, 3), D2H(s1, a1, 1), D2H(s2, a2, 3),
           D2D(s2, a1, a2), Launch(s2, a1, v2),
           Ask("sync", s2), Ask("query", s2), Ask("devsync", s1)}

\* The calls that meet in the queue and on a stream.
ContendingOps == {H2D(s1, a1, v1, 1), D2H(s2, a1, 3), Launch(s2, a1, v2), D2D(s2, a1, a2),
                  Ask("sync", s2), Ask("query", s2), Ask("devsync", s1)}

\* Liveness needs no data: one value, and on one stream one call of each way of
\* waiting, the copy making the staging buffer grow the first time.
WaitingOps == {H2D(s2, a1, v1, 3), Launch(s2, a1, v1), Ask("sync", s2), Ask("query", s2),
               Ask("devsync", s1)}

\* A copy that makes the staging buffer grow, beside a launch.
GrowBesideLaunch == {H2D(s1, a1, v1, 3), Launch(s2, a1, v2)}

\* Calls for each thread: two threads making two, or three making one.
PairsOfCalls(n) == {[t \in Threads |-> IF t \in P THEN n ELSE 0] : P \in kSubset(2, Threads)}
OneCallEach == [t \in Threads |-> 1]

TwoByTwoOrThreeByOne == PairsOfCalls(2) \cup {OneCallEach}
OneEach == {OneCallEach}
TwoEach == PairsOfCalls(2)

Symmetry == Permutations(Threads)
=============================================================================
