------------------------------ MODULE SlicePool ------------------------------
(***************************************************************************)
(* The size classes of the slice pool that all connections share           *)
(* (memorypool/slicepool.go, with the three pools of jnet/tcpmsgparser.go).*)
(*                                                                         *)
(* A SlicePool holds slices of minAreaValue - 1 + k * growthValue bytes,   *)
(* one sync.Pool for each k. A slice is taken by the size that is asked    *)
(* for and put back by its capacity; the two must name the same sync.Pool. *)
(***************************************************************************)
EXTENDS Integers

PoolList == <<[minAreaValue |-> 1, maxAreaValue |-> 4096, growthValue |-> 512],
              [minAreaValue |-> 4097, maxAreaValue |-> 40960, growthValue |-> 4096],
              [minAreaValue |-> 40961, maxAreaValue |-> 417792, growthValue |-> 16384]>>

\* Integer division in Go truncates.
Quo(a, b) == IF a >= 0 THEN a \div b ELSE -((-a) \div b)

poolLen(p) == (p.maxAreaValue - p.minAreaValue + 1) \div p.growthValue

\* The size that New of the sync.Pool at pos makes.
memSize(p, pos) == (p.minAreaValue - 1) + (pos + 1) * p.growthValue

\* Fault: the position counts from 0 although sizes count from minAreaValue.
getPosByteSizeFromZero(p, size) ==
    LET pos == Quo(size, p.growthValue) IN IF pos >= poolLen(p) THEN -1 ELSE pos

\* -1 would make makeByteSlice return nil and releaseByteSlice panic; for the pools
\* of PoolList it is never returned (Position in TcpConnProofs).
getPosByteSize(p, size) ==
    LET pos == Quo(size - p.minAreaValue, p.growthValue)
    IN IF pos >= poolLen(p) THEN -1 ELSE pos

\* The loop over the pools finds the first that is large enough; 0 is none.
PoolFor(size) ==
    IF size <= PoolList[1].maxAreaValue THEN 1
    ELSE IF size <= PoolList[2].maxAreaValue THEN 2
    ELSE IF size <= PoolList[3].maxAreaValue THEN 3 ELSE 0

Pooled(size) == PoolFor(size) # 0

\* The sync.Pool that serves a size, and takes back a capacity.
Class(size) == <<PoolFor(size), getPosByteSize(PoolList[PoolFor(size)], size)>>

\* The capacity of the slice made for a size when its sync.Pool has none.
NewCap(size) ==
    IF Pooled(size) THEN memSize(PoolList[PoolFor(size)], Class(size)[2]) ELSE size
=============================================================================
