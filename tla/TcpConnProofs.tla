--------------------------- MODULE TcpConnProofs ---------------------------
(***************************************************************************)
(* The safety of TcpConn for any number of users and slices and every      *)
(* capacity of the channel, and the arithmetic of the slice pool's size    *)
(* classes for every size.                                                 *)
(*                                                                         *)
(* PanicInv: the channel is closed only together with isClosed, which is   *)
(* never reset, and every send and every close of the channel comes after  *)
(* a test of isClosed under the mutex.                                     *)
(*                                                                         *)
(* SliceInv: every slice is in exactly one place (a user, the channel, the *)
(* writer, the reader, the pool, or unused) and has the capacity of the    *)
(* class it was drawn from.                                                *)
(*                                                                         *)
(* FlowInv: what was sent, what the writer holds and what the channel      *)
(* holds are, one after the other, the messages that were accepted.        *)
(***************************************************************************)
EXTENDS TcpConn, FiniteSetTheorems, TLAPS

\* The channel is closed only on a connection that says so, and nothing has
\* panicked.
PanicInv ==
    /\ chanClosed => isClosed
    /\ ~panicked

LEMMA DoDestroyKeeps ==
  ASSUME PanicInv, doDestroy
  PROVE  PanicInv'
  BY DEF PanicInv, doDestroy

\* doWrite is called on an open connection only.
LEMMA DoWriteKeeps ==
  ASSUME PanicInv, ~isClosed, NEW b, NEW closing \in BOOLEAN, doWrite(b, closing)
  PROVE  PanicInv'
  <1>1. CASE Len(writeChan) = Cap
    BY <1>1, DoDestroyKeeps DEF doWrite
  <1>2. CASE Len(writeChan) # Cap
    <2>1. /\ panicked' = (panicked \/ chanClosed)
          /\ chanClosed' = chanClosed
      BY <1>2 DEF doWrite
    <2> QED BY <2>1 DEF PanicInv
  <1> QED BY <1>1, <1>2

LEMMA PanicInvInit == Init => PanicInv
  BY DEF Init, PanicInv

\* The steps that leave the channel and isClosed alone.
LEMMA PanicInvUnchanged ==
  ASSUME PanicInv, UNCHANGED <<connVars, panicked>>
  PROVE  PanicInv'
  BY DEF PanicInv, connVars

LEMMA PanicInvStep ==
  ASSUME PanicInv, [Next]_vars
  PROVE  PanicInv'
  <1>1. CASE \E u \in Users : \E len \in Bodies : WriteMsg(u, len)
    BY <1>1, PanicInvUnchanged DEF WriteMsg
  <1>2. CASE \E u \in Users : \E b \in Slices : FillSlice(u, b)
    BY <1>2, PanicInvUnchanged DEF FillSlice
  <1>3. CASE \E u \in Users : Write(u)
    <2> PICK u \in Users : Write(u)
      BY <1>3
    <2>1. CASE isClosed
      BY <2>1, PanicInvUnchanged DEF Write
    <2>2. CASE ~isClosed
      BY <2>2, DoWriteKeeps DEF Write
    <2> QED BY <2>1, <2>2
  <1>4. CASE Close
    BY <1>4, DoWriteKeeps DEF Close
  <1>5. CASE Destroy
    BY <1>5, DoDestroyKeeps DEF Destroy
  <1>6. CASE Receive
    BY <1>6 DEF Receive, WriterRest, PanicInv
  <1>7. CASE \E ok \in BOOLEAN : SocketWrite(ok)
    BY <1>7, PanicInvUnchanged DEF SocketWrite, WriterRest
  <1>8. CASE FreeChannel
    BY <1>8 DEF FreeChannel, WriterRest, PanicInv
  <1>9. CASE \/ ReadMsg \/ \E len \in Incoming : ReadHead(len)
             \/ \E b \in Slices : MakeBody(b)
             \/ ReadBody \/ ReadFails \/ \E more \in BOOLEAN : ReleaseReadMsg(more)
    BY <1>9, PanicInvUnchanged
    DEF ReadMsg, ReadHead, MakeBody, ReadBody, ReadFails, ReleaseReadMsg, ReaderRest
  <1>10. CASE UNCHANGED vars
    BY <1>10, PanicInvUnchanged DEF vars
  <1> QED BY <1>1, <1>2, <1>3, <1>4, <1>5, <1>6, <1>7, <1>8, <1>9, <1>10 DEF Next

\* Nobody ever sends on, or closes, a closed writeChan, however Write, Close,
\* Destroy and the end of the writer goroutine interleave.
THEOREM NeverPanics == Spec => []NoPanic
  <1>1. PanicInv => NoPanic
    BY DEF PanicInv, NoPanic
  <1> QED BY <1>1, PanicInvInit, PanicInvStep, PTL DEF Spec

-----------------------------------------------------------------------------
(* The size classes *)

\* The pool that serves a size, as the range the size is in.
LEMMA PoolForRanges ==
  ASSUME NEW size \in Nat
  PROVE  /\ size <= 4096 => PoolFor(size) = 1
         /\ 4096 < size /\ size <= 40960 => PoolFor(size) = 2
         /\ 40960 < size /\ size <= 417792 => PoolFor(size) = 3
         /\ 417792 < size => PoolFor(size) = 0
  BY SMT DEF PoolFor, PoolList

\* What the three pools do with a size in their range: the position is one of the
\* pool's, the slice made there is long enough, and no smaller one would do.
LEMMA Position ==
  ASSUME NEW size \in Nat \ {0}, size <= 417792
  PROVE  LET p == PoolList[PoolFor(size)]
             pos == getPosByteSize(p, size)
         IN /\ pos \in 0..(poolLen(p) - 1)
            /\ memSize(p, pos) \in Nat
            /\ size <= memSize(p, pos) /\ memSize(p, pos) < size + p.growthValue
            /\ PoolFor(memSize(p, pos)) = PoolFor(size)
            /\ getPosByteSize(p, memSize(p, pos)) = pos
  <1>1. CASE size <= 4096
    <2> DEFINE q == (size - 1) \div 512
               c == 0 + (q + 1) * 512
    <2>1. q \in 0..7 /\ c \in Nat /\ size <= c /\ c < size + 512 /\ 1 <= c /\ c <= 4096
          /\ (c - 1) \div 512 = q
      BY <1>1, SMT
    <2>2. PoolFor(size) = 1 /\ PoolFor(c) = 1
      BY <1>1, <2>1, PoolForRanges, SMT
    <2> HIDE DEF q, c
    <2>3. /\ PoolList[1].minAreaValue = 1 /\ PoolList[1].maxAreaValue = 4096
          /\ PoolList[1].growthValue = 512
      BY SMT DEF PoolList
    <2>4. poolLen(PoolList[1]) = 8
      BY <2>3, SMT DEF poolLen
    <2>5. getPosByteSize(PoolList[1], size) = q
      BY <1>1, <2>1, <2>3, <2>4, SMT DEF getPosByteSize, Quo, q
    <2>6. memSize(PoolList[1], q) = c
      BY <2>1, <2>3, SMT DEF memSize, c
    <2>7. getPosByteSize(PoolList[1], c) = q
      BY <2>1, <2>3, <2>4, SMT DEF getPosByteSize, Quo
    <2> QED BY <2>1, <2>2, <2>3, <2>4, <2>5, <2>6, <2>7, SMT
  <1>2. CASE 4096 < size /\ size <= 40960
    <2> DEFINE q == (size - 4097) \div 4096
               c == 4096 + (q + 1) * 4096
    <2>1. q \in 0..8 /\ c \in Nat /\ size <= c /\ c < size + 4096 /\ 4097 <= c /\ c <= 40960
          /\ (c - 4097) \div 4096 = q
      BY <1>2, SMT
    <2>2. PoolFor(size) = 2 /\ PoolFor(c) = 2
      BY <1>2, <2>1, PoolForRanges, SMT
    <2> HIDE DEF q, c
    <2>3. /\ PoolList[2].minAreaValue = 4097 /\ PoolList[2].maxAreaValue = 40960
          /\ PoolList[2].growthValue = 4096
      BY SMT DEF PoolList
    <2>4. poolLen(PoolList[2]) = 9
      BY <2>3, SMT DEF poolLen
    <2>5. getPosByteSize(PoolList[2], size) = q
      BY <1>2, <2>1, <2>3, <2>4, SMT DEF getPosByteSize, Quo, q
    <2>6. memSize(PoolList[2], q) = c
      BY <2>1, <2>3, SMT DEF memSize, c
    <2>7. getPosByteSize(PoolList[2], c) = q
      BY <2>1, <2>3, <2>4, SMT DEF getPosByteSize, Quo
    <2> QED BY <2>1, <2>2, <2>3, <2>4, <2>5, <2>6, <2>7, SMT
  <1>3. CASE 40960 < size /\ size <= 417792
    <2> DEFINE q == (size - 40961) \div 16384
               c == 40960 + (q + 1) * 16384
    <2>1. q \in 0..22 /\ c \in Nat /\ size <= c /\ c < size + 16384 /\ 40961 <= c /\ c <= 417792
          /\ (c - 40961) \div 16384 = q
      BY <1>3, SMT
    <2>2. PoolFor(size) = 3 /\ PoolFor(c) = 3
      BY <1>3, <2>1, PoolForRanges, SMT
    <2> HIDE DEF q, c
    <2>3. /\ PoolList[3].minAreaValue = 40961 /\ PoolList[3].maxAreaValue = 417792
          /\ PoolList[3].growthValue = 16384
      BY SMT DEF PoolList
    <2>4. poolLen(PoolList[3]) = 23
      BY <2>3, SMT DEF poolLen
    <2>5. getPosByteSize(PoolList[3], size) = q
      BY <1>3, <2>1, <2>3, <2>4, SMT DEF getPosByteSize, Quo, q
    <2>6. memSize(PoolList[3], q) = c
      BY <2>1, <2>3, SMT DEF memSize, c
    <2>7. getPosByteSize(PoolList[3], c) = q
      BY <2>1, <2>3, <2>4, SMT DEF getPosByteSize, Quo
    <2> QED BY <2>1, <2>2, <2>3, <2>4, <2>5, <2>6, <2>7, SMT
  <1> QED BY <1>1, <1>2, <1>3, SMT

LEMMA PooledRange ==
  ASSUME NEW size \in Nat
  PROVE  Pooled(size) <=> size <= 417792
  BY PoolForRanges DEF Pooled

\* A slice goes back to the class that the size it was made for is in.
LEMMA NewCapKeepsClass ==
  ASSUME NEW size \in Nat \ {0}, Pooled(size)
  PROVE  /\ NewCap(size) \in Nat /\ size <= NewCap(size)
         /\ Pooled(NewCap(size))
         /\ Class(NewCap(size)) = Class(size)
  <1> DEFINE p == PoolList[PoolFor(size)]
             pos == getPosByteSize(p, size)
             c == memSize(p, pos)
  <1>1. size <= 417792
    BY PooledRange
  <1>2. /\ c \in Nat /\ size <= c
        /\ PoolFor(c) = PoolFor(size)
        /\ getPosByteSize(p, c) = pos
    BY <1>1, Position
  <1>3. Class(size)[2] = pos
    BY DEF Class
  <1>4. NewCap(size) = c
    BY <1>3 DEF NewCap
  <1>5. Pooled(c)
    BY <1>2 DEF Pooled
  <1>6. Class(c) = Class(size)
    BY <1>2 DEF Class
  <1> QED BY <1>2, <1>4, <1>5, <1>6

\* MakeByteSlice and ReleaseByteSlice agree on the classes: a slice that was made for
\* any size and put back by its capacity is long enough for every size whose class it
\* is found in, and that it was made for to begin with.
THEOREM ClassesFit ==
  ASSUME NEW size \in Nat \ {0}, NEW made \in Nat \ {0}, Pooled(size), Pooled(made),
         Class(NewCap(made)) = Class(size)
  PROVE  /\ NewCap(made) \in Nat
         /\ size <= NewCap(made) /\ made <= NewCap(made)
  <1>1. /\ NewCap(made) \in Nat /\ made <= NewCap(made)
        /\ Class(NewCap(made)) = Class(made)
    BY NewCapKeepsClass
  <1>2. Class(made) = Class(size)
    BY <1>1
  <1>3. PoolFor(made) = PoolFor(size)
    BY <1>2 DEF Class
  <1>4. NewCap(made) = NewCap(size)
    BY <1>2, <1>3 DEF NewCap
  <1> QED BY <1>1, <1>4, NewCapKeepsClass

-----------------------------------------------------------------------------
(* The owners of slices *)

ConnTypeOK ==
    /\ writeChan \in Seq(Slices)
    /\ writer \in [at : {"range", "write", "close", "end"}, b : Slices]
    /\ reader \in [at : {"loop", "head", "make", "body", "use", "end"}, len : Nat, b : Slices]
    /\ asked \in [Users -> Nat] /\ held \in [Users -> Slices]
    /\ pool \in [Slices -> Nat] /\ capOf \in [Slices -> Nat]
    /\ content \in [Buffers -> Nat] /\ msgs \in Nat
    /\ accepted \in Seq(Nat) /\ sent \in Seq(Nat)
    /\ isClosed \in BOOLEAN /\ failed \in BOOLEAN

\* The writer and the reader hold a slice exactly where they are about to use one, and a
\* user that asks for one has none.
HandsOK ==
    /\ writer.b # nil <=> writer.at = "write"
    /\ reader.b # nil <=> reader.at \in {"body", "use"}
    /\ reader.at = "make" => reader.len # 0
    /\ \A u \in Users : asked[u] # 0 => held[u] = nil

\* The places a slice can be in.
InPool(b) == pool[b] = 1
InQueue(b) == \E i \in DOMAIN writeChan : writeChan[i] = b
IsHeld(b) == \E u \in Users : held[u] = b

\* A slice in use is in one place, and there once; memory not in use is in none.
Owned(b) ==
    /\ pool[b] \in 0..1
    /\ \A i, j \in DOMAIN writeChan : writeChan[i] = b /\ writeChan[j] = b => i = j
    /\ \A u, v \in Users : held[u] = b /\ held[v] = b => u = v
    /\ InPool(b) => ~InQueue(b) /\ ~IsHeld(b) /\ writer.b # b /\ reader.b # b
    /\ InQueue(b) => ~IsHeld(b) /\ writer.b # b /\ reader.b # b
    /\ IsHeld(b) => writer.b # b /\ reader.b # b
    /\ writer.b = b => reader.b # b
    /\ capOf[b] # 0 <=> InPool(b) \/ InQueue(b) \/ IsHeld(b) \/ writer.b = b \/ reader.b = b

SlicesOwned == \A b \in Buffers : Owned(b)

\* A slice has the capacity of the class it was made for, nil has none and gets into the
\* pool only by Close.
CapsOK ==
    /\ capOf[nil] = 0
    /\ pool[nil] # 0 => closedFull
    /\ \A b \in Buffers : capOf[b] # 0 /\ Pooled(capOf[b]) =>
          \E made \in Nat \ {0} : Pooled(made) /\ capOf[b] = NewCap(made)

SliceInv == ConnTypeOK /\ HandsOK /\ SlicesOwned /\ CapsOK /\ SliceFits

LEMMA SliceInvInit == Init => SliceInv
  <1> SUFFICES ASSUME Init PROVE SliceInv
    OBVIOUS
  <1> USE TcpConnAssumption
  <1>1. ConnTypeOK
    <2>1. writeChan \in Seq(Slices) /\ accepted \in Seq(Nat) /\ sent \in Seq(Nat)
      BY DEF Init
    <2>2. /\ writer \in [at : {"range", "write", "close", "end"}, b : Slices]
          /\ reader \in [at : {"loop", "head", "make", "body", "use", "end"}, len : Nat, b : Slices]
      BY DEF Init, Slices
    <2>3. /\ asked \in [Users -> Nat] /\ held \in [Users -> Slices]
          /\ pool \in [Slices -> Nat] /\ capOf \in [Slices -> Nat] /\ content \in [Buffers -> Nat]
      BY DEF Init, Slices
    <2>4. msgs \in Nat /\ isClosed \in BOOLEAN /\ failed \in BOOLEAN
      BY DEF Init
    <2> QED BY <2>1, <2>2, <2>3, <2>4 DEF ConnTypeOK
  <1>2. HandsOK /\ CapsOK /\ SliceFits
    BY DEF Init, HandsOK, CapsOK, SliceFits, Slices
  <1>3. SlicesOwned
    <2> SUFFICES ASSUME NEW b \in Buffers PROVE Owned(b)
      BY DEF SlicesOwned
    <2>1. pool[b] = 0 /\ capOf[b] = 0 /\ DOMAIN writeChan = {} /\ writer.b # b /\ reader.b # b
          /\ \A u \in Users : held[u] # b
      BY DEF Init, Slices
    <2> QED BY <2>1 DEF Owned, InPool, InQueue, IsHeld
  <1> QED BY <1>1, <1>2, <1>3 DEF SliceInv

\* freeChannel finds a slice at most once.
LEMMA QueueCount ==
  ASSUME NEW b, Owned(b)
  PROVE  Queued(b) = IF InQueue(b) THEN 1 ELSE 0
  <1> DEFINE Q == {i \in DOMAIN writeChan : writeChan[i] = b}
  <1>1. CASE InQueue(b)
    <2>1. PICK i \in DOMAIN writeChan : writeChan[i] = b
      BY <1>1 DEF InQueue
    <2>2. Q = {i}
      BY <2>1 DEF Owned
    <2> QED BY <1>1, <2>2, FS_Singleton DEF Queued
  <1>2. CASE ~InQueue(b)
    <2>1. Q = {}
      BY <1>2 DEF InQueue
    <2> QED BY <1>2, <2>1, FS_EmptySet DEF Queued
  <1> QED BY <1>1, <1>2

\* One owner, counted.
LEMMA OwnerCount ==
  ASSUME NEW b \in Buffers, Owned(b), ConnTypeOK
  PROVE  Places(b) = IF capOf[b] = 0 THEN 0 ELSE 1
  <1>1. Queued(b) = IF InQueue(b) THEN 1 ELSE 0
    BY QueueCount
  <1>2. Cardinality({u \in Users : held[u] = b}) = IF IsHeld(b) THEN 1 ELSE 0
    <2> DEFINE H == {u \in Users : held[u] = b}
    <2>1. CASE IsHeld(b)
      <3>1. PICK u \in Users : held[u] = b
        BY <2>1 DEF IsHeld
      <3>2. H = {u}
        BY <3>1 DEF Owned
      <3> QED BY <2>1, <3>2, FS_Singleton
    <2>2. CASE ~IsHeld(b)
      <3>1. H = {}
        BY <2>2 DEF IsHeld
      <3> QED BY <2>2, <3>1, FS_EmptySet
    <2> QED BY <2>1, <2>2
  <1>3. pool[b] = IF InPool(b) THEN 1 ELSE 0
    BY DEF Owned, InPool
  <1> QED BY <1>1, <1>2, <1>3 DEF Owned, Places

\* What MakeByteSlice hands out: a slice nobody has and that is long enough, or, after a
\* Close that found the channel full, nil.
LEMMA DrawSlice ==
  ASSUME SliceInv, NEW size \in Nat \ {0}, NEW b \in Slices, MakeByteSlice(size, b)
  PROVE  /\ pool' \in [Slices -> Nat] /\ capOf' \in [Slices -> Nat]
         /\ \A x \in Slices : x # b => pool'[x] = pool[x] /\ capOf'[x] = capOf[x]
         /\ b = nil => /\ pool[nil] # 0 /\ closedFull /\ capOf' = capOf
                       /\ short' = short \cup {nil}
         /\ b # nil => /\ b \in Buffers /\ b \notin short' /\ short' = short
                       /\ ~InQueue(b) /\ ~IsHeld(b) /\ writer.b # b /\ reader.b # b
                       /\ pool'[b] = 0 /\ capOf'[b] # 0
                       /\ Pooled(capOf'[b]) => \E made \in Nat \ {0} : Pooled(made) /\ capOf'[b] = NewCap(made)
  <1>1. pool \in [Slices -> Nat] /\ capOf \in [Slices -> Nat] /\ nil \in Slices /\ nil \notin Buffers
        /\ short \subseteq {nil}
    BY TcpConnAssumption DEF SliceInv, ConnTypeOK, Slices, SliceFits
  <1>2. CASE /\ Pooled(size) /\ pool[b] > 0 /\ Class(capOf[b]) = Class(size)
             /\ pool' = [pool EXCEPT ![b] = @ - 1]
             /\ UNCHANGED capOf
    <2>1. pool' \in [Slices -> Nat] /\ \A x \in Slices : x # b => pool'[x] = pool[x]
      BY <1>1, <1>2
    <2>2. CASE b = nil
      <3>1. short' = short \cup {nil}
        BY <1>2, <2>2 DEF MakeByteSlice, SliceInv, CapsOK
      <3> QED BY <1>1, <1>2, <2>1, <2>2, <3>1 DEF SliceInv, CapsOK
    <2>3. CASE b # nil
      <3>1. b \in Buffers /\ pool[b] = 1 /\ Owned(b) /\ InPool(b) /\ capOf[b] # 0
        BY <1>1, <1>2, <2>3 DEF Slices, SliceInv, SlicesOwned, Owned, InPool
      <3>2. Pooled(capOf[b])
        BY <1>2 DEF Pooled, Class
      <3>3. PICK made \in Nat \ {0} : Pooled(made) /\ capOf[b] = NewCap(made)
        BY <3>1, <3>2 DEF SliceInv, CapsOK
      <3>4. size <= capOf[b] /\ capOf[b] \in Nat
        BY <1>2, <3>3, ClassesFit
      <3>5. short' = short
        BY <1>2, <3>4 DEF MakeByteSlice
      <3> QED BY <1>1, <1>2, <2>1, <2>3, <3>1, <3>3, <3>5 DEF Owned
    <2> QED BY <2>2, <2>3
  <1>3. CASE /\ \E x \in Buffers : capOf[x] = 0
             /\ b = CHOOSE x \in Buffers : capOf[x] = 0
             /\ capOf' = [capOf EXCEPT ![b] = NewCap(size)]
             /\ UNCHANGED pool
    <2>1. b \in Buffers /\ capOf[b] = 0 /\ b # nil /\ Owned(b)
      BY <1>1, <1>3 DEF SliceInv, SlicesOwned
    <2>2. NewCap(size) \in Nat /\ size <= NewCap(size)
      BY NewCapKeepsClass DEF NewCap
    <2>3. capOf' \in [Slices -> Nat] /\ capOf'[b] = NewCap(size) /\ \A x \in Slices : x # b => capOf'[x] = capOf[x]
      BY <1>1, <1>3, <2>2
    <2>4. short' = short
      BY <2>2, <2>3 DEF MakeByteSlice
    <2>5. Pooled(capOf'[b]) => Pooled(size)
      BY <2>3 DEF NewCap
    <2>6. pool[b] = 0
      BY <2>1 DEF Owned, InPool
    <2> QED BY <1>1, <1>3, <2>1, <2>2, <2>3, <2>4, <2>5, <2>6 DEF Owned
  <1> QED BY <1>2, <1>3 DEF MakeByteSlice

\* A slice goes back from whoever held it: the user, the writer or the reader.
Releasing(b) ==
    /\ ReleaseByteSlice(b)
    /\ IsHeld(b) \/ writer.b = b \/ reader.b = b
    /\ writeChan' = writeChan
    /\ \A v \in Users : held'[v] = IF held[v] = b THEN nil ELSE held[v]
    /\ writer'.b = IF writer.b = b THEN nil ELSE writer.b
    /\ reader'.b = IF reader.b = b THEN nil ELSE reader.b
    /\ closedFull' = closedFull

LEMMA ReleaseSlice ==
  ASSUME SliceInv, NEW b \in Buffers, Releasing(b)
  PROVE  /\ pool' \in [Slices -> Nat] /\ capOf' \in [Slices -> Nat] /\ content' \in [Buffers -> Nat]
         /\ \A x \in Buffers : x # b => content'[x] = content[x]
         /\ SlicesOwned' /\ CapsOK' /\ SliceFits'
  <1>1. /\ pool \in [Slices -> Nat] /\ capOf \in [Slices -> Nat] /\ content \in [Buffers -> Nat]
        /\ b \in Slices /\ b # nil /\ nil \in Slices /\ nil \notin Buffers
    BY TcpConnAssumption DEF SliceInv, ConnTypeOK, Slices
  <1>2. Owned(b) /\ pool[b] = 0 /\ capOf[b] # 0 /\ ~InQueue(b)
    BY DEF SliceInv, SlicesOwned, Owned, InPool, Releasing
  <1>3. /\ \A x \in Slices : x # b => pool'[x] = pool[x] /\ capOf'[x] = capOf[x]
        /\ \/ pool'[b] = 1 /\ capOf'[b] = capOf[b]
           \/ pool'[b] = 0 /\ capOf'[b] = 0
        /\ pool' \in [Slices -> Nat] /\ capOf' \in [Slices -> Nat]
    <2>1. CASE Pooled(capOf[b])
      BY <1>1, <1>2, <2>1 DEF Releasing, ReleaseByteSlice
    <2>2. CASE ~Pooled(capOf[b])
      BY <1>1, <1>2, <2>2 DEF Releasing, ReleaseByteSlice
    <2> QED BY <2>1, <2>2
  <1>4. content' \in [Buffers -> Nat] /\ \A x \in Buffers : x # b => content'[x] = content[x]
    BY <1>1 DEF Releasing, ReleaseByteSlice
  <1>5. Owned(b)'
    <2>1. ~InQueue(b)' /\ ~IsHeld(b)' /\ writer'.b # b /\ reader'.b # b
      BY <1>1, <1>2 DEF Releasing, InQueue, IsHeld
    <2> QED BY <1>2, <1>3, <2>1 DEF Owned, InPool, InQueue, IsHeld, Releasing
  <1>6. ASSUME NEW x \in Buffers, x # b PROVE Owned(x)'
    <2>1. Owned(x) /\ pool'[x] = pool[x] /\ capOf'[x] = capOf[x] /\ x # nil
      BY <1>1, <1>3, <1>6 DEF SliceInv, SlicesOwned, Slices
    <2>2. /\ (writer'.b = x <=> writer.b = x) /\ (reader'.b = x <=> reader.b = x)
          /\ \A v \in Users : held'[v] = x <=> held[v] = x
      BY <1>6, <2>1 DEF Releasing
    <2>3. writeChan' = writeChan
      BY DEF Releasing
    <2> QED BY <2>1, <2>2, <2>3 DEF Owned, InPool, InQueue, IsHeld
  <1>7. CapsOK'
    <2>1. capOf'[nil] = 0 /\ (pool'[nil] # 0 => closedFull')
      BY <1>1, <1>3 DEF SliceInv, CapsOK, Releasing
    <2>2. ASSUME NEW x \in Buffers, capOf'[x] # 0 PROVE capOf'[x] = capOf[x]
      BY <1>3, <2>2 DEF Slices
    <2> QED BY <2>1, <2>2 DEF SliceInv, CapsOK
  <1>8. SliceFits'
    BY DEF SliceInv, SliceFits, Releasing, ReleaseByteSlice
  <1> QED BY <1>3, <1>4, <1>5, <1>6, <1>7, <1>8 DEF SlicesOwned

\* The pool is left alone and every slice stays where it is.
LEMMA SlicesStay ==
  ASSUME SliceInv, UNCHANGED <<poolVars, writeChan>>, closedFull => closedFull',
         \A v \in Users : held'[v] = held[v], writer'.b = writer.b, reader'.b = reader.b
  PROVE  SlicesOwned' /\ CapsOK' /\ SliceFits'
  <1>1. SlicesOwned'
    <2> SUFFICES ASSUME NEW x \in Buffers PROVE Owned(x)'
      BY DEF SlicesOwned
    <2>1. Owned(x)
      BY DEF SliceInv, SlicesOwned
    <2> QED BY <2>1 DEF Owned, InPool, InQueue, IsHeld, poolVars
  <1>2. CapsOK' /\ SliceFits'
    BY DEF SliceInv, CapsOK, SliceFits, poolVars
  <1> QED BY <1>1, <1>2

\* A slice is drawn for one user or for the reader, who had none; a slice that is too
\* short is nil and nobody's.
LEMMA DrawnOwned ==
  ASSUME SliceInv, NEW size \in Nat \ {0}, NEW b \in Slices, MakeByteSlice(size, b),
         UNCHANGED <<writeChan, writer, closedFull>>,
         b \notin short' =>
            \/ /\ reader'.b = reader.b
               /\ \E u \in Users : held[u] = nil /\ \A v \in Users : held'[v] = IF v = u THEN b ELSE held[v]
            \/ /\ reader.b = nil /\ reader'.b = b
               /\ \A v \in Users : held'[v] = held[v],
         b \in short' => reader'.b = reader.b /\ \A v \in Users : held'[v] = held[v]
  PROVE  SlicesOwned' /\ CapsOK' /\ SliceFits'
  <1>1. /\ \A x \in Slices : x # b => pool'[x] = pool[x] /\ capOf'[x] = capOf[x]
        /\ b = nil => /\ pool[nil] # 0 /\ closedFull /\ capOf' = capOf
                      /\ short' = short \cup {nil}
        /\ b # nil => /\ b \in Buffers /\ b \notin short' /\ short' = short
                      /\ ~InQueue(b) /\ ~IsHeld(b) /\ writer.b # b /\ reader.b # b
                      /\ pool'[b] = 0 /\ capOf'[b] # 0
                      /\ Pooled(capOf'[b]) => \E made \in Nat \ {0} : Pooled(made) /\ capOf'[b] = NewCap(made)
    BY DrawSlice
  <1>2. nil \in Slices /\ nil \notin Buffers /\ Buffers \subseteq Slices
    BY TcpConnAssumption DEF Slices
  <1>3. ASSUME NEW x \in Buffers, x # b PROVE Owned(x)'
    <2>1. Owned(x) /\ pool'[x] = pool[x] /\ capOf'[x] = capOf[x] /\ x # nil
      BY <1>1, <1>2, <1>3 DEF SliceInv, SlicesOwned
    <2>2. (reader'.b = x <=> reader.b = x) /\ \A v \in Users : held'[v] = x <=> held[v] = x
      BY <1>3, <2>1
    <2> QED BY <2>1, <2>2 DEF Owned, InPool, InQueue, IsHeld
  <1>4. ASSUME b \in Buffers PROVE Owned(b)'
    <2>1. /\ b # nil /\ b \notin short' /\ ~InQueue(b) /\ ~IsHeld(b) /\ writer.b # b /\ reader.b # b
          /\ pool'[b] = 0 /\ capOf'[b] # 0
      BY <1>1, <1>2, <1>4
    <2>2. ~InQueue(b)' /\ ~InPool(b)' /\ writer'.b # b
      BY <2>1 DEF InQueue, InPool
    <2>3. CASE /\ reader'.b = reader.b
               /\ \E u \in Users : held[u] = nil /\ \A v \in Users : held'[v] = IF v = u THEN b ELSE held[v]
      BY <2>1, <2>2, <2>3 DEF Owned, InQueue, IsHeld
    <2>4. CASE reader.b = nil /\ reader'.b = b /\ \A v \in Users : held'[v] = held[v]
      BY <2>1, <2>2, <2>4 DEF Owned, InQueue, IsHeld
    <2> QED BY <2>1, <2>3, <2>4
  <1>5. CapsOK'
    BY <1>1, <1>2 DEF SliceInv, CapsOK
  <1>6. SliceFits'
    BY <1>1 DEF SliceInv, SliceFits
  <1> QED BY <1>3, <1>4, <1>5, <1>6 DEF SlicesOwned

\* What a channel of slices holds after a send and after a receive.
LEMMA AppendFacts ==
  ASSUME NEW q \in Seq(Slices), NEW b \in Slices
  PROVE  /\ Append(q, b) \in Seq(Slices) /\ Len(q) \in Nat
         /\ DOMAIN q = 1..Len(q) /\ DOMAIN Append(q, b) = 1..(Len(q) + 1)
         /\ \A i \in DOMAIN q : Append(q, b)[i] = q[i]
         /\ Append(q, b)[Len(q) + 1] = b
  OBVIOUS

LEMMA ReceiveFacts ==
  ASSUME NEW q \in Seq(Slices), q # <<>>
  PROVE  /\ Tail(q) \in Seq(Slices) /\ Len(q) \in Nat \ {0}
         /\ DOMAIN q = 1..Len(q) /\ DOMAIN Tail(q) = 1..(Len(q) - 1) /\ Len(Tail(q)) = Len(q) - 1
         /\ \A i \in DOMAIN Tail(q) : Tail(q)[i] = q[i + 1]
         /\ Head(q) = q[1] /\ Head(q) \in Slices
  OBVIOUS

\* A slice moves from a user to the end of the channel; nil, from Close, is nobody's.
LEMMA SendOwned ==
  ASSUME SliceInv, NEW b \in Slices, writeChan' = Append(writeChan, b), UNCHANGED <<poolVars, writer, reader>>,
         closedFull => closedFull',
         b # nil => IsHeld(b),
         \A v \in Users : held'[v] = IF held[v] = b THEN nil ELSE held[v]
  PROVE  SlicesOwned' /\ CapsOK' /\ SliceFits'
  <1>1. /\ writeChan \in Seq(Slices) /\ Len(writeChan) \in Nat
        /\ DOMAIN writeChan = 1..Len(writeChan) /\ DOMAIN writeChan' = 1..(Len(writeChan) + 1)
        /\ \A i \in DOMAIN writeChan : writeChan'[i] = writeChan[i]
        /\ writeChan'[Len(writeChan) + 1] = b
    <2>1. writeChan \in Seq(Slices)
      BY DEF SliceInv, ConnTypeOK
    <2> QED BY <2>1, AppendFacts
  <1>2. UNCHANGED <<pool, capOf, short>>
    BY DEF poolVars
  <1>3. ASSUME NEW x \in Buffers, x # b PROVE Owned(x)'
    <2>1. Owned(x) /\ x # nil
      BY TcpConnAssumption DEF SliceInv, SlicesOwned
    <2>2. /\ \A v \in Users : held'[v] = x <=> held[v] = x
          /\ \A i \in DOMAIN writeChan' : writeChan'[i] = x <=> i \in DOMAIN writeChan /\ writeChan[i] = x
          /\ InQueue(x)' <=> InQueue(x)
      BY <1>1, <1>3, <2>1 DEF InQueue
    <2> QED BY <1>2, <2>1, <2>2 DEF Owned, InPool, IsHeld
  <1>4. ASSUME b \in Buffers PROVE Owned(b)'
    <2>1. Owned(b) /\ b # nil /\ IsHeld(b) /\ pool[b] = 0 /\ capOf[b] # 0 /\ ~InQueue(b)
          /\ writer.b # b /\ reader.b # b
      BY <1>4, TcpConnAssumption DEF SliceInv, SlicesOwned, Owned, InPool
    <2>2. ~IsHeld(b)' /\ InQueue(b)'
      BY <1>1, <2>1 DEF IsHeld, InQueue
    <2>3. \A i \in DOMAIN writeChan' : writeChan'[i] = b => i = Len(writeChan) + 1
      BY <1>1, <2>1 DEF InQueue
    <2> QED BY <1>2, <2>1, <2>2, <2>3 DEF Owned, InPool, IsHeld
  <1>5. CapsOK' /\ SliceFits'
    BY <1>2 DEF SliceInv, CapsOK, SliceFits
  <1> QED BY <1>3, <1>4, <1>5 DEF SlicesOwned

\* The writer takes what is at the head of the channel.
LEMMA ReceiveOwned ==
  ASSUME SliceInv, writeChan # <<>>, writeChan' = Tail(writeChan), writer.b = nil,
         writer'.b = Head(writeChan), UNCHANGED <<poolVars, reader, held, closedFull>>
  PROVE  SlicesOwned' /\ CapsOK' /\ SliceFits'
  <1>1. /\ writeChan \in Seq(Slices) /\ Len(writeChan) \in Nat \ {0}
        /\ DOMAIN writeChan = 1..Len(writeChan) /\ DOMAIN writeChan' = 1..(Len(writeChan) - 1)
        /\ \A i \in DOMAIN writeChan' : writeChan'[i] = writeChan[i + 1]
        /\ Head(writeChan) = writeChan[1]
    <2>1. writeChan \in Seq(Slices)
      BY DEF SliceInv, ConnTypeOK
    <2> QED BY <2>1, ReceiveFacts
  <1>2. UNCHANGED <<pool, capOf, short>>
    BY DEF poolVars
  <1>3. ASSUME NEW x \in Buffers, x # Head(writeChan) PROVE Owned(x)'
    <2>1. Owned(x) /\ x # nil
      BY TcpConnAssumption DEF SliceInv, SlicesOwned
    <2>2. \A i, j \in DOMAIN writeChan' : writeChan'[i] = x /\ writeChan'[j] = x => i = j
      BY <1>1, <2>1 DEF Owned
    <2>3. ASSUME InQueue(x) PROVE InQueue(x)'
      <3>1. PICK i \in DOMAIN writeChan : writeChan[i] = x
        BY <2>3 DEF InQueue
      <3>2. i # 1 /\ i - 1 \in DOMAIN writeChan' /\ writeChan'[i - 1] = x
        BY <1>1, <1>3, <3>1
      <3> QED BY <3>2 DEF InQueue
    <2>4. InQueue(x)' => InQueue(x)
      BY <1>1 DEF InQueue
    <2>5. writer.b # x /\ writer'.b # x
      BY <1>3, <2>1
    <2> QED BY <1>2, <2>1, <2>2, <2>3, <2>4, <2>5 DEF Owned, InPool, IsHeld
  <1>4. ASSUME NEW x \in Buffers, x = Head(writeChan) PROVE Owned(x)'
    <2>1. Owned(x) /\ x # nil /\ InQueue(x) /\ writeChan[1] = x
      BY <1>1, <1>4, TcpConnAssumption DEF SliceInv, SlicesOwned, InQueue
    <2>2. pool[x] = 0 /\ capOf[x] # 0 /\ ~IsHeld(x) /\ reader.b # x
      BY <2>1 DEF Owned, InPool
    <2>3. \A i \in DOMAIN writeChan' : writeChan'[i] # x
      BY <1>1, <2>1 DEF Owned
    <2>4. writer'.b = x
      BY <1>4
    <2> QED BY <1>2, <2>1, <2>2, <2>3, <2>4 DEF Owned, InPool, InQueue, IsHeld
  <1>5. CapsOK' /\ SliceFits'
    BY <1>2 DEF SliceInv, CapsOK, SliceFits
  <1> QED BY <1>3, <1>4, <1>5 DEF SlicesOwned

\* freeChannel empties the channel: every slice in it goes back to its pool, or to the
\* garbage collector, and nothing else moves.
LEMMA FreeOwned ==
  ASSUME SliceInv, FreeChannel
  PROVE  /\ pool' \in [Slices -> Nat] /\ capOf' \in [Slices -> Nat] /\ content' \in [Buffers -> Nat]
         /\ SlicesOwned' /\ CapsOK' /\ SliceFits'
  <1>1. /\ pool \in [Slices -> Nat] /\ capOf \in [Slices -> Nat] /\ content \in [Buffers -> Nat]
        /\ writer.b = nil /\ writer'.b = nil /\ nil \in Slices /\ nil \notin Buffers
        /\ Buffers \subseteq Slices
        /\ UNCHANGED <<reader, held, short, closedFull>> /\ DOMAIN writeChan' = {}
    BY TcpConnAssumption DEF SliceInv, ConnTypeOK, HandsOK, Slices, FreeChannel, WriterRest
  <1>2. ASSUME NEW x \in Buffers PROVE Queued(x) = IF InQueue(x) THEN 1 ELSE 0
    BY <1>2, QueueCount DEF SliceInv, SlicesOwned
  <1>3. ASSUME NEW x \in Buffers
        PROVE  /\ pool'[x] = IF InQueue(x) /\ Pooled(capOf[x]) THEN pool[x] + 1 ELSE pool[x]
               /\ capOf'[x] = IF InQueue(x) /\ ~Pooled(capOf[x]) THEN 0 ELSE capOf[x]
    <2>1. /\ pool'[x] = IF Pooled(capOf[x]) THEN pool[x] + Queued(x) ELSE pool[x]
          /\ capOf'[x] = IF Queued(x) > 0 /\ ~Pooled(capOf[x]) THEN 0 ELSE capOf[x]
      BY <1>1 DEF FreeChannel
    <2>2. pool[x] \in Nat
      BY <1>1
    <2> QED BY <1>2, <2>1, <2>2
  <1>4. pool'[nil] = pool[nil] /\ capOf'[nil] = 0
    BY <1>1 DEF FreeChannel, SliceInv, CapsOK
  <1>5. pool' \in [Slices -> Nat]
    <2>1. \A x \in Slices : pool'[x] \in Nat
      BY <1>1, <1>3, <1>4 DEF Slices
    <2>2. pool' = [x \in Slices |-> pool'[x]]
      BY DEF FreeChannel
    <2> QED BY <2>1, <2>2
  <1>6. capOf' \in [Slices -> Nat]
    BY <1>1 DEF FreeChannel
  <1>7. content' \in [Buffers -> Nat]
    BY <1>1 DEF FreeChannel
  <1>8. SlicesOwned'
    <2> SUFFICES ASSUME NEW x \in Buffers PROVE Owned(x)'
      BY DEF SlicesOwned
    <2>1. Owned(x) /\ x # nil
      BY <1>1 DEF SliceInv, SlicesOwned
    <2>2. ~InQueue(x)' /\ writer'.b # x /\ writer.b # x /\ (IsHeld(x)' <=> IsHeld(x))
      BY <1>1, <2>1 DEF InQueue, IsHeld
    <2>3. CASE InQueue(x)
      <3>1. pool[x] = 0 /\ ~IsHeld(x) /\ reader.b # x /\ capOf[x] # 0
        BY <2>1, <2>3 DEF Owned, InPool
      <3>2. \/ pool'[x] = 1 /\ capOf'[x] # 0
            \/ pool'[x] = 0 /\ capOf'[x] = 0
        BY <1>3, <2>3, <3>1
      <3> QED BY <1>1, <2>1, <2>2, <3>1, <3>2 DEF Owned, InPool, IsHeld
    <2>4. CASE ~InQueue(x)
      <3>1. pool'[x] = pool[x] /\ capOf'[x] = capOf[x]
        BY <1>3, <2>4
      <3> QED BY <1>1, <2>1, <2>2, <2>4, <3>1 DEF Owned, InPool, IsHeld
    <2> QED BY <2>3, <2>4
  <1>9. CapsOK'
    <2>1. ASSUME NEW x \in Buffers, capOf'[x] # 0 PROVE capOf'[x] = capOf[x]
      BY <1>3, <2>1
    <2> QED BY <1>1, <1>4, <2>1 DEF SliceInv, CapsOK
  <1>10. SliceFits'
    BY <1>1 DEF SliceInv, SliceFits
  <1> QED BY <1>5, <1>6, <1>7, <1>8, <1>9, <1>10

\* What the users change: the sizes asked for and the slices held.
LEMMA SliceInvWriteMsg ==
  ASSUME SliceInv, NEW u \in Users, NEW len \in Bodies, WriteMsg(u, len)
  PROVE  SliceInv'
  <1>1. SlicesOwned' /\ CapsOK' /\ SliceFits'
    BY SlicesStay DEF WriteMsg, connVars
  <1>2. len \in Nat /\ len + HeadLen \in Nat
    BY TcpConnAssumption DEF HeadLen
  <1>3. asked \in [Users -> Nat]
    BY DEF SliceInv, ConnTypeOK
  <1>4. asked' \in [Users -> Nat]
    BY <1>2, <1>3 DEF WriteMsg
  <1>5. ConnTypeOK'
    BY <1>4 DEF WriteMsg, SliceInv, ConnTypeOK, connVars, poolVars, history
  <1>6. HandsOK'
    <2>1. \A v \in Users : asked'[v] # 0 => held'[v] = nil
      BY <1>3 DEF WriteMsg, SliceInv, HandsOK
    <2> QED BY <2>1 DEF WriteMsg, SliceInv, HandsOK
  <1> QED BY <1>1, <1>5, <1>6 DEF SliceInv

LEMMA SliceInvFillSlice ==
  ASSUME SliceInv, NEW u \in Users, NEW b \in Slices, FillSlice(u, b)
  PROVE  SliceInv'
  <1>1. asked \in [Users -> Nat] /\ held \in [Users -> Slices] /\ held[u] = nil
        /\ content \in [Buffers -> Nat] /\ msgs \in Nat
    BY DEF SliceInv, ConnTypeOK, HandsOK, FillSlice
  <1>2. /\ asked[u] \in Nat \ {0} /\ MakeByteSlice(asked[u], b)
        /\ UNCHANGED <<writeChan, writer, reader, closedFull>>
    BY <1>1 DEF FillSlice, connVars
  <1>3. /\ pool' \in [Slices -> Nat] /\ capOf' \in [Slices -> Nat]
        /\ b \notin short' => b \in Buffers
    BY <1>2, DrawSlice
  <1>4. /\ b \notin short' => \A v \in Users : held'[v] = IF v = u THEN b ELSE held[v]
        /\ b \in short' => held' = held
    BY <1>1 DEF FillSlice
  <1>5. SlicesOwned' /\ CapsOK' /\ SliceFits'
    BY <1>1, <1>2, <1>4, DrawnOwned
  <1>6. /\ asked' \in [Users -> Nat] /\ msgs' \in Nat
        /\ \A v \in Users : asked'[v] = IF v = u THEN 0 ELSE asked[v]
    BY <1>1 DEF FillSlice
  <1>7. held' \in [Users -> Slices] /\ content' \in [Buffers -> Nat]
    BY <1>1, <1>3, <1>6 DEF FillSlice
  <1>8. ConnTypeOK'
    BY <1>3, <1>6, <1>7 DEF FillSlice, SliceInv, ConnTypeOK, connVars, history
  <1>9. HandsOK'
    <2>1. \A v \in Users : asked'[v] # 0 => held'[v] = nil
      BY <1>4, <1>6 DEF SliceInv, HandsOK
    <2> QED BY <1>2, <2>1 DEF SliceInv, HandsOK
  <1> QED BY <1>5, <1>8, <1>9 DEF SliceInv

\* A user whose slice is taken has it no longer, and nobody else had it.
LEMMA UserGives ==
  ASSUME SliceInv, NEW u \in Users, held[u] # nil, held' = [held EXCEPT ![u] = nil]
  PROVE  /\ held[u] \in Buffers /\ IsHeld(held[u]) /\ held' \in [Users -> Slices]
         /\ writer.b # held[u] /\ reader.b # held[u]
         /\ \A v \in Users : held'[v] = IF held[v] = held[u] THEN nil ELSE held[v]
         /\ \A v \in Users : asked[v] # 0 => held'[v] = nil
  <1>1. held \in [Users -> Slices] /\ nil \in Slices
    BY DEF SliceInv, ConnTypeOK, Slices
  <1>2. held[u] \in Buffers /\ IsHeld(held[u])
    BY <1>1 DEF Slices, IsHeld
  <1>3. Owned(held[u])
    BY <1>2 DEF SliceInv, SlicesOwned
  <1>4. \A v \in Users : held[v] = held[u] => v = u
    BY <1>3 DEF Owned
  <1>5. writer.b # held[u] /\ reader.b # held[u]
    BY <1>2, <1>3 DEF Owned
  <1>6. /\ held' \in [Users -> Slices]
        /\ \A v \in Users : held'[v] = IF v = u THEN nil ELSE held[v]
    BY <1>1
  <1> QED BY <1>1, <1>2, <1>4, <1>5, <1>6 DEF SliceInv, HandsOK

LEMMA SliceInvWrite ==
  ASSUME SliceInv, NEW u \in Users, Write(u)
  PROVE  SliceInv'
  <1>1. /\ held[u] \in Buffers /\ IsHeld(held[u]) /\ held' \in [Users -> Slices]
        /\ writer.b # held[u] /\ reader.b # held[u]
        /\ \A v \in Users : held'[v] = IF held[v] = held[u] THEN nil ELSE held[v]
        /\ \A v \in Users : asked[v] # 0 => held'[v] = nil
    BY UserGives DEF Write
  <1>2. UNCHANGED <<writer, reader, asked, msgs, sent, failed, closedFull>>
    BY DEF Write, WriteRest
  <1>3. HandsOK'
    BY <1>1, <1>2 DEF SliceInv, HandsOK
  <1>4. CASE isClosed \/ Len(writeChan) = Cap
    <2>1. /\ ReleaseByteSlice(held[u]) /\ UNCHANGED <<writeChan, accepted>>
          /\ isClosed' \in BOOLEAN
      BY <1>4 DEF Write, doWrite, doDestroy, connVars, SliceInv, ConnTypeOK
    <2>2. Releasing(held[u])
      BY <1>1, <1>2, <2>1 DEF Releasing
    <2>3. /\ pool' \in [Slices -> Nat] /\ capOf' \in [Slices -> Nat] /\ content' \in [Buffers -> Nat]
          /\ SlicesOwned' /\ CapsOK' /\ SliceFits'
      BY <1>1, <2>2, ReleaseSlice
    <2>4. ConnTypeOK'
      BY <1>1, <1>2, <2>1, <2>3 DEF SliceInv, ConnTypeOK
    <2> QED BY <1>3, <2>3, <2>4 DEF SliceInv
  <1>5. CASE ~(isClosed \/ Len(writeChan) = Cap)
    <2>1. /\ writeChan' = Append(writeChan, held[u]) /\ UNCHANGED poolVars
          /\ isClosed' = FALSE /\ accepted' = Append(accepted, content[held[u]])
      BY <1>5 DEF Write, doWrite
    <2>2. SlicesOwned' /\ CapsOK' /\ SliceFits'
      <3>1. held[u] \in Slices
        BY <1>1 DEF Slices
      <3> QED BY <1>1, <1>2, <2>1, <3>1, SendOwned
    <2>3. writeChan' \in Seq(Slices)
      BY <1>1, <2>1 DEF SliceInv, ConnTypeOK, Slices
    <2>4. accepted' \in Seq(Nat)
      BY <1>1, <2>1 DEF SliceInv, ConnTypeOK
    <2>5. ConnTypeOK'
      BY <1>1, <1>2, <2>1, <2>3, <2>4 DEF SliceInv, ConnTypeOK, poolVars
    <2> QED BY <1>3, <2>2, <2>5 DEF SliceInv
  <1> QED BY <1>4, <1>5

\* Close queues nil, which is nobody's slice, or releases it into the smallest class.
LEMMA SliceInvClose ==
  ASSUME SliceInv, Close
  PROVE  SliceInv'
  <1>1. UNCHANGED <<writer, reader, asked, held, msgs, accepted, sent, failed>> /\ nil \in Slices /\ nil \notin Buffers
    BY TcpConnAssumption DEF Close, history, Slices
  <1>2. HandsOK'
    BY <1>1 DEF SliceInv, HandsOK
  <1>3. CASE Len(writeChan) # Cap
    <2>1. /\ writeChan' = Append(writeChan, nil) /\ UNCHANGED poolVars /\ isClosed' = TRUE
          /\ closedFull => closedFull'
      BY <1>3 DEF Close, doWrite
    <2>2. SlicesOwned' /\ CapsOK' /\ SliceFits'
      BY <1>1, <2>1, SendOwned
    <2>3. writeChan' \in Seq(Slices)
      BY <1>1, <2>1 DEF SliceInv, ConnTypeOK
    <2>4. ConnTypeOK'
      BY <1>1, <2>1, <2>3 DEF SliceInv, ConnTypeOK, poolVars
    <2> QED BY <1>2, <2>2, <2>4 DEF SliceInv
  <1>4. CASE Len(writeChan) = Cap
    <2>1. ReleaseByteSlice(nil) /\ UNCHANGED writeChan /\ isClosed' = TRUE /\ closedFull' = TRUE
      BY <1>4 DEF Close, doWrite, doDestroy
    <2>2. /\ pool \in [Slices -> Nat] /\ capOf \in [Slices -> Nat] /\ content \in [Buffers -> Nat]
          /\ capOf[nil] = 0
      BY DEF SliceInv, ConnTypeOK, CapsOK
    <2>3. Pooled(capOf[nil])
      BY <2>2, PooledRange
    <2>4. /\ pool' \in [Slices -> Nat] /\ UNCHANGED <<capOf, short>>
          /\ \A x \in Buffers : pool'[x] = pool[x]
      BY <1>1, <2>1, <2>2, <2>3 DEF ReleaseByteSlice, Slices
    <2>5. content' \in [Buffers -> Nat]
      BY <2>1, <2>2 DEF ReleaseByteSlice
    <2>6. SlicesOwned'
      <3> SUFFICES ASSUME NEW x \in Buffers PROVE Owned(x)'
        BY DEF SlicesOwned
      <3>1. Owned(x)
        BY DEF SliceInv, SlicesOwned
      <3> QED BY <1>1, <2>1, <2>4, <3>1 DEF Owned, InPool, InQueue, IsHeld
    <2>7. CapsOK' /\ SliceFits'
      BY <2>1, <2>4 DEF SliceInv, CapsOK, SliceFits
    <2>8. ConnTypeOK'
      BY <1>1, <2>1, <2>4, <2>5 DEF SliceInv, ConnTypeOK
    <2> QED BY <1>2, <2>6, <2>7, <2>8 DEF SliceInv
  <1> QED BY <1>3, <1>4

LEMMA SliceInvDestroy ==
  ASSUME SliceInv, Destroy
  PROVE  SliceInv'
  <1>1. SlicesOwned' /\ CapsOK' /\ SliceFits'
    BY SlicesStay DEF Destroy
  <1>2. ConnTypeOK'
    BY DEF SliceInv, ConnTypeOK, Destroy, doDestroy, poolVars, history
  <1>3. HandsOK'
    BY DEF SliceInv, HandsOK, Destroy
  <1> QED BY <1>1, <1>2, <1>3 DEF SliceInv

LEMMA SliceInvReceive ==
  ASSUME SliceInv, Receive
  PROVE  SliceInv'
  <1>1. /\ UNCHANGED <<isClosed, poolVars, reader, asked, held, msgs, accepted, sent, failed, closedFull>>
        /\ writer.at = "range" /\ writer.b = nil
    BY DEF Receive, WriterRest, SliceInv, HandsOK
  <1>2. CASE writeChan # <<>>
    <2>1. /\ writeChan' = Tail(writeChan) /\ writer'.b = Head(writeChan)
          /\ writer'.b # nil <=> writer'.at = "write"
      BY <1>2 DEF Receive
    <2>2. SlicesOwned' /\ CapsOK' /\ SliceFits'
      BY <1>1, <1>2, <2>1, ReceiveOwned
    <2>3. writeChan' \in Seq(Slices) /\ Head(writeChan) \in Slices
      BY <1>2, <2>1, ReceiveFacts DEF SliceInv, ConnTypeOK
    <2>4. writer' \in [at : {"range", "write", "close", "end"}, b : Slices]
      BY <1>2, <2>3 DEF Receive, Slices
    <2>5. ConnTypeOK'
      BY <1>1, <2>3, <2>4 DEF SliceInv, ConnTypeOK, poolVars
    <2>6. HandsOK'
      BY <1>1, <2>1 DEF SliceInv, HandsOK
    <2> QED BY <2>2, <2>5, <2>6 DEF SliceInv
  <1>3. CASE writeChan = <<>>
    <2>1. writeChan' = writeChan /\ writer' = [at |-> "close", b |-> nil]
      BY <1>3 DEF Receive
    <2>2. SlicesOwned' /\ CapsOK' /\ SliceFits'
      BY <1>1, <2>1, SlicesStay
    <2>3. writer' \in [at : {"range", "write", "close", "end"}, b : Slices]
      BY <2>1 DEF Slices
    <2>4. ConnTypeOK'
      BY <1>1, <2>1, <2>3 DEF SliceInv, ConnTypeOK, poolVars
    <2>5. HandsOK'
      BY <1>1, <2>1 DEF SliceInv, HandsOK
    <2> QED BY <2>2, <2>4, <2>5 DEF SliceInv
  <1> QED BY <1>2, <1>3

LEMMA SliceInvSocketWrite ==
  ASSUME SliceInv, NEW ok \in BOOLEAN, SocketWrite(ok)
  PROVE  SliceInv'
  <1>1. writer.at = "write" /\ writer.b # nil /\ writer.b \in Buffers
    BY DEF SocketWrite, SliceInv, HandsOK, ConnTypeOK, Slices
  <1>2. /\ UNCHANGED <<writeChan, isClosed, reader, asked, held, msgs, accepted, closedFull>>
        /\ ReleaseByteSlice(writer.b)
    BY DEF SocketWrite, WriterRest, connVars
  <1>3. writer' = [at |-> IF ok THEN "range" ELSE "close", b |-> nil]
    BY DEF SocketWrite
  <1>4. Owned(writer.b)
    BY <1>1 DEF SliceInv, SlicesOwned
  <1>5. reader.b # writer.b /\ \A v \in Users : held[v] # writer.b
    BY <1>4 DEF Owned, IsHeld
  <1>6. Releasing(writer.b)
    BY <1>2, <1>3, <1>5 DEF Releasing
  <1>7. /\ pool' \in [Slices -> Nat] /\ capOf' \in [Slices -> Nat] /\ content' \in [Buffers -> Nat]
        /\ SlicesOwned' /\ CapsOK' /\ SliceFits'
    BY <1>1, <1>6, ReleaseSlice
  <1>8. sent' \in Seq(Nat) /\ failed' \in BOOLEAN
    <2>1. sent \in Seq(Nat) /\ content[writer.b] \in Nat
      BY <1>1 DEF SliceInv, ConnTypeOK
    <2> QED BY <2>1 DEF SocketWrite
  <1>9. writer' \in [at : {"range", "write", "close", "end"}, b : Slices]
    BY <1>3 DEF Slices
  <1>10. ConnTypeOK'
    BY <1>2, <1>7, <1>8, <1>9 DEF SliceInv, ConnTypeOK
  <1>11. HandsOK'
    BY <1>2, <1>3 DEF SliceInv, HandsOK
  <1> QED BY <1>7, <1>10, <1>11 DEF SliceInv

LEMMA SliceInvFreeChannel ==
  ASSUME SliceInv, FreeChannel
  PROVE  SliceInv'
  <1>1. /\ pool' \in [Slices -> Nat] /\ capOf' \in [Slices -> Nat] /\ content' \in [Buffers -> Nat]
        /\ SlicesOwned' /\ CapsOK' /\ SliceFits'
    BY FreeOwned
  <1>2. /\ UNCHANGED <<reader, asked, held, msgs, accepted, sent, failed, closedFull>>
        /\ writer' = [at |-> "end", b |-> nil] /\ writeChan' = <<>> /\ isClosed' = TRUE
    BY DEF FreeChannel, WriterRest
  <1>3. writer' \in [at : {"range", "write", "close", "end"}, b : Slices]
    BY <1>2 DEF Slices
  <1>4. writeChan' \in Seq(Slices)
    BY <1>2
  <1>5. ConnTypeOK'
    BY <1>1, <1>2, <1>3, <1>4 DEF SliceInv, ConnTypeOK
  <1>6. HandsOK'
    BY <1>2 DEF SliceInv, HandsOK
  <1> QED BY <1>1, <1>5, <1>6 DEF SliceInv

\* The reader's steps change the reader and the pool only.
LEMMA ReaderTypes ==
  ASSUME SliceInv, ReaderRest,
         reader' \in [at : {"loop", "head", "make", "body", "use", "end"}, len : Nat, b : Slices],
         pool' \in [Slices -> Nat], capOf' \in [Slices -> Nat], content' \in [Buffers -> Nat],
         reader'.b # nil <=> reader'.at \in {"body", "use"},
         reader'.at = "make" => reader'.len # 0
  PROVE  ConnTypeOK' /\ HandsOK'
  <1>1. UNCHANGED <<writeChan, isClosed, writer, asked, held, msgs, accepted, sent, failed>>
    BY DEF ReaderRest, connVars, history
  <1>2. ConnTypeOK'
    BY <1>1 DEF SliceInv, ConnTypeOK
  <1>3. HandsOK'
    BY <1>1 DEF SliceInv, HandsOK
  <1> QED BY <1>2, <1>3

\* The reader goes on without touching the pool.
LEMMA SliceInvReaderMoves ==
  ASSUME SliceInv, ReadMsg \/ (\E len \in Incoming : ReadHead(len)) \/ ReadBody
  PROVE  SliceInv'
  <1>1. reader \in [at : {"loop", "head", "make", "body", "use", "end"}, len : Nat, b : Slices]
        /\ (reader.b # nil <=> reader.at \in {"body", "use"})
    BY DEF SliceInv, ConnTypeOK, HandsOK
  <1>2. UNCHANGED poolVars /\ ReaderRest
    BY DEF ReadMsg, ReadHead, ReadBody
  <1>3. /\ reader' \in [at : {"loop", "head", "make", "body", "use", "end"}, len : Nat, b : Slices]
        /\ reader'.b = reader.b
        /\ reader'.b # nil <=> reader'.at \in {"body", "use"}
        /\ reader'.at = "make" => reader'.len # 0
    <2>1. CASE ReadMsg
      BY <1>1, <2>1 DEF ReadMsg
    <2>2. CASE \E len \in Incoming : ReadHead(len)
      <3> PICK len \in Incoming : ReadHead(len)
        BY <2>2
      <3>1. len \in Nat /\ (LenOK(len) => len # 0)
        BY TcpConnAssumption DEF LenOK
      <3>2. CASE LenOK(len)
        BY <1>1, <3>1, <3>2 DEF ReadHead
      <3>3. CASE ~LenOK(len)
        BY <1>1, <3>3 DEF ReadHead
      <3> QED BY <3>2, <3>3
    <2>3. CASE ReadBody
      BY <1>1, <2>3 DEF ReadBody
    <2> QED BY <2>1, <2>2, <2>3
  <1>4. SlicesOwned' /\ CapsOK' /\ SliceFits'
    BY <1>2, <1>3, SlicesStay DEF ReaderRest, connVars
  <1>5. pool' \in [Slices -> Nat] /\ capOf' \in [Slices -> Nat] /\ content' \in [Buffers -> Nat]
    BY <1>2 DEF poolVars, SliceInv, ConnTypeOK
  <1> QED BY <1>2, <1>3, <1>4, <1>5, ReaderTypes DEF SliceInv

LEMMA SliceInvMakeBody ==
  ASSUME SliceInv, NEW b \in Slices, MakeBody(b)
  PROVE  SliceInv'
  <1>1. /\ reader.len \in Nat \ {0} /\ MakeByteSlice(reader.len, b) /\ reader.b = nil
        /\ content \in [Buffers -> Nat] /\ nil \in Slices
    BY DEF MakeBody, SliceInv, ConnTypeOK, HandsOK, Slices
  <1>2. /\ pool' \in [Slices -> Nat] /\ capOf' \in [Slices -> Nat]
        /\ b \notin short' => b \in Buffers /\ b # nil
        /\ b \in short' => b = nil
    BY <1>1, DrawSlice, TcpConnAssumption
  <1>3. UNCHANGED <<writeChan, writer, held, closedFull>> /\ ReaderRest
    BY DEF MakeBody, ReaderRest, connVars
  <1>4. CASE b \in short'
    <2>1. reader' = [at |-> "end", len |-> 0, b |-> nil] /\ content' = content
      BY <1>4 DEF MakeBody
    <2>2. SlicesOwned' /\ CapsOK' /\ SliceFits'
      BY <1>1, <1>3, <1>4, <2>1, DrawnOwned
    <2> QED BY <1>1, <1>2, <1>3, <2>1, <2>2, ReaderTypes DEF SliceInv
  <1>5. CASE b \notin short'
    <2>1. reader' = [at |-> "body", len |-> 0, b |-> b] /\ content' = [content EXCEPT ![b] = 0]
      BY <1>5 DEF MakeBody
    <2>2. SlicesOwned' /\ CapsOK' /\ SliceFits'
      BY <1>1, <1>3, <1>5, <2>1, DrawnOwned
    <2>3. content' \in [Buffers -> Nat]
      BY <1>1, <2>1
    <2> QED BY <1>1, <1>2, <1>3, <1>5, <2>1, <2>2, <2>3, ReaderTypes DEF SliceInv
  <1> QED BY <1>4, <1>5

\* The reader gives its slice back.
LEMMA ReaderReleases ==
  ASSUME SliceInv, ReleaseByteSlice(reader.b), ReaderRest, reader.b # nil, NEW at \in {"loop", "end"},
         reader' = [at |-> at, len |-> 0, b |-> nil]
  PROVE  SliceInv'
  <1>1. reader.b \in Buffers /\ nil \in Slices
    BY DEF SliceInv, ConnTypeOK, Slices
  <1>2. UNCHANGED <<writeChan, writer, held, closedFull>>
    BY DEF ReaderRest, connVars
  <1>3. Owned(reader.b)
    BY <1>1 DEF SliceInv, SlicesOwned
  <1>4. writer.b # reader.b /\ \A v \in Users : held[v] # reader.b
    BY <1>3 DEF Owned, IsHeld
  <1>5. Releasing(reader.b)
    BY <1>2, <1>4 DEF Releasing
  <1>6. /\ pool' \in [Slices -> Nat] /\ capOf' \in [Slices -> Nat] /\ content' \in [Buffers -> Nat]
        /\ SlicesOwned' /\ CapsOK' /\ SliceFits'
    BY <1>1, <1>5, ReleaseSlice
  <1> QED BY <1>1, <1>6, ReaderTypes DEF SliceInv

LEMMA SliceInvReadFails ==
  ASSUME SliceInv, ReadFails
  PROVE  SliceInv'
  <1>1. reader' = [at |-> "end", len |-> 0, b |-> nil] /\ ReaderRest
    BY DEF ReadFails
  <1>2. CASE reader.at = "body"
    <2>1. reader.b # nil /\ ReleaseByteSlice(reader.b)
      BY <1>2 DEF ReadFails, SliceInv, HandsOK
    <2> QED BY <1>1, <2>1, ReaderReleases
  <1>3. CASE reader.at # "body"
    <2>1. reader.b = nil /\ UNCHANGED poolVars /\ nil \in Slices
      BY <1>3 DEF ReadFails, SliceInv, HandsOK, Slices
    <2>2. SlicesOwned' /\ CapsOK' /\ SliceFits'
      BY <1>1, <2>1, SlicesStay DEF ReaderRest, connVars
    <2>3. pool' \in [Slices -> Nat] /\ capOf' \in [Slices -> Nat] /\ content' \in [Buffers -> Nat]
      BY <2>1 DEF poolVars, SliceInv, ConnTypeOK
    <2> QED BY <1>1, <2>1, <2>2, <2>3, ReaderTypes DEF SliceInv
  <1> QED BY <1>2, <1>3

LEMMA SliceInvReleaseReadMsg ==
  ASSUME SliceInv, NEW more \in BOOLEAN, ReleaseReadMsg(more)
  PROVE  SliceInv'
  <1>1. reader.b # nil
    BY DEF ReleaseReadMsg, SliceInv, HandsOK
  <1> QED BY <1>1, ReaderReleases DEF ReleaseReadMsg

LEMMA SliceInvStep ==
  ASSUME SliceInv, [Next]_vars
  PROVE  SliceInv'
  <1>1. CASE UNCHANGED vars
    <2>1. SlicesOwned' /\ CapsOK' /\ SliceFits'
      BY <1>1, SlicesStay DEF vars, connVars
    <2>2. ConnTypeOK' /\ HandsOK'
      BY <1>1 DEF vars, connVars, poolVars, history, SliceInv, ConnTypeOK, HandsOK
    <2> QED BY <2>1, <2>2 DEF SliceInv
  <1>2. CASE Next
    BY <1>2, SliceInvWriteMsg, SliceInvFillSlice, SliceInvWrite, SliceInvClose, SliceInvDestroy,
       SliceInvReceive, SliceInvSocketWrite, SliceInvFreeChannel, SliceInvReaderMoves,
       SliceInvMakeBody, SliceInvReadFails, SliceInvReleaseReadMsg DEF Next
  <1> QED BY <1>1, <1>2

LEMMA SliceInvariant == Spec => []SliceInv
  BY SliceInvInit, SliceInvStep, PTL DEF Spec

\* However the goroutines of a connection interleave, and whichever way it ends, every
\* slice that MakeByteSlice handed out is in exactly one hand, in the channel or in the
\* pool: ReleaseByteSlice is called once for each.
THEOREM SlicesHaveOneOwner == Spec => []OneOwner
  <1>1. SliceInv => OneOwner
    BY OwnerCount DEF SliceInv, SlicesOwned, OneOwner
  <1> QED BY <1>1, SliceInvariant, PTL

\* MakeByteSlice never slices beyond the capacity, except for the nil that a Close of a
\* connection with a full channel has put into the pool.
THEOREM SlicesFit == Spec => []SliceFits
  <1>1. SliceInv => SliceFits
    BY DEF SliceInv
  <1> QED BY <1>1, SliceInvariant, PTL

-----------------------------------------------------------------------------
(* The messages on their way *)

\* The slice that the writer is about to write, and the nil that Close has queued.
InWrite == IF writer.at = "write" THEN 1 ELSE 0
EndMark == IF writeChan # <<>> /\ writeChan[Len(writeChan)] = nil THEN 1 ELSE 0

\* Until its writer leaves the loop, what a connection has accepted and not sent is in
\* the writer's hand and in the channel, in this order.
OnTheWay ==
    /\ Len(accepted) + EndMark = Len(sent) + InWrite + Len(writeChan)
    /\ writer.at = "write" => content[writer.b] = accepted[Len(sent) + 1]
    /\ \A i \in DOMAIN writeChan : writeChan[i] # nil =>
          content[writeChan[i]] = accepted[Len(sent) + InWrite + i]

\* The end mark is the last in the channel, and only a closed connection has one; a
\* writer that has left the loop without an error has sent everything.
FlowInv ==
    /\ SentInOrder
    /\ \A i \in DOMAIN writeChan : writeChan[i] = nil => i = Len(writeChan) /\ isClosed
    /\ writer.at \in {"range", "write"} => OnTheWay
    /\ writer.at \in {"close", "end"} /\ ~failed => sent = accepted /\ isClosed

\* No slice that waits for the writer, or that it writes, is written to or released.
KeepsQueued == \A b \in Buffers : InQueue(b) \/ writer.b = b => content'[b] = content[b]

LEMMA FlowInvInit == Init => FlowInv
  BY DEF Init, FlowInv, SentInOrder, OnTheWay, InWrite, EndMark

\* The steps that neither send, receive nor write.
LEMMA FlowStays ==
  ASSUME SliceInv, FlowInv, KeepsQueued, UNCHANGED <<writeChan, writer, accepted, sent, failed>>,
         isClosed => isClosed'
  PROVE  FlowInv'
  <1>1. ASSUME NEW i \in DOMAIN writeChan, writeChan[i] # nil
        PROVE  content'[writeChan[i]] = content[writeChan[i]]
    <2>1. writeChan[i] \in Buffers
      BY <1>1 DEF SliceInv, ConnTypeOK, Slices
    <2>2. InQueue(writeChan[i])
      BY <1>1 DEF InQueue
    <2> QED BY <2>1, <2>2 DEF KeepsQueued
  <1>2. writer.at = "write" => content'[writer.b] = content[writer.b]
    BY DEF SliceInv, ConnTypeOK, HandsOK, Slices, KeepsQueued
  <1>3. writer.at \in {"range", "write"} => OnTheWay'
    BY <1>1, <1>2 DEF FlowInv, OnTheWay, InWrite, EndMark
  <1>4. SentInOrder'
    BY DEF FlowInv, SentInOrder
  <1> QED BY <1>3, <1>4 DEF FlowInv

\* A slice that neither waits nor is written may be released.
LEMMA ReleaseKeepsQueued ==
  ASSUME NEW b, ReleaseByteSlice(b), ~InQueue(b), writer.b # b
  PROVE  KeepsQueued
  BY DEF KeepsQueued, ReleaseByteSlice

LEMMA FlowInvFillSlice ==
  ASSUME SliceInv, FlowInv, NEW u \in Users, NEW b \in Slices, FillSlice(u, b)
  PROVE  FlowInv'
  <1>1. asked[u] \in Nat \ {0} /\ MakeByteSlice(asked[u], b) /\ content \in [Buffers -> Nat]
    BY DEF SliceInv, ConnTypeOK, FillSlice
  <1>2. b \notin short' => b # nil
    BY <1>1, DrawSlice
  <1>3. b # nil => ~InQueue(b) /\ writer.b # b
    BY <1>1, DrawSlice
  <1>4. KeepsQueued
    BY <1>1, <1>2, <1>3 DEF FillSlice, KeepsQueued
  <1> QED BY <1>4, FlowStays DEF FillSlice, connVars, history

LEMMA FlowInvMakeBody ==
  ASSUME SliceInv, FlowInv, NEW b \in Slices, MakeBody(b)
  PROVE  FlowInv'
  <1>1. reader.len \in Nat \ {0} /\ MakeByteSlice(reader.len, b) /\ content \in [Buffers -> Nat]
    BY DEF SliceInv, ConnTypeOK, HandsOK, MakeBody
  <1>2. b \notin short' => b # nil
    BY <1>1, DrawSlice
  <1>3. b # nil => ~InQueue(b) /\ writer.b # b
    BY <1>1, DrawSlice
  <1>4. KeepsQueued
    BY <1>1, <1>2, <1>3 DEF MakeBody, KeepsQueued
  <1> QED BY <1>4, FlowStays DEF MakeBody, ReaderRest, connVars, history

\* The end mark of a channel to which a slice or nil is added.
LEMMA MarkAfterSend ==
  ASSUME writeChan \in Seq(Slices), NEW b \in Slices, writeChan' = Append(writeChan, b)
  PROVE  EndMark' = IF b = nil THEN 1 ELSE 0
  <1>1. writeChan' # <<>> /\ Len(writeChan') = Len(writeChan) + 1 /\ writeChan'[Len(writeChan')] = b
    BY AppendFacts
  <1> QED BY <1>1 DEF EndMark

\* An open connection's channel has no end mark.
LEMMA OpenHasNoMark ==
  ASSUME SliceInv, FlowInv, ~isClosed
  PROVE  EndMark = 0 /\ \A i \in DOMAIN writeChan : writeChan[i] # nil
  <1>1. writeChan \in Seq(Slices)
    BY DEF SliceInv, ConnTypeOK
  <1>2. writeChan # <<>> => Len(writeChan) \in DOMAIN writeChan
    BY <1>1
  <1> QED BY <1>2 DEF FlowInv, EndMark

LEMMA FlowInvWrite ==
  ASSUME SliceInv, FlowInv, NEW u \in Users, Write(u)
  PROVE  FlowInv'
  <1>1. held[u] \in Buffers /\ IsHeld(held[u]) /\ writer.b # held[u] /\ held[u] # nil
    BY UserGives DEF Write
  <1>2. ~InQueue(held[u])
    BY <1>1 DEF SliceInv, SlicesOwned, Owned
  <1>3. UNCHANGED <<writer, sent, failed>>
    BY DEF Write, WriteRest
  <1>4. CASE isClosed \/ Len(writeChan) = Cap
    <2>1. ReleaseByteSlice(held[u]) /\ UNCHANGED <<writeChan, accepted>> /\ (isClosed => isClosed')
      BY <1>4 DEF Write, doWrite, doDestroy, connVars
    <2>2. KeepsQueued
      BY <1>1, <1>2, <2>1, ReleaseKeepsQueued
    <2> QED BY <1>3, <2>1, <2>2, FlowStays
  <1>5. CASE ~(isClosed \/ Len(writeChan) = Cap)
    <2> DEFINE n == Len(writeChan)
               m == Len(accepted)
               c == content[held[u]]
    <2>1. /\ writeChan' = Append(writeChan, held[u]) /\ content' = content
          /\ accepted' = Append(accepted, c)
      BY <1>5 DEF Write, doWrite, poolVars
    <2>2. /\ writeChan \in Seq(Slices) /\ accepted \in Seq(Nat) /\ sent \in Seq(Nat)
          /\ c \in Nat /\ held[u] \in Slices
      BY <1>1 DEF SliceInv, ConnTypeOK, Slices
    <2>3. /\ n \in Nat /\ DOMAIN writeChan = 1..n /\ DOMAIN writeChan' = 1..(n + 1) /\ Len(writeChan') = n + 1
          /\ \A i \in 1..n : writeChan'[i] = writeChan[i]
          /\ writeChan'[n + 1] = held[u]
      BY <2>1, <2>2, AppendFacts
    <2>4. /\ m \in Nat /\ Len(accepted') = m + 1 /\ Len(sent) \in Nat
          /\ \A i \in 1..m : accepted'[i] = accepted[i]
          /\ accepted'[m + 1] = c
      BY <2>1, <2>2
    <2>5. EndMark = 0 /\ EndMark' = 0 /\ \A i \in DOMAIN writeChan : writeChan[i] # nil
      BY <1>1, <1>5, <2>1, <2>2, OpenHasNoMark, MarkAfterSend
    <2>6. SentInOrder'
      <3>1. Len(sent) <= m /\ DOMAIN sent = 1..Len(sent) /\ \A i \in DOMAIN sent : sent[i] = accepted[i]
        BY <2>2 DEF FlowInv, SentInOrder
      <3> QED BY <1>3, <2>4, <3>1 DEF SentInOrder
    <2>7. \A i \in DOMAIN writeChan' : writeChan'[i] # nil
      BY <1>1, <2>3, <2>5
    <2>8. ASSUME writer.at \in {"range", "write"} PROVE OnTheWay'
      <3> DEFINE w == InWrite
      <3>1. w \in 0..1 /\ w' = w /\ (writer.at = "write" => w = 1) /\ m = Len(sent) + w + n
        BY <1>3, <2>3, <2>4, <2>5, <2>8 DEF FlowInv, OnTheWay, InWrite
      <3> HIDE DEF w
      <3>2. Len(accepted') + EndMark' = Len(sent') + w' + Len(writeChan')
        BY <1>3, <2>3, <2>4, <2>5, <3>1
      <3>3. writer.at = "write" => content[writer.b] = accepted'[Len(sent) + 1]
        BY <2>3, <2>4, <2>8, <3>1 DEF FlowInv, OnTheWay
      <3>4. ASSUME NEW i \in DOMAIN writeChan'
            PROVE  content[writeChan'[i]] = accepted'[Len(sent) + w + i]
        <4>1. CASE i = n + 1
          BY <2>3, <2>4, <3>1, <4>1
        <4>2. CASE i # n + 1
          <5>1. i \in 1..n /\ writeChan'[i] = writeChan[i] /\ writeChan[i] # nil
            BY <2>3, <2>5, <3>4, <4>2
          <5>2. content[writeChan[i]] = accepted[Len(sent) + w + i]
            BY <2>3, <2>8, <5>1 DEF FlowInv, OnTheWay, w
          <5>3. Len(sent) + w + i \in 1..m
            BY <2>3, <2>4, <3>1, <5>1
          <5> QED BY <2>4, <5>1, <5>2, <5>3
        <4> QED BY <4>1, <4>2
      <3> QED BY <1>3, <2>1, <3>1, <3>2, <3>3, <3>4 DEF OnTheWay, w
    <2>9. writer.at \in {"close", "end"} => failed
      BY <1>5 DEF FlowInv
    <2> QED BY <1>3, <2>6, <2>7, <2>8, <2>9 DEF FlowInv
  <1> QED BY <1>4, <1>5

LEMMA FlowInvClose ==
  ASSUME SliceInv, FlowInv, Close
  PROVE  FlowInv'
  <1>1. UNCHANGED <<writer, accepted, sent, failed>> /\ nil \notin Buffers /\ nil \in Slices /\ ~isClosed
    BY TcpConnAssumption DEF Close, history, Slices
  <1>2. CASE Len(writeChan) = Cap
    <2>1. ReleaseByteSlice(nil) /\ UNCHANGED writeChan
      BY <1>2 DEF Close, doWrite
    <2>2. KeepsQueued
      BY <1>1, <2>1 DEF KeepsQueued, ReleaseByteSlice
    <2> QED BY <1>1, <2>1, <2>2, FlowStays
  <1>3. CASE Len(writeChan) # Cap
    <2>1. writeChan' = Append(writeChan, nil) /\ content' = content /\ isClosed' = TRUE
      BY <1>3 DEF Close, doWrite, poolVars
    <2>2. writeChan \in Seq(Slices) /\ accepted \in Seq(Nat) /\ sent \in Seq(Nat)
      BY DEF SliceInv, ConnTypeOK
    <2>3. /\ Len(writeChan) \in Nat /\ DOMAIN writeChan = 1..Len(writeChan)
          /\ DOMAIN writeChan' = 1..(Len(writeChan) + 1) /\ Len(writeChan') = Len(writeChan) + 1
          /\ \A i \in DOMAIN writeChan : writeChan'[i] = writeChan[i]
          /\ writeChan'[Len(writeChan) + 1] = nil
      BY <1>1, <2>1, <2>2, AppendFacts
    <2>4. EndMark = 0 /\ EndMark' = 1 /\ \A i \in DOMAIN writeChan : writeChan[i] # nil
      BY <1>1, <2>1, <2>2, OpenHasNoMark, MarkAfterSend
    <2>5. \A i \in DOMAIN writeChan' : writeChan'[i] = nil => i = Len(writeChan')
      BY <2>3, <2>4
    <2>6. ASSUME writer.at \in {"range", "write"} PROVE OnTheWay'
      <3>1. InWrite \in Nat /\ Len(sent) \in Nat /\ Len(accepted) \in Nat /\ InWrite' = InWrite
        BY <1>1, <2>2 DEF InWrite
      <3>2. OnTheWay
        BY <2>6 DEF FlowInv
      <3>3. Len(accepted') + EndMark' = Len(sent') + InWrite' + Len(writeChan')
        BY <1>1, <2>3, <2>4, <3>1, <3>2 DEF OnTheWay
      <3>4. \A i \in DOMAIN writeChan' : writeChan'[i] # nil => i \in DOMAIN writeChan /\ writeChan'[i] = writeChan[i]
        BY <2>3
      <3> QED BY <1>1, <2>1, <3>1, <3>2, <3>3, <3>4 DEF OnTheWay
    <2>7. SentInOrder'
      BY <1>1 DEF FlowInv, SentInOrder
    <2>8. writer.at \in {"close", "end"} => failed
      BY <1>1 DEF FlowInv
    <2> QED BY <1>1, <2>1, <2>5, <2>6, <2>7, <2>8 DEF FlowInv
  <1> QED BY <1>2, <1>3

\* A prefix of the same length is the whole.
LEMMA AllSent ==
  ASSUME SliceInv, SentInOrder, Len(accepted) = Len(sent)
  PROVE  sent = accepted
  <1>1. sent \in Seq(Nat) /\ accepted \in Seq(Nat)
    BY DEF SliceInv, ConnTypeOK
  <1>2. DOMAIN sent = 1..Len(sent) /\ DOMAIN accepted = 1..Len(sent)
    BY <1>1
  <1>3. /\ sent = [i \in DOMAIN sent |-> sent[i]]
        /\ accepted = [i \in DOMAIN accepted |-> accepted[i]]
    BY <1>1
  <1>4. \A i \in DOMAIN sent : sent[i] = accepted[i]
    BY DEF SentInOrder
  <1> QED BY <1>2, <1>3, <1>4

LEMMA FlowInvReceive ==
  ASSUME SliceInv, PanicInv, FlowInv, Receive
  PROVE  FlowInv'
  <1> DEFINE n == Len(writeChan)
  <1>1. /\ UNCHANGED <<isClosed, content, accepted, sent, failed>>
        /\ writer.at = "range" /\ writer.at # "write"
    BY DEF Receive, WriterRest, poolVars
  <1>2. writeChan \in Seq(Slices) /\ accepted \in Seq(Nat) /\ sent \in Seq(Nat)
    BY DEF SliceInv, ConnTypeOK
  <1>3. Len(accepted) \in Nat /\ Len(sent) \in Nat /\ n \in Nat /\ SentInOrder /\ SentInOrder'
    BY <1>1, <1>2 DEF FlowInv, SentInOrder
  <1>4. /\ Len(accepted) + EndMark = Len(sent) + n
        /\ \A i \in DOMAIN writeChan : writeChan[i] # nil =>
              content[writeChan[i]] = accepted[Len(sent) + i]
    <2>1. OnTheWay /\ InWrite = 0
      BY <1>1 DEF FlowInv, InWrite
    <2> QED BY <1>2, <1>3, <2>1 DEF OnTheWay
  <1>5. CASE writeChan = <<>>
    <2>1. writeChan' = <<>> /\ writer'.at = "close" /\ isClosed
      BY <1>5 DEF Receive, PanicInv
    <2>2. sent = accepted
      BY <1>3, <1>4, <1>5, AllSent DEF EndMark
    <2> QED BY <1>1, <1>3, <2>1, <2>2 DEF FlowInv
  <1>6. CASE writeChan # <<>>
    <2>1. /\ writeChan' = Tail(writeChan) /\ n \in Nat \ {0} /\ DOMAIN writeChan = 1..n
          /\ DOMAIN writeChan' = 1..(n - 1) /\ Len(writeChan') = n - 1
          /\ \A i \in DOMAIN writeChan' : writeChan'[i] = writeChan[i + 1]
          /\ Head(writeChan) = writeChan[1]
      BY <1>2, <1>6, ReceiveFacts DEF Receive
    <2>2. CASE writeChan[1] = nil
      <3>1. n = 1 /\ isClosed /\ EndMark = 1
        BY <1>6, <2>1, <2>2 DEF FlowInv, EndMark
      <3>2. sent = accepted
        BY <1>3, <1>4, <3>1, AllSent
      <3>3. writer'.at = "close"
        <4>1. Head(writeChan) = nil
          BY <2>1, <2>2
        <4>2. writer' = [at |-> "close", b |-> nil]
          BY <1>6, <4>1 DEF Receive
        <4> QED BY <4>2
      <3>4. DOMAIN writeChan' = {}
        BY <2>1, <3>1
      <3> QED BY <1>1, <1>3, <3>1, <3>2, <3>3, <3>4 DEF FlowInv
    <2>3. CASE writeChan[1] # nil
      <3>1. writer' = [at |-> "write", b |-> writeChan[1]]
        BY <1>6, <2>1, <2>3 DEF Receive
      <3>2. EndMark' = EndMark /\ EndMark \in Nat
        <4>1. CASE n = 1
          <5>1. writeChan' = <<>>
            BY <1>2, <2>1, <4>1
          <5> QED BY <2>1, <2>3, <4>1, <5>1 DEF EndMark
        <4>2. CASE n # 1
          <5>1. writeChan' # <<>> /\ n - 1 \in DOMAIN writeChan'
            BY <2>1, <4>2
          <5>2. writeChan'[Len(writeChan')] = writeChan[n]
            BY <2>1, <5>1
          <5> QED BY <1>6, <5>1, <5>2 DEF EndMark
        <4> QED BY <4>1, <4>2
      <3>3. \A i \in DOMAIN writeChan' : writeChan'[i] = nil => i = Len(writeChan') /\ isClosed
        BY <2>1 DEF FlowInv
      <3>4. InWrite' = 1
        BY <3>1 DEF InWrite
      <3>5. OnTheWay'
        <4>1. Len(accepted') + EndMark' = Len(sent') + InWrite' + Len(writeChan')
          BY <1>1, <1>3, <1>4, <2>1, <3>2, <3>4
        <4>2. content'[writer'.b] = accepted'[Len(sent') + 1]
          BY <1>1, <1>4, <2>1, <2>3, <3>1
        <4>3. ASSUME NEW i \in DOMAIN writeChan', writeChan'[i] # nil
              PROVE  content'[writeChan'[i]] = accepted'[Len(sent') + InWrite' + i]
          <5>1. i \in Nat /\ i + 1 \in DOMAIN writeChan /\ writeChan'[i] = writeChan[i + 1]
            BY <2>1, <4>3
          <5>2. content[writeChan[i + 1]] = accepted[Len(sent) + (i + 1)]
            BY <1>4, <4>3, <5>1
          <5>3. Len(sent) + (i + 1) = Len(sent) + 1 + i
            BY <1>3, <5>1
          <5> QED BY <1>1, <3>4, <5>1, <5>2, <5>3
        <4> QED BY <4>1, <4>2, <4>3 DEF OnTheWay
      <3> QED BY <1>1, <1>3, <3>1, <3>3, <3>5 DEF FlowInv
    <2> QED BY <2>2, <2>3
  <1> QED BY <1>5, <1>6

LEMMA FlowInvSocketWrite ==
  ASSUME SliceInv, FlowInv, NEW ok \in BOOLEAN, SocketWrite(ok)
  PROVE  FlowInv'
  <1>1. /\ writer.at = "write" /\ writer.b \in Buffers /\ writer.b # nil
        /\ UNCHANGED <<writeChan, isClosed, accepted>> /\ ReleaseByteSlice(writer.b)
    BY DEF SocketWrite, WriterRest, connVars, SliceInv, HandsOK, ConnTypeOK, Slices
  <1>2. writeChan \in Seq(Slices) /\ accepted \in Seq(Nat) /\ sent \in Seq(Nat) /\ content[writer.b] \in Nat
    BY <1>1 DEF SliceInv, ConnTypeOK
  <1>3. /\ Len(accepted) \in Nat /\ Len(sent) \in Nat /\ Len(writeChan) \in Nat
        /\ DOMAIN sent = 1..Len(sent) /\ DOMAIN writeChan = 1..Len(writeChan)
    BY <1>2
  <1>4. /\ Len(accepted) + EndMark = Len(sent) + 1 + Len(writeChan)
        /\ content[writer.b] = accepted[Len(sent) + 1]
        /\ \A i \in DOMAIN writeChan : writeChan[i] # nil =>
              content[writeChan[i]] = accepted[Len(sent) + 1 + i]
    <2>1. OnTheWay /\ InWrite = 1
      BY <1>1 DEF FlowInv, InWrite
    <2> QED BY <1>1, <2>1 DEF OnTheWay
  <1>5. \A i \in DOMAIN writeChan' : writeChan'[i] = nil => i = Len(writeChan') /\ isClosed'
    BY <1>1 DEF FlowInv
  <1>6. CASE ~ok
    <2>1. writer'.at = "close" /\ failed' = TRUE /\ sent' = sent
      BY <1>6 DEF SocketWrite
    <2> QED BY <1>1, <1>5, <2>1 DEF FlowInv, SentInOrder
  <1>7. CASE ok
    <2>1. writer'.at = "range" /\ sent' = Append(sent, content[writer.b])
      BY <1>7 DEF SocketWrite
    <2>2. /\ Len(sent') = Len(sent) + 1 /\ DOMAIN sent' = 1..(Len(sent) + 1)
          /\ \A i \in DOMAIN sent : sent'[i] = sent[i]
          /\ sent'[Len(sent) + 1] = content[writer.b]
      BY <1>2, <2>1
    <2>3. EndMark \in 0..1 /\ (EndMark = 1 => Len(writeChan) # 0) /\ EndMark' = EndMark
      BY <1>1, <1>2 DEF EndMark
    <2>4. SentInOrder'
      <3>1. Len(sent') <= Len(accepted')
        BY <1>1, <1>3, <1>4, <2>2, <2>3
      <3>2. \A i \in DOMAIN sent : sent[i] = accepted[i]
        BY DEF FlowInv, SentInOrder
      <3> QED BY <1>1, <1>3, <1>4, <2>2, <3>1, <3>2 DEF SentInOrder
    <2>5. InWrite' = 0
      BY <2>1 DEF InWrite
    <2>6. OnTheWay'
      <3>1. Len(accepted') + EndMark' = Len(sent') + InWrite' + Len(writeChan')
        BY <1>1, <1>3, <1>4, <2>2, <2>3, <2>5
      <3>2. ASSUME NEW i \in DOMAIN writeChan', writeChan'[i] # nil
            PROVE  content'[writeChan'[i]] = accepted'[Len(sent') + InWrite' + i]
        <4>1. i \in DOMAIN writeChan /\ i \in Nat /\ writeChan'[i] = writeChan[i] /\ writeChan[i] \in Buffers
          BY <1>1, <1>2, <1>3, <3>2 DEF Slices
        <4>2. writeChan[i] # writer.b
          BY <1>1, <4>1 DEF SliceInv, SlicesOwned, Owned, InQueue
        <4>3. content'[writeChan[i]] = content[writeChan[i]]
          BY <1>1, <4>1, <4>2 DEF ReleaseByteSlice
        <4>4. Len(sent') + InWrite' + i = Len(sent) + 1 + i
          BY <1>3, <2>2, <2>5, <4>1
        <4> QED BY <1>1, <1>4, <3>2, <4>1, <4>3, <4>4
      <3> QED BY <2>1, <3>1, <3>2 DEF OnTheWay
    <2> QED BY <1>5, <2>1, <2>4, <2>6 DEF FlowInv
  <1> QED BY <1>6, <1>7

LEMMA FlowInvFreeChannel ==
  ASSUME FlowInv, FreeChannel
  PROVE  FlowInv'
  <1>1. /\ writer.at = "close" /\ writer'.at = "end" /\ UNCHANGED <<accepted, sent, failed>>
        /\ DOMAIN writeChan' = {} /\ isClosed' = TRUE
    BY DEF FreeChannel, WriterRest
  <1> QED BY <1>1 DEF FlowInv, SentInOrder

LEMMA FlowInvReader ==
  ASSUME SliceInv, FlowInv,
         \/ ReadMsg \/ (\E len \in Incoming : ReadHead(len)) \/ ReadBody \/ ReadFails
         \/ \E more \in BOOLEAN : ReleaseReadMsg(more)
  PROVE  FlowInv'
  <1>1. UNCHANGED <<writeChan, writer, accepted, sent, failed, isClosed>>
    BY DEF ReadMsg, ReadHead, ReadBody, ReadFails, ReleaseReadMsg, ReaderRest, connVars, history
  <1>2. \/ UNCHANGED content
        \/ ReleaseByteSlice(reader.b) /\ reader.b # nil
    BY DEF ReadMsg, ReadHead, ReadBody, ReadFails, ReleaseReadMsg, poolVars, SliceInv, HandsOK
  <1>3. CASE UNCHANGED content
    BY <1>1, <1>3, FlowStays DEF KeepsQueued
  <1>4. CASE ReleaseByteSlice(reader.b) /\ reader.b # nil
    <2>1. reader.b \in Buffers
      BY <1>4 DEF SliceInv, ConnTypeOK, Slices
    <2>2. ~InQueue(reader.b) /\ writer.b # reader.b
      BY <2>1 DEF SliceInv, SlicesOwned, Owned
    <2> QED BY <1>1, <1>4, <2>2, FlowStays, ReleaseKeepsQueued
  <1> QED BY <1>2, <1>3, <1>4

LEMMA FlowInvStep ==
  ASSUME SliceInv, PanicInv, FlowInv, [Next]_vars
  PROVE  FlowInv'
  <1>1. CASE \E u \in Users : \E len \in Bodies : WriteMsg(u, len)
    BY <1>1, FlowStays DEF WriteMsg, connVars, poolVars, history, KeepsQueued
  <1>2. CASE Destroy
    BY <1>2, FlowStays DEF Destroy, doDestroy, poolVars, history, KeepsQueued
  <1>3. CASE UNCHANGED vars
    BY <1>3, FlowStays DEF vars, connVars, poolVars, history, KeepsQueued
  <1> QED BY <1>1, <1>2, <1>3, FlowInvFillSlice, FlowInvWrite, FlowInvClose, FlowInvReceive,
             FlowInvSocketWrite, FlowInvFreeChannel, FlowInvMakeBody, FlowInvReader DEF Next

LEMMA FlowInvariant == Spec => []FlowInv
  <1>1. Init => PanicInv /\ SliceInv /\ FlowInv
    BY PanicInvInit, SliceInvInit, FlowInvInit
  <1>2. PanicInv /\ SliceInv /\ FlowInv /\ [Next]_vars => (PanicInv /\ SliceInv /\ FlowInv)'
    BY PanicInvStep, SliceInvStep, FlowInvStep
  <1> QED BY <1>1, <1>2, PTL DEF Spec

\* What goes out on the socket is, message for message, what Write has queued, for any
\* number of users: no slice is refilled or released before the writer is done with it.
THEOREM MessagesInOrder == Spec => []SentInOrder
  <1>1. FlowInv => SentInOrder
    BY DEF FlowInv
  <1> QED BY <1>1, FlowInvariant, PTL

\* A connection whose writes to the socket all succeeded has sent every message it had
\* accepted when its writer goroutine ends, whether Close or Destroy ended it.
THEOREM NothingUnsent == Spec => []CloseFlushes
  <1>1. FlowInv => CloseFlushes
    BY DEF FlowInv, CloseFlushes
  <1> QED BY <1>1, FlowInvariant, PTL
=============================================================================
