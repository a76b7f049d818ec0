------------------------------- MODULE TcpConn -------------------------------
(***************************************************************************)
(* One connection of jnet/tcpconn.go: the channel between the goroutines   *)
(* that write messages and the writer goroutine, the goroutine that reads, *)
(* graceful and forced closing, and the slices that MsgParser              *)
(* (jnet/tcpmsgparser.go) takes from the slice pool and gives back.        *)
(*                                                                         *)
(* Write, Close and Destroy hold the connection's mutex throughout; the    *)
(* tests of isClosed in WriteMsg and ReadMsg do not, and the writer        *)
(* goroutine takes the mutex only when it ends.                            *)
(***************************************************************************)
EXTENDS SlicePool, Sequences, FiniteSets

CONSTANTS Users,    \* goroutines that write to, close or destroy the connection
          Buffers,  \* memory for slices
          Cap,      \* capacity of writeChan (1024)
          minMsgLen, maxMsgLen,
          Bodies, Incoming, \* lengths of the messages written and received
          MaxMsgs,  \* bound on the messages written
          nil       \* the nil slice

HeadLen == 9

ASSUME TcpConnAssumption ==
    /\ Cap \in Nat \ {0}
    /\ Bodies \subseteq Nat /\ Incoming \subseteq Nat
    /\ minMsgLen \in Nat \ {0} /\ maxMsgLen \in Nat
    /\ MaxMsgs \in Nat
    /\ nil \notin Buffers

Slices == Buffers \cup {nil}

VARIABLES writeChan,   \* contents of the channel: slices, nil to end the writer
          chanClosed,  \* close(writeChan) was called
          isClosed,    \* TcpConn.isClosed
          sockClosed,  \* the socket was closed by doDestroy or by the writer
          writer,      \* where the writer goroutine is, and the slice it writes
          reader,      \* where the reading goroutine is, the length and the slice
          asked,       \* the slice size a user in MsgParser.WriteMsg needs; 0 is none
          held,        \* the slice each user fills between WriteMsg and Write
          pool,        \* how often each slice, or nil, is in the slice pool
          capOf,       \* capacity of each slice; 0 for nil and for unused memory
          content,     \* the message written in each slice; 0: received, or released
          msgs,        \* messages written so far
          accepted,    \* history: messages put into the channel
          sent,        \* history: messages that went out on the socket
          failed,      \* history: a write to the socket has failed
          panicked,    \* a runtime panic: send on or close of a closed channel
          short,       \* history: slices drawn that were too short, which panics
          closedFull   \* history: Close found the channel full

connVars == <<writeChan, chanClosed, isClosed, sockClosed>>
poolVars == <<pool, capOf, content, short>>
history == <<accepted, sent, failed>>
vars == <<connVars, writer, reader, asked, held, poolVars, msgs, history, panicked,
          closedFull>>

Init ==
    /\ writeChan = <<>> /\ chanClosed = FALSE
    /\ isClosed = FALSE /\ sockClosed = FALSE
    /\ writer = [at |-> "range", b |-> nil]
    /\ reader = [at |-> "loop", len |-> 0, b |-> nil]
    /\ asked = [u \in Users |-> 0]
    /\ held = [u \in Users |-> nil]
    /\ pool = [b \in Slices |-> 0]
    /\ capOf = [b \in Slices |-> 0]
    /\ content = [b \in Buffers |-> 0]
    /\ msgs = 0
    /\ accepted = <<>> /\ sent = <<>>
    /\ failed = FALSE /\ panicked = FALSE
    /\ short = {} /\ closedFull = FALSE

-----------------------------------------------------------------------------
(* The slice pool *)

\* MakeByteSlice: Get of the class's sync.Pool returns a slice that was put there,
\* nil too, or has New make one; a size beyond all pools is made afresh. Then
\* [:size], which panics if the capacity is too small.
MakeByteSlice(size, b) ==
    /\ \/ /\ Pooled(size) /\ pool[b] > 0 /\ Class(capOf[b]) = Class(size)
          /\ pool' = [pool EXCEPT ![b] = @ - 1]
          /\ UNCHANGED capOf
       \/ /\ \E x \in Buffers : capOf[x] = 0
          /\ b = CHOOSE x \in Buffers : capOf[x] = 0
          /\ capOf' = [capOf EXCEPT ![b] = NewCap(size)]
          /\ UNCHANGED pool
    /\ short' = IF capOf'[b] < size THEN short \cup {b} ELSE short

\* ReleaseByteSlice does not look at what it is given: nil, of capacity 0, goes into
\* the smallest class like any other slice. A slice beyond all pools is left to the
\* garbage collector.
ReleaseByteSlice(b) ==
    /\ IF Pooled(capOf[b])
       THEN pool' = [pool EXCEPT ![b] = @ + 1] /\ UNCHANGED capOf
       ELSE capOf' = [capOf EXCEPT ![b] = 0] /\ UNCHANGED pool
    /\ content' = [x \in Buffers |-> IF x = b THEN 0 ELSE content[x]]
    /\ UNCHANGED short

-----------------------------------------------------------------------------
(* Operations under the mutex *)

\* Fault: isClosed is not tested before the channel is closed.
doDestroyUnguarded ==
    /\ sockClosed' = TRUE
    /\ chanClosed' = TRUE
    /\ panicked' = (panicked \/ chanClosed)
    /\ isClosed' = TRUE

\* doDestroy: the channel is closed unless isClosed says that somebody else has
\* ended the writer.
doDestroy ==
    /\ sockClosed' = TRUE
    /\ chanClosed' = (chanClosed \/ ~isClosed)
    /\ panicked' = (panicked \/ (~isClosed /\ chanClosed))
    /\ isClosed' = TRUE

\* doWrite: a full channel releases the slice and destroys the connection. Close
\* sets isClosed after it in either case.
doWrite(b, closing) ==
    IF Len(writeChan) = Cap
    THEN ReleaseByteSlice(b) /\ doDestroy /\ UNCHANGED writeChan
    ELSE /\ writeChan' = Append(writeChan, b)
         /\ panicked' = (panicked \/ chanClosed)
         /\ isClosed' = (isClosed \/ closing)
         /\ UNCHANGED <<poolVars, chanClosed, sockClosed>>

-----------------------------------------------------------------------------
(* The users *)

\* The bounds MsgParser sets on a body; anything else is an error of WriteMsg and
\* ReadMsg.
LenOK(len) == minMsgLen <= len /\ len <= maxMsgLen

\* TcpConn.WriteMsg, where isClosed is read without the mutex, and MsgParser.WriteMsg
\* up to MakeByteSlice. A refused call only counts tcpSeq, which nobody reads.
WriteMsg(u, len) ==
    /\ held[u] = nil /\ asked[u] = 0
    /\ ~isClosed
    /\ LenOK(len)
    /\ msgs + Cardinality({v \in Users : asked[v] # 0}) < MaxMsgs
    /\ asked' = [asked EXCEPT ![u] = len + HeadLen]
    /\ UNCHANGED <<connVars, writer, reader, held, poolVars, msgs, history, panicked,
                   closedFull>>

\* MakeByteSlice, and the head and the body copied into the slice. One that is too
\* short ends the call with a panic.
FillSlice(u, b) ==
    /\ asked[u] # 0
    /\ MakeByteSlice(asked[u], b)
    /\ asked' = [asked EXCEPT ![u] = 0]
    /\ msgs' = msgs + 1
    /\ IF b \in short' THEN UNCHANGED <<content, held>>
       ELSE /\ held' = [held EXCEPT ![u] = b]
            /\ content' = [content EXCEPT ![b] = msgs']
    /\ UNCHANGED <<connVars, writer, reader, history, panicked, closedFull>>

\* What every Write leaves alone.
WriteRest == UNCHANGED <<writer, reader, asked, msgs, sent, failed, closedFull>>

\* Fault: a closed connection does not release the slice.
WriteLeaks(u) ==
    /\ held[u] # nil
    /\ held' = [held EXCEPT ![u] = nil]
    /\ IF isClosed
       THEN UNCHANGED <<connVars, poolVars, accepted, panicked>>
       ELSE /\ doWrite(held[u], FALSE)
            /\ accepted' = IF Len(writeChan) = Cap THEN accepted
                           ELSE Append(accepted, content[held[u]])
    /\ WriteRest

\* Fault: the user releases the slice once it is queued.
WriteReleasesEarly(u) ==
    /\ held[u] # nil
    /\ held' = [held EXCEPT ![u] = nil]
    /\ ~isClosed
    /\ Len(writeChan) < Cap
    /\ writeChan' = Append(writeChan, held[u])
    /\ ReleaseByteSlice(held[u])
    /\ accepted' = Append(accepted, content[held[u]])
    /\ UNCHANGED <<chanClosed, isClosed, sockClosed, panicked>>
    /\ WriteRest

\* TcpConn.Write. MsgParser.WriteMsg drops its error.
Write(u) ==
    /\ held[u] # nil
    /\ held' = [held EXCEPT ![u] = nil]
    /\ IF isClosed
       THEN ReleaseByteSlice(held[u]) /\ UNCHANGED <<connVars, accepted, panicked>>
       ELSE /\ doWrite(held[u], FALSE)
            /\ accepted' = IF Len(writeChan) = Cap THEN accepted
                           ELSE Append(accepted, content[held[u]])
    /\ WriteRest

\* Fault: the writer is not told.
CloseWithoutNil ==
    /\ ~isClosed
    /\ isClosed' = TRUE
    /\ UNCHANGED <<writeChan, chanClosed, sockClosed, panicked, poolVars, writer, reader, asked,
                   held, msgs, history, closedFull>>

\* Close: nil behind the queued messages ends the writer.
Close ==
    /\ ~isClosed
    /\ doWrite(nil, TRUE)
    /\ closedFull' = (closedFull \/ Len(writeChan) = Cap)
    /\ UNCHANGED <<writer, reader, asked, held, msgs, history>>

Destroy ==
    /\ doDestroy
    /\ UNCHANGED <<writeChan, writer, reader, asked, held, poolVars, msgs, history,
                   closedFull>>

-----------------------------------------------------------------------------
(* The writer goroutine *)

\* What the writer leaves alone.
WriterRest == UNCHANGED <<reader, asked, held, msgs, accepted, panicked, closedFull>>

\* Fault: the loop ends on isClosed and not on nil.
ReceiveUntilClosed ==
    /\ writer.at = "range"
    /\ isClosed \/ writeChan # <<>>
    /\ writer' = IF isClosed THEN [at |-> "close", b |-> nil]
                 ELSE [at |-> "write", b |-> Head(writeChan)]
    /\ writeChan' = IF isClosed THEN writeChan ELSE Tail(writeChan)
    /\ UNCHANGED <<chanClosed, isClosed, sockClosed, poolVars, sent, failed>>
    /\ WriterRest

\* `for b := range c.writeChan`
Receive ==
    /\ writer.at = "range"
    /\ \/ /\ writeChan # <<>>
          /\ writer' = IF Head(writeChan) = nil THEN [at |-> "close", b |-> nil]
                       ELSE [at |-> "write", b |-> Head(writeChan)]
          /\ writeChan' = Tail(writeChan)
       \/ /\ writeChan = <<>> /\ chanClosed
          /\ writer' = [at |-> "close", b |-> nil]
          /\ UNCHANGED writeChan
    /\ UNCHANGED <<chanClosed, isClosed, sockClosed, poolVars, sent, failed>>
    /\ WriterRest

\* conn.Write succeeds or, on a socket closed here or broken by the peer, fails.
\* Either way the slice is released.
SocketWrite(ok) ==
    /\ writer.at = "write"
    /\ ok => ~sockClosed
    /\ sent' = IF ok THEN Append(sent, content[writer.b]) ELSE sent
    /\ failed' = (failed \/ ~ok)
    /\ ReleaseByteSlice(writer.b)
    /\ writer' = [at |-> IF ok THEN "range" ELSE "close", b |-> nil]
    /\ UNCHANGED connVars
    /\ WriterRest

\* How often slice b is in the channel.
Queued(b) == Cardinality({i \in DOMAIN writeChan : writeChan[i] = b})

\* After the loop: close the socket, then freeChannel and isClosed under the
\* mutex. freeChannel releases what is queued and drops the nils.
FreeChannel ==
    /\ writer.at = "close"
    /\ writer' = [at |-> "end", b |-> nil]
    /\ sockClosed' = TRUE
    /\ pool' = [b \in Slices |->
                  IF b # nil /\ Pooled(capOf[b]) THEN pool[b] + Queued(b) ELSE pool[b]]
    /\ capOf' = [b \in Slices |->
                   IF Queued(b) > 0 /\ ~Pooled(capOf[b]) THEN 0 ELSE capOf[b]]
    /\ content' = [b \in Buffers |-> IF Queued(b) > 0 THEN 0 ELSE content[b]]
    /\ writeChan' = <<>>
    /\ isClosed' = TRUE
    /\ UNCHANGED <<chanClosed, short, sent, failed>>
    /\ WriterRest

-----------------------------------------------------------------------------
(* The reading goroutine: the loop of an agent *)

\* What the reader leaves alone.
ReaderRest == UNCHANGED <<connVars, writer, asked, held, msgs, history, panicked, closedFull>>

\* TcpConn.ReadMsg tests isClosed, without the mutex.
ReadMsg ==
    /\ reader.at = "loop"
    /\ reader' = [reader EXCEPT !.at = IF isClosed THEN "end" ELSE "head"]
    /\ UNCHANGED poolVars
    /\ ReaderRest

\* The head arrives and names the length of the body.
ReadHead(len) ==
    /\ reader.at = "head" /\ ~sockClosed
    /\ reader' = IF LenOK(len) THEN [reader EXCEPT !.at = "make", !.len = len]
                 ELSE [reader EXCEPT !.at = "end"]
    /\ UNCHANGED poolVars
    /\ ReaderRest

\* The slice for the body. One that is too short ends the goroutine with a panic.
MakeBody(b) ==
    /\ reader.at = "make"
    /\ MakeByteSlice(reader.len, b)
    /\ IF b \in short'
       THEN reader' = [at |-> "end", len |-> 0, b |-> nil] /\ UNCHANGED content
       ELSE /\ reader' = [at |-> "body", len |-> 0, b |-> b]
            /\ content' = [content EXCEPT ![b] = 0]
    /\ ReaderRest

\* The body arrives; the agent reads it.
ReadBody ==
    /\ reader.at = "body" /\ ~sockClosed
    /\ reader' = [reader EXCEPT !.at = "use"]
    /\ UNCHANGED poolVars
    /\ ReaderRest

\* The connection ends, at either side, while the reader waits for the head or the body.
ReadFails ==
    /\ reader.at \in {"head", "body"}
    /\ IF reader.at = "body" THEN ReleaseByteSlice(reader.b) ELSE UNCHANGED poolVars
    /\ reader' = [at |-> "end", len |-> 0, b |-> nil]
    /\ ReaderRest

\* The agent has parsed the body and reads on, or ends on one it cannot parse.
ReleaseReadMsg(more) ==
    /\ reader.at = "use"
    /\ ReleaseByteSlice(reader.b)
    /\ reader' = [at |-> IF more THEN "loop" ELSE "end", len |-> 0, b |-> nil]
    /\ ReaderRest

-----------------------------------------------------------------------------
Next ==
    \/ \E u \in Users : \/ \E len \in Bodies : WriteMsg(u, len)
                        \/ \E b \in Slices : FillSlice(u, b)
                        \/ Write(u)
    \/ Close \/ Destroy
    \/ Receive
    \/ \E ok \in BOOLEAN : SocketWrite(ok)
    \/ FreeChannel
    \/ ReadMsg \/ \E len \in Incoming : ReadHead(len)
    \/ \E b \in Slices : MakeBody(b)
    \/ ReadBody \/ ReadFails \/ \E more \in BOOLEAN : ReleaseReadMsg(more)

\* A runnable writer goroutine runs, and a write to the socket returns: the peer
\* reads, or the connection breaks. Nothing is assumed of the users and the reader.
Fairness == WF_vars(Receive) /\ WF_vars(\E ok \in BOOLEAN : SocketWrite(ok)) /\ WF_vars(FreeChannel)

Spec == Init /\ [][Next]_vars /\ Fairness

-----------------------------------------------------------------------------
(* Properties *)

\* Nobody sends on, or closes, a closed channel, in whatever order Write, Close,
\* Destroy and the end of the writer come.
NoPanic == ~panicked

\* In how many places slice b is.
Places(b) ==
    pool[b] + Queued(b) + Cardinality({u \in Users : held[u] = b})
            + (IF writer.b = b THEN 1 ELSE 0) + (IF reader.b = b THEN 1 ELSE 0)

\* Every slice has one owner: it is never released twice, never both in the pool
\* and in the channel, and never lost, whichever way the connection ends.
OneOwner == \A b \in Buffers : Places(b) = IF capOf[b] = 0 THEN 0 ELSE 1

\* The pool never hands out a slice that is too short for what is asked: a slice goes
\* back to the class it was made for. The one exception is the nil that Close releases
\* when it finds the channel full.
SliceFits == short \subseteq {nil} /\ (nil \in short => closedFull)

\* MakeByteSlice returns a slice of the size it is asked for.
MakesWhatIsAsked == short = {}

\* What goes out is what was put in, in that order: no slice is refilled while
\* it waits for the writer.
SentInOrder ==
    /\ Len(sent) <= Len(accepted)
    /\ \A i \in DOMAIN sent : sent[i] = accepted[i]

\* Close is graceful: if no write failed, everything accepted before the end of
\* the writer has gone out.
CloseFlushes == writer.at = "end" /\ ~failed => sent = accepted

\* A closed connection's writer goroutine ends, and with it the socket.
WriterEnds == isClosed ~> (writer.at = "end" /\ sockClosed)
=============================================================================
