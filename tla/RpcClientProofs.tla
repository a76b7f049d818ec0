--------------------------- MODULE RpcClientProofs ---------------------------
(***************************************************************************)
(* Theorems about RpcClient, for any sets of Calls, callers and services   *)
(* and any bounds.                                                         *)
(*                                                                         *)
(* First, type correctness. Second, the safety of remote calls when no     *)
(* reply overtakes its caller (CallerTimely). The inductive invariant says *)
(* where each Call object and each sequence number is: a Call in use       *)
(* belongs to one user, and a number that has not been answered is in one  *)
(* place, the pending table, the reader's hand, a queue, or a strobed Call *)
(* whose caller has not woken up.                                          *)
(***************************************************************************)
EXTENDS RpcClient, SequenceTheorems, TLAPS

\* A goroutine on the issue path holds a Call, and one about to write has a
\* sequence number to write.
LocalsOK ==
    \A p \in Procs :
        /\ pc[p] # "idle" => my[p].call \in Calls
        /\ pc[p] \in {"lock", "write"} => my[p].seq \in Seqs

TypeInv == TypeOK /\ LocalsOK

LEMMA TypeInit == Init => TypeInv
  <1> SUFFICES ASSUME Init PROVE TypeInv
    OBVIOUS
  <1>1. Cleared \in CallRecords
    BY CallTableAssumption DEF Cleared, CallRecords, Errs
  <1>2. TableTypeOK
    <2>1. call \in [Calls -> CallRecords]
      BY <1>1 DEF Init, TableInit
    <2>2. startSeq \in 0..MaxSeq /\ firing \in [seq : 0..MaxSeq, call : Calls \cup {None}]
      BY CallTableAssumption DEF Init, TableInit, NoHold
    <2>3. pending \in [Seqs -> Calls \cup {None}] /\ timers \subseteq Seqs
      BY DEF Init, TableInit
    <2>4. /\ chanEvent \in [Handlers -> Seq(Calls)] /\ lost \subseteq Calls
          /\ others \in [Handlers -> 0..MaxOthers]
      BY CallTableAssumption DEF Init, TableInit
    <2>5. returned \in [Seqs -> Seq(Errs)]
      BY DEF Init, TableInit
    <2>6. crashed \in BOOLEAN
      BY DEF Init, TableInit
    <2> QED BY <2>1, <2>2, <2>3, <2>4, <2>5, <2>6 DEF TableTypeOK
  <1>3. my \in [Procs -> Locals]
    BY CallTableAssumption DEF Init, NoLocal, Locals
  <1>4. TypeOK
    <2>1. pc \in [Procs -> {"idle", "lock", "write", "check", "done"}]
      BY DEF Init
    <2>2. conn \in 0..MaxConns /\ reader \in Calls \cup {None} /\ admitted = {}
      BY RpcClientAssumption DEF Init, TableInit
    <2>3. isOpen \in BOOLEAN
      BY DEF Init
    <2>4. requests \subseteq Requests /\ responses \subseteq Responses /\ answers \subseteq Responses
      BY DEF Init
    <2> QED BY <1>2, <1>3, <2>1, <2>2, <2>3, <2>4 DEF TypeOK
  <1>5. LocalsOK
    BY DEF Init, LocalsOK
  <1> QED BY <1>4, <1>5 DEF TypeInv

LEMMA ReturnType ==
  ASSUME NEW s, NEW e \in Errs, returned \in [Seqs -> Seq(Errs)], Return(s, e)
  PROVE  returned' \in [Seqs -> Seq(Errs)]
  BY DEF Return, Seqs

LEMMA ReleaseType ==
  ASSUME NEW k \in Calls, call \in [Calls -> CallRecords], crashed \in BOOLEAN, ReleaseCall(k)
  PROVE  call' \in [Calls -> CallRecords] /\ crashed' \in BOOLEAN
  <1>1. Cleared \in CallRecords
    BY CallTableAssumption DEF Cleared, CallRecords, Errs
  <1>2. call' \in [Calls -> CallRecords]
    BY <1>1 DEF ReleaseCall
  <1>3. crashed' \in BOOLEAN
    BY DEF ReleaseCall
  <1> QED BY <1>2, <1>3

LEMMA InUseType ==
  ASSUME NEW k \in Calls, NEW s \in 0..MaxSeq, call \in [Calls -> CallRecords]
  PROVE  /\ InUse(k, s) \in CallRecords
         /\ [InUse(k, s) EXCEPT !.Err = "err"] \in CallRecords
         /\ \A h \in Handlers : [InUse(k, s) EXCEPT !.callback = h] \in CallRecords
  <1>1. InUse(k, s) \in CallRecords
    BY DEF InUse, CallRecords
  <1>2. ASSUME NEW r \in CallRecords, NEW h \in Handlers
        PROVE  [r EXCEPT !.Err = "err"] \in CallRecords /\ [r EXCEPT !.callback = h] \in CallRecords
    BY DEF CallRecords, Errs
  <1>3. ASSUME NEW r \in CallRecords PROVE [r EXCEPT !.Err = "err"] \in CallRecords
    BY DEF CallRecords, Errs
  <1> QED BY <1>1, <1>2, <1>3

LEMMA PushType ==
  ASSUME NEW who, NEW h \in Handlers, NEW k \in Calls, PushRpcResponse(who, h, k),
         chanEvent \in [Handlers -> Seq(Calls)], lost \subseteq Calls
  PROVE  /\ chanEvent' \in [Handlers -> Seq(Calls)] /\ lost' \subseteq Calls
         /\ admitted' \subseteq admitted
  <1>1. CASE who \notin admitted
    BY <1>1 DEF PushRpcResponse
  <1>2. CASE who \in admitted
    <2>1. Append(chanEvent[h], k) \in Seq(Calls)
      OBVIOUS
    <2>2. /\ chanEvent' = [chanEvent EXCEPT ![h] = Append(chanEvent[h], k)] /\ lost' = lost
          /\ admitted' = admitted \ {who}
      BY <1>2 DEF PushRpcResponse
    <2> QED BY <2>1, <2>2
  <1> QED BY <1>1, <1>2

LEMMA CallDoneType ==
  ASSUME NEW r \in CallRecords
  PROVE  [r EXCEPT !.done = 1] \in CallRecords
  BY DEF CallRecords

LEMMA CallFailedType ==
  ASSUME NEW r \in CallRecords
  PROVE  [r EXCEPT !.Seq = 0, !.Err = "err"] \in CallRecords
  <1>1. 0 \in 0..MaxSeq /\ "err" \in Errs
    BY CallTableAssumption DEF Errs
  <1> QED BY <1>1 DEF CallRecords

LEMMA StrobeType ==
  ASSUME NEW who, NEW k \in Calls, TableTypeOK, Strobe(who, k)
  PROVE  /\ call' \in [Calls -> CallRecords]
         /\ admitted' \subseteq admitted
         /\ chanEvent' \in [Handlers -> Seq(Calls)]
         /\ lost' \subseteq Calls
  <1>1. CASE call[k].callback # None
    <2>1. call[k].callback \in Handlers
      BY <1>1 DEF TableTypeOK, CallRecords
    <2>2. PushRpcResponse(who, call[k].callback, k) /\ UNCHANGED call
      BY <1>1 DEF Strobe
    <2> QED BY <2>1, <2>2, PushType DEF TableTypeOK
  <1>2. CASE call[k].callback = None
    <2>1. [call[k] EXCEPT !.done = 1] \in CallRecords
      BY CallDoneType DEF TableTypeOK
    <2>2. call' = [call EXCEPT ![k] = [call[k] EXCEPT !.done = 1]]
      BY <1>2 DEF Strobe
    <2>3. chanEvent' = chanEvent /\ lost' = lost /\ admitted' = admitted
      BY <1>2 DEF Strobe
    <2> QED BY <2>1, <2>2, <2>3 DEF TableTypeOK
  <1> QED BY <1>1, <1>2

LEMMA LocalStepType ==
  ASSUME TypeInv, NEW p \in Procs, NEW q \in {"idle", "lock", "write", "check", "done"},
         NEW l \in Locals,
         pc' = [pc EXCEPT ![p] = q], my' = [my EXCEPT ![p] = l],
         q # "idle" => l.call \in Calls, q \in {"lock", "write"} => l.seq \in Seqs
  PROVE  /\ pc' \in [Procs -> {"idle", "lock", "write", "check", "done"}]
         /\ my' \in [Procs -> Locals]
         /\ LocalsOK'
  <1>1. pc' \in [Procs -> {"idle", "lock", "write", "check", "done"}] /\ my' \in [Procs -> Locals]
    BY DEF TypeInv, TypeOK
  <1>2. LocalsOK'
    BY DEF TypeInv, TypeOK, LocalsOK
  <1> QED BY <1>1, <1>2

LEMMA NoLocalType == NoLocal \in Locals
  BY CallTableAssumption DEF NoLocal, Locals

-----------------------------------------------------------------------------
(* One lemma per action *)

LEMMA RawGoFailsType ==
  ASSUME TypeInv, NEW c \in Callers, NEW noReply \in BOOLEAN, RawGoFails(c, noReply)
  PROVE  TypeInv'
  <1>1. PICK k \in Pooled, s \in {startSeq, startSeq + 1} :
          /\ s <= MaxSeq
          /\ startSeq' = s
          /\ call' = [call EXCEPT ![k] = [InUse(k, 0) EXCEPT !.Err = "err"]]
          /\ my' = [my EXCEPT ![c] = [call |-> k, noReply |-> noReply,
                                      seq |-> IF s = startSeq THEN 0 ELSE s]]
    BY DEF RawGoFails
  <1>2. k \in Calls /\ s \in 0..MaxSeq
    BY <1>1, CallTableAssumption DEF Pooled, TypeInv, TypeOK, TableTypeOK
  <1>3. call' \in [Calls -> CallRecords]
    <2>1. [InUse(k, 0) EXCEPT !.Err = "err"] \in CallRecords
      BY <1>2, InUseType, CallTableAssumption DEF TypeInv, TypeOK, TableTypeOK
    <2> QED BY <1>1, <2>1 DEF TypeInv, TypeOK, TableTypeOK
  <1>4. TableTypeOK'
    BY <1>1, <1>2, <1>3 DEF RawGoFails, TypeInv, TypeOK, TableTypeOK
  <1>5. [call |-> k, noReply |-> noReply, seq |-> IF s = startSeq THEN 0 ELSE s] \in Locals
    BY <1>2, CallTableAssumption DEF Locals
  <1>6. c \in Procs /\ pc' = [pc EXCEPT ![c] = "check"]
    BY DEF RawGoFails, Procs
  <1>7. /\ pc' \in [Procs -> {"idle", "lock", "write", "check", "done"}]
        /\ my' \in [Procs -> Locals]
        /\ LocalsOK'
    BY <1>1, <1>2, <1>5, <1>6, LocalStepType
  <1> QED BY <1>4, <1>7 DEF RawGoFails, netVars, TypeInv, TypeOK

LEMMA RawGoType ==
  ASSUME TypeInv, NEW c \in Callers, NEW noReply \in BOOLEAN, RawGo(c, noReply)
  PROVE  TypeInv'
  <1>1. PICK k \in Pooled :
          /\ call' = [call EXCEPT ![k] = InUse(k, startSeq')]
          /\ my' = [my EXCEPT ![c] = [call |-> k, seq |-> startSeq', noReply |-> noReply]]
    BY DEF RawGo
  <1>2. k \in Calls /\ startSeq' \in Seqs /\ startSeq' \in 0..MaxSeq
    BY <1>1, CallTableAssumption DEF RawGo, Pooled, TypeInv, TypeOK, TableTypeOK, Seqs
  <1>3. call' \in [Calls -> CallRecords]
    <2>1. InUse(k, startSeq') \in CallRecords
      BY <1>2, InUseType DEF TypeInv, TypeOK, TableTypeOK
    <2> QED BY <1>1, <2>1 DEF TypeInv, TypeOK, TableTypeOK
  <1>4. TableTypeOK'
    BY <1>2, <1>3 DEF RawGo, TypeInv, TypeOK, TableTypeOK
  <1>5. [call |-> k, seq |-> startSeq', noReply |-> noReply] \in Locals
    BY <1>2 DEF Locals
  <1>6. c \in Procs /\ pc' = [pc EXCEPT ![c] = IF noReply THEN "write" ELSE "lock"]
    BY DEF RawGo, Procs
  <1>7. /\ pc' \in [Procs -> {"idle", "lock", "write", "check", "done"}]
        /\ my' \in [Procs -> Locals]
        /\ LocalsOK'
    BY <1>1, <1>2, <1>5, <1>6, LocalStepType
  <1> QED BY <1>4, <1>7 DEF RawGo, netVars, TypeInv, TypeOK

LEMMA AsyncCallType ==
  ASSUME TypeInv, NEW h \in Handlers, AsyncCall(h)
  PROVE  TypeInv'
  <1>1. PICK k \in Pooled :
          /\ call' = [call EXCEPT ![k] = [InUse(k, startSeq') EXCEPT !.callback = h]]
          /\ my' = [my EXCEPT ![h] = [call |-> k, seq |-> startSeq', noReply |-> FALSE]]
    BY DEF AsyncCall
  <1>2. k \in Calls /\ startSeq' \in Seqs /\ startSeq' \in 0..MaxSeq
    BY <1>1, CallTableAssumption DEF AsyncCall, Pooled, TypeInv, TypeOK, TableTypeOK, Seqs
  <1>3. call' \in [Calls -> CallRecords]
    <2>1. [InUse(k, startSeq') EXCEPT !.callback = h] \in CallRecords
      BY <1>2, InUseType DEF TypeInv, TypeOK, TableTypeOK
    <2> QED BY <1>1, <2>1 DEF TypeInv, TypeOK, TableTypeOK
  <1>4. TableTypeOK'
    BY <1>2, <1>3 DEF AsyncCall, TypeInv, TypeOK, TableTypeOK
  <1>5. [call |-> k, seq |-> startSeq', noReply |-> FALSE] \in Locals
    BY <1>2 DEF Locals
  <1>6. h \in Procs /\ pc' = [pc EXCEPT ![h] = "lock"]
    BY DEF AsyncCall, Procs
  <1>7. /\ pc' \in [Procs -> {"idle", "lock", "write", "check", "done"}]
        /\ my' \in [Procs -> Locals]
        /\ LocalsOK'
    BY <1>1, <1>2, <1>5, <1>6, LocalStepType
  <1> QED BY <1>4, <1>7 DEF AsyncCall, netVars, TypeInv, TypeOK

LEMMA EnterPendingType ==
  ASSUME TypeInv, NEW p \in Procs, EnterPending(p)
  PROVE  TypeInv'
  <1>1. my[p].call \in Calls /\ my[p].seq \in Seqs
    BY DEF EnterPending, TypeInv, LocalsOK
  <1>2. pending' \in [Seqs -> Calls \cup {None}] /\ timers' \subseteq Seqs
    BY <1>1 DEF EnterPending, AddPending, TypeInv, TypeOK, TableTypeOK
  <1>3. TableTypeOK'
    BY <1>2 DEF EnterPending, TypeInv, TypeOK, TableTypeOK
  <1>4. pc' \in [Procs -> {"idle", "lock", "write", "check", "done"}] /\ LocalsOK'
    BY <1>1 DEF EnterPending, TypeInv, TypeOK, LocalsOK
  <1> QED BY <1>3, <1>4 DEF EnterPending, netVars, TypeInv, TypeOK

LEMMA AsyncCallFailsType ==
  ASSUME TypeInv, NEW h \in Handlers, AsyncCallFails(h)
  PROVE  TypeInv'
  <1>1. startSeq' \in 0..MaxSeq
    BY CallTableAssumption DEF AsyncCallFails, TypeInv, TypeOK, TableTypeOK
  <1>2. returned' \in [Seqs -> Seq(Errs)]
    BY ReturnType DEF AsyncCallFails, TypeInv, TypeOK, TableTypeOK, Errs
  <1>3. TableTypeOK'
    BY <1>1, <1>2 DEF AsyncCallFails, TypeInv, TypeOK, TableTypeOK
  <1> QED BY <1>3 DEF AsyncCallFails, netVars, TypeInv, TypeOK, LocalsOK

LEMMA RemovePendingType ==
  ASSUME NEW s, pending \in [Seqs -> Calls \cup {None}], RemovePending(s)
  PROVE  pending' \in [Seqs -> Calls \cup {None}]
  BY DEF RemovePending

LEMMA CallErrType ==
  ASSUME NEW k \in Calls, NEW e \in Errs, call \in [Calls -> CallRecords]
  PROVE  [call EXCEPT ![k].Err = e] \in [Calls -> CallRecords]
  <1>1. [call[k] EXCEPT !.Err = e] \in CallRecords
    BY DEF CallRecords
  <1>2. [call EXCEPT ![k].Err = e] = [call EXCEPT ![k] = [call[k] EXCEPT !.Err = e]]
    OBVIOUS
  <1> QED BY <1>1, <1>2

LEMMA AfterWriteType ==
  ASSUME TypeInv, NEW p \in Procs, pc[p] = "write", AfterWrite(p)
  PROVE  /\ pc' \in [Procs -> {"idle", "lock", "write", "check", "done"}]
         /\ my' \in [Procs -> Locals]
         /\ LocalsOK'
  <1>1. CASE p \in Callers
    BY <1>1 DEF AfterWrite, TypeInv, TypeOK, LocalsOK
  <1>2. CASE p \notin Callers
    <2>1. pc' = [pc EXCEPT ![p] = "idle"] /\ my' = [my EXCEPT ![p] = NoLocal]
      BY <1>2 DEF AfterWrite
    <2> QED BY <2>1, NoLocalType, LocalStepType
  <1> QED BY <1>1, <1>2

LEMMA WriteMsgType ==
  ASSUME TypeInv, NEW p \in Procs, WriteMsg(p)
  PROVE  TypeInv'
  <1>1. [seq |-> my[p].seq, noReply |-> my[p].noReply] \in Requests
    BY DEF WriteMsg, TypeInv, TypeOK, LocalsOK, Locals, Requests
  <1>2. requests' \subseteq Requests
    BY <1>1 DEF WriteMsg, TypeInv, TypeOK
  <1>3. /\ pc' \in [Procs -> {"idle", "lock", "write", "check", "done"}]
        /\ my' \in [Procs -> Locals]
        /\ LocalsOK'
    BY AfterWriteType DEF WriteMsg
  <1>4. TableTypeOK'
    BY DEF WriteMsg, tableVars, TypeInv, TypeOK, TableTypeOK
  <1> QED BY <1>2, <1>3, <1>4 DEF tableVars, WriteMsg, TypeInv, TypeOK

LEMMA WriteMsgDroppedType ==
  ASSUME TypeInv, NEW p \in Procs, WriteMsgDropped(p)
  PROVE  TypeInv'
  <1>1. /\ pc' \in [Procs -> {"idle", "lock", "write", "check", "done"}]
        /\ my' \in [Procs -> Locals]
        /\ LocalsOK'
    BY AfterWriteType DEF WriteMsgDropped
  <1>2. TableTypeOK'
    BY DEF WriteMsgDropped, tableVars, TypeInv, TypeOK, TableTypeOK
  <1>3. isOpen' \in BOOLEAN
    BY DEF WriteMsgDropped
  <1> QED BY <1>1, <1>2, <1>3 DEF tableVars, WriteMsgDropped, TypeInv, TypeOK

LEMMA WriteMsgFailsType ==
  ASSUME TypeInv, NEW p \in Procs, WriteMsgFails(p)
  PROVE  TypeInv'
  <1> DEFINE k == my[p].call
  <1>0. k \in Calls /\ my[p].seq \in Seqs
    BY DEF WriteMsgFails, TypeInv, LocalsOK
  <1>1. pending' \in [Seqs -> Calls \cup {None}]
    BY RemovePendingType DEF WriteMsgFails, TypeInv, TypeOK, TableTypeOK
  <1>2. CASE p \in Callers
    <2>1. call' = [call EXCEPT ![k] = [call[k] EXCEPT !.Seq = 0, !.Err = "err"]]
      BY <1>2 DEF WriteMsgFails
    <2>2. [call[k] EXCEPT !.Seq = 0, !.Err = "err"] \in CallRecords
      BY <1>0, CallFailedType DEF TypeInv, TypeOK, TableTypeOK
    <2>3. call' \in [Calls -> CallRecords]
      BY <2>1, <2>2 DEF TypeInv, TypeOK, TableTypeOK
    <2>4. TableTypeOK'
      BY <1>1, <1>2, <2>3 DEF WriteMsgFails, TypeInv, TypeOK, TableTypeOK
    <2>5. pc' \in [Procs -> {"idle", "lock", "write", "check", "done"}] /\ LocalsOK'
      BY <1>2 DEF WriteMsgFails, TypeInv, TypeOK, LocalsOK
    <2> QED BY <1>2, <2>4, <2>5 DEF WriteMsgFails, netVars, TypeInv, TypeOK
  <1>3. CASE p \notin Callers
    <2>1. call' \in [Calls -> CallRecords] /\ crashed' \in BOOLEAN
      BY <1>0, <1>3, ReleaseType DEF WriteMsgFails, TypeInv, TypeOK, TableTypeOK
    <2>2. returned' \in [Seqs -> Seq(Errs)]
      BY <1>3, ReturnType DEF WriteMsgFails, TypeInv, TypeOK, TableTypeOK, Errs
    <2>3. TableTypeOK'
      BY <1>1, <2>1, <2>2 DEF WriteMsgFails, TypeInv, TypeOK, TableTypeOK
    <2>4. pc' = [pc EXCEPT ![p] = "idle"] /\ my' = [my EXCEPT ![p] = NoLocal]
      BY <1>3 DEF WriteMsgFails
    <2>5. /\ pc' \in [Procs -> {"idle", "lock", "write", "check", "done"}]
          /\ my' \in [Procs -> Locals]
          /\ LocalsOK'
      BY <2>4, NoLocalType, LocalStepType
    <2> QED BY <2>3, <2>5 DEF WriteMsgFails, netVars, TypeInv, TypeOK
  <1> QED BY <1>2, <1>3

LEMMA FinishType ==
  ASSUME TypeInv, NEW c \in Callers, pc[c] # "idle", Finish(c)
  PROVE  TypeInv'
  <1>0. my[c].call \in Calls /\ c \in Procs
    BY DEF TypeInv, LocalsOK, Procs
  <1>1. call' \in [Calls -> CallRecords] /\ crashed' \in BOOLEAN
    BY <1>0, ReleaseType DEF Finish, TypeInv, TypeOK, TableTypeOK
  <1>2. returned' \in [Seqs -> Seq(Errs)]
    <2>1. call[my[c].call].Err \in Errs
      BY <1>0 DEF TypeInv, TypeOK, TableTypeOK, CallRecords
    <2>2. CASE my[c].noReply
      BY <2>2 DEF Finish, TypeInv, TypeOK, TableTypeOK
    <2>3. CASE ~my[c].noReply
      BY <2>1, <2>3, ReturnType DEF Finish, TypeInv, TypeOK, TableTypeOK
    <2> QED BY <2>2, <2>3
  <1>3. TableTypeOK'
    BY <1>1, <1>2 DEF Finish, TypeInv, TypeOK, TableTypeOK
  <1>4. pc' = [pc EXCEPT ![c] = "idle"] /\ my' = [my EXCEPT ![c] = NoLocal]
    BY DEF Finish
  <1>5. /\ pc' \in [Procs -> {"idle", "lock", "write", "check", "done"}]
        /\ my' \in [Procs -> Locals]
        /\ LocalsOK'
    BY <1>0, <1>4, NoLocalType, LocalStepType
  <1> QED BY <1>3, <1>5 DEF Finish, netVars, TypeInv, TypeOK

LEMMA EnterDoneType ==
  ASSUME TypeInv, NEW c \in Callers, EnterDone(c)
  PROVE  TypeInv'
  <1>1. TableTypeOK'
    BY DEF EnterDone, tableVars, TypeInv, TypeOK, TableTypeOK
  <1>2. pc' \in [Procs -> {"idle", "lock", "write", "check", "done"}] /\ LocalsOK'
    BY DEF EnterDone, TypeInv, TypeOK, LocalsOK, Procs
  <1> QED BY <1>1, <1>2 DEF tableVars, EnterDone, netVars, TypeInv, TypeOK

LEMMA ReadResponseType ==
  ASSUME TypeInv, NEW m \in responses, ReadResponse(m)
  PROVE  TypeInv'
  <1>0. m.seq \in Seqs /\ m.Err \in Errs
    BY DEF TypeInv, TypeOK, Responses, Errs
  <1>1. CASE pending[m.seq] = None
    <2>1. TableTypeOK'
      BY <1>1 DEF ReadResponse, TypeInv, TypeOK, TableTypeOK
    <2> QED BY <1>1, <2>1 DEF ReadResponse, TypeInv, TypeOK, LocalsOK
  <1>2. CASE pending[m.seq] # None
    <2>1. pending[m.seq] \in Calls
      BY <1>0, <1>2 DEF TypeInv, TypeOK, TableTypeOK
    <2>2. call' = [call EXCEPT ![pending[m.seq]].Err = m.Err] /\ RemovePending(m.seq)
      BY <1>2 DEF ReadResponse
    <2>3. call' \in [Calls -> CallRecords]
      BY <1>0, <2>1, <2>2, CallErrType DEF TypeInv, TypeOK, TableTypeOK
    <2>4. pending' \in [Seqs -> Calls \cup {None}]
      BY <2>2, RemovePendingType DEF TypeInv, TypeOK, TableTypeOK
    <2>5. TableTypeOK'
      BY <2>3, <2>4 DEF ReadResponse, TypeInv, TypeOK, TableTypeOK
    <2> QED BY <1>2, <2>1, <2>5 DEF ReadResponse, TypeInv, TypeOK, LocalsOK
  <1> QED BY <1>1, <1>2

LEMMA DeliverResponseType ==
  ASSUME TypeInv, DeliverResponse
  PROVE  TypeInv'
  <1>1. reader \in Calls
    BY DEF DeliverResponse, TypeInv, TypeOK
  <1>2. TableTypeOK' /\ admitted' \subseteq admitted
    BY <1>1, StrobeType DEF DeliverResponse, TypeInv, TypeOK, TableTypeOK
  <1> QED BY <1>2 DEF DeliverResponse, netVars, TypeInv, TypeOK, LocalsOK

LEMMA TimeoutType ==
  ASSUME TypeInv, NEW s \in Seqs, handleRpcCallTimeout(s)
  PROVE  TypeInv'
  <1>1. call' \in [Calls -> CallRecords] /\ firing' \in [seq : 0..MaxSeq, call : Calls \cup {None}]
    <2>1. CASE pending[s] = None
      BY <2>1 DEF handleRpcCallTimeout, FireTimeout, TypeInv, TypeOK, TableTypeOK
    <2>2. CASE pending[s] # None
      <3>1. pending[s] \in Calls /\ "timeout" \in Errs
        BY <2>2 DEF TypeInv, TypeOK, TableTypeOK, Errs
      <3>2. call' = [call EXCEPT ![pending[s]].Err = "timeout"]
        BY <2>2 DEF handleRpcCallTimeout, FireTimeout
      <3>3. call' \in [Calls -> CallRecords]
        BY <3>1, <3>2, CallErrType DEF TypeInv, TypeOK, TableTypeOK
      <3>4. s \in 0..MaxSeq /\ firing' = [seq |-> s, call |-> pending[s]]
        BY <2>2, CallTableAssumption DEF handleRpcCallTimeout, FireTimeout, Seqs
      <3> QED BY <3>1, <3>3, <3>4
    <2> QED BY <2>1, <2>2
  <1>2. TableTypeOK'
    BY <1>1 DEF handleRpcCallTimeout, FireTimeout, TypeInv, TypeOK, TableTypeOK
  <1> QED BY <1>2 DEF handleRpcCallTimeout, FireTimeout, clientVars, netVars, TypeInv, TypeOK, LocalsOK

LEMMA FinishTimeoutType ==
  ASSUME TypeInv, FinishTimeout
  PROVE  TypeInv'
  <1>1. firing.call \in Calls
    BY DEF FinishTimeout, DeliverTimeout, TypeInv, TypeOK, TableTypeOK
  <1>2. pending' \in [Seqs -> Calls \cup {None}]
    BY RemovePendingType DEF FinishTimeout, DeliverTimeout, TypeInv, TypeOK, TableTypeOK
  <1>3. firing' \in [seq : 0..MaxSeq, call : Calls \cup {None}]
    BY CallTableAssumption DEF FinishTimeout, DeliverTimeout, NoHold
  <1>4. TableTypeOK' /\ admitted' \subseteq admitted
    BY <1>1, <1>2, <1>3, StrobeType
    DEF FinishTimeout, DeliverTimeout, TypeInv, TypeOK, TableTypeOK
  <1> QED BY <1>4 DEF FinishTimeout, clientVars, netVars, TypeInv, TypeOK, LocalsOK

LEMMA RunCallbackType ==
  ASSUME TypeInv, NEW h \in Handlers, RunCallback(h)
  PROVE  TypeInv'
  <1> DEFINE k == Head(chanEvent[h])
  <1>1. PICK panics \in BOOLEAN : HandlerRpcResponseCB(h, panics)
    BY DEF RunCallback
  <1>2. k \in Calls /\ Tail(chanEvent[h]) \in Seq(Calls)
    BY <1>1 DEF HandlerRpcResponseCB, TypeInv, TypeOK, TableTypeOK
  <1>3. chanEvent' = [chanEvent EXCEPT ![h] = Tail(chanEvent[h])]
    BY <1>1 DEF HandlerRpcResponseCB
  <1>4. chanEvent' \in [Handlers -> Seq(Calls)]
    BY <1>2, <1>3 DEF TypeInv, TypeOK, TableTypeOK
  <1>5. /\ call' \in [Calls -> CallRecords] /\ crashed' \in BOOLEAN
        /\ lost' \subseteq Calls /\ returned' \in [Seqs -> Seq(Errs)]
    <2>1. CASE call[k].callback = None
      BY <1>1, <2>1 DEF HandlerRpcResponseCB, TypeInv, TypeOK, TableTypeOK
    <2>2. CASE call[k].callback # None
      <3>1. Return(call[k].Seq, call[k].Err) /\ call[k].Err \in Errs
        BY <1>1, <1>2, <2>2 DEF HandlerRpcResponseCB, TypeInv, TypeOK, TableTypeOK, CallRecords
      <3>2. returned' \in [Seqs -> Seq(Errs)]
        BY <3>1, ReturnType DEF TypeInv, TypeOK, TableTypeOK
      <3>3. CASE panics
        <4>1. lost' = lost \cup {k} /\ call' = call /\ crashed' = crashed
          BY <1>1, <2>2, <3>3 DEF HandlerRpcResponseCB
        <4> QED BY <1>2, <3>2, <4>1 DEF TypeInv, TypeOK, TableTypeOK
      <3>4. CASE ~panics
        <4>1. ReleaseCall(k) /\ lost' = lost
          BY <1>1, <2>2, <3>4 DEF HandlerRpcResponseCB
        <4> QED BY <1>2, <3>2, <4>1, ReleaseType DEF TypeInv, TypeOK, TableTypeOK
      <3> QED BY <3>3, <3>4
    <2> QED BY <2>1, <2>2
  <1>6. TableTypeOK'
    BY <1>1, <1>4, <1>5 DEF HandlerRpcResponseCB, TypeInv, TypeOK, TableTypeOK
  <1> QED BY <1>1, <1>6 DEF RunCallback, HandlerRpcResponseCB, clientVars, netVars, TypeInv, TypeOK, LocalsOK

\* The test of pushEvent and the other events of a service leave Calls, table and
\* goroutines alone.
QueueStep == Admission \/ \E h \in Handlers : OtherEvent(h) \/ HandleOther(h)

LEMMA QueueStepFrame ==
  ASSUME QueueStep
  PROVE  UNCHANGED <<call, startSeq, pending, timers, firing, chanEvent, lost, crashed, returned,
                     clientVars, netVars>>
  BY DEF QueueStep, Admission, Admit, AdmitTimeout, OtherEvent, PushOther, HandleOther, TakeOther

LEMMA QueueStepType ==
  ASSUME TypeInv, QueueStep
  PROVE  TypeInv'
  <1>1. admitted' \subseteq {<<"reader">>, <<"timeout">>}
    BY DEF QueueStep, Admission, Admit, AdmitTimeout, OtherEvent, PushOther, HandleOther, TakeOther,
           TypeInv, TypeOK
  <1>2. others' \in [Handlers -> 0..MaxOthers]
    <2>1. CASE Admission
      BY <2>1 DEF Admission, Admit, AdmitTimeout, TypeInv, TypeOK, TableTypeOK
    <2>2. ASSUME NEW h \in Handlers, OtherEvent(h) \/ HandleOther(h)
          PROVE  others' \in [Handlers -> 0..MaxOthers]
      <3>1. others[h] \in 0..MaxOthers
        BY DEF TypeInv, TypeOK, TableTypeOK
      <3>2. PICK n \in 0..MaxOthers : others' = [others EXCEPT ![h] = n]
        BY <2>2, <3>1, CallTableAssumption DEF OtherEvent, PushOther, HandleOther, TakeOther
      <3> QED BY <3>2 DEF TypeInv, TypeOK, TableTypeOK
    <2> QED BY <2>1, <2>2 DEF QueueStep
  <1>3. TableTypeOK'
    BY <1>2, QueueStepFrame DEF TypeInv, TypeOK, TableTypeOK
  <1> QED BY <1>1, <1>3, QueueStepFrame DEF clientVars, netVars, TypeInv, TypeOK, LocalsOK

\* The steps of the connection and of the remote node leave table and goroutines
\* alone.
LEMMA NetworkType ==
  ASSUME TypeInv,
         \/ Connect \/ Disconnect
         \/ \E m \in responses : SkipResponse(m)
         \/ RemoteNext
  PROVE  TypeInv'
  <1>1. UNCHANGED <<tableVars, clientVars>>
    BY DEF Connect, Disconnect, SkipResponse, RemoteNext, Answer, Ignore
  <1>2. TableTypeOK' /\ LocalsOK'
    BY <1>1 DEF tableVars, clientVars, TypeInv, TypeOK, TableTypeOK, LocalsOK
  <1>3. /\ conn' \in 0..MaxConns /\ isOpen' \in BOOLEAN
        /\ requests' \subseteq Requests /\ responses' \subseteq Responses /\ answers' \subseteq Responses
    <2>1. CASE Connect
      <3>1. conn' \in 0..MaxConns
        BY <2>1, RpcClientAssumption DEF Connect, TypeInv, TypeOK
      <3> QED BY <2>1, <3>1 DEF Connect, TypeInv, TypeOK
    <2>2. CASE Disconnect
      BY <2>2 DEF Disconnect, TypeInv, TypeOK
    <2>3. CASE \E m \in responses : SkipResponse(m)
      BY <2>3 DEF SkipResponse, TypeInv, TypeOK
    <2>4. CASE RemoteNext
      <3>1. PICK q \in requests : (\E e \in {"nil", "err"} : Answer(q, e)) \/ Ignore(q)
        BY <2>4 DEF RemoteNext
      <3>2. CASE Ignore(q)
        BY <3>2 DEF Ignore, TypeInv, TypeOK
      <3>3. CASE \E e \in {"nil", "err"} : Answer(q, e)
        <4>1. PICK e \in {"nil", "err"} : Answer(q, e)
          BY <3>3
        <4>2. [seq |-> q.seq, Err |-> e] \in Responses
          BY DEF TypeInv, TypeOK, Requests, Responses
        <4> QED BY <4>1, <4>2 DEF Answer, TypeInv, TypeOK
      <3> QED BY <3>1, <3>2, <3>3
    <2> QED BY <2>1, <2>2, <2>3, <2>4
  <1> QED BY <1>1, <1>2, <1>3 DEF tableVars, clientVars, TypeInv, TypeOK

LEMMA TypeStep ==
  ASSUME TypeInv, [Next]_vars
  PROVE  TypeInv'
  <1>1. CASE UNCHANGED vars
    <2>1. TableTypeOK'
      BY <1>1 DEF vars, tableVars, TypeInv, TypeOK, TableTypeOK
    <2> QED BY <1>1, <2>1 DEF vars, tableVars, clientVars, netVars, TypeInv, TypeOK, LocalsOK
  <1>2. CASE \E c \in Callers : CallerNext(c)
    <2>1. PICK c \in Callers : CallerNext(c)
      BY <1>2
    <2>2. c \in Procs
      BY DEF Procs
    <2>3. CASE CheckErr(c) \/ Done(c)
      BY <2>3, FinishType DEF CheckErr, Done
    <2> QED BY <2>1, <2>2, <2>3, RawGoType, RawGoFailsType, EnterPendingType, WriteMsgType, WriteMsgDroppedType,
               WriteMsgFailsType, EnterDoneType DEF CallerNext, Issue
  <1>3. CASE \E h \in Handlers : HandlerNext(h)
    <2>1. PICK h \in Handlers : HandlerNext(h)
      BY <1>3
    <2>2. h \in Procs
      BY DEF Procs
    <2> QED BY <2>1, <2>2, AsyncCallType, AsyncCallFailsType, EnterPendingType, WriteMsgType,
               WriteMsgDroppedType, WriteMsgFailsType, RunCallbackType, QueueStepType
               DEF HandlerNext, Issue, QueueStep
  <1>4. CASE \E m \in responses : ReadResponse(m)
    BY <1>4, ReadResponseType
  <1>5. CASE DeliverResponse
    BY <1>5, DeliverResponseType
  <1>6. CASE \E s \in Seqs : handleRpcCallTimeout(s)
    BY <1>6, TimeoutType
  <1>7. CASE FinishTimeout
    BY <1>7, FinishTimeoutType
  <1>8. CASE Connect \/ Disconnect \/ (\E m \in responses : SkipResponse(m)) \/ RemoteNext
    BY <1>8, NetworkType
  <1>9. CASE Admission
    BY <1>9, QueueStepType DEF QueueStep
  <1> QED BY <1>1, <1>2, <1>3, <1>4, <1>5, <1>6, <1>7, <1>8, <1>9 DEF Next, ClientNext

\* Whatever the callers, the services, the reader, the timers, the network and the
\* remote node do, every field of the client keeps its type: in particular a
\* goroutine never writes a request without a sequence number and the queues hold
\* Calls only.
THEOREM TypeCorrect == Spec => []TypeOK
  <1>1. Init => TypeInv
    BY TypeInit
  <1>2. TypeInv /\ [Next]_vars => TypeInv'
    BY TypeStep
  <1>3. TypeInv => TypeOK
    BY DEF TypeInv
  <1> QED BY <1>1, <1>2, <1>3, PTL DEF Spec

------------------------------------------------------------------------------

\* A Call that is not in use is as Clear left it.
FreeIsClear == \A k \in Calls : ~call[k].ref => call[k] = Cleared

\* A sequence number that has not been generated is nowhere.
FreshUnused ==
    /\ \A k \in Calls : call[k].Seq <= startSeq
    /\ \A p \in Procs : my[p].seq <= startSeq
    /\ \A s \in Seqs : s > startSeq => pending[s] = None /\ returned[s] = <<>>

\* A number belongs to one Call and to one goroutine; the goroutine's Call has its
\* number, unless sending failed and the Call has none.
NumbersUnique ==
    /\ \A k, l \in Calls : call[k].Seq = call[l].Seq /\ call[k].Seq # 0 => k = l
    /\ \A p, q \in Procs : my[p].seq = my[q].seq /\ my[p].seq # 0 => p = q
    /\ \A p \in Procs, k \in Calls : call[k].Seq = my[p].seq /\ my[p].seq # 0 => my[p].call = k

\* The user of number s has not been told anything, and the table has no entry of it.
Unanswered(s) == pending[s] = None /\ returned[s] = <<>>

\* A successful outcome of number s is the remote node's.
Earned(s, e) == e = "nil" => [seq |-> s, Err |-> "nil"] \in answers

\* Entries of the table.
PendingOK ==
    \A s \in Seqs : pending[s] # None =>
        /\ call[pending[s]].ref
        /\ call[pending[s]].Seq = s
        /\ call[pending[s]].done = 0
        /\ call[pending[s]].Err = "nil" \/ firing.seq = s
        /\ s \in timers \/ firing.seq = s
        /\ returned[s] = <<>>

\* The timeout handler holds an entry of the table.
FiringOK ==
    IF firing.call = None THEN firing.seq = 0
    ELSE /\ firing.seq \in Seqs
         /\ pending[firing.seq] = firing.call
         /\ call[firing.call].Err = "timeout"

\* The reader holds a Call that has left the table.
ReaderOK ==
    reader # None =>
        /\ call[reader].ref
        /\ call[reader].done = 0
        /\ call[reader].Seq \in Seqs
        /\ Unanswered(call[reader].Seq)
        /\ Earned(call[reader].Seq, call[reader].Err)

\* A queued Call has left the table and is in its service's queue, in nobody's hands.
QueuedOK(h, k) ==
    /\ call[k].ref
    /\ call[k].callback = h
    /\ call[k].Seq \in Seqs
    /\ Unanswered(call[k].Seq)
    /\ Earned(call[k].Seq, call[k].Err)
    /\ k # reader
    /\ k \notin lost
    /\ \A p \in Procs : my[p].call # k

QueuesOK == \A h \in Handlers : \A i \in DOMAIN chanEvent[h] : QueuedOK(h, chanEvent[h][i])

\* It is there once.
QueuedOnce ==
    \A h \in Handlers : \A i, j \in DOMAIN chanEvent[h] : chanEvent[h][i] = chanEvent[h][j] => i = j

\* A lost Call stays in use for ever, with nobody.
LostOK ==
    \A k \in lost :
        /\ call[k].ref
        /\ call[k].callback # None
        /\ k # reader
        /\ \A s \in Seqs : pending[s] # k
        /\ \A p \in Procs : my[p].call # k

\* A goroutine on the issue path has a Call of its own, and its user waits.
HoldingOK(p) ==
    IF pc[p] = "idle" THEN my[p] = NoLocal
    ELSE /\ call[my[p].call].ref
         /\ my[p].seq # 0 => returned[my[p].seq] = <<>>
         /\ p \in Callers => call[my[p].call].callback = None
         /\ p \in Handlers => /\ pc[p] \in {"lock", "write"} /\ ~my[p].noReply
                             /\ call[my[p].call].callback = p

HoldersOK ==
    /\ \A p \in Procs : HoldingOK(p)
    /\ \A p, q \in Procs : my[p].call = my[q].call /\ my[p].call # None => p = q

\* Until it waits, a goroutine is alone with its Call: the Call is in the table, once
\* the goroutine had the lock and if a reply is wanted, or has an error and no number.
SendingOK(p) ==
    /\ call[my[p].call].done = 0
    /\ my[p].call # reader
    /\ IF call[my[p].call].Err = "nil"
       THEN /\ my[p].seq # 0
            /\ call[my[p].call].Seq = my[p].seq
            /\ pending[my[p].seq] = IF my[p].noReply \/ pc[p] = "lock" THEN None ELSE my[p].call
            /\ pc[p] = "lock" => ~my[p].noReply
       ELSE /\ pc[p] = "check"
            /\ call[my[p].call].Seq = 0
            /\ my[p].seq # 0 => pending[my[p].seq] = None

SendersOK == \A p \in Procs : pc[p] \in {"lock", "write", "check"} => SendingOK(p)

\* A caller that waits, and has been strobed, has the outcome of its own call.
WaitingOK(p) ==
    /\ ~my[p].noReply
    /\ my[p].seq # 0
    /\ call[my[p].call].Seq = my[p].seq
    /\ call[my[p].call].done = 1 =>
          /\ my[p].call # reader
          /\ pending[my[p].seq] = None
          /\ Earned(my[p].seq, call[my[p].call].Err)

WaitersOK == \A p \in Procs : pc[p] = "done" => WaitingOK(p)

\* A Call in use is in somebody's hands.
Accounted ==
    \A k \in Calls : call[k].ref =>
        IF call[k].callback = None THEN \E p \in Procs : my[p].call = k
        ELSE \/ \E p \in Procs : pc[p] = "lock" /\ my[p].call = k
             \/ \E s \in Seqs : pending[s] = k
             \/ reader = k
             \/ \E h \in Handlers : \E i \in DOMAIN chanEvent[h] : chanEvent[h][i] = k
             \/ k \in lost

\* What users were told.
OutcomesOK ==
    /\ ~crashed
    /\ responses \subseteq answers
    /\ \A s \in Seqs : /\ Len(returned[s]) <= 1
                       /\ \A i \in DOMAIN returned[s] : Earned(s, returned[s][i])

CallInv ==
    /\ TypeInv /\ FreeIsClear /\ FreshUnused /\ NumbersUnique
    /\ PendingOK /\ FiringOK /\ ReaderOK /\ QueuesOK /\ QueuedOnce /\ LostOK
    /\ HoldersOK /\ SendersOK /\ WaitersOK /\ Accounted /\ OutcomesOK

-----------------------------------------------------------------------------
(* Facts used by every step *)

\* What the types say of a single Call, goroutine or entry.
LEMMA Typed ==
  ASSUME TypeInv
  PROVE  /\ \A k \in Calls : /\ call[k].ref \in BOOLEAN /\ call[k].Seq \in 0..MaxSeq
                             /\ call[k].Err \in Errs /\ call[k].done \in 0..1
                             /\ call[k].callback \in Handlers \cup {None}
         /\ \A p \in Procs : /\ my[p].call \in Calls \cup {None} /\ my[p].seq \in 0..MaxSeq
                             /\ my[p].noReply \in BOOLEAN
                             /\ pc[p] # "idle" => my[p].call \in Calls
         /\ \A s \in Seqs : pending[s] \in Calls \cup {None}
         /\ \A h \in Handlers : \A i \in DOMAIN chanEvent[h] : chanEvent[h][i] \in Calls
         /\ startSeq \in 0..MaxSeq /\ reader \in Calls \cup {None}
         /\ firing.call \in Calls \cup {None} /\ lost \subseteq Calls
  <1>1. \A k \in Calls : /\ call[k].ref \in BOOLEAN /\ call[k].Seq \in 0..MaxSeq
                         /\ call[k].Err \in Errs /\ call[k].done \in 0..1
                         /\ call[k].callback \in Handlers \cup {None}
    BY DEF TypeInv, TypeOK, TableTypeOK, CallRecords
  <1>2. \A p \in Procs : /\ my[p].call \in Calls \cup {None} /\ my[p].seq \in 0..MaxSeq
                         /\ my[p].noReply \in BOOLEAN
                         /\ pc[p] # "idle" => my[p].call \in Calls
    BY DEF TypeInv, TypeOK, Locals, LocalsOK
  <1>3. \A h \in Handlers : \A i \in DOMAIN chanEvent[h] : chanEvent[h][i] \in Calls
    BY DEF TypeInv, TypeOK, TableTypeOK
  <1> QED BY <1>1, <1>2, <1>3 DEF TypeInv, TypeOK, TableTypeOK

\* A Call in the pool is nowhere else.
LEMMA FreeNowhere ==
  ASSUME CallInv, NEW k \in Calls, ~call[k].ref
  PROVE  /\ call[k].Seq = 0
         /\ \A s \in Seqs : pending[s] # k
         /\ reader # k /\ k \notin lost /\ firing.call # k
         /\ \A h \in Handlers : \A i \in DOMAIN chanEvent[h] : chanEvent[h][i] # k
         /\ \A p \in Procs : my[p].call # k
  <1>1. call[k].Seq = 0
    BY DEF CallInv, FreeIsClear, Cleared
  <1>2. \A s \in Seqs : pending[s] # k
    BY CallTableAssumption DEF CallInv, PendingOK
  <1>3. reader # k /\ k \notin lost
    BY CallTableAssumption DEF CallInv, ReaderOK, LostOK
  <1>4. firing.call # k
    BY <1>2, CallTableAssumption DEF CallInv, FiringOK
  <1>5. \A h \in Handlers : \A i \in DOMAIN chanEvent[h] : chanEvent[h][i] # k
    BY DEF CallInv, QueuesOK, QueuedOK
  <1>6. \A p \in Procs : my[p].call # k
    BY CallTableAssumption DEF CallInv, HoldersOK, HoldingOK, NoLocal
  <1> QED BY <1>1, <1>2, <1>3, <1>4, <1>5, <1>6

-----------------------------------------------------------------------------
(* Issuing *)

\* A Call just taken from the pool, as its new owner fills it in: what is not written
\* is as Clear left it.
Filled(r, z, err, cb) == r.ref /\ r.Seq = z /\ r.Err = err /\ r.callback = cb /\ r.done = 0

LEMMA TakenIsClear ==
  ASSUME CallInv, NEW k \in Calls, ~call[k].ref, NEW z \in 0..MaxSeq
  PROVE  /\ Filled(InUse(k, z), z, "nil", None)
         /\ Filled([InUse(k, z) EXCEPT !.Err = "err"], z, "err", None)
         /\ \A h \in Handlers : Filled([InUse(k, z) EXCEPT !.callback = h], z, "nil", h)
  <1>1. /\ call[k].Err = "nil" /\ call[k].callback = None /\ call[k].done = 0
        /\ call[k] \in CallRecords
    BY DEF CallInv, FreeIsClear, Cleared, TypeInv, TypeOK, TableTypeOK
  <1>2. InUse(k, z) \in CallRecords /\ Filled(InUse(k, z), z, "nil", None)
    BY <1>1 DEF InUse, Filled, CallRecords
  <1>3. ASSUME NEW r \in CallRecords, Filled(r, z, "nil", None)
        PROVE  /\ Filled([r EXCEPT !.Err = "err"], z, "err", None)
               /\ \A h \in Handlers : Filled([r EXCEPT !.callback = h], z, "nil", h)
    BY <1>3 DEF Filled, CallRecords
  <1> QED BY <1>2, <1>3

\* What RawGo, RawGoFails and AsyncCall have in common: goroutine p takes Call k from
\* the pool and gives it number z, which is its own number q, or 0 after an error.
Taking(p, k, q, z, b, err, where) ==
    /\ pc[p] = "idle"
    /\ ~call[k].ref
    /\ q # 0 => q > startSeq /\ q = startSeq'
    /\ startSeq' >= startSeq
    /\ \A l \in Calls : l # k => call'[l] = call[l]
    /\ Filled(call'[k], z, err, IF p \in Callers THEN None ELSE p)
    /\ my' = [my EXCEPT ![p] = [call |-> k, seq |-> q, noReply |-> b]]
    /\ pc' = [pc EXCEPT ![p] = where]
    /\ IF err = "nil" THEN q # 0 /\ z = q /\ where = (IF b THEN "write" ELSE "lock")
                      ELSE z = 0 /\ where = "check"
    /\ p \in Handlers => where = "lock"
    /\ UNCHANGED <<pending, timers, chanEvent, lost, crashed, reader, firing, returned, netVars>>

LEMMA TakeCall ==
  ASSUME CallInv, TypeInv', NEW p \in Procs, NEW k \in Calls,
         NEW q \in 0..MaxSeq, NEW z \in {0, q}, NEW b \in BOOLEAN,
         NEW err \in {"nil", "err"}, NEW where \in {"lock", "write", "check"},
         Taking(p, k, q, z, b, err, where)
  PROVE  CallInv'
  <1> USE DEF Taking
  <1> DEFINE cb == IF p \in Callers THEN None ELSE p
  <1>1. /\ \A l \in Calls : l # k => call'[l] = call[l]
        /\ call'[k].ref /\ call'[k].Seq = z /\ call'[k].Err = err /\ call'[k].callback = cb
        /\ call'[k].done = 0
    BY DEF Filled
  <1>2. /\ \A r \in Procs : r # p => my'[r] = my[r] /\ pc'[r] = pc[r]
        /\ my'[p] = [call |-> k, seq |-> q, noReply |-> b] /\ pc'[p] = where
    BY DEF CallInv, TypeInv, TypeOK
  <1>3. pending' = pending
    OBVIOUS
  <1>4. /\ call[k].Seq = 0
        /\ \A s \in Seqs : pending[s] # k
        /\ reader # k /\ k \notin lost /\ firing.call # k
        /\ \A h \in Handlers : \A i \in DOMAIN chanEvent[h] : chanEvent[h][i] # k
        /\ \A r \in Procs : my[r].call # k
    BY FreeNowhere
  <1>5. /\ p \in Callers => cb = None /\ p \notin Handlers
        /\ p \notin Callers => cb = p /\ p \in Handlers /\ cb # None
    BY RpcClientAssumption, CallTableAssumption DEF Procs
  <1>6. startSeq \in Nat /\ startSeq' \in Nat /\ Seqs \subseteq Nat \ {0} /\ q \in Nat
    BY CallTableAssumption DEF CallInv, TypeInv, TypeOK, TableTypeOK, Seqs
  <1>7. q # 0 => q \in Seqs /\ pending[q] = None /\ returned[q] = <<>>
    BY <1>6, CallTableAssumption DEF CallInv, FreshUnused, Seqs
  <1>8. ASSUME NEW r \in Procs, r # p, pc[r] # "idle"
        PROVE  /\ my[r].call \in Calls /\ my[r].call # k
               /\ call'[my[r].call] = call[my[r].call]
               /\ my[r].seq # 0 => my[r].seq \in Seqs /\ pending'[my[r].seq] = pending[my[r].seq]
    <2>1. my[r].call \in Calls /\ my[r].call # k /\ my[r].seq \in 0..MaxSeq
      BY <1>4, <1>8, Typed DEF CallInv
    <2>2. my[r].seq # 0 => my[r].seq \in Seqs /\ my[r].seq # q
      BY <1>6, <2>1, CallTableAssumption DEF CallInv, FreshUnused, Seqs
    <2> QED BY <1>1, <1>3, <2>1, <2>2
  <1>a. TypeInv'
    OBVIOUS
  <1>b. FreeIsClear'
    BY <1>1 DEF CallInv, FreeIsClear
  <1>c. FreshUnused'
    BY <1>1, <1>2, <1>3, <1>6, Typed, CallTableAssumption DEF CallInv, FreshUnused
  <1>d. NumbersUnique'
    BY <1>1, <1>2, <1>4, <1>6, Typed, CallTableAssumption DEF CallInv, NumbersUnique, FreshUnused
  <1>e. PendingOK'
    BY <1>1, <1>3, <1>4, <1>6, Typed, CallTableAssumption DEF CallInv, PendingOK, FreshUnused
  <1>f. FiringOK'
    BY Typed, <1>1, <1>3, <1>4, <1>7, CallTableAssumption DEF CallInv, FiringOK
  <1>g. ReaderOK'
    BY <1>1, <1>3, <1>4, <1>6, Typed, CallTableAssumption DEF CallInv, ReaderOK, FreshUnused, Unanswered, Earned, netVars
  <1>h. QueuesOK' /\ QueuedOnce'
    <2> SUFFICES ASSUME NEW h \in Handlers, NEW i \in DOMAIN chanEvent[h]
                 PROVE  QueuedOK(h, chanEvent[h][i])'
      BY DEF CallInv, QueuesOK, QueuedOnce
    <2>1. QueuedOK(h, chanEvent[h][i]) /\ chanEvent[h][i] \in Calls
      BY Typed DEF CallInv, QueuesOK
    <2>2. call[chanEvent[h][i]].Seq # q
      BY <1>6, <2>1, Typed DEF CallInv, FreshUnused, QueuedOK
    <2> QED BY <1>1, <1>3, <1>4, <2>1, <2>2 DEF QueuedOK, Unanswered, Earned, netVars
  <1>i. LostOK'
    BY <1>1, <1>3, <1>4, Typed DEF CallInv, LostOK
  <1>j. HoldersOK'
    <2>1. \A r \in Procs : HoldingOK(r)'
      <3> SUFFICES ASSUME NEW r \in Procs PROVE HoldingOK(r)'
        OBVIOUS
      <3>1. CASE r = p
        BY <1>1, <1>2, <1>5, <1>7, <3>1 DEF HoldingOK
      <3>2. CASE r # p
        BY <1>2, <1>8, <3>2 DEF CallInv, HoldersOK, HoldingOK
      <3> QED BY <3>1, <3>2
    <2> QED BY <1>2, <1>4, <2>1 DEF CallInv, HoldersOK
  <1>k. SendersOK'
    <2> SUFFICES ASSUME NEW r \in Procs, pc'[r] \in {"lock", "write", "check"} PROVE SendingOK(r)'
      BY DEF SendersOK
    <2>1. CASE r = p
      BY <1>1, <1>2, <1>3, <1>4, <1>7, <2>1 DEF SendingOK
    <2>2. CASE r # p
      <3>1. SendingOK(r) /\ my'[r] = my[r] /\ pc'[r] = pc[r] /\ pc[r] # "idle"
        BY <1>2, <2>2 DEF CallInv, SendersOK
      <3> QED BY <1>8, <2>2, <3>1 DEF SendingOK
    <2> QED BY <2>1, <2>2
  <1>l. WaitersOK'
    <2> SUFFICES ASSUME NEW r \in Procs, pc'[r] = "done" PROVE WaitingOK(r)'
      BY DEF WaitersOK
    <2>1. r # p
      BY <1>2
    <2>2. WaitingOK(r) /\ my'[r] = my[r] /\ pc'[r] = pc[r] /\ pc[r] # "idle"
      BY <1>2, <2>1 DEF CallInv, WaitersOK
    <2> QED BY <1>8, <2>1, <2>2 DEF WaitingOK, Earned, netVars
  <1>m. Accounted'
    <2> SUFFICES ASSUME NEW l \in Calls, call'[l].ref
                 PROVE  (IF call[l].callback = None THEN \E r \in Procs : my[r].call = l
                         ELSE \/ \E r \in Procs : pc[r] = "lock" /\ my[r].call = l
                              \/ \E s \in Seqs : pending[s] = l
                              \/ reader = l
                              \/ \E h \in Handlers : \E i \in DOMAIN chanEvent[h] : chanEvent[h][i] = l
                              \/ l \in lost)'
      BY DEF Accounted
    <2>1. CASE l = k
      <3>1. CASE p \in Callers
        BY <1>1, <1>2, <1>5, <2>1, <3>1
      <3>2. CASE p \notin Callers
        BY <1>1, <1>2, <1>5, <2>1, <3>2
      <3> QED BY <3>1, <3>2
    <2>2. CASE l # k
      <3>1. call'[l] = call[l] /\ call[l].ref
        BY <1>1, <2>2
      <3>2. ASSUME NEW r \in Procs, my[r].call = l PROVE my'[r].call = l /\ pc'[r] = pc[r]
        BY <1>2, <3>2, CallTableAssumption DEF CallInv, HoldersOK, HoldingOK, NoLocal
      <3>3. ASSUME NEW s \in Seqs, pending[s] = l PROVE pending'[s] = l
        BY <1>3, <1>7, <3>3, CallTableAssumption
      <3> QED BY <3>1, <3>2, <3>3 DEF CallInv, Accounted
    <2> QED BY <2>1, <2>2
  <1>n. OutcomesOK'
    BY DEF CallInv, OutcomesOK, Earned, netVars
  <1> QED BY <1>a, <1>b, <1>c, <1>d, <1>e, <1>f, <1>g, <1>h, <1>i, <1>j, <1>k, <1>l, <1>m, <1>n DEF CallInv

LEMMA RawGoCalls ==
  ASSUME CallInv, TypeInv', NEW c \in Callers, NEW noReply \in BOOLEAN, RawGo(c, noReply)
  PROVE  CallInv'
  <1> DEFINE where == IF noReply THEN "write" ELSE "lock"
  <1>1. PICK k \in Pooled :
          /\ call' = [call EXCEPT ![k] = InUse(k, startSeq')]
          /\ my' = [my EXCEPT ![c] = [call |-> k, seq |-> startSeq', noReply |-> noReply]]
    BY DEF RawGo
  <1>2. k \in Calls /\ ~call[k].ref /\ c \in Procs /\ c \notin Handlers
    BY RpcClientAssumption DEF Pooled, Procs
  <1>3. startSeq' = startSeq + 1 /\ startSeq \in Nat /\ startSeq' \in 0..MaxSeq
    BY CallTableAssumption DEF RawGo, CallInv, TypeInv, TypeOK, TableTypeOK
  <1>4. /\ pc[c] = "idle" /\ pc' = [pc EXCEPT ![c] = where]
        /\ UNCHANGED <<pending, timers, chanEvent, lost, crashed, reader, firing, returned, netVars>>
    BY DEF RawGo
  <1>5. /\ \A l \in Calls : l # k => call'[l] = call[l]
        /\ Filled(call'[k], startSeq', "nil", IF c \in Callers THEN None ELSE c)
    BY <1>1, <1>2, <1>3, TakenIsClear DEF CallInv, TypeInv, TypeOK, TableTypeOK
  <1>6. Taking(c, k, startSeq', startSeq', noReply, "nil", where)
    BY <1>1, <1>2, <1>3, <1>4, <1>5 DEF Taking
  <1> QED BY <1>2, <1>3, <1>6, TakeCall

LEMMA RawGoFailsCalls ==
  ASSUME CallInv, TypeInv', NEW c \in Callers, NEW noReply \in BOOLEAN, RawGoFails(c, noReply)
  PROVE  CallInv'
  <1>1. PICK k \in Pooled, s \in {startSeq, startSeq + 1} :
          /\ s <= MaxSeq
          /\ startSeq' = s
          /\ call' = [call EXCEPT ![k] = [InUse(k, 0) EXCEPT !.Err = "err"]]
          /\ my' = [my EXCEPT ![c] = [call |-> k, noReply |-> noReply,
                                      seq |-> IF s = startSeq THEN 0 ELSE s]]
    BY DEF RawGoFails
  <1> DEFINE q == IF s = startSeq THEN 0 ELSE s
  <1>2. k \in Calls /\ ~call[k].ref /\ c \in Procs /\ c \notin Handlers
    BY RpcClientAssumption DEF Pooled, Procs
  <1>3. /\ startSeq' >= startSeq /\ q \in 0..MaxSeq
        /\ q # 0 => q > startSeq /\ q = startSeq'
    BY <1>1, CallTableAssumption DEF CallInv, TypeInv, TypeOK, TableTypeOK
  <1>4. /\ \A l \in Calls : l # k => call'[l] = call[l]
        /\ Filled(call'[k], 0, "err", IF c \in Callers THEN None ELSE c)
    <2>1. Filled([InUse(k, 0) EXCEPT !.Err = "err"], 0, "err", None)
      BY <1>2, TakenIsClear, CallTableAssumption
    <2> QED BY <1>1, <1>2, <2>1 DEF CallInv, TypeInv, TypeOK, TableTypeOK
  <1>5. my' = [my EXCEPT ![c] = [call |-> k, seq |-> q, noReply |-> noReply]]
    BY <1>1
  <1> HIDE DEF q
  <1>6. Taking(c, k, q, 0, noReply, "err", "check")
    BY <1>1, <1>2, <1>3, <1>4, <1>5 DEF RawGoFails, Taking
  <1> QED BY <1>2, <1>3, <1>6, TakeCall

LEMMA AsyncCallCalls ==
  ASSUME CallInv, TypeInv', NEW h \in Handlers, AsyncCall(h)
  PROVE  CallInv'
  <1>1. PICK k \in Pooled :
          /\ call' = [call EXCEPT ![k] = [InUse(k, startSeq') EXCEPT !.callback = h]]
          /\ my' = [my EXCEPT ![h] = [call |-> k, seq |-> startSeq', noReply |-> FALSE]]
    BY DEF AsyncCall
  <1>2. k \in Calls /\ ~call[k].ref /\ h \in Procs /\ h \notin Callers
    BY RpcClientAssumption DEF Pooled, Procs
  <1>3. startSeq' = startSeq + 1 /\ startSeq \in Nat /\ startSeq' \in 0..MaxSeq
    BY CallTableAssumption DEF AsyncCall, CallInv, TypeInv, TypeOK, TableTypeOK
  <1>4. /\ pc[h] = "idle" /\ pc' = [pc EXCEPT ![h] = "lock"]
        /\ UNCHANGED <<pending, timers, chanEvent, lost, crashed, reader, firing, returned, netVars>>
    BY DEF AsyncCall
  <1>5. /\ \A l \in Calls : l # k => call'[l] = call[l]
        /\ Filled(call'[k], startSeq', "nil", IF h \in Callers THEN None ELSE h)
    BY <1>1, <1>2, <1>3, TakenIsClear DEF CallInv, TypeInv, TypeOK, TableTypeOK
  <1>6. Taking(h, k, startSeq', startSeq', FALSE, "nil", "lock")
    BY <1>1, <1>2, <1>3, <1>4, <1>5 DEF Taking
  <1> QED BY <1>2, <1>3, <1>6, TakeCall

\* AddPending: the goroutine's Call enters the table under its own number.
LEMMA EnterPendingCalls ==
  ASSUME CallInv, TypeInv', NEW p \in Procs, EnterPending(p)
  PROVE  CallInv'
  <1> DEFINE k == my[p].call
             n == my[p].seq
  <1>1. pc[p] = "lock" /\ k \in Calls /\ k # None /\ n \in Seqs /\ n # 0
    BY Typed, CallTableAssumption DEF EnterPending, CallInv, TypeInv, LocalsOK, Seqs
  <1>2. SendingOK(p) /\ HoldingOK(p) /\ call[k].Err = "nil"
    BY <1>1 DEF CallInv, SendersOK, SendingOK, HoldersOK
  <1>3. /\ call[k].Seq = n /\ call[k].ref /\ call[k].done = 0 /\ k # reader
        /\ pending[n] = None /\ returned[n] = <<>> /\ ~my[p].noReply /\ n <= startSeq
    BY <1>1, <1>2 DEF SendingOK, HoldingOK, CallInv, FreshUnused
  <1>4. /\ \A s \in Seqs : pending'[s] = IF s = n THEN k ELSE pending[s]
        /\ timers' = timers \cup {n}
    BY <1>1 DEF EnterPending, AddPending, CallInv, TypeInv, TypeOK, TableTypeOK
  <1>5. \A r \in Procs : pc'[r] = IF r = p THEN "write" ELSE pc[r]
    BY DEF EnterPending, CallInv, TypeInv, TypeOK
  <1>6. UNCHANGED <<call, startSeq, chanEvent, lost, crashed, my, reader, firing, returned, netVars>>
    BY DEF EnterPending
  <1>7. firing.call = None
    BY DEF EnterPending, LockFree
  <1> HIDE DEF k, n
  <1>8. \A l \in Calls : call[l].Seq = n => l = k
    BY <1>1, <1>3 DEF CallInv, NumbersUnique
  <1>9. k \notin lost /\ \A h \in Handlers : \A i \in DOMAIN chanEvent[h] : chanEvent[h][i] # k
    BY DEF k, CallInv, LostOK, QueuesOK, QueuedOK
  <1>a. FreeIsClear' /\ NumbersUnique' /\ QueuedOnce' /\ OutcomesOK'
    BY <1>6 DEF CallInv, FreeIsClear, NumbersUnique, QueuedOnce, OutcomesOK, Earned, netVars
  <1>b. FreshUnused'
    BY <1>1, <1>3, <1>4, <1>6, Typed, CallTableAssumption DEF CallInv, FreshUnused, Seqs
  <1>c. PendingOK'
    BY <1>1, <1>2, <1>3, <1>4, <1>6 DEF k, CallInv, PendingOK
  <1>d. FiringOK'
    BY <1>6, <1>7 DEF CallInv, FiringOK
  <1>e. ReaderOK'
    BY <1>3, <1>4, <1>6, <1>8, Typed DEF CallInv, ReaderOK, Unanswered, Earned, netVars
  <1>f. QueuesOK'
    <2> SUFFICES ASSUME NEW h \in Handlers, NEW i \in DOMAIN chanEvent[h]
                 PROVE  QueuedOK(h, chanEvent[h][i])'
      BY <1>6 DEF QueuesOK
    <2>1. QueuedOK(h, chanEvent[h][i]) /\ chanEvent[h][i] \in Calls /\ chanEvent[h][i] # k
      BY <1>9, Typed DEF CallInv, QueuesOK
    <2> QED BY <1>4, <1>6, <1>8, <2>1 DEF QueuedOK, Unanswered, Earned, netVars
  <1>g. LostOK'
    BY <1>4, <1>6, <1>9 DEF CallInv, LostOK
  <1>h. HoldersOK'
    BY <1>1, <1>5, <1>6 DEF CallInv, HoldersOK, HoldingOK
  <1>i. SendersOK'
    <2> SUFFICES ASSUME NEW r \in Procs, pc'[r] \in {"lock", "write", "check"} PROVE SendingOK(r)'
      BY DEF SendersOK
    <2>1. CASE r = p
      BY <1>1, <1>2, <1>3, <1>4, <1>5, <1>6, <2>1 DEF k, n, SendingOK
    <2>2. CASE r # p
      <3>1. SendingOK(r) /\ my[r].seq \in 0..MaxSeq /\ (my[r].seq = n => n = 0) /\ pc'[r] = pc[r]
        BY <1>5, <2>2, Typed DEF n, CallInv, SendersOK, NumbersUnique
      <3>2. my[r].seq # 0 => my[r].seq \in Seqs /\ pending'[my[r].seq] = pending[my[r].seq]
        BY <1>1, <1>4, <3>1, CallTableAssumption DEF Seqs
      <3> QED BY <1>6, <3>1, <3>2 DEF SendingOK
    <2> QED BY <2>1, <2>2
  <1>j. WaitersOK'
    <2> SUFFICES ASSUME NEW r \in Procs, pc'[r] = "done" PROVE WaitingOK(r)'
      BY DEF WaitersOK
    <2>1. r # p /\ WaitingOK(r)
      BY <1>5 DEF CallInv, WaitersOK
    <2>2. my[r].seq \in Seqs /\ my[r].seq # n
      BY <1>1, <2>1, Typed, CallTableAssumption DEF n, WaitingOK, CallInv, NumbersUnique, Seqs
    <2> QED BY <1>4, <1>6, <2>1, <2>2 DEF WaitingOK, Earned, netVars
  <1>k. Accounted'
    <2> SUFFICES ASSUME NEW l \in Calls, call'[l].ref
                 PROVE  (IF call[l].callback = None THEN \E r \in Procs : my[r].call = l
                         ELSE \/ \E r \in Procs : pc[r] = "lock" /\ my[r].call = l
                              \/ \E s \in Seqs : pending[s] = l
                              \/ reader = l
                              \/ \E h \in Handlers : \E i \in DOMAIN chanEvent[h] : chanEvent[h][i] = l
                              \/ l \in lost)'
      BY DEF Accounted
    <2>1. CASE l = k
      BY <1>1, <1>4, <1>6, <2>1 DEF k
    <2>2. CASE l # k
      <3>1. \A r \in Procs : pc[r] = "lock" /\ my[r].call = l => pc'[r] = "lock" /\ my'[r].call = l
        BY <1>5, <1>6, <2>2 DEF k
      <3>2. \A s \in Seqs : pending[s] = l => pending'[s] = l
        BY <1>3, <1>4, CallTableAssumption
      <3> QED BY <1>6, <3>1, <3>2 DEF CallInv, Accounted
    <2> QED BY <2>1, <2>2
  <1> QED BY <1>a, <1>b, <1>c, <1>d, <1>e, <1>f, <1>g, <1>h, <1>i, <1>j, <1>k DEF CallInv

-----------------------------------------------------------------------------
(* Telling a user *)

LEMMA ReturnFacts ==
  ASSUME CallInv, NEW s \in 0..MaxSeq, NEW e \in Errs, Return(s, e),
         s \in Seqs => returned[s] = <<>>
  PROVE  /\ \A q \in Seqs : q # s => returned'[q] = returned[q]
         /\ s \in Seqs => returned'[s] = <<e>>
  <1>1. \A q \in Seqs : returned'[q] = IF q = s THEN Append(returned[q], e) ELSE returned[q]
    BY DEF Return
  <1>2. Append(<<>>, e) = <<e>>
    OBVIOUS
  <1> QED BY <1>1, <1>2

\* One outcome for a user that had none, and the remote node's if it is a success.
LEMMA ReturnOutcomes ==
  ASSUME CallInv, NEW s \in 0..MaxSeq, NEW e \in Errs, Return(s, e), ~crashed',
         s \in Seqs => returned[s] = <<>>, Earned(s, e),
         UNCHANGED <<answers, responses>>
  PROVE  OutcomesOK'
  <1>1. \A q \in Seqs : returned'[q] = returned[q] \/ (q = s /\ returned'[q] = <<e>>)
    BY ReturnFacts
  <1>2. ~crashed' /\ responses' \subseteq answers'
    BY DEF CallInv, OutcomesOK
  <1>3. ASSUME NEW q \in Seqs
        PROVE  Len(returned'[q]) <= 1 /\ \A i \in DOMAIN returned'[q] : Earned(q, returned[q][i])'
    <2>1. CASE returned'[q] = returned[q]
      BY <2>1 DEF CallInv, OutcomesOK, Earned
    <2>2. CASE q = s /\ returned'[q] = <<e>>
      <3>1. Len(<<e>>) = 1 /\ DOMAIN <<e>> = {1} /\ <<e>>[1] = e
        OBVIOUS
      <3> QED BY <2>2, <3>1 DEF Earned
    <2> QED BY <1>1, <2>1, <2>2
  <1> QED BY <1>2, <1>3 DEF OutcomesOK

LEMMA AsyncCallFailsCalls ==
  ASSUME CallInv, TypeInv', NEW h \in Handlers, AsyncCallFails(h)
  PROVE  CallInv'
  <1> DEFINE n == startSeq'
  <1>1. startSeq \in Nat /\ n = startSeq + 1 /\ n \in Seqs /\ Seqs \subseteq Nat \ {0} /\ n \in 0..MaxSeq
    BY CallTableAssumption DEF AsyncCallFails, CallInv, TypeInv, TypeOK, TableTypeOK, Seqs
  <1>2. returned[n] = <<>> /\ pending[n] = None
    BY <1>1 DEF CallInv, FreshUnused
  <1>3. \A q \in Seqs : q # n => returned'[q] = returned[q]
    BY <1>1, <1>2, ReturnFacts DEF AsyncCallFails, Errs
  <1>4. OutcomesOK'
    BY <1>1, <1>2, ReturnOutcomes DEF AsyncCallFails, Errs, Earned, netVars, CallInv, OutcomesOK
  <1>5. UNCHANGED <<call, pending, timers, chanEvent, lost, pc, my, reader, firing, answers>>
    BY DEF AsyncCallFails, netVars
  <1>6. FreshUnused'
    <2>1. startSeq' > startSeq /\ \A q \in Seqs : q > startSeq' => q > startSeq /\ q # n
      BY <1>1
    <2>2. \A q \in Seqs : q > startSeq' => pending'[q] = None /\ returned'[q] = <<>>
      BY <1>3, <1>5, <2>1 DEF CallInv, FreshUnused
    <2>3. \A k \in Calls : call[k].Seq \in Nat /\ call[k].Seq <= startSeq
      BY Typed, CallTableAssumption DEF CallInv, FreshUnused
    <2>4. \A r \in Procs : my[r].seq \in Nat /\ my[r].seq <= startSeq
      BY Typed, CallTableAssumption DEF CallInv, FreshUnused
    <2> QED BY <1>1, <1>5, <2>2, <2>3, <2>4 DEF FreshUnused
  <1>7. PendingOK'
    BY <1>2, <1>3, <1>5 DEF CallInv, PendingOK
  <1>8. ReaderOK' 
    BY <1>1, <1>3, <1>5, Typed, CallTableAssumption DEF CallInv, ReaderOK, FreshUnused, Unanswered, Earned
  <1>9. QueuesOK' /\ QueuedOnce'
    <2> SUFFICES ASSUME NEW g \in Handlers, NEW i \in DOMAIN chanEvent[g]
                 PROVE  QueuedOK(g, chanEvent[g][i])'
      BY <1>5 DEF CallInv, QueuesOK, QueuedOnce
    <2>1. QueuedOK(g, chanEvent[g][i]) /\ chanEvent[g][i] \in Calls
      BY Typed DEF CallInv, QueuesOK
    <2>2. call[chanEvent[g][i]].Seq # n
      BY <1>1, <2>1, Typed DEF CallInv, FreshUnused
    <2> QED BY <1>3, <1>5, <2>1, <2>2 DEF QueuedOK, Unanswered, Earned
  <1>10. HoldersOK'
    <2> SUFFICES ASSUME NEW r \in Procs PROVE HoldingOK(r)'
      BY <1>5 DEF CallInv, HoldersOK
    <2>1. my[r].seq # 0 => my[r].seq \in Seqs /\ my[r].seq # n
      BY <1>1, Typed, CallTableAssumption DEF CallInv, FreshUnused, Seqs
    <2> QED BY <1>3, <1>5, <2>1 DEF CallInv, HoldersOK, HoldingOK
  <1>11. FreeIsClear' /\ NumbersUnique' /\ FiringOK' /\ LostOK'
    BY <1>5 DEF CallInv, FreeIsClear, NumbersUnique, FiringOK, LostOK
  <1>12. SendersOK' /\ WaitersOK' /\ Accounted'
    BY <1>5 DEF CallInv, SendersOK, SendingOK, WaitersOK, WaitingOK, Accounted, Earned
  <1> QED BY <1>4, <1>6, <1>7, <1>8, <1>9, <1>10, <1>11, <1>12 DEF CallInv

-----------------------------------------------------------------------------
(* Releasing a Call *)

\* What the ends of a call have in common: Call k goes back to the pool, number n, which
\* is that of k and of its holder, is settled, and k is in nobody's hands any more.
Dropping(k, n) ==
    /\ call[k].ref
    /\ call' = [call EXCEPT ![k] = Cleared]
    /\ call[k].Seq \in {0, n}
    /\ n # 0 => \A l \in Calls : call[l].Seq = n => l = k
    /\ \A r \in Procs : IF my[r].call = k
                        THEN my'[r] = NoLocal /\ pc'[r] = "idle"
                        ELSE my'[r] = my[r] /\ pc'[r] = pc[r] /\ (my[r].seq = n => n = 0)
    /\ \A s \in Seqs : pending'[s] = IF s = n THEN None ELSE pending[s]
    /\ \A s \in Seqs : s # n => returned'[s] = returned[s]
    /\ OutcomesOK'
    /\ k # reader /\ k \notin lost /\ k # firing.call
    /\ \A h \in Handlers : \A i \in DOMAIN chanEvent'[h] :
          \E j \in DOMAIN chanEvent[h] : chanEvent'[h][i] = chanEvent[h][j] /\ chanEvent[h][j] # k
    /\ \A h \in Handlers : \A j \in DOMAIN chanEvent[h] :
          chanEvent[h][j] # k => \E i \in DOMAIN chanEvent'[h] : chanEvent'[h][i] = chanEvent[h][j]
    /\ QueuedOnce'
    /\ UNCHANGED <<startSeq, timers, firing, reader, lost, netVars>>

LEMMA DropCall ==
  ASSUME CallInv, TypeInv', NEW k \in Calls, NEW n \in 0..MaxSeq, n # 0 => n <= startSeq,
         Dropping(k, n)
  PROVE  CallInv'
  <1>1. /\ \A l \in Calls : l # k => call'[l] = call[l]
        /\ call'[k] = [ref |-> FALSE, Seq |-> 0, Err |-> "nil", callback |-> None, done |-> 0]
    BY DEF Dropping, CallInv, TypeInv, TypeOK, TableTypeOK, Cleared
  <1>2. ASSUME NEW l \in Calls, l # k, call[l].Seq \in Seqs
        PROVE  /\ call[l].Seq # n
               /\ pending'[call[l].Seq] = pending[call[l].Seq]
               /\ returned'[call[l].Seq] = returned[call[l].Seq]
    <2>1. call[l].Seq # n
      BY <1>2, CallTableAssumption DEF Dropping, Seqs
    <2> QED BY <1>2, <2>1 DEF Dropping
  <1>3. ASSUME NEW s \in Seqs, pending'[s] # None
        PROVE  /\ s # n /\ pending[s] = pending'[s] /\ pending[s] \in Calls /\ pending[s] # k
               /\ call'[pending[s]] = call[pending[s]] /\ returned'[s] = returned[s]
    <2>1. s # n /\ pending[s] = pending'[s] /\ returned'[s] = returned[s]
      BY <1>3 DEF Dropping
    <2>2. pending[s] \in Calls /\ call[pending[s]].Seq = s /\ s # 0
      BY <1>3, <2>1, Typed, CallTableAssumption DEF CallInv, PendingOK, Seqs
    <2> QED BY <1>1, <2>1, <2>2 DEF Dropping
  <1>4. ASSUME NEW r \in Procs, pc'[r] # "idle"
        PROVE  /\ my[r].call # k /\ my'[r] = my[r] /\ pc'[r] = pc[r]
               /\ my[r].call \in Calls /\ call'[my[r].call] = call[my[r].call]
               /\ my[r].seq # 0 => /\ my[r].seq \in Seqs
                                   /\ pending'[my[r].seq] = pending[my[r].seq]
                                   /\ returned'[my[r].seq] = returned[my[r].seq]
    <2>1. my[r].call # k /\ my'[r] = my[r] /\ pc'[r] = pc[r]
      BY <1>4 DEF Dropping
    <2>2. my[r].call \in Calls
      BY <1>4, <2>1, Typed DEF CallInv
    <2>3. my[r].seq # 0 => my[r].seq \in Seqs /\ my[r].seq # n
      BY <2>1, Typed, CallTableAssumption DEF CallInv, Dropping, Seqs
    <2> QED BY <1>1, <2>1, <2>2, <2>3 DEF Dropping
  <1>5. \A r \in Procs : my'[r] = my[r] \/ my'[r] = NoLocal
    BY DEF Dropping
  <1>a. FreeIsClear'
    BY <1>1 DEF CallInv, FreeIsClear, Cleared
  <1>b. FreshUnused'
    <2>1. \A l \in Calls : call'[l].Seq <= startSeq
      BY <1>1, Typed, CallTableAssumption DEF CallInv, FreshUnused
    <2>2. \A r \in Procs : my'[r].seq <= startSeq
      BY <1>5, Typed, CallTableAssumption DEF CallInv, FreshUnused, NoLocal
    <2>3. ASSUME NEW s \in Seqs, s > startSeq PROVE pending'[s] = None /\ returned'[s] = <<>>
      <3>1. s # n
        BY <2>3, Typed, CallTableAssumption DEF CallInv, Seqs
      <3> QED BY <2>3, <3>1 DEF CallInv, FreshUnused, Dropping
    <2> QED BY <2>1, <2>2, <2>3 DEF FreshUnused, Dropping
  <1>c. NumbersUnique'
    <2>1. \A l, m \in Calls : call'[l].Seq = call'[m].Seq /\ call'[l].Seq # 0 => l = m
      BY <1>1 DEF CallInv, NumbersUnique
    <2>2. \A r, q \in Procs : my'[r].seq = my'[q].seq /\ my'[r].seq # 0 => r = q
      BY <1>5 DEF CallInv, NumbersUnique, NoLocal
    <2>3. \A r \in Procs, l \in Calls : call'[l].Seq = my'[r].seq /\ my'[r].seq # 0 => my'[r].call = l
      BY <1>1, <1>5 DEF CallInv, NumbersUnique, NoLocal
    <2> QED BY <2>1, <2>2, <2>3 DEF NumbersUnique
  <1>d. PendingOK'
    BY <1>3 DEF CallInv, PendingOK, Dropping
  <1>e. FiringOK'
    <2>1. CASE firing.call = None
      BY <2>1 DEF CallInv, FiringOK, Dropping
    <2>2. CASE firing.call # None
      <3>1. /\ firing.call \in Calls /\ firing.call # k /\ firing.seq \in Seqs
            /\ pending[firing.seq] = firing.call /\ call[firing.call].Seq = firing.seq
        BY <2>2, Typed DEF CallInv, FiringOK, PendingOK, Dropping
      <3>2. firing' = firing /\ pending'[firing.seq] = firing.call /\ call'[firing.call] = call[firing.call]
        BY <1>1, <1>2, <3>1 DEF Dropping
      <3> QED BY <2>2, <3>1, <3>2 DEF CallInv, FiringOK
    <2> QED BY <2>1, <2>2
  <1>f. ReaderOK'
    BY <1>1, <1>2, Typed DEF CallInv, ReaderOK, Unanswered, Earned, Dropping, netVars
  <1>g. QueuesOK'
    <2> SUFFICES ASSUME NEW h \in Handlers, NEW i \in DOMAIN chanEvent'[h]
                 PROVE  QueuedOK(h, chanEvent[h][i])'
      BY DEF QueuesOK
    <2>1. PICK j \in DOMAIN chanEvent[h] : chanEvent'[h][i] = chanEvent[h][j] /\ chanEvent[h][j] # k
      BY DEF Dropping
    <2>2. QueuedOK(h, chanEvent[h][j]) /\ chanEvent[h][j] \in Calls
      BY Typed DEF CallInv, QueuesOK
    <2>3. \A r \in Procs : my'[r].call # chanEvent[h][j]
      BY <1>5, <2>2, CallTableAssumption DEF QueuedOK, NoLocal
    <2> QED BY <1>1, <1>2, <2>1, <2>2, <2>3 DEF QueuedOK, Unanswered, Earned, Dropping, netVars
  <1>h. LostOK'
    <2> SUFFICES ASSUME NEW l \in lost
                 PROVE  /\ call'[l].ref /\ call'[l].callback # None /\ l # reader
                        /\ \A s \in Seqs : pending'[s] # l
                        /\ \A r \in Procs : my'[r].call # l
      BY DEF LostOK, Dropping
    <2>1. l \in Calls /\ l # k /\ l # None
      BY Typed, CallTableAssumption DEF CallInv, Dropping
    <2>2. \A r \in Procs : my'[r].call # l
      BY <1>5, <2>1 DEF CallInv, LostOK, NoLocal
    <2> QED BY <1>1, <2>1, <2>2 DEF CallInv, LostOK, Dropping
  <1>i. HoldersOK'
    <2>1. \A r \in Procs : HoldingOK(r)'
      <3> SUFFICES ASSUME NEW r \in Procs PROVE HoldingOK(r)'
        OBVIOUS
      <3>1. CASE pc'[r] = "idle"
        BY <3>1 DEF CallInv, HoldersOK, HoldingOK, Dropping
      <3>2. CASE pc'[r] # "idle"
        BY <1>4, <3>2 DEF CallInv, HoldersOK, HoldingOK
      <3> QED BY <3>1, <3>2
    <2>2. \A r, q \in Procs : my'[r].call = my'[q].call /\ my'[r].call # None => r = q
      BY <1>5 DEF CallInv, HoldersOK, NoLocal
    <2> QED BY <2>1, <2>2 DEF HoldersOK
  <1>j. SendersOK'
    <2> SUFFICES ASSUME NEW r \in Procs, pc'[r] \in {"lock", "write", "check"} PROVE SendingOK(r)'
      BY DEF SendersOK
    <2>1. SendingOK(r) /\ pc'[r] # "idle" /\ reader' = reader
      BY <1>4 DEF CallInv, SendersOK, Dropping
    <2> QED BY <1>4, <2>1 DEF SendingOK
  <1>k. WaitersOK'
    <2> SUFFICES ASSUME NEW r \in Procs, pc'[r] = "done" PROVE WaitingOK(r)'
      BY DEF WaitersOK
    <2>1. WaitingOK(r) /\ reader' = reader /\ answers' = answers
      BY <1>4 DEF CallInv, WaitersOK, Dropping, netVars
    <2> QED BY <1>4, <2>1 DEF WaitingOK, Earned
  <1>l. Accounted'
    <2> SUFFICES ASSUME NEW l \in Calls, call'[l].ref
                 PROVE  (IF call[l].callback = None THEN \E r \in Procs : my[r].call = l
                         ELSE \/ \E r \in Procs : pc[r] = "lock" /\ my[r].call = l
                              \/ \E s \in Seqs : pending[s] = l
                              \/ reader = l
                              \/ \E h \in Handlers : \E i \in DOMAIN chanEvent[h] : chanEvent[h][i] = l
                              \/ l \in lost)'
      BY DEF Accounted
    <2>1. l # k /\ call'[l] = call[l] /\ l # None /\ call[l].ref
      BY <1>1, CallTableAssumption
    <2>2. ASSUME NEW r \in Procs, my[r].call = l PROVE my'[r].call = l /\ pc'[r] = pc[r]
      BY <2>1, <2>2 DEF Dropping
    <2>3. ASSUME NEW s \in Seqs, pending[s] = l PROVE pending'[s] = l
      <3>1. call[l].Seq = s
        BY <2>1, <2>3 DEF CallInv, PendingOK
      <3> QED BY <1>2, <2>1, <2>3, <3>1
    <2>4. ASSUME NEW h \in Handlers, NEW j \in DOMAIN chanEvent[h], chanEvent[h][j] = l
          PROVE  \E i \in DOMAIN chanEvent'[h] : chanEvent'[h][i] = l
      BY <2>1, <2>4 DEF Dropping
    <2>5. reader' = reader /\ lost' = lost
      BY DEF Dropping
    <2> QED BY <2>1, <2>2, <2>3, <2>4, <2>5 DEF CallInv, Accounted
  <1>m. QueuedOnce' /\ OutcomesOK'
    BY DEF Dropping
  <1> QED BY <1>a, <1>b, <1>c, <1>d, <1>e, <1>f, <1>g, <1>h, <1>i, <1>j, <1>k, <1>l, <1>m DEF CallInv

\* The queues are left alone and k is in none of them.
LEMMA QueuesAlone ==
  ASSUME CallInv, NEW k, chanEvent' = chanEvent,
         \A h \in Handlers : \A i \in DOMAIN chanEvent[h] : chanEvent[h][i] # k
  PROVE  /\ \A h \in Handlers : \A i \in DOMAIN chanEvent'[h] :
               \E j \in DOMAIN chanEvent[h] : chanEvent'[h][i] = chanEvent[h][j] /\ chanEvent[h][j] # k
         /\ \A h \in Handlers : \A j \in DOMAIN chanEvent[h] :
               chanEvent[h][j] # k => \E i \in DOMAIN chanEvent'[h] : chanEvent'[h][i] = chanEvent[h][j]
         /\ QueuedOnce'
  BY DEF CallInv, QueuedOnce

\* A Call held by a caller is in no queue and not lost: it has no callback.
LEMMA CallerAlone ==
  ASSUME CallInv, NEW c \in Callers, pc[c] # "idle"
  PROVE  /\ my[c].call \in Calls /\ c \in Procs /\ my[c].call # None
         /\ call[my[c].call].ref /\ call[my[c].call].callback = None
         /\ my[c].call \notin lost
         /\ \A h \in Handlers : \A i \in DOMAIN chanEvent[h] : chanEvent[h][i] # my[c].call
  <1>1. c \in Procs /\ my[c].call \in Calls
    BY Typed DEF Procs, CallInv
  <1>2. call[my[c].call].ref /\ call[my[c].call].callback = None
    BY <1>1 DEF CallInv, HoldersOK, HoldingOK
  <1>3. my[c].call \notin lost /\ my[c].call # None
    BY <1>1, <1>2, CallTableAssumption DEF CallInv, LostOK
  <1>4. \A h \in Handlers : \A i \in DOMAIN chanEvent[h] : chanEvent[h][i] # my[c].call
    BY <1>2, CallTableAssumption DEF CallInv, QueuesOK, QueuedOK
  <1> QED BY <1>1, <1>2, <1>3, <1>4

LEMMA FinishCalls ==
  ASSUME CallInv, TypeInv', NEW c \in Callers, CheckErr(c) \/ Done(c)
  PROVE  CallInv'
  <1> DEFINE k == my[c].call
             n == my[c].seq
  <1>1. Finish(c) /\ pc[c] \in {"check", "done"}
    BY DEF CheckErr, Done
  <1>2. /\ k \in Calls /\ c \in Procs /\ k # None /\ call[k].ref /\ call[k].callback = None
        /\ k \notin lost
        /\ \A h \in Handlers : \A i \in DOMAIN chanEvent[h] : chanEvent[h][i] # k
    BY <1>1, CallerAlone
  <1>3. n \in 0..MaxSeq /\ n <= startSeq /\ (n # 0 => n \in Seqs /\ returned[n] = <<>>)
    BY <1>1, <1>2, Typed, CallTableAssumption
    DEF CallInv, HoldersOK, HoldingOK, FreshUnused, Seqs
  <1>4. /\ call[k].Seq \in {0, n}
        /\ k # reader
        /\ n # 0 => pending[n] = None
        /\ ~my[c].noReply => Earned(n, call[k].Err)
    <2>1. CASE CheckErr(c)
      BY <1>2, <2>1 DEF CheckErr, CallInv, SendersOK, SendingOK, Earned
    <2>2. CASE Done(c)
      BY <1>2, <2>2 DEF Done, CallInv, WaitersOK, WaitingOK
    <2> QED BY <2>1, <2>2
  <1>5. ~crashed' /\ call' = [call EXCEPT ![k] = Cleared]
    BY <1>1, <1>2 DEF Finish, ReleaseCall, CallInv, OutcomesOK
  <1>6. \A s \in Seqs : s # n => returned'[s] = returned[s]
    <2>1. CASE my[c].noReply
      BY <1>1, <2>1 DEF Finish
    <2>2. CASE ~my[c].noReply
      BY <1>1, <1>2, <1>3, <2>2, ReturnFacts, Typed, CallTableAssumption DEF Finish, CallInv, Seqs
    <2> QED BY <2>1, <2>2
  <1>7. OutcomesOK'
    <2>1. UNCHANGED <<answers, responses>>
      BY <1>1 DEF Finish, netVars
    <2>2. CASE my[c].noReply
      BY <1>1, <1>5, <2>1, <2>2 DEF Finish, CallInv, OutcomesOK, Earned
    <2>3. CASE ~my[c].noReply
      <3>1. Return(n, call[k].Err) /\ call[k].Err \in Errs /\ (n \in Seqs => returned[n] = <<>>)
        BY <1>1, <1>2, <1>3, <2>3, Typed, CallTableAssumption DEF Finish, CallInv, Seqs
      <3> QED BY <1>3, <1>4, <1>5, <2>1, <2>3, <3>1, ReturnOutcomes
    <2> QED BY <2>2, <2>3
  <1>8. k # firing.call
    <2>1. ASSUME firing.call = k PROVE FALSE
      <3>1. firing.seq \in Seqs /\ pending[firing.seq] = k /\ call[k].Seq = firing.seq
        BY <1>2, <2>1 DEF CallInv, FiringOK, PendingOK
      <3> QED BY <1>2, <1>4, <3>1, CallTableAssumption DEF Seqs
    <2> QED BY <2>1
  <1>9. \A r \in Procs : IF my[r].call = k
                         THEN my'[r] = NoLocal /\ pc'[r] = "idle"
                         ELSE my'[r] = my[r] /\ pc'[r] = pc[r] /\ (my[r].seq = n => n = 0)
    <2>1. my' = [my EXCEPT ![c] = NoLocal] /\ pc' = [pc EXCEPT ![c] = "idle"]
      BY <1>1 DEF Finish
    <2>2. \A r \in Procs : r # c => my[r].call # k /\ (my[r].seq = n => n = 0)
      BY <1>2 DEF CallInv, HoldersOK, NumbersUnique
    <2> QED BY <1>2, <2>1, <2>2 DEF CallInv, TypeInv, TypeOK
  <1>10. n # 0 => \A l \in Calls : call[l].Seq = n => l = k
    BY <1>2 DEF CallInv, NumbersUnique
  <1>11. \A s \in Seqs : pending'[s] = IF s = n THEN None ELSE pending[s]
    BY <1>1, <1>4, CallTableAssumption DEF Finish, Seqs
  <1>12. UNCHANGED <<startSeq, timers, firing, reader, lost, netVars>> /\ chanEvent' = chanEvent
    BY <1>1 DEF Finish
  <1> HIDE DEF k, n
  <1>13. Dropping(k, n)
    BY <1>2, <1>4, <1>5, <1>6, <1>7, <1>8, <1>9, <1>10, <1>11, <1>12, QueuesAlone DEF Dropping
  <1> QED BY <1>2, <1>3, <1>13, DropCall

LEMMA AsyncWriteFailsCalls ==
  ASSUME CallInv, TypeInv', NEW p \in Handlers, WriteMsgFails(p)
  PROVE  CallInv'
  <1> DEFINE k == my[p].call
             n == my[p].seq
  <1>1. p \in Procs /\ p \notin Callers /\ pc[p] = "write" /\ k \in Calls
    BY RpcClientAssumption, Typed DEF WriteMsgFails, Procs, CallInv
  <1>2. call[k].ref /\ call[k].callback = p
    BY <1>1 DEF CallInv, HoldersOK, HoldingOK
  <1>3. /\ n # 0 /\ call[k].Seq = n /\ pending[n] = k /\ k # reader
        /\ n \in 0..MaxSeq /\ n \in Seqs /\ n <= startSeq /\ returned[n] = <<>>
    BY <1>1, Typed, CallTableAssumption
    DEF CallInv, SendersOK, SendingOK, HoldersOK, HoldingOK, FreshUnused, Seqs
  <1>4. k \notin lost /\ k # None
    BY <1>1, <1>3, CallTableAssumption DEF CallInv, LostOK
  <1>5. \A h \in Handlers : \A i \in DOMAIN chanEvent[h] : chanEvent[h][i] # k
    BY <1>3, <1>4 DEF CallInv, QueuesOK, QueuedOK, Unanswered
  <1>6. k # firing.call
    BY <1>4 DEF WriteMsgFails, LockFree
  <1>7. ~crashed' /\ call' = [call EXCEPT ![k] = Cleared]
    BY <1>1, <1>2 DEF WriteMsgFails, ReleaseCall, CallInv, OutcomesOK
  <1>8. Return(n, "err") /\ "err" \in Errs /\ Earned(n, "err")
    BY <1>1 DEF WriteMsgFails, Errs, Earned
  <1>9. \A s \in Seqs : s # n => returned'[s] = returned[s]
    BY <1>3, <1>8, ReturnFacts
  <1>10. OutcomesOK'
    <2>1. UNCHANGED <<answers, responses>>
      BY DEF WriteMsgFails, netVars
    <2> QED BY <1>3, <1>7, <1>8, <2>1, ReturnOutcomes
  <1>11. \A r \in Procs : IF my[r].call = k
                          THEN my'[r] = NoLocal /\ pc'[r] = "idle"
                          ELSE my'[r] = my[r] /\ pc'[r] = pc[r] /\ (my[r].seq = n => n = 0)
    <2>1. my' = [my EXCEPT ![p] = NoLocal] /\ pc' = [pc EXCEPT ![p] = "idle"]
      BY <1>1 DEF WriteMsgFails
    <2>2. \A r \in Procs : r # p => my[r].call # k /\ (my[r].seq = n => n = 0)
      BY <1>1, <1>4 DEF CallInv, HoldersOK, NumbersUnique
    <2> QED BY <1>1, <2>1, <2>2 DEF CallInv, TypeInv, TypeOK
  <1>12. n # 0 => \A l \in Calls : call[l].Seq = n => l = k
    BY <1>1, <1>3 DEF CallInv, NumbersUnique
  <1>13. \A s \in Seqs : pending'[s] = IF s = n THEN None ELSE pending[s]
    BY <1>3 DEF WriteMsgFails, RemovePending
  <1>14. UNCHANGED <<startSeq, timers, firing, reader, lost, netVars>> /\ chanEvent' = chanEvent
    BY DEF WriteMsgFails
  <1> HIDE DEF k, n
  <1>15. call[k].Seq \in {0, n}
    BY <1>3
  <1> HIDE DEF k, n
  <1>16. /\ \A h \in Handlers : \A i \in DOMAIN chanEvent'[h] :
              \E j \in DOMAIN chanEvent[h] : chanEvent'[h][i] = chanEvent[h][j] /\ chanEvent[h][j] # k
         /\ \A h \in Handlers : \A j \in DOMAIN chanEvent[h] :
              chanEvent[h][j] # k => \E i \in DOMAIN chanEvent'[h] : chanEvent'[h][i] = chanEvent[h][j]
         /\ QueuedOnce'
    BY <1>5, <1>14, QueuesAlone
  <1>17. call[k].ref /\ k # reader /\ k \notin lost
    BY <1>2, <1>3, <1>4
  <1>18. Dropping(k, n)
    BY <1>6, <1>7, <1>9, <1>10, <1>11, <1>12, <1>13, <1>14, <1>15, <1>16, <1>17 DEF Dropping
  <1> QED BY <1>1, <1>3, <1>18, DropCall

-----------------------------------------------------------------------------
(* Running a callback *)

\* The response at the head of a queue is in nobody else's hands.
LEMMA HeadAlone ==
  ASSUME CallInv, NEW h \in Handlers, chanEvent[h] # <<>>, NEW k, k = Head(chanEvent[h])
  PROVE  /\ k \in Calls /\ QueuedOK(h, k) /\ k # None
         /\ call[k].callback # None
         /\ k # firing.call
         /\ \A s \in Seqs : pending[s] # k
         /\ \A r \in Procs : my[r].call # k /\ my[r].seq # call[k].Seq
         /\ \A l \in Calls : call[l].Seq = call[k].Seq => l = k
  <1>1. chanEvent[h] \in Seq(Calls) /\ 1 \in DOMAIN chanEvent[h] /\ k = chanEvent[h][1]
    BY DEF CallInv, TypeInv, TypeOK, TableTypeOK
  <1>2. k \in Calls /\ QueuedOK(h, k) /\ k # None /\ call[k].callback # None
    BY <1>1, Typed, CallTableAssumption DEF CallInv, QueuesOK, QueuedOK
  <1>3. call[k].Seq \in Seqs /\ call[k].Seq # 0 /\ pending[call[k].Seq] = None
    BY <1>2, CallTableAssumption DEF QueuedOK, Unanswered, Seqs
  <1>4. \A s \in Seqs : pending[s] # k
    BY <1>2, <1>3 DEF CallInv, PendingOK
  <1>5. k # firing.call
    BY <1>2, <1>4 DEF CallInv, FiringOK
  <1>6. \A r \in Procs : my[r].call # k
    BY <1>2 DEF QueuedOK
  <1>7. \A l \in Calls : call[l].Seq = call[k].Seq => l = k
    BY <1>2, <1>3 DEF CallInv, NumbersUnique
  <1>8. \A r \in Procs : my[r].seq # call[k].Seq
    BY <1>2, <1>3, <1>6 DEF CallInv, NumbersUnique
  <1> QED BY <1>2, <1>4, <1>5, <1>6, <1>7, <1>8

\* Taking the head off a queue leaves the others in it, once.
LEMMA TailFacts ==
  ASSUME NEW q \in Seq(Calls), q # <<>>
  PROVE  /\ \A i \in DOMAIN Tail(q) : i + 1 \in DOMAIN q /\ i + 1 # 1 /\ Tail(q)[i] = q[i + 1]
         /\ \A j \in DOMAIN q : j # 1 => j - 1 \in DOMAIN Tail(q) /\ Tail(q)[j - 1] = q[j]
         /\ 1 \in DOMAIN q /\ Head(q) = q[1] /\ DOMAIN q \subseteq Nat /\ DOMAIN Tail(q) \subseteq Nat
  OBVIOUS

LEMMA QueueTail ==
  ASSUME CallInv, NEW h \in Handlers, chanEvent[h] # <<>>, NEW k, k = Head(chanEvent[h]),
         chanEvent' = [chanEvent EXCEPT ![h] = Tail(@)]
  PROVE  /\ \A g \in Handlers : \A i \in DOMAIN chanEvent'[g] :
               \E j \in DOMAIN chanEvent[g] : chanEvent'[g][i] = chanEvent[g][j] /\ chanEvent[g][j] # k
         /\ \A g \in Handlers : \A j \in DOMAIN chanEvent[g] :
               chanEvent[g][j] # k => \E i \in DOMAIN chanEvent'[g] : chanEvent'[g][i] = chanEvent[g][j]
         /\ QueuedOnce'
  <1>1. chanEvent[h] \in Seq(Calls) /\ chanEvent'[h] = Tail(chanEvent[h])
    BY DEF CallInv, TypeInv, TypeOK, TableTypeOK
  <1>2. \A g \in Handlers : g # h => chanEvent'[g] = chanEvent[g]
    BY DEF CallInv, TypeInv, TypeOK, TableTypeOK
  <1>3. \A g \in Handlers : g # h => \A j \in DOMAIN chanEvent[g] : chanEvent[g][j] # k
    BY HeadAlone DEF CallInv, QueuesOK, QueuedOK
  <1>4. /\ \A i \in DOMAIN chanEvent'[h] : i + 1 \in DOMAIN chanEvent[h] /\ i + 1 # 1
                                         /\ chanEvent'[h][i] = chanEvent[h][i + 1]
        /\ \A j \in DOMAIN chanEvent[h] : j # 1 => j - 1 \in DOMAIN chanEvent'[h]
                                                  /\ chanEvent'[h][j - 1] = chanEvent[h][j]
        /\ 1 \in DOMAIN chanEvent[h] /\ k = chanEvent[h][1]
        /\ DOMAIN chanEvent'[h] \subseteq Nat
    BY <1>1, TailFacts
  <1>5. \A i, j \in DOMAIN chanEvent[h] : chanEvent[h][i] = chanEvent[h][j] => i = j
    BY DEF CallInv, QueuedOnce
  <1>6. ASSUME NEW g \in Handlers, NEW i \in DOMAIN chanEvent'[g]
        PROVE  \E j \in DOMAIN chanEvent[g] : chanEvent'[g][i] = chanEvent[g][j] /\ chanEvent[g][j] # k
    <2>1. CASE g = h
      BY <1>4, <1>5, <1>6, <2>1
    <2>2. CASE g # h
      BY <1>2, <1>3, <1>6, <2>2
    <2> QED BY <2>1, <2>2
  <1>7. ASSUME NEW g \in Handlers, NEW j \in DOMAIN chanEvent[g], chanEvent[g][j] # k
        PROVE  \E i \in DOMAIN chanEvent'[g] : chanEvent'[g][i] = chanEvent[g][j]
    <2>1. CASE g = h
      BY <1>4, <1>7, <2>1
    <2>2. CASE g # h
      BY <1>2, <1>7, <2>2
    <2> QED BY <2>1, <2>2
  <1>8. QueuedOnce'
    <2>1. \A i, j \in DOMAIN chanEvent'[h] : chanEvent'[h][i] = chanEvent'[h][j] => i = j
      BY <1>4, <1>5
    <2> QED BY <1>2, <2>1 DEF CallInv, QueuedOnce
  <1> QED BY <1>6, <1>7, <1>8

\* The callback ran and its Call goes back to the pool.
LEMMA CallbackReleases ==
  ASSUME CallInv, TypeInv', NEW h \in Handlers, HandlerRpcResponseCB(h, FALSE),
         UNCHANGED <<clientVars, netVars>>
  PROVE  CallInv'
  <1> DEFINE k == Head(chanEvent[h])
             n == call[k].Seq
  <1>1. /\ chanEvent[h] # <<>> /\ chanEvent' = [chanEvent EXCEPT ![h] = Tail(@)]
        /\ UNCHANGED <<startSeq, pending, timers, firing, reader, pc, my, netVars>>
    BY DEF HandlerRpcResponseCB, clientVars
  <1>2. /\ k \in Calls /\ QueuedOK(h, k) /\ k # None
        /\ call[k].callback # None
        /\ k # firing.call
        /\ \A s \in Seqs : pending[s] # k
        /\ \A r \in Procs : my[r].call # k /\ my[r].seq # call[k].Seq
        /\ \A l \in Calls : call[l].Seq = call[k].Seq => l = k
    BY <1>1, HeadAlone
  <1>3. Return(call[k].Seq, call[k].Err) /\ ReleaseCall(k) /\ lost' = lost
    BY <1>2 DEF HandlerRpcResponseCB
  <1> HIDE DEF k
  <1>4. /\ n \in Seqs /\ n \in 0..MaxSeq /\ n <= startSeq
        /\ pending[n] = None /\ returned[n] = <<>> /\ Earned(n, call[k].Err) /\ call[k].Err \in Errs
    BY <1>2, Typed DEF CallInv, FreshUnused, QueuedOK, Unanswered
  <1>5. ~crashed' /\ call' = [call EXCEPT ![k] = Cleared] /\ call[k].ref
    BY <1>2, <1>3 DEF ReleaseCall, CallInv, OutcomesOK, QueuedOK
  <1>6. \A s \in Seqs : s # n => returned'[s] = returned[s]
    BY <1>3, <1>4, ReturnFacts
  <1>7. OutcomesOK'
    <2>1. UNCHANGED <<answers, responses>>
      BY <1>1 DEF netVars
    <2> QED BY <1>3, <1>4, <1>5, <2>1, ReturnOutcomes
  <1>8. \A r \in Procs : IF my[r].call = k
                         THEN my'[r] = NoLocal /\ pc'[r] = "idle"
                         ELSE my'[r] = my[r] /\ pc'[r] = pc[r] /\ (my[r].seq = n => n = 0)
    BY <1>1, <1>2
  <1>9. \A s \in Seqs : pending'[s] = IF s = n THEN None ELSE pending[s]
    BY <1>1, <1>4
  <1>10. /\ \A g \in Handlers : \A i \in DOMAIN chanEvent'[g] :
              \E j \in DOMAIN chanEvent[g] : chanEvent'[g][i] = chanEvent[g][j] /\ chanEvent[g][j] # k
         /\ \A g \in Handlers : \A j \in DOMAIN chanEvent[g] :
              chanEvent[g][j] # k => \E i \in DOMAIN chanEvent'[g] : chanEvent'[g][i] = chanEvent[g][j]
         /\ QueuedOnce'
    BY <1>1, QueueTail DEF k
  <1>11. k # reader /\ k \notin lost /\ (n # 0 => \A l \in Calls : call[l].Seq = n => l = k)
    BY <1>2 DEF QueuedOK
  <1>12. call[k].Seq \in {0, n}
    OBVIOUS
  <1> HIDE DEF n
  <1>13. Dropping(k, n)
    BY <1>1, <1>2, <1>3, <1>5, <1>6, <1>7, <1>8, <1>9, <1>10, <1>11, <1>12 DEF Dropping
  <1> QED BY <1>2, <1>4, <1>13, DropCall

\* The callback panicked: its user has been told and the Call is lost.
LEMMA CallbackLoses ==
  ASSUME CallInv, TypeInv', NEW h \in Handlers, HandlerRpcResponseCB(h, TRUE),
         UNCHANGED <<clientVars, netVars>>
  PROVE  CallInv'
  <1> DEFINE k == Head(chanEvent[h])
             n == call[k].Seq
  <1>1. /\ chanEvent[h] # <<>> /\ chanEvent' = [chanEvent EXCEPT ![h] = Tail(@)]
        /\ UNCHANGED <<startSeq, pending, timers, firing, reader, pc, my, netVars>>
    BY DEF HandlerRpcResponseCB, clientVars
  <1>2. /\ k \in Calls /\ QueuedOK(h, k) /\ k # None
        /\ call[k].callback # None
        /\ k # firing.call
        /\ \A s \in Seqs : pending[s] # k
        /\ \A r \in Procs : my[r].call # k /\ my[r].seq # call[k].Seq
        /\ \A l \in Calls : call[l].Seq = call[k].Seq => l = k
    BY <1>1, HeadAlone
  <1>3. Return(call[k].Seq, call[k].Err) /\ call' = call /\ crashed' = crashed /\ lost' = lost \cup {k}
    BY <1>2 DEF HandlerRpcResponseCB
  <1> HIDE DEF k
  <1>4. /\ n \in Seqs /\ n \in 0..MaxSeq /\ n <= startSeq
        /\ pending[n] = None /\ returned[n] = <<>> /\ Earned(n, call[k].Err) /\ call[k].Err \in Errs
    BY <1>2, Typed DEF CallInv, FreshUnused, QueuedOK, Unanswered
  <1>5. \A s \in Seqs : s # n => returned'[s] = returned[s]
    BY <1>3, <1>4, ReturnFacts
  <1>6. OutcomesOK'
    <2>1. UNCHANGED <<answers, responses>> /\ ~crashed'
      BY <1>1, <1>3 DEF netVars, CallInv, OutcomesOK
    <2> QED BY <1>3, <1>4, <2>1, ReturnOutcomes
  <1>7. /\ \A g \in Handlers : \A i \in DOMAIN chanEvent'[g] :
              \E j \in DOMAIN chanEvent[g] : chanEvent'[g][i] = chanEvent[g][j] /\ chanEvent[g][j] # k
        /\ \A g \in Handlers : \A j \in DOMAIN chanEvent[g] :
              chanEvent[g][j] # k => \E i \in DOMAIN chanEvent'[g] : chanEvent'[g][i] = chanEvent[g][j]
        /\ QueuedOnce'
    BY <1>1, QueueTail DEF k
  <1>8. call[k].ref /\ k # reader
    BY <1>2 DEF QueuedOK
  <1>9. UNCHANGED <<answers, responses>>
    BY <1>1 DEF netVars
  <1>10. \A r \in Procs : my[r].seq # n
    BY <1>2
  <1>11. \A l \in Calls : l # k => call[l].Seq # n
    BY <1>2
  <1> HIDE DEF n
  <1>a. FreeIsClear' /\ NumbersUnique' /\ FiringOK'
    BY <1>1, <1>3 DEF CallInv, FreeIsClear, NumbersUnique, FiringOK
  <1>b. FreshUnused'
    <2>1. ASSUME NEW s \in Seqs, s > startSeq PROVE returned'[s] = <<>>
      <3>1. s # n
        BY <1>4, <2>1, Typed, CallTableAssumption DEF CallInv, Seqs
      <3> QED BY <1>5, <2>1, <3>1 DEF CallInv, FreshUnused
    <2> QED BY <1>1, <1>3, <2>1 DEF CallInv, FreshUnused
  <1>c. PendingOK'
    BY <1>1, <1>3, <1>4, <1>5 DEF CallInv, PendingOK
  <1>d. ReaderOK'
    BY <1>1, <1>3, <1>5, <1>8, <1>9, <1>11, Typed DEF CallInv, ReaderOK, Unanswered, Earned
  <1>e. QueuesOK'
    <2> SUFFICES ASSUME NEW g \in Handlers, NEW i \in DOMAIN chanEvent'[g]
                 PROVE  QueuedOK(g, chanEvent[g][i])'
      BY DEF QueuesOK
    <2>1. PICK j \in DOMAIN chanEvent[g] : chanEvent'[g][i] = chanEvent[g][j] /\ chanEvent[g][j] # k
      BY <1>7
    <2>2. QueuedOK(g, chanEvent[g][j]) /\ chanEvent[g][j] \in Calls
      BY Typed DEF CallInv, QueuesOK
    <2> QED BY <1>1, <1>3, <1>5, <1>9, <1>11, <2>1, <2>2 DEF QueuedOK, Unanswered, Earned
  <1>f. LostOK'
    BY <1>1, <1>2, <1>3, <1>8 DEF CallInv, LostOK
  <1>g. HoldersOK'
    <2> SUFFICES ASSUME NEW r \in Procs PROVE HoldingOK(r)'
      BY <1>1 DEF CallInv, HoldersOK
    <2>1. my[r].seq # 0 => my[r].seq \in Seqs /\ my[r].seq # n
      BY <1>10, Typed, CallTableAssumption DEF CallInv, Seqs
    <2> QED BY <1>1, <1>3, <1>5, <2>1 DEF CallInv, HoldersOK, HoldingOK
  <1>h. SendersOK' /\ WaitersOK'
    BY <1>1, <1>3, <1>9 DEF CallInv, SendersOK, SendingOK, WaitersOK, WaitingOK, Earned
  <1>i. Accounted'
    <2> SUFFICES ASSUME NEW l \in Calls, call[l].ref
                 PROVE  (IF call[l].callback = None THEN \E r \in Procs : my[r].call = l
                         ELSE \/ \E r \in Procs : pc[r] = "lock" /\ my[r].call = l
                              \/ \E s \in Seqs : pending[s] = l
                              \/ reader = l
                              \/ \E g \in Handlers : \E i \in DOMAIN chanEvent[g] : chanEvent[g][i] = l
                              \/ l \in lost)'
      BY <1>3 DEF Accounted
    <2>1. CASE l = k
      BY <1>2, <1>3, <2>1
    <2>2. CASE l # k
      <3>1. ASSUME NEW g \in Handlers, NEW j \in DOMAIN chanEvent[g], chanEvent[g][j] = l
            PROVE  \E i \in DOMAIN chanEvent'[g] : chanEvent'[g][i] = l
        BY <1>7, <2>2, <3>1
      <3> QED BY <1>1, <1>3, <3>1 DEF CallInv, Accounted
    <2> QED BY <2>1, <2>2
  <1> QED BY <1>6, <1>7, <1>a, <1>b, <1>c, <1>d, <1>e, <1>f, <1>g, <1>h, <1>i DEF CallInv

LEMMA RunCallbackCalls ==
  ASSUME CallInv, TypeInv', NEW h \in Handlers, RunCallback(h)
  PROVE  CallInv'
  <1>1. PICK panics \in BOOLEAN : HandlerRpcResponseCB(h, panics)
    BY DEF RunCallback
  <1>2. UNCHANGED <<clientVars, netVars>>
    BY DEF RunCallback
  <1>3. CASE panics = TRUE
    BY <1>1, <1>2, <1>3, CallbackLoses
  <1>4. CASE panics = FALSE
    BY <1>1, <1>2, <1>4, CallbackReleases
  <1> QED BY <1>3, <1>4

-----------------------------------------------------------------------------
(* Writing *)

\* The request is out: a caller goes on to look at its Call, a service has handed its
\* Call over to the table.
LEMMA WrittenCalls ==
  ASSUME CallInv, TypeInv', NEW p \in Procs, pc[p] = "write", AfterWrite(p),
         UNCHANGED <<tableVars, reader, answers>>, responses' \subseteq responses
  PROVE  CallInv'
  <1>1. UNCHANGED <<call, startSeq, pending, timers, firing, chanEvent, lost, crashed, returned, reader, answers>>
    BY DEF tableVars
  <1>2. /\ \A r \in Procs : r # p => my'[r] = my[r] /\ pc'[r] = pc[r]
        /\ p \in Callers => my'[p] = my[p] /\ pc'[p] = "check"
        /\ p \notin Callers => my'[p] = NoLocal /\ pc'[p] = "idle"
    BY DEF AfterWrite, CallInv, TypeInv, TypeOK
  <1>3. \A r \in Procs : my'[r] = my[r] \/ my'[r] = NoLocal
    BY <1>2
  <1>4. ASSUME NEW r \in Procs, pc'[r] # "idle"
        PROVE  my'[r] = my[r] /\ (pc'[r] = pc[r] \/ (r = p /\ p \in Callers /\ pc'[r] = "check"))
    BY <1>2, <1>4
  <1>5. p \in Callers => p \notin Handlers
    BY RpcClientAssumption
  <1>a. FreeIsClear' /\ PendingOK' /\ FiringOK' /\ ReaderOK' /\ QueuesOK' /\ QueuedOnce' /\ LostOK'
    <2>1. \A l \in Calls : (\A r \in Procs : my[r].call # l) => (\A r \in Procs : my'[r].call # l)
      BY <1>3, CallTableAssumption DEF NoLocal
    <2>2. QueuesOK' /\ QueuedOnce'
      <3> SUFFICES ASSUME NEW h \in Handlers, NEW i \in DOMAIN chanEvent[h]
                   PROVE  QueuedOK(h, chanEvent[h][i])'
        BY <1>1 DEF CallInv, QueuesOK, QueuedOnce
      <3>1. QueuedOK(h, chanEvent[h][i]) /\ chanEvent[h][i] \in Calls
        BY Typed DEF CallInv, QueuesOK
      <3>2. \A r \in Procs : my'[r].call # chanEvent[h][i]
        BY <2>1, <3>1 DEF QueuedOK
      <3> QED BY <1>1, <3>1, <3>2 DEF QueuedOK, Unanswered, Earned
    <2>3. LostOK'
      BY <1>1, <2>1, Typed DEF CallInv, LostOK
    <2> QED BY <1>1, <2>2, <2>3 DEF CallInv, FreeIsClear, PendingOK, FiringOK, ReaderOK, Unanswered, Earned
  <1>b. FreshUnused'
    BY <1>1, <1>3, Typed, CallTableAssumption DEF CallInv, FreshUnused, NoLocal
  <1>c. NumbersUnique'
    BY <1>1, <1>3 DEF CallInv, NumbersUnique, NoLocal
  <1>d. HoldersOK'
    <2>1. \A r \in Procs : HoldingOK(r)'
      <3> SUFFICES ASSUME NEW r \in Procs PROVE HoldingOK(r)'
        OBVIOUS
      <3>1. CASE r # p
        BY <1>1, <1>2, <3>1 DEF CallInv, HoldersOK, HoldingOK
      <3>2. CASE r = p
        BY <1>1, <1>2, <1>5, <3>2 DEF CallInv, HoldersOK, HoldingOK
      <3> QED BY <3>1, <3>2
    <2>2. \A r, q \in Procs : my'[r].call = my'[q].call /\ my'[r].call # None => r = q
      BY <1>3 DEF CallInv, HoldersOK, NoLocal
    <2> QED BY <2>1, <2>2 DEF HoldersOK
  <1>e. SendersOK'
    <2> SUFFICES ASSUME NEW r \in Procs, pc'[r] \in {"lock", "write", "check"} PROVE SendingOK(r)'
      BY DEF SendersOK
    <2>1. /\ SendingOK(r) /\ my'[r] = my[r]
          /\ pc'[r] = pc[r] \/ (pc'[r] = "check" /\ pc[r] = "write")
      BY <1>4 DEF CallInv, SendersOK
    <2> QED BY <1>1, <2>1 DEF SendingOK
  <1>f. WaitersOK'
    <2> SUFFICES ASSUME NEW r \in Procs, pc'[r] = "done" PROVE WaitingOK(r)'
      BY DEF WaitersOK
    <2>1. WaitingOK(r) /\ my'[r] = my[r]
      BY <1>4 DEF CallInv, WaitersOK
    <2> QED BY <1>1, <2>1 DEF WaitingOK, Earned
  <1>g. Accounted'
    <2>1. ASSUME NEW l \in Calls, call[l].callback = None, NEW r \in Procs, my[r].call = l
          PROVE  my'[r].call = l
      <3>1. r # p \/ p \in Callers
        BY <2>1, CallTableAssumption DEF CallInv, HoldersOK, HoldingOK, Procs
      <3> QED BY <1>2, <2>1, <3>1
    <2>2. \A r \in Procs : pc[r] = "lock" => pc'[r] = "lock" /\ my'[r] = my[r]
      BY <1>2
    <2>3. ASSUME NEW l \in Calls, NEW r \in Procs, pc[r] = "lock", my[r].call = l
          PROVE  pc'[r] = "lock" /\ my'[r].call = l
      BY <2>2, <2>3
    <2> QED BY <1>1, <2>1, <2>3 DEF CallInv, Accounted
  <1>h. OutcomesOK'
    BY <1>1 DEF CallInv, OutcomesOK, Earned
  <1> QED BY <1>a, <1>b, <1>c, <1>d, <1>e, <1>f, <1>g, <1>h DEF CallInv

\* RawGo could not write: the Call leaves the table and keeps the error for its caller.
LEMMA CallWriteFailsCalls ==
  ASSUME CallInv, TypeInv', NEW c \in Callers, WriteMsgFails(c)
  PROVE  CallInv'
  <1> DEFINE k == my[c].call
             n == my[c].seq
  <1>1. pc[c] = "write" /\ firing.call = None
    BY DEF WriteMsgFails, LockFree
  <1>2. /\ k \in Calls /\ c \in Procs /\ k # None /\ call[k].ref /\ call[k].callback = None
        /\ k \notin lost
        /\ \A h \in Handlers : \A i \in DOMAIN chanEvent[h] : chanEvent[h][i] # k
    BY <1>1, CallerAlone
  <1>3. /\ SendingOK(c) /\ n # 0 /\ n \in Seqs /\ call[k].Seq = n /\ pending[n] \in {None, k}
        /\ k # reader /\ call[k].done = 0
    <2>1. SendingOK(c)
      BY <1>1, <1>2 DEF CallInv, SendersOK
    <2>2. n \in 0..MaxSeq
      BY <1>2, Typed DEF CallInv
    <2>3. n # 0 /\ call[k].Seq = n /\ pending[n] \in {None, k} /\ k # reader /\ call[k].done = 0
      BY <1>1, <2>1 DEF SendingOK
    <2> QED BY <2>1, <2>2, <2>3, CallTableAssumption DEF Seqs
  <1>4. /\ \A l \in Calls : l # k => call'[l] = call[l]
        /\ call'[k].ref /\ call'[k].Seq = 0 /\ call'[k].Err = "err"
        /\ call'[k].callback = None /\ call'[k].done = 0
    <2>1. call' = [call EXCEPT ![k].Seq = 0, ![k].Err = "err"]
      BY DEF WriteMsgFails
    <2>2. call \in [Calls -> CallRecords]
      BY DEF CallInv, TypeInv, TypeOK, TableTypeOK
    <2> HIDE DEF k
    <2>3. \A l \in Calls : l # k => call'[l] = call[l]
      BY <1>2, <2>1, <2>2
    <2>4. call'[k] = [call[k] EXCEPT !.Seq = 0, !.Err = "err"]
      BY <1>2, <2>1, <2>2
    <2>5. call[k] \in CallRecords
      BY <1>2, <2>2
    <2> QED BY <1>2, <1>3, <2>3, <2>4, <2>5 DEF CallRecords
  <1>5. \A s \in Seqs : pending'[s] = IF s = n THEN None ELSE pending[s]
    BY <1>3 DEF WriteMsgFails, RemovePending
  <1>6. /\ my' = my /\ \A r \in Procs : r # c => pc'[r] = pc[r]
        /\ pc'[c] = "check"
    BY <1>2 DEF WriteMsgFails, CallInv, TypeInv, TypeOK
  <1>7. UNCHANGED <<startSeq, timers, chanEvent, lost, crashed, returned, reader, firing, answers, responses>>
    BY DEF WriteMsgFails, netVars
  <1>8. \A l \in Calls : l # k => call[l].Seq # n
    BY <1>2, <1>3 DEF CallInv, NumbersUnique
  <1>9. \A r \in Procs : r # c => my[r].call # k /\ my[r].seq # n
    BY <1>2, <1>3 DEF CallInv, NumbersUnique, HoldersOK
  <1> HIDE DEF k, n
  <1>10. ASSUME NEW s \in Seqs, pending'[s] # None
         PROVE  s # n /\ pending[s] = pending'[s] /\ pending[s] \in Calls /\ pending[s] # k
    <2>1. s # n /\ pending[s] = pending'[s]
      BY <1>5, <1>10
    <2>2. pending[s] \in Calls /\ call[pending[s]].Seq = s
      BY <1>10, <2>1, Typed DEF CallInv, PendingOK
    <2> QED BY <1>3, <2>1, <2>2
  <1>11. ASSUME NEW r \in Procs, r # c, pc[r] # "idle"
         PROVE  /\ my[r].call \in Calls /\ call'[my[r].call] = call[my[r].call]
                /\ my[r].seq # 0 => pending'[my[r].seq] = pending[my[r].seq]
    <2>1. my[r].call \in Calls /\ my[r].seq \in 0..MaxSeq
      BY <1>11, Typed DEF CallInv
    <2>2. my[r].seq # 0 => my[r].seq \in Seqs
      BY <2>1, CallTableAssumption DEF Seqs
    <2> QED BY <1>4, <1>5, <1>9, <1>11, <2>1, <2>2
  <1>a. FreeIsClear'
    BY <1>4 DEF CallInv, FreeIsClear
  <1>b. FreshUnused'
    BY <1>4, <1>5, <1>6, <1>7, Typed, CallTableAssumption DEF CallInv, FreshUnused
  <1>c. NumbersUnique'
    BY <1>4, <1>6 DEF CallInv, NumbersUnique
  <1>d. PendingOK'
    BY <1>4, <1>7, <1>10 DEF CallInv, PendingOK
  <1>e. FiringOK'
    BY <1>1, <1>7 DEF CallInv, FiringOK
  <1>f. ReaderOK'
    <2> SUFFICES ASSUME reader # None PROVE ReaderOK'
      BY <1>7 DEF ReaderOK
    <2>1. reader \in Calls /\ reader # k /\ call[reader].Seq \in Seqs /\ call[reader].Seq # n
      BY <1>3, <1>8, Typed DEF CallInv, ReaderOK
    <2> QED BY <1>4, <1>5, <1>7, <2>1 DEF CallInv, ReaderOK, Unanswered, Earned
  <1>g. QueuesOK' /\ QueuedOnce'
    <2> SUFFICES ASSUME NEW h \in Handlers, NEW i \in DOMAIN chanEvent[h]
                 PROVE  QueuedOK(h, chanEvent[h][i])'
      BY <1>7 DEF CallInv, QueuesOK, QueuedOnce
    <2>1. QueuedOK(h, chanEvent[h][i]) /\ chanEvent[h][i] \in Calls /\ chanEvent[h][i] # k
      BY <1>2, Typed DEF CallInv, QueuesOK
    <2>2. call[chanEvent[h][i]].Seq # n
      BY <1>8, <2>1
    <2> QED BY <1>4, <1>5, <1>6, <1>7, <2>1, <2>2 DEF QueuedOK, Unanswered, Earned
  <1>h. LostOK'
    <2> SUFFICES ASSUME NEW l \in lost
                 PROVE  /\ call'[l].ref /\ call'[l].callback # None /\ l # reader
                        /\ \A s \in Seqs : pending'[s] # l
                        /\ \A r \in Procs : my'[r].call # l
      BY <1>7 DEF LostOK
    <2>1. l \in Calls /\ l # k /\ l # None
      BY <1>2, Typed, CallTableAssumption DEF CallInv
    <2> QED BY <1>4, <1>5, <1>6, <2>1 DEF CallInv, LostOK
  <1>i. HoldersOK'
    <2>1. \A r \in Procs : HoldingOK(r)'
      <3> SUFFICES ASSUME NEW r \in Procs PROVE HoldingOK(r)'
        OBVIOUS
      <3>1. CASE r = c
        <4>1. c \notin Handlers
          BY RpcClientAssumption
        <4> QED BY <1>1, <1>4, <1>6, <1>7, <3>1, <4>1 DEF CallInv, HoldersOK, HoldingOK, k
      <3>2. CASE r # c
        BY <1>6, <1>7, <1>11, <3>2 DEF CallInv, HoldersOK, HoldingOK
      <3> QED BY <3>1, <3>2
    <2> QED BY <1>6, <2>1 DEF CallInv, HoldersOK
  <1>j. SendersOK'
    <2> SUFFICES ASSUME NEW r \in Procs, pc'[r] \in {"lock", "write", "check"} PROVE SendingOK(r)'
      BY DEF SendersOK
    <2>1. CASE r = c
      BY <1>3, <1>4, <1>5, <1>6, <1>7, <2>1 DEF SendingOK, k, n
    <2>2. CASE r # c
      <3>1. SendingOK(r) /\ pc'[r] = pc[r] /\ pc[r] # "idle"
        BY <1>6, <2>2 DEF CallInv, SendersOK
      <3> QED BY <1>6, <1>7, <1>11, <2>2, <3>1 DEF SendingOK
    <2> QED BY <2>1, <2>2
  <1>k. WaitersOK'
    <2> SUFFICES ASSUME NEW r \in Procs, pc'[r] = "done" PROVE WaitingOK(r)'
      BY DEF WaitersOK
    <2>1. r # c
      BY <1>6
    <2>2. WaitingOK(r) /\ pc[r] # "idle"
      BY <1>6, <2>1 DEF CallInv, WaitersOK
    <2> QED BY <1>6, <1>7, <1>11, <2>1, <2>2 DEF WaitingOK, Earned
  <1>l. Accounted'
    <2> SUFFICES ASSUME NEW l \in Calls, call'[l].ref
                 PROVE  (IF call[l].callback = None THEN \E r \in Procs : my[r].call = l
                         ELSE \/ \E r \in Procs : pc[r] = "lock" /\ my[r].call = l
                              \/ \E s \in Seqs : pending[s] = l
                              \/ reader = l
                              \/ \E h \in Handlers : \E i \in DOMAIN chanEvent[h] : chanEvent[h][i] = l
                              \/ l \in lost)'
      BY DEF Accounted
    <2>1. CASE l = k
      BY <1>2, <1>4, <1>6, <2>1 DEF k
    <2>2. CASE l # k
      <3>1. call'[l] = call[l] /\ call[l].ref /\ l # None
        BY <1>4, <2>2, CallTableAssumption
      <3>2. ASSUME NEW s \in Seqs, pending[s] = l PROVE pending'[s] = l
        BY <1>3, <1>5, <2>2, <3>1, <3>2
      <3>3. \A r \in Procs : pc[r] = "lock" => pc'[r] = "lock"
        BY <1>1, <1>6
      <3>4. CASE call[l].callback = None
        BY <1>6, <3>1, <3>4 DEF CallInv, Accounted
      <3>5. CASE call[l].callback # None
        <4>1. \/ \E r \in Procs : pc[r] = "lock" /\ my[r].call = l
              \/ \E s \in Seqs : pending[s] = l
              \/ reader = l
              \/ \E h \in Handlers : \E i \in DOMAIN chanEvent[h] : chanEvent[h][i] = l
              \/ l \in lost
          BY <3>1, <3>5 DEF CallInv, Accounted
        <4> QED BY <1>6, <1>7, <3>1, <3>2, <3>3, <3>5, <4>1
      <3> QED BY <3>4, <3>5
    <2> QED BY <2>1, <2>2
  <1>m. OutcomesOK'
    BY <1>7 DEF CallInv, OutcomesOK, Earned
  <1> QED BY <1>a, <1>b, <1>c, <1>d, <1>e, <1>f, <1>g, <1>h, <1>i, <1>j, <1>k, <1>l, <1>m DEF CallInv

\* callRpc goes on to wait for the Call it sent.
LEMMA EnterDoneCalls ==
  ASSUME CallInv, TypeInv', NEW c \in Callers, EnterDone(c)
  PROVE  CallInv'
  <1>1. UNCHANGED <<call, startSeq, pending, timers, firing, chanEvent, lost, crashed, returned,
                    my, reader, answers, responses>>
    BY DEF EnterDone, tableVars, netVars
  <1>2. /\ c \in Procs /\ c \notin Handlers /\ pc[c] = "check" /\ pc'[c] = "done"
        /\ \A r \in Procs : r # c => pc'[r] = pc[r]
    BY RpcClientAssumption DEF EnterDone, Procs, CallInv, TypeInv, TypeOK
  <1>a. FreeIsClear' /\ FreshUnused' /\ NumbersUnique' /\ PendingOK' /\ FiringOK' /\ ReaderOK' /\ LostOK'
    BY <1>1 DEF CallInv, FreeIsClear, FreshUnused, NumbersUnique, PendingOK, FiringOK, ReaderOK, LostOK,
                Unanswered, Earned
  <1>b. QueuesOK' /\ QueuedOnce'
    BY <1>1 DEF CallInv, QueuesOK, QueuedOK, QueuedOnce, Unanswered, Earned
  <1>c. HoldersOK'
    BY <1>1, <1>2 DEF CallInv, HoldersOK, HoldingOK
  <1>d. SendersOK'
    BY <1>1, <1>2 DEF CallInv, SendersOK, SendingOK
  <1>e. WaitersOK'
    <2> SUFFICES ASSUME NEW r \in Procs, pc'[r] = "done" PROVE WaitingOK(r)'
      BY DEF WaitersOK
    <2>1. CASE r = c
      <3>1. SendingOK(c) /\ call[my[c].call].Err = "nil" /\ ~my[c].noReply
        BY <1>2 DEF CallInv, SendersOK, EnterDone
      <3> QED BY <1>1, <2>1, <3>1 DEF SendingOK, WaitingOK
    <2>2. CASE r # c
      BY <1>1, <1>2, <2>2 DEF CallInv, WaitersOK, WaitingOK, Earned
    <2> QED BY <2>1, <2>2
  <1>f. Accounted' /\ OutcomesOK'
    <2>1. \A r \in Procs : pc[r] = "lock" => pc'[r] = "lock"
      BY <1>2
    <2> QED BY <1>1, <2>1 DEF CallInv, Accounted, OutcomesOK, Earned
  <1> QED BY <1>a, <1>b, <1>c, <1>d, <1>e, <1>f DEF CallInv

-----------------------------------------------------------------------------
(* The network *)

\* Nothing of the client moves; the remote node may have answered more.
LEMMA NetworkCalls ==
  ASSUME CallInv, TypeInv',
         UNCHANGED <<call, startSeq, pending, timers, firing, chanEvent, lost, crashed, returned, clientVars>>,
         answers \subseteq answers', responses' \subseteq answers'
  PROVE  CallInv'
  <1>1. UNCHANGED <<call, startSeq, pending, timers, firing, chanEvent, lost, crashed, returned,
                    pc, my, reader>>
    BY DEF clientVars
  <1>a. FreeIsClear' /\ FreshUnused' /\ NumbersUnique' /\ PendingOK' /\ FiringOK' /\ LostOK'
    BY <1>1 DEF CallInv, FreeIsClear, FreshUnused, NumbersUnique, PendingOK, FiringOK, LostOK
  <1>b. ReaderOK'
    BY <1>1 DEF CallInv, ReaderOK, Unanswered, Earned
  <1>c. QueuesOK' /\ QueuedOnce'
    BY <1>1 DEF CallInv, QueuesOK, QueuedOK, QueuedOnce, Unanswered, Earned
  <1>d. HoldersOK' /\ SendersOK' /\ Accounted'
    BY <1>1 DEF CallInv, HoldersOK, HoldingOK, SendersOK, SendingOK, Accounted
  <1>e. WaitersOK'
    BY <1>1 DEF CallInv, WaitersOK, WaitingOK, Earned
  <1>f. OutcomesOK'
    BY <1>1 DEF CallInv, OutcomesOK, Earned
  <1> QED BY <1>a, <1>b, <1>c, <1>d, <1>e, <1>f DEF CallInv

\* Nor does anything move when somebody passes the test of pushEvent, or when a service
\* gets or takes another event.
LEMMA QueueStepCalls ==
  ASSUME CallInv, TypeInv', QueueStep
  PROVE  CallInv'
  <1>1. UNCHANGED <<call, startSeq, pending, timers, firing, chanEvent, lost, crashed, returned, clientVars>>
        /\ UNCHANGED <<answers, responses>>
    BY QueueStepFrame DEF netVars
  <1> QED BY <1>1, NetworkCalls DEF CallInv, OutcomesOK

-----------------------------------------------------------------------------
(* Settling a pending call *)

\* What is known of a Call found in the table when nobody is on its issue path.
LEMMA FoundPending ==
  ASSUME CallInv, NEW n \in Seqs, NEW k, k = pending[n], k # None, ~Issuing(n)
  PROVE  /\ k \in Calls /\ n # 0 /\ call[k].ref /\ call[k].Seq = n /\ call[k].done = 0
         /\ returned[n] = <<>> /\ k # reader /\ k \notin lost
         /\ \A s \in Seqs : pending[s] = k => s = n
         /\ \A l \in Calls : l # k => call[l].Seq # n
         /\ \A h \in Handlers : \A i \in DOMAIN chanEvent[h] : chanEvent[h][i] # k
         /\ \A r \in Procs : pc[r] \in {"lock", "write", "check"} => my[r].call # k /\ my[r].seq # n
  <1>1. k \in Calls /\ n # 0 /\ call[k].ref /\ call[k].Seq = n /\ call[k].done = 0 /\ returned[n] = <<>>
    BY Typed, CallTableAssumption DEF CallInv, PendingOK, Seqs
  <1>2. k # reader /\ k \notin lost
    BY <1>1 DEF CallInv, ReaderOK, Unanswered, LostOK
  <1>3. \A s \in Seqs : pending[s] = k => s = n
    BY <1>1 DEF CallInv, PendingOK
  <1>4. \A l \in Calls : l # k => call[l].Seq # n
    BY <1>1 DEF CallInv, NumbersUnique
  <1>5. \A h \in Handlers : \A i \in DOMAIN chanEvent[h] : chanEvent[h][i] # k
    BY <1>1 DEF CallInv, QueuesOK, QueuedOK, Unanswered
  <1>6. ASSUME NEW r \in Procs, pc[r] \in {"lock", "write", "check"} PROVE my[r].call # k /\ my[r].seq # n
    <2>1. my[r].seq # n
      BY <1>6 DEF Issuing
    <2>2. SendingOK(r)
      BY <1>6 DEF CallInv, SendersOK
    <2> QED BY <1>1, <2>1, <2>2 DEF SendingOK
  <1> QED BY <1>1, <1>2, <1>3, <1>4, <1>5, <1>6

\* Only the error of Call k changes.
LEMMA ErrFacts ==
  ASSUME CallInv, NEW k \in Calls, NEW e, call' = [call EXCEPT ![k].Err = e]
  PROVE  /\ \A l \in Calls : l # k => call'[l] = call[l]
         /\ call'[k].Err = e /\ call'[k].ref = call[k].ref /\ call'[k].Seq = call[k].Seq
         /\ call'[k].callback = call[k].callback /\ call'[k].done = call[k].done
  <1>1. call \in [Calls -> CallRecords] /\ call[k] \in CallRecords
    BY DEF CallInv, TypeInv, TypeOK, TableTypeOK
  <1>2. call'[k] = [call[k] EXCEPT !.Err = e] /\ \A l \in Calls : l # k => call'[l] = call[l]
    BY <1>1
  <1> QED BY <1>1, <1>2 DEF CallRecords

\* The reader takes the Call of a response out of the table.
LEMMA ReadResponseCalls ==
  ASSUME CallInv, TypeInv', CallerTimely, NEW m \in responses, ReadResponse(m)
  PROVE  CallInv'
  <1> DEFINE n == m.seq
             k == pending[n]
  <1>1. n \in Seqs /\ m = [seq |-> n, Err |-> m.Err] /\ m \in answers
    BY DEF CallInv, TypeInv, TypeOK, Responses, OutcomesOK
  <1>2. CASE k = None
    <2>1. UNCHANGED <<tableVars, clientVars, answers>> /\ responses' \subseteq responses
      BY <1>2 DEF ReadResponse, tableVars, clientVars
    <2> QED BY <2>1, NetworkCalls DEF CallInv, OutcomesOK, tableVars
  <1>3. CASE k # None
    <2>1. firing.call = None /\ reader = None /\ reader' = k /\ ~Issuing(n)
      BY <1>3 DEF ReadResponse, LockFree
    <2>2. /\ k \in Calls /\ n # 0 /\ call[k].ref /\ call[k].Seq = n /\ call[k].done = 0
          /\ returned[n] = <<>> /\ k # reader /\ k \notin lost
          /\ \A s \in Seqs : pending[s] = k => s = n
          /\ \A l \in Calls : l # k => call[l].Seq # n
          /\ \A h \in Handlers : \A i \in DOMAIN chanEvent[h] : chanEvent[h][i] # k
          /\ \A r \in Procs : pc[r] \in {"lock", "write", "check"} => my[r].call # k /\ my[r].seq # n
      BY <1>1, <1>3, <2>1, FoundPending
    <2>3. call' = [call EXCEPT ![k].Err = m.Err]
      BY <1>3 DEF ReadResponse
    <2>4. \A s \in Seqs : pending'[s] = IF s = n THEN None ELSE pending[s]
      BY <1>3 DEF ReadResponse, RemovePending
    <2>5. UNCHANGED <<startSeq, timers, chanEvent, lost, crashed, pc, my, firing, returned, answers>>
          /\ responses' \subseteq responses
      BY DEF ReadResponse
    <2>6. Earned(n, m.Err)
      BY <1>1 DEF Earned
    <2> HIDE DEF k, n
    <2>7. /\ \A l \in Calls : l # k => call'[l] = call[l]
          /\ call'[k].Err = m.Err /\ call'[k].ref = call[k].ref /\ call'[k].Seq = call[k].Seq
          /\ call'[k].callback = call[k].callback /\ call'[k].done = call[k].done
      BY <2>2, <2>3, ErrFacts
    <2>a. FreeIsClear'
      BY <2>2, <2>7 DEF CallInv, FreeIsClear
    <2>b. FreshUnused'
      BY <2>4, <2>5, <2>7 DEF CallInv, FreshUnused
    <2>c. NumbersUnique'
      BY <2>5, <2>7 DEF CallInv, NumbersUnique
    <2>d. PendingOK'
      <3> SUFFICES ASSUME NEW s \in Seqs, pending'[s] # None
                   PROVE  /\ call'[pending'[s]].ref
                          /\ call'[pending'[s]].Seq = s
                          /\ call'[pending'[s]].done = 0
                          /\ call'[pending'[s]].Err = "nil" \/ firing'.seq = s
                          /\ s \in timers' \/ firing'.seq = s
                          /\ returned'[s] = <<>>
        BY DEF PendingOK
      <3>1. s # n /\ pending'[s] = pending[s] /\ pending[s] \in Calls /\ pending[s] # k
        BY <2>2, <2>4, Typed DEF CallInv
      <3> QED BY <2>5, <2>7, <3>1 DEF CallInv, PendingOK
    <2>e. FiringOK'
      BY <2>1, <2>5 DEF CallInv, FiringOK
    <2>f. ReaderOK'
      BY <1>1, <2>1, <2>2, <2>4, <2>5, <2>6, <2>7 DEF ReaderOK, Unanswered, Earned
    <2>g. QueuesOK' /\ QueuedOnce'
      <3> SUFFICES ASSUME NEW h \in Handlers, NEW i \in DOMAIN chanEvent[h]
                   PROVE  QueuedOK(h, chanEvent[h][i])'
        BY <2>5 DEF CallInv, QueuesOK, QueuedOnce
      <3>1. QueuedOK(h, chanEvent[h][i]) /\ chanEvent[h][i] \in Calls /\ chanEvent[h][i] # k
        BY <2>2, Typed DEF CallInv, QueuesOK
      <3> QED BY <2>1, <2>4, <2>5, <2>7, <3>1 DEF QueuedOK, Unanswered, Earned
    <2>h. LostOK'
      <3> SUFFICES ASSUME NEW l \in lost
                   PROVE  /\ call'[l].ref /\ call'[l].callback # None /\ l # reader'
                          /\ \A s \in Seqs : pending'[s] # l
                          /\ \A r \in Procs : my'[r].call # l
        BY <2>5 DEF LostOK
      <3>1. l \in Calls /\ l # k /\ l # None
        BY <2>2, Typed, CallTableAssumption DEF CallInv
      <3> QED BY <2>1, <2>4, <2>5, <2>7, <3>1 DEF CallInv, LostOK
    <2>i. HoldersOK'
      <3> SUFFICES ASSUME NEW r \in Procs PROVE HoldingOK(r)'
        BY <2>5 DEF CallInv, HoldersOK
      <3>1. pc[r] # "idle" => my[r].call \in Calls
        BY Typed DEF CallInv
      <3> QED BY <2>5, <2>7, <3>1 DEF CallInv, HoldersOK, HoldingOK
    <2>j. SendersOK'
      <3> SUFFICES ASSUME NEW r \in Procs, pc[r] \in {"lock", "write", "check"} PROVE SendingOK(r)'
        BY <2>5 DEF SendersOK
      <3>1. SendingOK(r) /\ my[r].call \in Calls /\ my[r].call # k /\ my[r].seq # n
            /\ (my[r].seq # 0 => my[r].seq \in Seqs)
        BY <2>2, Typed, CallTableAssumption DEF CallInv, SendersOK, Seqs
      <3> QED BY <2>1, <2>4, <2>5, <2>7, <3>1 DEF SendingOK
    <2>k. WaitersOK'
      <3> SUFFICES ASSUME NEW r \in Procs, pc[r] = "done" PROVE WaitingOK(r)'
        BY <2>5 DEF WaitersOK
      <3>1. WaitingOK(r) /\ my[r].call \in Calls /\ my[r].seq \in Seqs
        BY Typed, CallTableAssumption DEF CallInv, WaitersOK, WaitingOK, Seqs
      <3>2. CASE my[r].call = k
        BY <2>2, <2>5, <2>7, <3>1, <3>2 DEF WaitingOK
      <3>3. CASE my[r].call # k
        BY <2>1, <2>4, <2>5, <2>7, <3>1, <3>3 DEF WaitingOK, Earned
      <3> QED BY <3>2, <3>3
    <2>l. Accounted'
      <3> SUFFICES ASSUME NEW l \in Calls, call'[l].ref
                   PROVE  (IF call[l].callback = None THEN \E r \in Procs : my[r].call = l
                           ELSE \/ \E r \in Procs : pc[r] = "lock" /\ my[r].call = l
                                \/ \E s \in Seqs : pending[s] = l
                                \/ reader = l
                                \/ \E h \in Handlers : \E i \in DOMAIN chanEvent[h] : chanEvent[h][i] = l
                                \/ l \in lost)'
        BY DEF Accounted
      <3>1. call'[l].callback = call[l].callback /\ call[l].ref /\ l # None
        BY <2>2, <2>7, CallTableAssumption
      <3>2. CASE l = k
        BY <2>1, <2>5, <3>1, <3>2 DEF CallInv, Accounted
      <3>3. CASE l # k
        <4>1. ASSUME NEW s \in Seqs, pending[s] = l PROVE pending'[s] = l
          BY <2>4, <3>3, <4>1 DEF k
        <4> QED BY <2>1, <2>5, <3>1, <4>1 DEF CallInv, Accounted
      <3> QED BY <3>2, <3>3
    <2>m. OutcomesOK'
      BY <2>5 DEF CallInv, OutcomesOK, Earned
    <2> QED BY <2>a, <2>b, <2>c, <2>d, <2>e, <2>f, <2>g, <2>h, <2>i, <2>j, <2>k, <2>l, <2>m DEF CallInv
  <1> QED BY <1>2, <1>3

\* The timeout handler finds its call in the table, or finds it gone.
LEMMA TimeoutCalls ==
  ASSUME CallInv, TypeInv', NEW n \in Seqs, handleRpcCallTimeout(n)
  PROVE  CallInv'
  <1> DEFINE k == pending[n]
  <1>1. /\ firing.call = None /\ firing.seq = 0 /\ ~Issuing(n) /\ timers' = timers \ {n}
        /\ UNCHANGED <<startSeq, pending, chanEvent, lost, crashed, returned, pc, my, reader, answers, responses>>
    BY DEF handleRpcCallTimeout, FireTimeout, LockFree, clientVars, netVars, CallInv, FiringOK
  <1>2. CASE k = None
    <2>1. UNCHANGED <<call, firing>>
      BY <1>2 DEF handleRpcCallTimeout, FireTimeout
    <2>2. PendingOK'
      BY <1>1, <1>2, <2>1 DEF CallInv, PendingOK
    <2>3. FreeIsClear' /\ FreshUnused' /\ NumbersUnique' /\ FiringOK' /\ ReaderOK' /\ LostOK'
      BY <1>1, <2>1 DEF CallInv, FreeIsClear, FreshUnused, NumbersUnique, FiringOK, ReaderOK, LostOK,
                        Unanswered, Earned
    <2>4. QueuesOK' /\ QueuedOnce'
      BY <1>1, <2>1 DEF CallInv, QueuesOK, QueuedOK, QueuedOnce, Unanswered, Earned
    <2>5. HoldersOK' /\ SendersOK' /\ WaitersOK'
      BY <1>1, <2>1 DEF CallInv, HoldersOK, HoldingOK, SendersOK, SendingOK, WaitersOK, WaitingOK, Earned
    <2>6. Accounted' /\ OutcomesOK'
      BY <1>1, <2>1 DEF CallInv, Accounted, OutcomesOK, Earned
    <2> QED BY <2>2, <2>3, <2>4, <2>5, <2>6 DEF CallInv
  <1>3. CASE k # None
    <2>2. /\ k \in Calls /\ n # 0 /\ call[k].ref /\ call[k].Seq = n /\ call[k].done = 0
          /\ returned[n] = <<>> /\ k # reader /\ k \notin lost
          /\ \A s \in Seqs : pending[s] = k => s = n
          /\ \A l \in Calls : l # k => call[l].Seq # n
          /\ \A h \in Handlers : \A i \in DOMAIN chanEvent[h] : chanEvent[h][i] # k
          /\ \A r \in Procs : pc[r] \in {"lock", "write", "check"} => my[r].call # k /\ my[r].seq # n
      BY <1>1, <1>3, FoundPending
    <2>3. call' = [call EXCEPT ![k].Err = "timeout"] /\ firing' = [seq |-> n, call |-> k]
      BY <1>3 DEF handleRpcCallTimeout, FireTimeout
    <2>4. pending[n] = k
      OBVIOUS
    <2> HIDE DEF k
    <2>5. /\ \A l \in Calls : l # k => call'[l] = call[l]
          /\ call'[k].Err = "timeout" /\ call'[k].ref = call[k].ref /\ call'[k].Seq = call[k].Seq
          /\ call'[k].callback = call[k].callback /\ call'[k].done = call[k].done
      BY <2>2, <2>3, ErrFacts
    <2>a. FreeIsClear'
      BY <2>2, <2>5 DEF CallInv, FreeIsClear
    <2>b. FreshUnused' /\ NumbersUnique'
      BY <1>1, <2>5 DEF CallInv, FreshUnused, NumbersUnique
    <2>d. PendingOK'
      <3> SUFFICES ASSUME NEW s \in Seqs, pending[s] # None
                   PROVE  /\ call'[pending[s]].ref
                          /\ call'[pending[s]].Seq = s
                          /\ call'[pending[s]].done = 0
                          /\ call'[pending[s]].Err = "nil" \/ firing'.seq = s
                          /\ s \in timers' \/ firing'.seq = s
                          /\ returned[s] = <<>>
        BY <1>1 DEF PendingOK
      <3>1. CASE s = n
        BY <2>2, <2>3, <2>4, <2>5, <3>1
      <3>2. CASE s # n
        <4>1. pending[s] \in Calls /\ pending[s] # k /\ s # 0
          BY <2>2, <3>2, Typed, CallTableAssumption DEF CallInv, Seqs
        <4> QED BY <1>1, <2>5, <3>2, <4>1 DEF CallInv, PendingOK
      <3> QED BY <3>1, <3>2
    <2>e. FiringOK'
      BY <1>1, <1>3, <2>3, <2>4, <2>5 DEF FiringOK
    <2>f. ReaderOK'
      <3> SUFFICES ASSUME reader # None PROVE ReaderOK'
        BY <1>1 DEF ReaderOK
      <3>1. call'[reader] = call[reader]
        BY <2>2, <2>5, Typed DEF CallInv
      <3> QED BY <1>1, <3>1 DEF CallInv, ReaderOK, Unanswered, Earned
    <2>g. QueuesOK' /\ QueuedOnce'
      <3> SUFFICES ASSUME NEW h \in Handlers, NEW i \in DOMAIN chanEvent[h]
                   PROVE  QueuedOK(h, chanEvent[h][i])'
        BY <1>1 DEF CallInv, QueuesOK, QueuedOnce
      <3>1. QueuedOK(h, chanEvent[h][i]) /\ chanEvent[h][i] \in Calls /\ chanEvent[h][i] # k
        BY <2>2, Typed DEF CallInv, QueuesOK
      <3> QED BY <1>1, <2>5, <3>1 DEF QueuedOK, Unanswered, Earned
    <2>h. LostOK'
      <3> SUFFICES ASSUME NEW l \in lost PROVE call'[l] = call[l]
        BY <1>1 DEF CallInv, LostOK
      <3> QED BY <2>2, <2>5, Typed DEF CallInv
    <2>i. HoldersOK'
      <3> SUFFICES ASSUME NEW r \in Procs PROVE HoldingOK(r)'
        BY <1>1 DEF CallInv, HoldersOK
      <3>1. pc[r] # "idle" => my[r].call \in Calls
        BY Typed DEF CallInv
      <3> QED BY <1>1, <2>5, <3>1 DEF CallInv, HoldersOK, HoldingOK
    <2>j. SendersOK'
      <3> SUFFICES ASSUME NEW r \in Procs, pc[r] \in {"lock", "write", "check"} PROVE SendingOK(r)'
        BY <1>1 DEF SendersOK
      <3>1. SendingOK(r) /\ my[r].call \in Calls /\ my[r].call # k
        BY <2>2, Typed DEF CallInv, SendersOK
      <3> QED BY <1>1, <2>5, <3>1 DEF SendingOK
    <2>k. WaitersOK'
      <3> SUFFICES ASSUME NEW r \in Procs, pc[r] = "done" PROVE WaitingOK(r)'
        BY <1>1 DEF WaitersOK
      <3>1. WaitingOK(r) /\ my[r].call \in Calls
        BY Typed DEF CallInv, WaitersOK
      <3>2. CASE my[r].call = k
        BY <1>1, <2>2, <2>5, <3>1, <3>2 DEF WaitingOK
      <3>3. CASE my[r].call # k
        BY <1>1, <2>5, <3>1, <3>3 DEF WaitingOK, Earned
      <3> QED BY <3>2, <3>3
    <2>l. Accounted'
      <3>1. \A l \in Calls : call'[l].ref = call[l].ref /\ call'[l].callback = call[l].callback
        BY <2>5
      <3> QED BY <1>1, <3>1 DEF CallInv, Accounted
    <2>m. OutcomesOK'
      BY <1>1 DEF CallInv, OutcomesOK, Earned
    <2> QED BY <2>a, <2>b, <2>d, <2>e, <2>f, <2>g, <2>h, <2>i, <2>j, <2>k, <2>l, <2>m DEF CallInv
  <1> QED BY <1>2, <1>3

-----------------------------------------------------------------------------
(* Handing a finished call over *)

\* What Strobe does: a waiting caller gets its token, or the service gets the Call at
\* the end of its queue, or the Call is lost.
LEMMA StrobeFacts ==
  ASSUME CallInv, NEW who, NEW k \in Calls, Strobe(who, k)
  PROVE  /\ \A l \in Calls : l # k => call'[l] = call[l]
         /\ call'[k].ref = call[k].ref /\ call'[k].Seq = call[k].Seq
         /\ call'[k].Err = call[k].Err /\ call'[k].callback = call[k].callback
         /\ call[k].callback = None => lost' = lost /\ chanEvent' = chanEvent
         /\ \A l \in lost' : l \in lost \/ (l = k /\ call[k].callback # None /\ chanEvent' = chanEvent)
         /\ lost \subseteq lost'
         /\ \A g \in Handlers : \A i \in DOMAIN chanEvent'[g] :
               \/ i \in DOMAIN chanEvent[g] /\ chanEvent'[g][i] = chanEvent[g][i]
               \/ i = Len(chanEvent[g]) + 1 /\ chanEvent'[g][i] = k /\ g = call[k].callback /\ lost' = lost
         /\ \A g \in Handlers : \A i \in DOMAIN chanEvent[g] :
               i \in DOMAIN chanEvent'[g] /\ chanEvent'[g][i] = chanEvent[g][i]
         /\ call[k].callback # None =>
               k \in lost' \/ \E g \in Handlers : \E i \in DOMAIN chanEvent'[g] : chanEvent'[g][i] = k
  <1>1. call[k] \in CallRecords /\ call \in [Calls -> CallRecords]
        /\ chanEvent \in [Handlers -> Seq(Calls)]
    BY DEF CallInv, TypeInv, TypeOK, TableTypeOK
  <1>2. CASE call[k].callback = None
    <2>1. call' = [call EXCEPT ![k].done = 1] /\ UNCHANGED <<chanEvent, lost>>
      BY <1>2 DEF Strobe
    <2>2. call'[k] = [call[k] EXCEPT !.done = 1] /\ \A l \in Calls : l # k => call'[l] = call[l]
      BY <1>1, <2>1
    <2>3. /\ call'[k].ref = call[k].ref /\ call'[k].Seq = call[k].Seq
          /\ call'[k].Err = call[k].Err /\ call'[k].callback = call[k].callback
      BY <1>1, <2>2 DEF CallRecords
    <2> QED BY <1>2, <2>1, <2>2, <2>3
  <1>3. CASE call[k].callback # None
    <2> DEFINE h == call[k].callback
    <2>1. h \in Handlers /\ call' = call /\ PushRpcResponse(who, h, k)
      BY <1>1, <1>3 DEF Strobe, CallRecords
    <2>2. CASE lost' = lost \cup {k} /\ UNCHANGED chanEvent
      BY <1>3, <2>1, <2>2
    <2>3. CASE chanEvent' = [chanEvent EXCEPT ![h] = Append(@, k)] /\ UNCHANGED lost
      <3> HIDE DEF h
      <3>1. chanEvent'[h] = Append(chanEvent[h], k) /\ \A g \in Handlers : g # h => chanEvent'[g] = chanEvent[g]
        BY <1>1, <2>1, <2>3
      <3>2. chanEvent[h] \in Seq(Calls)
        BY <1>1, <2>1
      <3>3. /\ \A i \in DOMAIN chanEvent'[h] :
                  \/ i \in DOMAIN chanEvent[h] /\ chanEvent'[h][i] = chanEvent[h][i]
                  \/ i = Len(chanEvent[h]) + 1 /\ chanEvent'[h][i] = k
            /\ \A i \in DOMAIN chanEvent[h] :
                  i \in DOMAIN chanEvent'[h] /\ chanEvent'[h][i] = chanEvent[h][i]
            /\ Len(chanEvent[h]) + 1 \in DOMAIN chanEvent'[h] /\ chanEvent'[h][Len(chanEvent[h]) + 1] = k
        BY <3>1, <3>2
      <3>4. \A g \in Handlers : \A i \in DOMAIN chanEvent'[g] :
               \/ i \in DOMAIN chanEvent[g] /\ chanEvent'[g][i] = chanEvent[g][i]
               \/ i = Len(chanEvent[g]) + 1 /\ chanEvent'[g][i] = k /\ g = h
        BY <3>1, <3>3
      <3>5. \A g \in Handlers : \A i \in DOMAIN chanEvent[g] :
               i \in DOMAIN chanEvent'[g] /\ chanEvent'[g][i] = chanEvent[g][i]
        BY <3>1, <3>3
      <3>6. \E g \in Handlers : \E i \in DOMAIN chanEvent'[g] : chanEvent'[g][i] = k
        BY <2>1, <3>3
      <3> QED BY <1>3, <2>1, <2>3, <3>4, <3>5, <3>6 DEF h
    <2> QED BY <2>1, <2>2, <2>3 DEF PushRpcResponse
  <1> QED BY <1>2, <1>3

\* What the reader's hand-over and the timeout's have in common.
Handing(who, k, n) ==
    /\ call[k].ref /\ call[k].Seq = n /\ n # 0 /\ call[k].done = 0
    /\ returned[n] = <<>> /\ Earned(n, call[k].Err)
    /\ k \notin lost
    /\ \A h \in Handlers : \A i \in DOMAIN chanEvent[h] : chanEvent[h][i] # k
    /\ \A r \in Procs : pc[r] \in {"lock", "write", "check"} => my[r].call # k
    /\ pending[n] \in {None, k}
    /\ \A s \in Seqs : pending'[s] = IF s = n THEN None ELSE pending[s]
    /\ reader' = IF reader = k THEN None ELSE reader
    /\ firing' = IF firing.call = k THEN NoHold ELSE firing
    /\ firing.call = k => firing.seq = n
    /\ Strobe(who, k)
    /\ UNCHANGED <<startSeq, timers, crashed, returned, pc, my, netVars>>

LEMMA HandOver ==
  ASSUME CallInv, TypeInv', NEW who, NEW k \in Calls, NEW n \in Seqs, Handing(who, k, n)
  PROVE  CallInv'
  <1>1. /\ \A l \in Calls : l # k => call'[l] = call[l]
        /\ call'[k].ref = call[k].ref /\ call'[k].Seq = call[k].Seq
        /\ call'[k].Err = call[k].Err /\ call'[k].callback = call[k].callback
        /\ call[k].callback = None => lost' = lost /\ chanEvent' = chanEvent
        /\ \A l \in lost' : l \in lost \/ (l = k /\ call[k].callback # None /\ chanEvent' = chanEvent)
        /\ lost \subseteq lost'
        /\ \A g \in Handlers : \A i \in DOMAIN chanEvent'[g] :
              \/ i \in DOMAIN chanEvent[g] /\ chanEvent'[g][i] = chanEvent[g][i]
              \/ i = Len(chanEvent[g]) + 1 /\ chanEvent'[g][i] = k /\ g = call[k].callback /\ lost' = lost
        /\ \A g \in Handlers : \A i \in DOMAIN chanEvent[g] :
              i \in DOMAIN chanEvent'[g] /\ chanEvent'[g][i] = chanEvent[g][i]
        /\ call[k].callback # None =>
              k \in lost' \/ \E g \in Handlers : \E i \in DOMAIN chanEvent'[g] : chanEvent'[g][i] = k
    <2>1. Strobe(who, k)
      BY DEF Handing
    <2> QED BY <2>1, StrobeFacts
  <1>2. \A s \in Seqs : pending'[s] = IF s = n THEN None ELSE pending[s]
    BY DEF Handing
  <1>3. UNCHANGED <<startSeq, timers, crashed, returned, pc, my, answers, responses>>
    BY DEF Handing, netVars
  <1>4. \A l \in Calls : l # k => call[l].Seq # n
    BY DEF Handing, CallInv, NumbersUnique
  <1>5. \A r \in Procs : my[r].seq = n => my[r].call = k
    BY DEF Handing, CallInv, NumbersUnique
  <1>6. ASSUME NEW s \in Seqs, pending'[s] # None
        PROVE  s # n /\ pending'[s] = pending[s] /\ pending[s] \in Calls /\ pending[s] # k
               /\ call'[pending[s]] = call[pending[s]]
    <2>1. s # n /\ pending'[s] = pending[s]
      BY <1>2, <1>6
    <2>2. pending[s] \in Calls /\ call[pending[s]].Seq = s
      BY <1>6, <2>1, Typed DEF CallInv, PendingOK
    <2> QED BY <1>1, <2>1, <2>2 DEF Handing
  <1>7. ASSUME NEW r \in Procs, pc[r] # "idle", my[r].call # k
        PROVE  /\ my[r].call \in Calls /\ call'[my[r].call] = call[my[r].call]
               /\ my[r].seq # 0 => pending'[my[r].seq] = pending[my[r].seq]
    <2>1. my[r].call \in Calls /\ my[r].seq \in 0..MaxSeq
      BY <1>7, Typed DEF CallInv
    <2>2. my[r].seq # 0 => my[r].seq \in Seqs /\ my[r].seq # n
      BY <1>5, <1>7, <2>1, CallTableAssumption DEF Seqs
    <2> QED BY <1>1, <1>2, <1>7, <2>1, <2>2
  <1>9. call[k].callback # None => \A r \in Procs : my[r].call # k
    <2> SUFFICES ASSUME call[k].callback # None, NEW r \in Procs, my[r].call = k PROVE FALSE
      OBVIOUS
    <2>1. HoldingOK(r) /\ k # None
      BY CallTableAssumption DEF CallInv, HoldersOK
    <2>2. pc[r] # "idle" /\ r \in Handlers
      BY <2>1 DEF HoldingOK, NoLocal, Procs
    <2> QED BY <2>1, <2>2 DEF HoldingOK, Handing
  <1>8. reader' # k /\ (reader' = reader \/ reader' = None) /\ (reader # k => reader' = reader) /\ k # None
    BY CallTableAssumption DEF Handing
  <1>a. FreeIsClear'
    <2> SUFFICES ASSUME NEW l \in Calls, ~call'[l].ref PROVE call'[l] = Cleared
      BY Zenon DEF FreeIsClear
    <2>1. l # k
      BY <1>1 DEF Handing
    <2>2. call'[l] = call[l]
      BY <1>1, <2>1
    <2>3. FreeIsClear
      BY DEF CallInv
    <2> QED BY <2>2, <2>3 DEF FreeIsClear
  <1>b. FreshUnused'
    BY <1>1, <1>2, <1>3 DEF CallInv, FreshUnused
  <1>c. NumbersUnique'
    BY <1>1, <1>3 DEF CallInv, NumbersUnique
  <1>d. PendingOK'
    <2> SUFFICES ASSUME NEW s \in Seqs, pending'[s] # None
                 PROVE  /\ call'[pending'[s]].ref
                        /\ call'[pending'[s]].Seq = s
                        /\ call'[pending'[s]].done = 0
                        /\ call'[pending'[s]].Err = "nil" \/ firing'.seq = s
                        /\ s \in timers' \/ firing'.seq = s
                        /\ returned'[s] = <<>>
      BY DEF PendingOK
    <2>1. s # n /\ (firing.seq = s => firing' = firing)
      BY <1>6 DEF Handing
    <2> QED BY <1>3, <1>6, <2>1 DEF CallInv, PendingOK
  <1>e. FiringOK'
    <2>1. CASE firing.call = k \/ firing.call = None
      BY <1>8, <2>1 DEF CallInv, FiringOK, NoHold, Handing
    <2>2. CASE firing.call # k /\ firing.call # None
      <3>1. firing' = firing /\ firing.seq \in Seqs /\ pending[firing.seq] = firing.call /\ firing.call \in Calls
            /\ call[firing.call].Seq = firing.seq
        BY <2>2, Typed DEF CallInv, FiringOK, PendingOK, Handing
      <3>2. firing.seq # n
        BY <1>4, <2>2, <3>1
      <3> QED BY <1>1, <1>2, <2>2, <3>1, <3>2 DEF CallInv, FiringOK
    <2> QED BY <2>1, <2>2
  <1>f. ReaderOK'
    <2> SUFFICES ASSUME reader' # None PROVE ReaderOK'
      BY DEF ReaderOK
    <2>1. reader' = reader /\ reader \in Calls /\ reader # k /\ call[reader].Seq \in Seqs /\ call[reader].Seq # n
      BY <1>4, <1>8, Typed DEF CallInv, ReaderOK
    <2> QED BY <1>1, <1>2, <1>3, <2>1 DEF CallInv, ReaderOK, Unanswered, Earned
  <1>g. QueuesOK'
    <2> SUFFICES ASSUME NEW g \in Handlers, NEW i \in DOMAIN chanEvent'[g]
                 PROVE  QueuedOK(g, chanEvent[g][i])'
      BY DEF QueuesOK
    <2>1. CASE i \in DOMAIN chanEvent[g] /\ chanEvent'[g][i] = chanEvent[g][i]
      <3>1. QueuedOK(g, chanEvent[g][i]) /\ chanEvent[g][i] \in Calls /\ chanEvent[g][i] # k
        BY <2>1, Typed DEF CallInv, QueuesOK, Handing
      <3>2. call[chanEvent[g][i]].Seq # n /\ chanEvent[g][i] # reader' /\ chanEvent[g][i] \notin lost'
        BY <1>1, <1>4, <1>8, <3>1, CallTableAssumption DEF QueuedOK
      <3> QED BY <1>1, <1>2, <1>3, <2>1, <3>1, <3>2 DEF QueuedOK, Unanswered, Earned
    <2>2. CASE chanEvent'[g][i] = k /\ g = call[k].callback /\ lost' = lost
      <3>1. /\ call[k].ref /\ call[k].Seq = n /\ returned[n] = <<>> /\ Earned(n, call[k].Err)
            /\ k \notin lost
        BY DEF Handing
      <3>2. Unanswered(n)' /\ Earned(n, call[k].Err)'
        BY <1>1, <1>2, <1>3, <3>1 DEF Unanswered, Earned
      <3>3. QueuedOK(g, k)'
        BY <1>1, <1>3, <1>8, <1>9, <2>2, <3>1, <3>2, CallTableAssumption DEF QueuedOK
      <3> QED BY <2>2, <3>3 DEF QueuedOK
    <2> QED BY <1>1, <2>1, <2>2
  <1>h. QueuedOnce'
    <2> SUFFICES ASSUME NEW g \in Handlers, NEW i \in DOMAIN chanEvent'[g], NEW j \in DOMAIN chanEvent'[g],
                        chanEvent'[g][i] = chanEvent'[g][j]
                 PROVE  i = j
      BY DEF QueuedOnce
    <2>1. \A x \in DOMAIN chanEvent[g] : chanEvent[g][x] # k
      BY DEF Handing
    <2> QED BY <1>1, <2>1 DEF CallInv, QueuedOnce
  <1>i. LostOK'
    <2> SUFFICES ASSUME NEW l \in lost'
                 PROVE  /\ call'[l].ref /\ call'[l].callback # None /\ l # reader'
                        /\ \A s \in Seqs : pending'[s] # l
                        /\ \A r \in Procs : my[r].call # l
      BY <1>3 DEF LostOK
    <2>1. CASE l = k
      <3>1. call[k].callback # None
        BY <1>1, <2>1 DEF Handing
      <3>2. \A s \in Seqs : pending'[s] # k
        BY <1>6, <1>8
      <3>3. call'[k].ref
        BY <1>1 DEF Handing
      <3> QED BY <1>1, <1>8, <1>9, <2>1, <3>1, <3>2, <3>3
    <2>2. CASE l # k
      <3>1. l \in lost /\ l \in Calls /\ l # None
        BY <1>1, <2>2, Typed, CallTableAssumption DEF CallInv
      <3> QED BY <1>1, <1>2, <1>8, <2>2, <3>1 DEF CallInv, LostOK
    <2> QED BY <2>1, <2>2
  <1>j. HoldersOK'
    <2> SUFFICES ASSUME NEW r \in Procs PROVE HoldingOK(r)'
      BY <1>3 DEF CallInv, HoldersOK
    <2>1. pc[r] # "idle" => my[r].call \in Calls
      BY Typed DEF CallInv
    <2> QED BY <1>1, <1>3, <2>1 DEF CallInv, HoldersOK, HoldingOK
  <1>k. SendersOK'
    <2> SUFFICES ASSUME NEW r \in Procs, pc[r] \in {"lock", "write", "check"} PROVE SendingOK(r)'
      BY <1>3 DEF SendersOK
    <2>1. SendingOK(r) /\ my[r].call # k /\ pc[r] # "idle"
      BY DEF CallInv, SendersOK, Handing
    <2>2. my[r].call # reader'
      BY <1>7, <1>8, <2>1, CallTableAssumption DEF SendingOK
    <2> QED BY <1>3, <1>7, <2>1, <2>2 DEF SendingOK
  <1>l. WaitersOK'
    <2> SUFFICES ASSUME NEW r \in Procs, pc[r] = "done" PROVE WaitingOK(r)'
      BY <1>3 DEF WaitersOK
    <2>1. WaitingOK(r)
      BY DEF CallInv, WaitersOK
    <2>2. CASE my[r].call = k
      BY <1>1, <1>2, <1>3, <1>8, <2>1, <2>2 DEF WaitingOK, Earned, Handing
    <2>3. CASE my[r].call # k
      <3>1. my[r].call # reader' \/ my[r].call = reader
        BY <1>7, <1>8, <2>3, CallTableAssumption
      <3> QED BY <1>3, <1>7, <2>1, <2>3, <3>1 DEF WaitingOK, Earned
    <2> QED BY <2>2, <2>3
  <1>m. Accounted'
    <2> SUFFICES ASSUME NEW l \in Calls, call'[l].ref
                 PROVE  (IF call[l].callback = None THEN \E r \in Procs : my[r].call = l
                         ELSE \/ \E r \in Procs : pc[r] = "lock" /\ my[r].call = l
                              \/ \E s \in Seqs : pending[s] = l
                              \/ reader = l
                              \/ \E h \in Handlers : \E i \in DOMAIN chanEvent[h] : chanEvent[h][i] = l
                              \/ l \in lost)'
      BY DEF Accounted
    <2>1. call'[l].callback = call[l].callback /\ call[l].ref /\ l # None
      BY <1>1, CallTableAssumption
    <2>2. CASE l = k
      <3>1. CASE call[k].callback = None
        BY <1>3, <2>1, <2>2, <3>1 DEF CallInv, Accounted
      <3>2. CASE call[k].callback # None
        BY <1>1, <2>1, <2>2, <3>2
      <3> QED BY <3>1, <3>2
    <2>3. CASE l # k
      <3>1. ASSUME NEW s \in Seqs, pending[s] = l PROVE pending'[s] = l
        BY <1>2, <2>1, <2>3, <3>1 DEF Handing
      <3>2. ASSUME NEW h \in Handlers, NEW i \in DOMAIN chanEvent[h], chanEvent[h][i] = l
            PROVE  i \in DOMAIN chanEvent'[h] /\ chanEvent'[h][i] = l
        BY <1>1, <3>2
      <3>3. reader = l => reader' = l
        BY <1>8, <2>3
      <3>4. l \in lost => l \in lost'
        BY <1>1
      <3>5. CASE call[l].callback = None
        BY <1>3, <2>1, <3>5 DEF CallInv, Accounted
      <3>6. CASE call[l].callback # None
        <4>1. \/ \E r \in Procs : pc[r] = "lock" /\ my[r].call = l
              \/ \E s \in Seqs : pending[s] = l
              \/ reader = l
              \/ \E h \in Handlers : \E i \in DOMAIN chanEvent[h] : chanEvent[h][i] = l
              \/ l \in lost
          BY <2>1, <3>6 DEF CallInv, Accounted
        <4> QED BY <1>3, <2>1, <3>1, <3>2, <3>3, <3>4, <3>6, <4>1
      <3> QED BY <3>5, <3>6
    <2> QED BY <2>2, <2>3
  <1>n. OutcomesOK'
    BY <1>3 DEF CallInv, OutcomesOK, Earned
  <1> QED BY <1>a, <1>b, <1>c, <1>d, <1>e, <1>f, <1>g, <1>h, <1>i, <1>j, <1>k, <1>l, <1>m, <1>n DEF CallInv

\* The reader hands the Call it holds over.
LEMMA DeliverResponseCalls ==
  ASSUME CallInv, TypeInv', DeliverResponse
  PROVE  CallInv'
  <1> DEFINE k == reader
             n == call[k].Seq
  <1>1. k \in Calls /\ n \in Seqs /\ n # 0 /\ ReaderOK /\ k # None
    BY Typed, CallTableAssumption DEF DeliverResponse, CallInv, ReaderOK, Seqs
  <1>2. /\ call[k].ref /\ call[k].done = 0 /\ pending[n] = None /\ returned[n] = <<>>
        /\ Earned(n, call[k].Err)
    BY <1>1 DEF ReaderOK, Unanswered
  <1>3. k \notin lost /\ \A h \in Handlers : \A i \in DOMAIN chanEvent[h] : chanEvent[h][i] # k
    BY DEF CallInv, LostOK, QueuesOK, QueuedOK
  <1>4. \A r \in Procs : pc[r] \in {"lock", "write", "check"} => my[r].call # k
    BY DEF CallInv, SendersOK, SendingOK
  <1>5. firing.call # k
    BY <1>1, <1>2 DEF CallInv, FiringOK, PendingOK
  <1>6. \A s \in Seqs : pending'[s] = IF s = n THEN None ELSE pending[s]
    BY <1>2 DEF DeliverResponse
  <1>7. /\ Strobe(<<"reader">>, k) /\ reader' = None /\ reader = k
        /\ UNCHANGED <<startSeq, timers, crashed, returned, pc, my, netVars, firing>>
    BY DEF DeliverResponse
  <1>8. call[k].Seq = n
    OBVIOUS
  <1> HIDE DEF k, n
  <1>9. Handing(<<"reader">>, k, n)
    BY <1>1, <1>2, <1>3, <1>4, <1>5, <1>6, <1>7, <1>8 DEF Handing
  <1> QED BY <1>1, <1>9, HandOver

\* The timeout handler removes its call, hands it over and unlocks.
LEMMA FinishTimeoutCalls ==
  ASSUME CallInv, TypeInv', FinishTimeout
  PROVE  CallInv'
  <1> DEFINE k == firing.call
             n == firing.seq
  <1>1. /\ k \in Calls /\ k # None /\ n \in Seqs /\ n # 0 /\ pending[n] = k /\ call[k].Err = "timeout"
    BY Typed, CallTableAssumption DEF FinishTimeout, DeliverTimeout, CallInv, FiringOK, Seqs
  <1>2. call[k].ref /\ call[k].Seq = n /\ call[k].done = 0 /\ returned[n] = <<>> /\ Earned(n, call[k].Err)
    BY <1>1 DEF CallInv, PendingOK, Earned
  <1>3. k \notin lost /\ \A h \in Handlers : \A i \in DOMAIN chanEvent[h] : chanEvent[h][i] # k
    BY <1>1, <1>2 DEF CallInv, LostOK, QueuesOK, QueuedOK, Unanswered
  <1>4. \A r \in Procs : pc[r] \in {"lock", "write", "check"} => my[r].call # k
    BY <1>1, <1>2 DEF CallInv, SendersOK, SendingOK
  <1>5. reader # k
    BY <1>1, <1>2 DEF CallInv, ReaderOK, Unanswered
  <1>6. \A s \in Seqs : pending'[s] = IF s = n THEN None ELSE pending[s]
    BY <1>2 DEF FinishTimeout, DeliverTimeout, RemovePending
  <1>7. /\ Strobe(<<"timeout">>, k) /\ reader' = reader /\ firing' = NoHold
        /\ UNCHANGED <<startSeq, timers, crashed, returned, pc, my, netVars>>
    BY DEF FinishTimeout, DeliverTimeout, clientVars
  <1>8. firing.call = k /\ firing.seq = n
    OBVIOUS
  <1> HIDE DEF k, n
  <1>9. Handing(<<"timeout">>, k, n)
    BY <1>1, <1>2, <1>3, <1>4, <1>5, <1>6, <1>7, <1>8 DEF Handing
  <1> QED BY <1>1, <1>9, HandOver

-----------------------------------------------------------------------------
(* The invariant and what follows from it *)

LEMMA CallInit == Init => CallInv
  <1> SUFFICES ASSUME Init PROVE CallInv
    OBVIOUS
  <1>1. TypeInv
    BY TypeInit
  <1>2. FreeIsClear /\ FreshUnused /\ NumbersUnique
    BY CallTableAssumption DEF Init, TableInit, FreeIsClear, FreshUnused, NumbersUnique, Cleared, NoLocal
  <1>3. PendingOK /\ FiringOK /\ ReaderOK /\ LostOK
    BY DEF Init, TableInit, PendingOK, FiringOK, ReaderOK, LostOK, NoHold
  <1>4. QueuesOK /\ QueuedOnce
    BY DEF Init, TableInit, QueuesOK, QueuedOnce
  <1>5. HoldersOK /\ SendersOK /\ WaitersOK
    BY DEF Init, HoldersOK, HoldingOK, SendersOK, WaitersOK, NoLocal
  <1>6. Accounted
    BY DEF Init, TableInit, Accounted, Cleared
  <1>7. OutcomesOK
    BY DEF Init, TableInit, OutcomesOK
  <1> QED BY <1>1, <1>2, <1>3, <1>4, <1>5, <1>6, <1>7 DEF CallInv

LEMMA CallStep ==
  ASSUME CallInv, CallerTimely, [Next]_vars
  PROVE  CallInv'
  <1>1. TypeInv'
    BY TypeStep DEF CallInv
  <1>2. CASE UNCHANGED vars
    BY <1>1, <1>2, NetworkCalls DEF vars, netVars, tableVars, CallInv, OutcomesOK
  <1>3. ASSUME NEW c \in Callers, CallerNext(c) PROVE CallInv'
    <2>1. c \in Procs
      BY DEF Procs
    <2>2. CASE WriteMsg(c) \/ WriteMsgDropped(c)
      BY <1>1, <2>1, <2>2, WrittenCalls DEF WriteMsg, WriteMsgDropped
    <2> QED BY <1>1, <1>3, <2>1, <2>2, RawGoCalls, RawGoFailsCalls, EnterPendingCalls, CallWriteFailsCalls, FinishCalls,
               EnterDoneCalls
            DEF CallerNext, Issue
  <1>4. ASSUME NEW h \in Handlers, HandlerNext(h) PROVE CallInv'
    <2>1. h \in Procs
      BY DEF Procs
    <2>2. CASE WriteMsg(h) \/ WriteMsgDropped(h)
      BY <1>1, <2>1, <2>2, WrittenCalls DEF WriteMsg, WriteMsgDropped
    <2>3. CASE OtherEvent(h) \/ HandleOther(h)
      BY <1>1, <2>3, QueueStepCalls DEF QueueStep
    <2> QED BY <1>1, <1>4, <2>1, <2>2, <2>3, AsyncCallCalls, AsyncCallFailsCalls, EnterPendingCalls,
               AsyncWriteFailsCalls, RunCallbackCalls
            DEF HandlerNext, Issue
  <1>5. CASE \E m \in responses : ReadResponse(m)
    BY <1>1, <1>5, ReadResponseCalls
  <1>6. CASE DeliverResponse
    BY <1>1, <1>6, DeliverResponseCalls
  <1>7. CASE \E s \in Seqs : handleRpcCallTimeout(s)
    BY <1>1, <1>7, TimeoutCalls
  <1>8. CASE FinishTimeout
    BY <1>1, <1>8, FinishTimeoutCalls
  <1>9. CASE Connect \/ Disconnect \/ (\E m \in responses : SkipResponse(m)) \/ RemoteNext
    <2>1. UNCHANGED <<tableVars, clientVars>> /\ answers \subseteq answers'
      BY <1>9 DEF Connect, Disconnect, SkipResponse, RemoteNext, Answer, Ignore
    <2>2. responses' \subseteq answers'
      BY <1>9 DEF Connect, Disconnect, SkipResponse, RemoteNext, Answer, Ignore, CallInv, OutcomesOK
    <2> QED BY <1>1, <2>1, <2>2, NetworkCalls DEF tableVars
  <1>10. CASE Admission
    BY <1>1, <1>10, QueueStepCalls DEF QueueStep
  <1> QED BY <1>2, <1>3, <1>4, <1>5, <1>6, <1>7, <1>8, <1>9, <1>10 DEF Next, ClientNext

LEMMA CallInvariant == CallerTimely => (Spec => []CallInv)
  <1> SUFFICES ASSUME CallerTimely PROVE Spec => []CallInv
    OBVIOUS
  <1>1. CallInv /\ [Next]_vars => CallInv'
    BY CallStep
  <1> QED BY <1>1, CallInit, PTL DEF Spec

\* A reply, a timeout and a failed send race for every call; whatever the order, the
\* table's entry is the live Call of its number with a timer behind it, so that
\* removePending by call.Seq in handleRpcCallTimeout never removes another call's entry.
THEOREM TableGuarded == CallerTimely => (Spec => []PendingGuarded)
  <1>1. CallInv => PendingGuarded
    BY DEF CallInv, PendingOK, PendingGuarded
  <1> QED BY <1>1, CallInvariant, PTL

\* Of the reply, the timeout and the failed send at most one reaches the caller or its
\* callback.
THEOREM ToldOnce == CallerTimely => (Spec => []CompletedOnce)
  <1>1. CallInv => CompletedOnce
    BY DEF CallInv, OutcomesOK, CompletedOnce
  <1> QED BY <1>1, CallInvariant, PTL

\* done is strobed only for a call that is complete: a caller that wakes up in callRpc
\* finds its own call out of the table, though the Call has been used before.
THEOREM StrobedWhenComplete == CallerTimely => (Spec => []DoneMeansComplete)
  <1>1. CallInv => DoneMeansComplete
    BY DEF CallInv, PendingOK, DoneMeansComplete
  <1> QED BY <1>1, CallInvariant, PTL

\* callRpc and the callbacks report success only for a call that the remote node
\* answered, under that call's own number, with success: no reply is credited to
\* another call although Call objects are reused.
THEOREM RepliesAreReal == CallerTimely => (Spec => []NoPhantomReply)
  <1>1. CallInv => NoPhantomReply
    BY DEF CallInv, OutcomesOK, Earned, NoPhantomReply
  <1> QED BY <1>1, CallInvariant, PTL

\* ReleaseCall never finds a Call that is already free: the reply, the timeout, the
\* failed send and the callback agree on who gives it back.
THEOREM ReleasedOnce == CallerTimely => (Spec => []NoDoubleFree)
  <1>1. CallInv => NoDoubleFree
    BY DEF CallInv, OutcomesOK, NoDoubleFree
  <1> QED BY <1>1, CallInvariant, PTL

\* A Call out of the pool is held by a goroutine, the table, the reader or a queue,
\* unless a full queue refused it or its callback panicked.
THEOREM NothingLeaks == CallerTimely => (Spec => []NoLeak)
  <1>1. CallInv => NoLeak
    BY DEF CallInv, OutcomesOK, Accounted, NoLeak
  <1> QED BY <1>1, CallInvariant, PTL
=============================================================================
