------------------------- MODULE OTInterfaceProofs -------------------------
(***************************************************************************)
(* Proofs that the safety properties of OTInterface hold for every number  *)
(* of transactions, assets and worker threads, every lock TTL and every    *)
(* clock bound.                                                            *)
(***************************************************************************)
EXTENDS OTInterface, TLAPS

\* A thread that serves a request has one in its hands.
CallsOK ==
    \A th \in Thread :
        /\ pc[th] \in PreparePc \cup CommitPc \cup AbortPc => tx[th] \in Tx
        /\ pc[th] \in (Pc \ {"idle", "done"}) => asset[th] \in Asset
        /\ pc[th] = "idle" => resp[th].status = "none"

\* What the handler in thread th has established: past its checks it works on
\* a row that exists, for its own asset; finalize_commit runs after execute()
\* succeeded; a COMMIT that came too late is still before its first query;
\* an answer that claims the commit follows an execution.
HandlerOK(th) ==
    /\ pc[th] \in {"prepare_extend", "abort_update"} \cup (CommitPc \ {"ready_tx"})
       => status[tx[th]] # "NONE" /\ assetOf[tx[th]] = asset[th]
    /\ pc[th] \in {"finalize_tx", "finalize_update"} => tx[th] \in executed
    /\ local[th].tooLate => pc[th] = "ready_tx" /\ status[tx[th]] \in Terminal
    /\ resp[th].status \in {"ACK", "ALREADY_COMMITTED"} => tx[th] \in executed

CommittedOK == \A t \in Tx : status[t] = "COMMITTED" => t \in executed

HandlersOK == CommittedOK /\ \A th \in Thread : HandlerOK(th)

\* Where a handler stands that still has to try the safe state: before its
\* UPDATE or the attempt, or, in a COMMIT whose execution failed, before or
\* after an abort() that can only be refused by a row somebody committed or by
\* a failing statement.
ServesCommit(th) ==
    /\ pc[th] \in CommitPc => op[th] = "commit"
    /\ pc[th] \in AbortPc /\ op[th] = "commit" => th \in owed
Owing(th) ==
    th \in owed =>
        \/ pc[th] \in {"estop_update", "safe_state"}
        \/ /\ pc[th] \in AbortPc /\ op[th] = "commit"
           /\ status[tx[th]] # "NONE" /\ assetOf[tx[th]] = asset[th]
        \/ /\ pc[th] = "done" /\ op[th] = "commit" /\ resp[th].status = "HTTP_500"
           /\ tx[th] \in executed \/ "db" \in Faults

\* Some transaction other than t holds an active lock on a.
Rival(t, a) == \E u \in ActiveLocks(a, now) : u # t

\* What a PREPARE knows while no other PREPARE has written on its asset: past
\* the scan there is no rival; before it, there is none that its scan could
\* overlook because it returns the transaction's own row.
Window(th) ==
    pc[th] \in PreparePc =>
        /\ local[th].time <= now
        /\ asset[th] \notin raced =>
              /\ pc[th] # "prepare_lock" => ~Rival(tx[th], asset[th])
              /\ ~(/\ tx[th] \in ActiveLocks(asset[th], local[th].time)
                   /\ Rival(tx[th], asset[th]))

LockInv == ExclusiveUnlessRaced /\ \A th \in Thread : Window(th)

\* The threads' part of TypeOK, with CallsOK.
CallType ==
    /\ pc \in [Thread -> Pc]
    /\ op \in [Thread -> Ops]
    /\ tx \in [Thread -> Tx \cup {NoTx}]
    /\ asset \in [Thread -> Asset \cup {NoAsset}]
    /\ local \in [Thread -> [time : 0 .. MaxTime, expires : Nat, tooLate : BOOLEAN]]
    /\ resp \in [Thread -> [status : RespStatus, safe : BOOLEAN]]
    /\ CallsOK

\* The rest of TypeOK: the clock, the table, the device and the history.
DataType ==
    /\ now \in 0 .. MaxTime
    /\ status \in [Tx -> Status]
    /\ assetOf \in [Tx -> Asset \cup {NoAsset}]
    /\ expires \in [Tx -> Nat]
    /\ device \in [Asset -> Tx \cup {Safe, Boot}]
    /\ late \subseteq (Tx \cup {Safe}) \X Asset
    /\ executed \subseteq Tx
    /\ raced \subseteq Asset
    /\ owed \subseteq Thread

-----------------------------------------------------------------------------
(***************************************************************************)
(* Typing.                                                                 *)
(***************************************************************************)
LEMMA TypeInit == Init => TypeOK /\ CallsOK
  BY ConstantAssumption
  DEF Init, TypeOK, CallsOK, Pc, Ops, Status, PreparePc, CommitPc, AbortPc,
      NoLocal, NoResponse, Response, RespStatus

\* How a thread's own part of the state changes when it answers ...
LEMMA ReplyType ==
  ASSUME TypeOK, CallsOK, NEW th \in Thread,
         NEW r \in [status : RespStatus, safe : BOOLEAN],
         Reply(th, r), UNCHANGED <<op, tx, asset>>
  PROVE  CallType'
  BY ConstantAssumption
  DEF TypeOK, CallsOK, CallType, Reply, Goto, Pc, NoLocal, PreparePc, CommitPc, AbortPc

\* ... and when it goes on to another step of its handler.
LEMMA GotoType ==
  ASSUME TypeOK, CallsOK, NEW th \in Thread, NEW p \in Pc \ {"idle"},
         asset[th] \in Asset,
         p \in PreparePc \cup CommitPc \cup AbortPc => tx[th] \in Tx,
         Goto(th, p),
         local' \in [Thread -> [time : 0 .. MaxTime, expires : Nat, tooLate : BOOLEAN]],
         resp' \in [Thread -> [status : RespStatus, safe : BOOLEAN]],
         \A o \in Thread \ {th} : resp'[o] = resp[o],
         UNCHANGED <<op, tx, asset>>
  PROVE  CallType'
  BY DEF TypeOK, CallsOK, CallType, Goto, Pc, PreparePc, CommitPc, AbortPc

\* A safe-state attempt leaves the calls well typed.
LEMMA SafeStateThenType ==
  ASSUME TypeOK, CallsOK, NEW th \in Thread, NEW s \in RespStatus,
         asset[th] \in Asset, SafeStateThen(th, s), UNCHANGED <<op, tx, asset>>
  PROVE  CallType'
  <1>1. resp' \in [Thread -> [status : RespStatus, safe : BOOLEAN]]
    BY DEF SafeStateThen, Response, TypeOK
  <1>2. \A o \in Thread \ {th} : resp'[o] = resp[o]
    BY DEF SafeStateThen, TypeOK
  <1> QED
    BY <1>1, <1>2, GotoType DEF SafeStateThen, TypeOK, Pc, PreparePc, CommitPc, AbortPc

\* Every step keeps the variables in their ranges and gives a busy thread a
\* request to serve.
LEMMA TypeStep == TypeOK /\ CallsOK /\ [Next]_vars => TypeOK' /\ CallsOK'
  <1> SUFFICES ASSUME TypeOK, CallsOK, [Next]_vars PROVE CallType' /\ DataType'
    BY DEF TypeOK, CallType, DataType
  <1> USE ConstantAssumption DEF tableVars, callVars, deviceVars, histVars
  <1>1. ASSUME NEW th \in Thread, PrepareReadLock(th) PROVE CallType' /\ DataType'
    <2>1. asset[th] \in Asset /\ (pc[th] \notin {"estop_update", "safe_state"} => tx[th] \in Tx)
      BY <1>1 DEF PrepareReadLock, CallsOK, TypeOK, Pc, PreparePc, CommitPc, AbortPc
    <2>2. ASSUME NEW r \in [status : RespStatus, safe : BOOLEAN], Reply(th, r) PROVE CallType'
      BY <1>1, <2>2, ReplyType DEF PrepareReadLock
    <2>3. ASSUME NEW p \in {"prepare_extend", "prepare_tx"}, Goto(th, p), UNCHANGED <<local, resp>> PROVE CallType'
      BY <1>1, <2>1, <2>3, GotoType DEF PrepareReadLock, TypeOK, Pc, PreparePc, CommitPc, AbortPc
    <2>4. CallType'
      BY <1>1, <2>1, <2>2, <2>3 DEF PrepareReadLock, Denied, Response, RespStatus
    <2>5. DataType'
      BY <1>1, <2>1 DEF PrepareReadLock, TypeOK, DataType, Status
    <2> QED BY <2>4, <2>5
  <1>2. ASSUME NEW th \in Thread, PrepareReadTx(th) PROVE CallType' /\ DataType'
    <2>1. asset[th] \in Asset /\ (pc[th] \notin {"estop_update", "safe_state"} => tx[th] \in Tx)
      BY <1>2 DEF PrepareReadTx, CallsOK, TypeOK, Pc, PreparePc, CommitPc, AbortPc
    <2>2. ASSUME NEW r \in [status : RespStatus, safe : BOOLEAN], Reply(th, r) PROVE CallType'
      BY <1>2, <2>2, ReplyType DEF PrepareReadTx
    <2>3. ASSUME NEW p \in {"prepare_extend", "prepare_create"}, Goto(th, p), UNCHANGED <<local, resp>> PROVE CallType'
      BY <1>2, <2>1, <2>3, GotoType DEF PrepareReadTx, TypeOK, Pc, PreparePc, CommitPc, AbortPc
    <2>4. CallType'
      BY <1>2, <2>1, <2>2, <2>3 DEF PrepareReadTx, Denied, Response, RespStatus
    <2>5. DataType'
      BY <1>2, <2>1 DEF PrepareReadTx, TypeOK, DataType, Status
    <2> QED BY <2>4, <2>5
  <1>3. ASSUME NEW th \in Thread, PrepareExtend(th) PROVE CallType' /\ DataType'
    <2>1. asset[th] \in Asset /\ (pc[th] \notin {"estop_update", "safe_state"} => tx[th] \in Tx)
      BY <1>3 DEF PrepareExtend, CallsOK, TypeOK, Pc, PreparePc, CommitPc, AbortPc
    <2>2. ASSUME NEW r \in [status : RespStatus, safe : BOOLEAN], Reply(th, r) PROVE CallType'
      BY <1>3, <2>2, ReplyType DEF PrepareExtend
    <2>4. CallType'
      BY <1>3, <2>1, <2>2 DEF PrepareExtend, Granted, Response, RespStatus
    <2>5. DataType'
      BY <1>3, <2>1 DEF PrepareExtend, ExtendLock, NoteRace, TypeOK, DataType, Status
    <2> QED BY <2>4, <2>5
  <1>4. ASSUME NEW th \in Thread, PrepareCreate(th) PROVE CallType' /\ DataType'
    <2>1. asset[th] \in Asset /\ (pc[th] \notin {"estop_update", "safe_state"} => tx[th] \in Tx)
      BY <1>4 DEF PrepareCreate, CallsOK, TypeOK, Pc, PreparePc, CommitPc, AbortPc
    <2>2. ASSUME NEW r \in [status : RespStatus, safe : BOOLEAN], Reply(th, r) PROVE CallType'
      BY <1>4, <2>2, ReplyType DEF PrepareCreate
    <2>4. CallType'
      BY <1>4, <2>1, <2>2 DEF PrepareCreate, Granted, Denied, Response, RespStatus
    <2>5. DataType'
      <3>1. raced' \subseteq Asset
        BY <1>4, <2>1 DEF PrepareCreate, NoteRace, TypeOK
      <3>2. CASE status[tx[th]] = "NONE"
        <4>1. local[th].time + LockTtl \in Nat
          BY DEF TypeOK
        <4>2. CreateLock(tx[th], asset[th], local[th].time + LockTtl)
          BY <1>4, <3>2 DEF PrepareCreate
        <4>3. /\ status' \in [Tx -> Status]
              /\ assetOf' \in [Tx -> Asset \cup {NoAsset}]
              /\ expires' \in [Tx -> Nat]
          BY <2>1, <4>1, <4>2 DEF CreateLock, TypeOK, Status
        <4> QED
          BY <1>4, <3>1, <4>3 DEF PrepareCreate, TypeOK, DataType
      <3>3. CASE status[tx[th]] # "NONE"
        BY <1>4, <3>1, <3>3 DEF PrepareCreate, TypeOK, DataType
      <3> QED BY <3>2, <3>3
    <2> QED BY <2>4, <2>5
  <1>5. ASSUME NEW th \in Thread, ReadyReadTx(th) PROVE CallType' /\ DataType'
    <2>1. asset[th] \in Asset /\ (pc[th] \notin {"estop_update", "safe_state"} => tx[th] \in Tx)
      BY <1>5 DEF ReadyReadTx, CallsOK, TypeOK, Pc, PreparePc, CommitPc, AbortPc
    <2>2. ASSUME NEW r \in [status : RespStatus, safe : BOOLEAN], Reply(th, r) PROVE CallType'
      BY <1>5, <2>2, ReplyType DEF ReadyReadTx
    <2>3. ASSUME NEW p \in {"ready_lock"}, Goto(th, p), local' = [local EXCEPT ![th].expires = expires[tx[th]]], UNCHANGED resp PROVE CallType'
      <3>1. local' \in [Thread -> [time : 0 .. MaxTime, expires : Nat, tooLate : BOOLEAN]]
        BY SMTT(30), <2>1, <2>3, <1>5 DEF ReadyReadTx, TypeOK, CommitPc
      <3> QED
        BY <1>5, <2>1, <2>3, <3>1, GotoType DEF ReadyReadTx, TypeOK, Pc, PreparePc, CommitPc, AbortPc
    <2>5. CallType'
      BY <1>5, <2>1, <2>2, <2>3 DEF ReadyReadTx, Response, RespStatus
    <2>6. DataType'
      BY <1>5, <2>1 DEF ReadyReadTx, TypeOK, DataType, Status
    <2> QED BY <2>5, <2>6
  <1>6. ASSUME NEW th \in Thread, ReadyReadLock(th) PROVE CallType' /\ DataType'
    <2>1. asset[th] \in Asset /\ (pc[th] \notin {"estop_update", "safe_state"} => tx[th] \in Tx)
      BY <1>6 DEF ReadyReadLock, CallsOK, TypeOK, Pc, PreparePc, CommitPc, AbortPc
    <2>2. ASSUME NEW r \in [status : RespStatus, safe : BOOLEAN], Reply(th, r) PROVE CallType'
      BY <1>6, <2>2, ReplyType DEF ReadyReadLock
    <2>3. ASSUME NEW p \in {"execute"}, Goto(th, p), local' = [local EXCEPT ![th] = [time |-> 0, expires |-> 0, tooLate |-> local[th].tooLate]], UNCHANGED resp PROVE CallType'
      <3>1. local' \in [Thread -> [time : 0 .. MaxTime, expires : Nat, tooLate : BOOLEAN]]
        <4>1. ASSUME NEW o \in Thread
              PROVE  local'[o] \in [time : 0 .. MaxTime, expires : Nat, tooLate : BOOLEAN]
          BY <2>3 DEF TypeOK, NoLocal
        <4> QED
          BY <2>3, <4>1 DEF TypeOK
      <3> QED
        BY <1>6, <2>1, <2>3, <3>1, GotoType DEF ReadyReadLock, TypeOK, Pc, PreparePc, CommitPc, AbortPc
    <2>5. CallType'
      BY <1>6, <2>1, <2>2, <2>3 DEF ReadyReadLock, Response, RespStatus
    <2>6. DataType'
      BY <1>6, <2>1 DEF ReadyReadLock, TypeOK, DataType, Status
    <2> QED BY <2>5, <2>6
  <1>7. ASSUME NEW th \in Thread, ExecuteSucceeds(th) PROVE CallType' /\ DataType'
    <2>1. asset[th] \in Asset /\ (pc[th] \notin {"estop_update", "safe_state"} => tx[th] \in Tx)
      BY <1>7 DEF ExecuteSucceeds, CallsOK, TypeOK, Pc, PreparePc, CommitPc, AbortPc
    <2>3. ASSUME NEW p \in {"finalize_tx"}, Goto(th, p), UNCHANGED <<local, resp>> PROVE CallType'
      BY <1>7, <2>1, <2>3, GotoType DEF ExecuteSucceeds, TypeOK, Pc, PreparePc, CommitPc, AbortPc
    <2>5. CallType'
      BY <1>7, <2>1, <2>3 DEF ExecuteSucceeds, Response, RespStatus
    <2>6. DataType'
      BY <1>7, <2>1 DEF ExecuteSucceeds, TypeOK, DataType, Status
    <2> QED BY <2>5, <2>6
  <1>8. ASSUME NEW th \in Thread, ExecuteFails(th) PROVE CallType' /\ DataType'
    <2>1. asset[th] \in Asset /\ (pc[th] \notin {"estop_update", "safe_state"} => tx[th] \in Tx)
      BY <1>8 DEF ExecuteFails, CallsOK, TypeOK, Pc, PreparePc, CommitPc, AbortPc
    <2>3. ASSUME NEW p \in {"abort_tx"}, Goto(th, p), UNCHANGED <<local, resp>> PROVE CallType'
      BY <1>8, <2>1, <2>3, GotoType DEF ExecuteFails, TypeOK, Pc, PreparePc, CommitPc, AbortPc
    <2>5. CallType'
      BY <1>8, <2>1, <2>3 DEF ExecuteFails, Response, RespStatus
    <2>6. DataType'
      BY <1>8, <2>1 DEF Owes, ExecuteFails, TypeOK, DataType, Status
    <2> QED BY <2>5, <2>6
  <1>9. ASSUME NEW th \in Thread, FinalizeReadTx(th) PROVE CallType' /\ DataType'
    <2>1. asset[th] \in Asset /\ (pc[th] \notin {"estop_update", "safe_state"} => tx[th] \in Tx)
      BY <1>9 DEF FinalizeReadTx, CallsOK, TypeOK, Pc, PreparePc, CommitPc, AbortPc
    <2>2. ASSUME NEW r \in [status : RespStatus, safe : BOOLEAN], Reply(th, r) PROVE CallType'
      BY <1>9, <2>2, ReplyType DEF FinalizeReadTx
    <2>3. ASSUME NEW p \in {"finalize_update"}, Goto(th, p), UNCHANGED <<local, resp>> PROVE CallType'
      BY <1>9, <2>1, <2>3, GotoType DEF FinalizeReadTx, TypeOK, Pc, PreparePc, CommitPc, AbortPc
    <2>5. CallType'
      BY <1>9, <2>1, <2>2, <2>3 DEF FinalizeReadTx, Response, RespStatus
    <2>6. DataType'
      BY <1>9, <2>1 DEF FinalizeReadTx, TypeOK, DataType, Status
    <2> QED BY <2>5, <2>6
  <1>10. ASSUME NEW th \in Thread, FinalizeUpdate(th) PROVE CallType' /\ DataType'
    <2>1. asset[th] \in Asset /\ (pc[th] \notin {"estop_update", "safe_state"} => tx[th] \in Tx)
      BY <1>10 DEF FinalizeUpdate, CallsOK, TypeOK, Pc, PreparePc, CommitPc, AbortPc
    <2>2. ASSUME NEW r \in [status : RespStatus, safe : BOOLEAN], Reply(th, r) PROVE CallType'
      BY <1>10, <2>2, ReplyType DEF FinalizeUpdate
    <2>5. CallType'
      BY <1>10, <2>1, <2>2 DEF FinalizeUpdate, Response, RespStatus
    <2>6. DataType'
      BY <1>10, <2>1 DEF FinalizeUpdate, UpdateStatus, TypeOK, DataType, Status
    <2> QED BY <2>5, <2>6
  <1>11. ASSUME NEW th \in Thread, AbortReadTx(th) PROVE CallType' /\ DataType'
    <2>1. asset[th] \in Asset /\ (pc[th] \notin {"estop_update", "safe_state"} => tx[th] \in Tx)
      BY <1>11 DEF AbortReadTx, CallsOK, TypeOK, Pc, PreparePc, CommitPc, AbortPc
    <2>2. ASSUME NEW r \in [status : RespStatus, safe : BOOLEAN], Reply(th, r) PROVE CallType'
      BY <1>11, <2>2, ReplyType DEF AbortReadTx
    <2>3. ASSUME NEW p \in {"abort_update"}, Goto(th, p), UNCHANGED <<local, resp>> PROVE CallType'
      BY <1>11, <2>1, <2>3, GotoType DEF AbortReadTx, TypeOK, Pc, PreparePc, CommitPc, AbortPc
    <2>4. ASSUME NEW s \in RespStatus, SafeStateThen(th, s) PROVE CallType'
      BY <1>11, <2>1, <2>4, SafeStateThenType DEF AbortReadTx
    <2>5. CallType'
      BY <1>11, <2>1, <2>2, <2>3, <2>4 DEF AbortReadTx, AbortAnswer, Response, RespStatus
    <2>6. DataType'
      BY <1>11, <2>1 DEF Owes, AbortReadTx, TypeOK, DataType, Status
    <2> QED BY <2>5, <2>6
  <1>12. ASSUME NEW th \in Thread, AbortUpdate(th) PROVE CallType' /\ DataType'
    <2>1. asset[th] \in Asset /\ (pc[th] \notin {"estop_update", "safe_state"} => tx[th] \in Tx)
      BY <1>12 DEF AbortUpdate, CallsOK, TypeOK, Pc, PreparePc, CommitPc, AbortPc
    <2>4. ASSUME NEW s \in RespStatus, SafeStateThen(th, s) PROVE CallType'
      BY <1>12, <2>1, <2>4, SafeStateThenType DEF AbortUpdate
    <2>5. CallType'
      BY <1>12, <2>1, <2>4 DEF AbortUpdate, AbortAnswer, Response, RespStatus
    <2>6. DataType'
      BY <1>12, <2>1 DEF Owes, AbortUpdate, UpdateStatus, TypeOK, DataType, Status
    <2> QED BY <2>5, <2>6
  <1>13. ASSUME NEW th \in Thread, EstopUpdate(th) PROVE CallType' /\ DataType'
    <2>1. asset[th] \in Asset /\ (pc[th] \notin {"estop_update", "safe_state"} => tx[th] \in Tx)
      BY <1>13 DEF EstopUpdate, CallsOK, TypeOK, Pc, PreparePc, CommitPc, AbortPc
    <2>4. ASSUME NEW s \in RespStatus, SafeStateThen(th, s) PROVE CallType'
      BY <1>13, <2>1, <2>4, SafeStateThenType DEF EstopUpdate
    <2>5. CallType'
      BY <1>13, <2>1, <2>4 DEF EstopUpdate, Response, RespStatus
    <2>6. DataType'
      BY <1>13, <2>1 DEF EstopUpdate, AbortActiveLocksForAsset, LockedOn, TypeOK, DataType, Status
    <2> QED BY <2>5, <2>6
  <1>14. ASSUME NEW th \in Thread, SafeState(th) PROVE CallType' /\ DataType'
    <2>1. asset[th] \in Asset /\ (pc[th] \notin {"estop_update", "safe_state"} => tx[th] \in Tx)
      BY <1>14 DEF SafeState, CallsOK, TypeOK, Pc, PreparePc, CommitPc, AbortPc
    <2>2. ASSUME NEW r \in [status : RespStatus, safe : BOOLEAN], Reply(th, r) PROVE CallType'
      BY <1>14, <2>2, ReplyType DEF SafeState
    <2>5. CallType'
      BY <1>14, <2>1, <2>2 DEF SafeState, TypeOK, Response, RespStatus
    <2>6. DataType'
      BY <1>14, <2>1 DEF SafeState, TypeOK, DataType, Status
    <2> QED BY <2>5, <2>6
  <1>15. ASSUME NEW th \in Thread, DbError(th) PROVE CallType' /\ DataType'
    <2>1. asset[th] \in Asset /\ (pc[th] \notin {"estop_update", "safe_state"} => tx[th] \in Tx)
      BY <1>15 DEF DbError, CallsOK, TypeOK, Pc, PreparePc, CommitPc, AbortPc
    <2>2. ASSUME NEW r \in [status : RespStatus, safe : BOOLEAN], Reply(th, r) PROVE CallType'
      BY <1>15, <2>2, ReplyType DEF DbError
    <2>4. ASSUME NEW s \in RespStatus, SafeStateThen(th, s) PROVE CallType'
      BY <1>15, <2>1, <2>4, SafeStateThenType DEF DbError
    <2>5. CallType'
      BY <1>15, <2>1, <2>2, <2>4 DEF DbError, Denied, AbortAnswer, Response, RespStatus
    <2>6. DataType'
      BY <1>15, <2>1 DEF DbError, TypeOK, DataType, Status
    <2> QED BY <2>5, <2>6
  <1>16. ASSUME NEW th \in Thread, Return(th) PROVE CallType' /\ DataType'
    BY <1>16 DEF Return, Goto, CallType, DataType, CallsOK, TypeOK, Pc, PreparePc, CommitPc, AbortPc, Ops, Response, RespStatus, NoLocal, NoResponse
  <1>17. ASSUME NEW th \in Thread, NEW o \in {"prepare", "commit", "abort"},
               NEW t \in Tx, NEW a \in Asset, Request(th, o, t, a)
         PROVE  CallType' /\ DataType'
    BY <1>17 DEF Request, FirstPc, Goto, CallType, DataType, CallsOK, TypeOK, Pc, PreparePc, CommitPc, AbortPc, Ops, Response, RespStatus, NoLocal, NoResponse
  <1>18. ASSUME NEW th \in Thread, NEW a \in Asset, Request(th, "estop", NoTx, a)
         PROVE  CallType' /\ DataType'
    BY <1>18 DEF Owes, Request, FirstPc, Goto, CallType, DataType, CallsOK, TypeOK, Pc, PreparePc, CommitPc, AbortPc, Ops, Response, RespStatus, NoLocal, NoResponse
  <1>19. ASSUME NEW c \in late, LateWrite(c) PROVE CallType' /\ DataType'
    BY <1>19 DEF LateWrite, CallType, DataType, CallsOK, TypeOK
  <1>20. ASSUME Tick PROVE CallType' /\ DataType'
    BY <1>20 DEF Tick, CallType, DataType, CallsOK, TypeOK
  <1>21. ASSUME Crash PROVE CallType' /\ DataType'
    BY <1>21 DEF Crash, CallType, DataType, CallsOK, TypeOK, Pc, PreparePc, CommitPc, AbortPc, Ops, Response, RespStatus, NoLocal, NoResponse
  <1>22. ASSUME UNCHANGED vars PROVE CallType' /\ DataType'
    BY <1>22 DEF vars, CallType, DataType, CallsOK, TypeOK
  <1> QED
    BY <1>1, <1>2, <1>3, <1>4, <1>5, <1>6, <1>7, <1>8, <1>9, <1>10, <1>11, <1>12, <1>13, <1>14, <1>15, <1>16, <1>17, <1>18, <1>19, <1>20, <1>21, <1>22 DEF Next, Step

\* Every variable stays in its range, and a busy thread has a request.
THEOREM TypeCorrect == Spec => []TypeOK
  <1>1. Spec => [](TypeOK /\ CallsOK)
    BY TypeInit, TypeStep, PTL DEF Spec
  <1> QED BY <1>1, PTL

-----------------------------------------------------------------------------
(***************************************************************************)
(* The transaction table: finished rows stay finished, rows keep their     *)
(* asset.                                                                  *)
(***************************************************************************)
RowStable(t) ==
    /\ status[t] \in Terminal => status'[t] \in Terminal
    /\ status[t] # "NONE" => status'[t] # "NONE" /\ assetOf'[t] = assetOf[t]

\* No step moves a row to another asset or back to LOCKED.
LEMMA RowsStable == TypeOK /\ [Next]_vars => \A t \in Tx : RowStable(t)
  <1> SUFFICES ASSUME TypeOK, [Next]_vars PROVE \A t \in Tx : RowStable(t)
    OBVIOUS
  <1> USE DEF TypeOK, Status, Terminal, RowStable, tableVars
  <1>1. ASSUME NEW th \in Thread, PrepareReadLock(th) PROVE \A t \in Tx : RowStable(t)
    BY <1>1 DEF PrepareReadLock
  <1>2. ASSUME NEW th \in Thread, PrepareReadTx(th) PROVE \A t \in Tx : RowStable(t)
    BY <1>2 DEF PrepareReadTx
  <1>3. ASSUME NEW th \in Thread, PrepareExtend(th) PROVE \A t \in Tx : RowStable(t)
    BY <1>3 DEF PrepareExtend, ExtendLock
  <1>4. ASSUME NEW th \in Thread, PrepareCreate(th) PROVE \A t \in Tx : RowStable(t)
    BY <1>4 DEF PrepareCreate, CreateLock
  <1>5. ASSUME NEW th \in Thread, ReadyReadTx(th) PROVE \A t \in Tx : RowStable(t)
    BY <1>5 DEF ReadyReadTx
  <1>6. ASSUME NEW th \in Thread, ReadyReadLock(th) PROVE \A t \in Tx : RowStable(t)
    BY <1>6 DEF ReadyReadLock
  <1>7. ASSUME NEW th \in Thread, ExecuteSucceeds(th) PROVE \A t \in Tx : RowStable(t)
    BY <1>7 DEF ExecuteSucceeds
  <1>8. ASSUME NEW th \in Thread, ExecuteFails(th) PROVE \A t \in Tx : RowStable(t)
    BY <1>8 DEF ExecuteFails
  <1>9. ASSUME NEW th \in Thread, FinalizeReadTx(th) PROVE \A t \in Tx : RowStable(t)
    BY <1>9 DEF FinalizeReadTx
  <1>10. ASSUME NEW th \in Thread, FinalizeUpdate(th) PROVE \A t \in Tx : RowStable(t)
    BY <1>10 DEF FinalizeUpdate, UpdateStatus
  <1>11. ASSUME NEW th \in Thread, AbortReadTx(th) PROVE \A t \in Tx : RowStable(t)
    BY <1>11 DEF AbortReadTx
  <1>12. ASSUME NEW th \in Thread, AbortUpdate(th) PROVE \A t \in Tx : RowStable(t)
    BY <1>12 DEF AbortUpdate, UpdateStatus
  <1>13. ASSUME NEW th \in Thread, EstopUpdate(th) PROVE \A t \in Tx : RowStable(t)
    BY <1>13 DEF EstopUpdate, AbortActiveLocksForAsset, LockedOn
  <1>14. ASSUME NEW th \in Thread, SafeState(th) PROVE \A t \in Tx : RowStable(t)
    BY <1>14 DEF SafeState
  <1>15. ASSUME NEW th \in Thread, DbError(th) PROVE \A t \in Tx : RowStable(t)
    BY <1>15 DEF DbError
  <1>16. ASSUME NEW th \in Thread, Return(th) PROVE \A t \in Tx : RowStable(t)
    BY <1>16 DEF Return
  <1>17. ASSUME NEW th \in Thread, NEW o \in DOMAIN FirstPc, NEW u \in Tx \cup {NoTx},
               NEW a \in Asset, o # "estop" => u \in Tx, Request(th, o, u, a)
         PROVE  \A t \in Tx : RowStable(t)
    BY <1>17 DEF Request, FirstPc
  <1>18. ASSUME NEW c \in late, LateWrite(c) PROVE \A t \in Tx : RowStable(t)
    BY <1>18 DEF LateWrite
  <1>19. ASSUME Tick PROVE \A t \in Tx : RowStable(t)
    BY <1>19 DEF Tick
  <1>20. ASSUME Crash PROVE \A t \in Tx : RowStable(t)
    BY <1>20 DEF Crash
  <1>21. ASSUME UNCHANGED vars PROVE \A t \in Tx : RowStable(t)
    BY <1>21 DEF vars
  <1> QED
    BY <1>1, <1>2, <1>3, <1>4, <1>5, <1>6, <1>7, <1>8, <1>9, <1>10, <1>11, <1>12, <1>13, <1>14, <1>15, <1>16, <1>17, <1>18, <1>19, <1>20, <1>21 DEF Next, Step, FirstPc

\* A retried PREPARE, a stale UPDATE, a crash: nothing revives a finished
\* transaction or moves it to another asset (service.py 31-51).
THEOREM NeverRelockedHolds == Spec => NeverRelocked
  <1>1. TypeOK /\ [Next]_vars =>
          [\A t \in Tx :
             /\ status[t] \in Terminal => status'[t] \in Terminal
             /\ status[t] # "NONE" => status'[t] # "NONE" /\ assetOf'[t] = assetOf[t]]_vars
    BY RowsStable DEF RowStable
  <1> QED
    BY <1>1, TypeCorrect, PTL DEF Spec, NeverRelocked

-----------------------------------------------------------------------------
(***************************************************************************)
(* Handlers.                                                               *)
(***************************************************************************)
\* Thread o takes no part in the step.
Idles(o) ==
    /\ pc'[o] = pc[o] /\ tx'[o] = tx[o] /\ asset'[o] = asset[o]
    /\ local'[o] = local[o] /\ resp'[o] = resp[o] /\ op'[o] = op[o]

\* Only the stepping thread's part of the state changes.
LEMMA OthersIdle ==
  ASSUME TypeOK, NEW th \in Thread, NEW o \in Thread \ {th}, Step(th) \/ DbError(th)
  PROVE  Idles(o)
  <1>1. CASE PrepareReadLock(th)
    BY <1>1 DEF PrepareReadLock, Denied, Reply, Goto, Idles, TypeOK
  <1>2. CASE PrepareReadTx(th)
    BY <1>2 DEF PrepareReadTx, Denied, Reply, Goto, Idles, TypeOK
  <1>3. CASE PrepareExtend(th)
    BY <1>3 DEF PrepareExtend, Granted, Reply, Goto, Idles, TypeOK
  <1>4. CASE PrepareCreate(th)
    BY <1>4 DEF PrepareCreate, Granted, Denied, Reply, Goto, Idles, TypeOK
  <1>5. CASE ReadyReadTx(th)
    BY <1>5 DEF ReadyReadTx, Reply, Goto, Idles, TypeOK
  <1>6. CASE ReadyReadLock(th)
    BY <1>6 DEF ReadyReadLock, Reply, Goto, Idles, TypeOK
  <1>7. CASE ExecuteSucceeds(th)
    BY <1>7 DEF ExecuteSucceeds, Reply, Goto, Idles, TypeOK
  <1>8. CASE ExecuteFails(th)
    BY <1>8 DEF ExecuteFails, Reply, Goto, Idles, TypeOK
  <1>9. CASE FinalizeReadTx(th)
    BY <1>9 DEF FinalizeReadTx, Reply, Goto, Idles, TypeOK
  <1>10. CASE FinalizeUpdate(th)
    BY <1>10 DEF FinalizeUpdate, Reply, Goto, Idles, TypeOK
  <1>11. CASE AbortReadTx(th)
    BY <1>11 DEF AbortReadTx, SafeStateThen, Reply, Goto, Idles, TypeOK
  <1>12. CASE AbortUpdate(th)
    BY <1>12 DEF AbortUpdate, SafeStateThen, Reply, Goto, Idles, TypeOK
  <1>13. CASE EstopUpdate(th)
    BY <1>13 DEF EstopUpdate, SafeStateThen, Reply, Goto, Idles, TypeOK
  <1>14. CASE SafeState(th)
    BY <1>14 DEF SafeState, Reply, Goto, Idles, TypeOK
  <1>15. CASE DbError(th)
    BY <1>15 DEF DbError, Denied, SafeStateThen, Reply, Goto, Idles, TypeOK
  <1>16. CASE Return(th)
    BY <1>16 DEF Return, Reply, Goto, Idles, TypeOK
  <1> QED BY <1>1, <1>2, <1>3, <1>4, <1>5, <1>6, <1>7, <1>8, <1>9, <1>10, <1>11, <1>12, <1>13, <1>14, <1>15, <1>16 DEF Step

\* What a handler has established survives the steps of the others.
LEMMA HandlerStable ==
  ASSUME TypeOK, CallsOK, NEW o \in Thread, HandlerOK(o), Idles(o),
         executed \subseteq executed', \A t \in Tx : RowStable(t)
  PROVE  HandlerOK(o)'
  BY DEF TypeOK, CallsOK, HandlerOK, Idles, RowStable, Pc, PreparePc, CommitPc, AbortPc

\* No handler runs at first.
LEMMA HandlerInit == Init => HandlersOK
  BY DEF Init, HandlersOK, CommittedOK, HandlerOK, CommitPc, NoLocal, NoResponse, Response

\* No step takes an execution back, and only a commit that executed writes
\* COMMITTED.
LEMMA CommittedStep ==
  ASSUME TypeOK, CallsOK, HandlersOK, [Next]_vars
  PROVE  executed \subseteq executed' /\ CommittedOK'
  <1> USE DEF TypeOK, HandlersOK, CommittedOK, tableVars, histVars
  <1>1. ASSUME NEW th \in Thread, PrepareReadLock(th) PROVE executed \subseteq executed' /\ CommittedOK'
    BY <1>1 DEF PrepareReadLock
  <1>2. ASSUME NEW th \in Thread, PrepareReadTx(th) PROVE executed \subseteq executed' /\ CommittedOK'
    BY <1>2 DEF PrepareReadTx
  <1>3. ASSUME NEW th \in Thread, PrepareExtend(th) PROVE executed \subseteq executed' /\ CommittedOK'
    BY <1>3 DEF PrepareExtend, ExtendLock
  <1>4. ASSUME NEW th \in Thread, PrepareCreate(th) PROVE executed \subseteq executed' /\ CommittedOK'
    BY <1>4 DEF PrepareCreate, CreateLock
  <1>5. ASSUME NEW th \in Thread, ReadyReadTx(th) PROVE executed \subseteq executed' /\ CommittedOK'
    BY <1>5 DEF ReadyReadTx
  <1>6. ASSUME NEW th \in Thread, ReadyReadLock(th) PROVE executed \subseteq executed' /\ CommittedOK'
    BY <1>6 DEF ReadyReadLock
  <1>7. ASSUME NEW th \in Thread, ExecuteSucceeds(th) PROVE executed \subseteq executed' /\ CommittedOK'
    BY <1>7 DEF ExecuteSucceeds
  <1>8. ASSUME NEW th \in Thread, ExecuteFails(th) PROVE executed \subseteq executed' /\ CommittedOK'
    BY <1>8 DEF ExecuteFails
  <1>9. ASSUME NEW th \in Thread, FinalizeReadTx(th) PROVE executed \subseteq executed' /\ CommittedOK'
    BY <1>9 DEF FinalizeReadTx
  <1>10. ASSUME NEW th \in Thread, FinalizeUpdate(th) PROVE executed \subseteq executed' /\ CommittedOK'
    BY <1>10 DEF FinalizeUpdate, UpdateStatus, HandlerOK
  <1>11. ASSUME NEW th \in Thread, AbortReadTx(th) PROVE executed \subseteq executed' /\ CommittedOK'
    BY <1>11 DEF AbortReadTx
  <1>12. ASSUME NEW th \in Thread, AbortUpdate(th) PROVE executed \subseteq executed' /\ CommittedOK'
    BY <1>12 DEF AbortUpdate, UpdateStatus
  <1>13. ASSUME NEW th \in Thread, EstopUpdate(th) PROVE executed \subseteq executed' /\ CommittedOK'
    BY <1>13 DEF EstopUpdate, AbortActiveLocksForAsset
  <1>14. ASSUME NEW th \in Thread, SafeState(th) PROVE executed \subseteq executed' /\ CommittedOK'
    BY <1>14 DEF SafeState
  <1>15. ASSUME NEW th \in Thread, DbError(th) PROVE executed \subseteq executed' /\ CommittedOK'
    BY <1>15 DEF DbError
  <1>16. ASSUME NEW th \in Thread, Return(th) PROVE executed \subseteq executed' /\ CommittedOK'
    BY <1>16 DEF Return
  <1>17. ASSUME NEW th \in Thread, NEW o \in DOMAIN FirstPc, NEW u \in Tx \cup {NoTx},
               NEW a \in Asset, o # "estop" => u \in Tx, Request(th, o, u, a)
         PROVE  executed \subseteq executed' /\ CommittedOK'
    BY <1>17 DEF Request
  <1>18. ASSUME NEW c \in late, LateWrite(c) PROVE executed \subseteq executed' /\ CommittedOK'
    BY <1>18 DEF LateWrite
  <1>19. ASSUME Tick PROVE executed \subseteq executed' /\ CommittedOK'
    BY <1>19 DEF Tick
  <1>20. ASSUME Crash PROVE executed \subseteq executed' /\ CommittedOK'
    BY <1>20 DEF Crash
  <1>21. ASSUME UNCHANGED vars PROVE executed \subseteq executed' /\ CommittedOK'
    BY <1>21 DEF vars
  <1> QED
    BY <1>1, <1>2, <1>3, <1>4, <1>5, <1>6, <1>7, <1>8, <1>9, <1>10, <1>11, <1>12, <1>13, <1>14, <1>15, <1>16, <1>17, <1>18, <1>19, <1>20, <1>21 DEF Next, Step, FirstPc

\* Each step of a handler establishes what its next step relies on.
LEMMA HandlerStep ==
  ASSUME TypeOK, CallsOK, HandlersOK, [Next]_vars
  PROVE  HandlersOK'
  <1>0. executed \subseteq executed' /\ CommittedOK' /\ \A t \in Tx : RowStable(t)
    BY CommittedStep, RowsStable
  <1> DEFINE Goal == \A o \in Thread : HandlerOK(o)'
  <1>a. ASSUME NEW th \in Thread, Step(th) \/ DbError(th), HandlerOK(th)' PROVE Goal
    <2>1. ASSUME NEW o \in Thread \ {th} PROVE HandlerOK(o)'
      BY <1>0, <1>a, <2>1, OthersIdle, HandlerStable DEF HandlersOK
    <2> QED BY <1>a, <2>1
  <1> HIDE DEF Goal
  <1>1. ASSUME NEW th \in Thread, PrepareReadLock(th) PROVE Goal
    <2>1. HandlerOK(th)'
      <3>1. tx[th] \in Tx /\ HandlerOK(th)
        BY <1>1 DEF PrepareReadLock, CallsOK, HandlersOK, PreparePc
      <3>2. CASE tx[th] \in ActiveLocks(asset[th], local[th].time)
        BY <1>1, <3>1, <3>2
        DEF PrepareReadLock, ActiveLocks, Denied, Reply, Goto, Response, NoLocal,
            HandlerOK, TypeOK, CommitPc, tableVars, histVars
      <3>3. CASE tx[th] \notin ActiveLocks(asset[th], local[th].time)
        <4>1. tx[th] \notin GetActiveLock(asset[th], local[th].time)
          BY <3>1, <3>3, ConstantAssumption DEF GetActiveLock
        <4> QED
          BY <1>1, <3>1, <4>1
          DEF PrepareReadLock, Denied, Reply, Goto, Response, NoLocal,
              HandlerOK, TypeOK, CommitPc, tableVars, histVars
      <3> QED BY <3>2, <3>3
    <2> QED BY <1>1, <1>a, <2>1 DEF Step
  <1>2. ASSUME NEW th \in Thread, PrepareReadTx(th) PROVE Goal
    <2>1. HandlerOK(th)'
      BY <1>2, <1>0 DEF PrepareReadTx, Denied, Reply, Goto, Response, NoLocal, NoResponse,
         HandlersOK, HandlerOK, CommittedOK, RowStable, TypeOK, CallsOK, PreparePc, CommitPc, AbortPc, Terminal, tableVars, histVars
    <2> QED BY <1>2, <1>a, <2>1 DEF Step
  <1>3. ASSUME NEW th \in Thread, PrepareExtend(th) PROVE Goal
    <2>1. HandlerOK(th)'
      BY <1>3, <1>0 DEF PrepareExtend, Granted, Reply, Goto, Response, NoLocal, NoResponse,
         HandlersOK, HandlerOK, CommittedOK, RowStable, TypeOK, CallsOK, PreparePc, CommitPc, AbortPc, Terminal, tableVars, histVars
    <2> QED BY <1>3, <1>a, <2>1 DEF Step
  <1>4. ASSUME NEW th \in Thread, PrepareCreate(th) PROVE Goal
    <2>1. HandlerOK(th)'
      BY <1>4, <1>0 DEF PrepareCreate, Granted, Denied, Reply, Goto, Response, NoLocal, NoResponse,
         HandlersOK, HandlerOK, CommittedOK, RowStable, TypeOK, CallsOK, PreparePc, CommitPc, AbortPc, Terminal, tableVars, histVars
    <2> QED BY <1>4, <1>a, <2>1 DEF Step
  <1>5. ASSUME NEW th \in Thread, ReadyReadTx(th) PROVE Goal
    <2>1. HandlerOK(th)'
      BY <1>5, <1>0 DEF ReadyReadTx, Mine, Reply, Goto, Response, NoLocal, NoResponse,
         HandlersOK, HandlerOK, CommittedOK, RowStable, TypeOK, CallsOK, PreparePc, CommitPc, AbortPc, Terminal, tableVars, histVars
    <2> QED BY <1>5, <1>a, <2>1 DEF Step
  <1>6. ASSUME NEW th \in Thread, ReadyReadLock(th) PROVE Goal
    <2>1. HandlerOK(th)'
      BY <1>6, <1>0 DEF ReadyReadLock, Reply, Goto, Response, NoLocal, NoResponse,
         HandlersOK, HandlerOK, CommittedOK, RowStable, TypeOK, CallsOK, PreparePc, CommitPc, AbortPc, Terminal, tableVars, histVars
    <2> QED BY <1>6, <1>a, <2>1 DEF Step
  <1>7. ASSUME NEW th \in Thread, ExecuteSucceeds(th) PROVE Goal
    <2>1. HandlerOK(th)'
      BY <1>7, <1>0 DEF ExecuteSucceeds, Reply, Goto, Response, NoLocal, NoResponse,
         HandlersOK, HandlerOK, CommittedOK, RowStable, TypeOK, CallsOK, PreparePc, CommitPc, AbortPc, Terminal, tableVars, histVars
    <2> QED BY <1>7, <1>a, <2>1 DEF Step
  <1>8. ASSUME NEW th \in Thread, ExecuteFails(th) PROVE Goal
    <2>1. HandlerOK(th)'
      BY <1>8, <1>0 DEF ExecuteFails, Reply, Goto, Response, NoLocal, NoResponse,
         HandlersOK, HandlerOK, CommittedOK, RowStable, TypeOK, CallsOK, PreparePc, CommitPc, AbortPc, Terminal, tableVars, histVars
    <2> QED BY <1>8, <1>a, <2>1 DEF Step
  <1>9. ASSUME NEW th \in Thread, FinalizeReadTx(th) PROVE Goal
    <2>1. HandlerOK(th)'
      BY <1>9, <1>0 DEF FinalizeReadTx, Mine, Reply, Goto, Response, NoLocal, NoResponse,
         HandlersOK, HandlerOK, CommittedOK, RowStable, TypeOK, CallsOK, PreparePc, CommitPc, AbortPc, Terminal, tableVars, histVars
    <2> QED BY <1>9, <1>a, <2>1 DEF Step
  <1>10. ASSUME NEW th \in Thread, FinalizeUpdate(th) PROVE Goal
    <2>1. HandlerOK(th)'
      BY <1>10, <1>0 DEF FinalizeUpdate, Reply, Goto, Response, NoLocal, NoResponse,
         HandlersOK, HandlerOK, CommittedOK, RowStable, TypeOK, CallsOK, PreparePc, CommitPc, AbortPc, Terminal, tableVars, histVars
    <2> QED BY <1>10, <1>a, <2>1 DEF Step
  <1>11. ASSUME NEW th \in Thread, AbortReadTx(th) PROVE Goal
    <2>1. HandlerOK(th)'
      BY <1>11, <1>0 DEF AbortReadTx, SafeStateThen, AbortAnswer, Mine, Reply, Goto, Response, NoLocal, NoResponse,
         HandlersOK, HandlerOK, CommittedOK, RowStable, TypeOK, CallsOK, PreparePc, CommitPc, AbortPc, Terminal, tableVars, histVars
    <2> QED BY <1>11, <1>a, <2>1 DEF Step
  <1>12. ASSUME NEW th \in Thread, AbortUpdate(th) PROVE Goal
    <2>1. HandlerOK(th)'
      BY <1>12, <1>0 DEF AbortUpdate, SafeStateThen, AbortAnswer, Reply, Goto, Response, NoLocal, NoResponse,
         HandlersOK, HandlerOK, CommittedOK, RowStable, TypeOK, CallsOK, PreparePc, CommitPc, AbortPc, Terminal, tableVars, histVars
    <2> QED BY <1>12, <1>a, <2>1 DEF Step
  <1>13. ASSUME NEW th \in Thread, EstopUpdate(th) PROVE Goal
    <2>1. HandlerOK(th)'
      BY <1>13, <1>0 DEF EstopUpdate, SafeStateThen, Reply, Goto, Response, NoLocal, NoResponse,
         HandlersOK, HandlerOK, CommittedOK, RowStable, TypeOK, CallsOK, PreparePc, CommitPc, AbortPc, Terminal, tableVars, histVars
    <2> QED BY <1>13, <1>a, <2>1 DEF Step
  <1>14. ASSUME NEW th \in Thread, SafeState(th) PROVE Goal
    <2>1. HandlerOK(th)'
      BY <1>14, <1>0 DEF SafeState, Reply, Goto, Response, NoLocal, NoResponse,
         HandlersOK, HandlerOK, CommittedOK, RowStable, TypeOK, CallsOK, PreparePc, CommitPc, AbortPc, Terminal, tableVars, histVars
    <2> QED BY <1>14, <1>a, <2>1 DEF Step
  <1>15. ASSUME NEW th \in Thread, DbError(th) PROVE Goal
    <2>1. HandlerOK(th)'
      BY <1>15, <1>0 DEF DbError, Denied, SafeStateThen, AbortAnswer, Reply, Goto, Response, NoLocal, NoResponse,
         HandlersOK, HandlerOK, CommittedOK, RowStable, TypeOK, CallsOK, PreparePc, CommitPc, AbortPc, Terminal, tableVars, histVars
    <2> QED BY <1>15, <1>a, <2>1 DEF Step
  <1>16. ASSUME NEW th \in Thread, Return(th) PROVE Goal
    <2>1. HandlerOK(th)'
      BY <1>16, <1>0 DEF Return, Reply, Goto, Response, NoLocal, NoResponse,
         HandlersOK, HandlerOK, CommittedOK, RowStable, TypeOK, CallsOK, PreparePc, CommitPc, AbortPc, Terminal, tableVars, histVars
    <2> QED BY <1>16, <1>a, <2>1 DEF Step
  <1> USE DEF Goal
  <1>17. ASSUME NEW th \in Thread, NEW o \in DOMAIN FirstPc, NEW u \in Tx \cup {NoTx},
               NEW a \in Asset, o # "estop" => u \in Tx, Request(th, o, u, a)
         PROVE  Goal
    <2>1. HandlerOK(th)'
      BY <1>17 DEF Request, FirstPc, Goto, HandlersOK, HandlerOK, TypeOK, CallsOK,
                   CommitPc, tableVars, histVars
    <2>2. ASSUME NEW v \in Thread \ {th} PROVE HandlerOK(v)'
      <3>1. Idles(v)
        BY <1>17 DEF Request, Goto, Idles, TypeOK
      <3> QED BY <1>0, <3>1, HandlerStable DEF HandlersOK
    <2> QED BY <2>1, <2>2
  <1>18. ASSUME NEW c \in late, LateWrite(c) PROVE Goal
    BY <1>18, <1>0, HandlerStable DEF LateWrite, Idles, HandlersOK, callVars
  <1>19. ASSUME Tick PROVE Goal
    BY <1>19, <1>0, HandlerStable DEF Tick, Idles, HandlersOK, callVars
  <1>20. ASSUME Crash PROVE Goal
    BY <1>20, <1>0, HandlerStable DEF Crash, HandlerOK, NoLocal, NoResponse, Response, CommitPc
  <1>21. ASSUME UNCHANGED vars PROVE Goal
    BY <1>21, <1>0, HandlerStable DEF vars, Idles, HandlersOK, callVars
  <1> QED
    BY <1>0, <1>1, <1>2, <1>3, <1>4, <1>5, <1>6, <1>7, <1>8, <1>9, <1>10, <1>11, <1>12, <1>13, <1>14, <1>15, <1>16, <1>17, <1>18, <1>19, <1>20, <1>21 DEF Next, Step, FirstPc, HandlersOK

\* The part of the inductive invariant that all the theorems share.
Base == TypeOK /\ CallsOK /\ HandlersOK

\* The shared part of the inductive invariants: types, the calls under way
\* and what each handler knows at each of its statements (service.py).
THEOREM BaseHolds == Spec => []Base
  <1>1. Init => Base
    BY TypeInit, HandlerInit DEF Base
  <1>2. Base /\ [Next]_vars => Base'
    BY TypeStep, HandlerStep DEF Base
  <1> QED
    BY <1>1, <1>2, PTL DEF Spec

\* No row is COMMITTED, and no COMMIT is confirmed, before its commands were
\* executed with success (routes.py 147-226, service.py 90-113).
THEOREM CommittedOnlyAfterExecutionHolds == Spec => []CommittedOnlyAfterExecution
  <1>1. Base => CommittedOnlyAfterExecution
    BY DEF Base, HandlersOK, HandlerOK, CommittedOK, CommittedOnlyAfterExecution
  <1> QED
    BY <1>1, BaseHolds, PTL

\* A COMMIT that arrives after the transaction finished never reaches the
\* executor (service.py 64-75).
THEOREM NoExecAfterTerminalHolds == Spec => []NoExecAfterTerminal
  <1>1. Base => NoExecAfterTerminal
    BY DEF Base, HandlersOK, HandlerOK, NoExecAfterTerminal
  <1> QED
    BY <1>1, BaseHolds, PTL

-----------------------------------------------------------------------------
(***************************************************************************)
(* The device.                                                             *)
(***************************************************************************)
LEMMA DeviceStep ==
  ASSUME Base, OnlyPreparedReachDevice, [Next]_vars
  PROVE  OnlyPreparedReachDevice'
  <1>0. \A t \in Tx : RowStable(t)
    BY RowsStable DEF Base
  <1>a. ASSUME UNCHANGED deviceVars PROVE OnlyPreparedReachDevice'
    BY <1>0, <1>a DEF OnlyPreparedReachDevice, RowStable, deviceVars
  <1>1. ASSUME NEW th \in Thread, PrepareReadLock(th) PROVE OnlyPreparedReachDevice'
    BY <1>1, <1>a DEF PrepareReadLock
  <1>2. ASSUME NEW th \in Thread, PrepareReadTx(th) PROVE OnlyPreparedReachDevice'
    BY <1>2, <1>a DEF PrepareReadTx
  <1>3. ASSUME NEW th \in Thread, PrepareExtend(th) PROVE OnlyPreparedReachDevice'
    BY <1>3, <1>a DEF PrepareExtend
  <1>4. ASSUME NEW th \in Thread, PrepareCreate(th) PROVE OnlyPreparedReachDevice'
    BY <1>4, <1>a DEF PrepareCreate
  <1>5. ASSUME NEW th \in Thread, ReadyReadTx(th) PROVE OnlyPreparedReachDevice'
    BY <1>5, <1>a DEF ReadyReadTx
  <1>6. ASSUME NEW th \in Thread, ReadyReadLock(th) PROVE OnlyPreparedReachDevice'
    BY <1>6, <1>a DEF ReadyReadLock
  <1>7. ASSUME NEW th \in Thread, ExecuteSucceeds(th) PROVE OnlyPreparedReachDevice'
    BY <1>7, <1>0, ConstantAssumption
    DEF ExecuteSucceeds, OnlyPreparedReachDevice, RowStable, deviceVars, Base, TypeOK, HandlersOK, HandlerOK, CommitPc
  <1>8. ASSUME NEW th \in Thread, ExecuteFails(th) PROVE OnlyPreparedReachDevice'
    BY <1>8, <1>0, ConstantAssumption
    DEF ExecuteFails, OnlyPreparedReachDevice, RowStable, deviceVars, Base, TypeOK, HandlersOK, HandlerOK, CommitPc
  <1>9. ASSUME NEW th \in Thread, FinalizeReadTx(th) PROVE OnlyPreparedReachDevice'
    BY <1>9, <1>a DEF FinalizeReadTx
  <1>10. ASSUME NEW th \in Thread, FinalizeUpdate(th) PROVE OnlyPreparedReachDevice'
    BY <1>10, <1>a DEF FinalizeUpdate
  <1>11. ASSUME NEW th \in Thread, AbortReadTx(th) PROVE OnlyPreparedReachDevice'
    BY <1>11, <1>a DEF AbortReadTx
  <1>12. ASSUME NEW th \in Thread, AbortUpdate(th) PROVE OnlyPreparedReachDevice'
    BY <1>12, <1>a DEF AbortUpdate
  <1>13. ASSUME NEW th \in Thread, EstopUpdate(th) PROVE OnlyPreparedReachDevice'
    BY <1>13, <1>a DEF EstopUpdate
  <1>14. ASSUME NEW th \in Thread, SafeState(th) PROVE OnlyPreparedReachDevice'
    BY <1>14, <1>0, ConstantAssumption
    DEF SafeState, OnlyPreparedReachDevice, RowStable, deviceVars, Base, TypeOK, HandlersOK, HandlerOK, CommitPc
  <1>15. ASSUME NEW th \in Thread, DbError(th) PROVE OnlyPreparedReachDevice'
    BY <1>15, <1>a DEF DbError
  <1>16. ASSUME NEW th \in Thread, Return(th) PROVE OnlyPreparedReachDevice'
    BY <1>16, <1>a DEF Return
  <1>17. ASSUME NEW th \in Thread, NEW o \in DOMAIN FirstPc, NEW u \in Tx \cup {NoTx},
               NEW a \in Asset, o # "estop" => u \in Tx, Request(th, o, u, a)
         PROVE  OnlyPreparedReachDevice'
    BY <1>17, <1>a DEF Request
  <1>18. ASSUME NEW c \in late, LateWrite(c) PROVE OnlyPreparedReachDevice'
    BY <1>18, <1>0 DEF LateWrite, OnlyPreparedReachDevice, RowStable, Base, TypeOK
  <1>19. ASSUME Tick PROVE OnlyPreparedReachDevice'
    BY <1>19, <1>a DEF Tick
  <1>20. ASSUME Crash PROVE OnlyPreparedReachDevice'
    BY <1>20, <1>a DEF Crash
  <1>21. ASSUME UNCHANGED vars PROVE OnlyPreparedReachDevice'
    BY <1>21, <1>a DEF vars
  <1> QED
    BY <1>1, <1>2, <1>3, <1>4, <1>5, <1>6, <1>7, <1>8, <1>9, <1>10, <1>11, <1>12, <1>13, <1>14, <1>15, <1>16, <1>17, <1>18, <1>19, <1>20, <1>21 DEF Next, Step, FirstPc

\* Whatever times out, fails halfway or is retried, the device only receives
\* command sets of transactions that were granted a lock on it (routes.py 107).
THEOREM OnlyPreparedReachDeviceHolds == Spec => []OnlyPreparedReachDevice
  <1>1. Init => OnlyPreparedReachDevice
    BY ConstantAssumption DEF Init, OnlyPreparedReachDevice
  <1>2. Base /\ OnlyPreparedReachDevice /\ [Next]_vars => OnlyPreparedReachDevice'
    BY DeviceStep
  <1> QED
    BY <1>1, <1>2, BaseHolds, PTL DEF Spec

-----------------------------------------------------------------------------
(***************************************************************************)
(* Safe state after an abort.                                              *)
(***************************************************************************)
OwedInv == \A th \in Thread : ServesCommit(th) /\ Owing(th)

\* What another thread's step leaves of it: rows keep their asset, executions
\* are not forgotten.
LEMMA OwedStable ==
  ASSUME Base, NEW th \in Thread, ServesCommit(th), Owing(th), Idles(th),
         executed \subseteq executed', \A t \in Tx : RowStable(t), th \in owed' <=> th \in owed
  PROVE  ServesCommit(th)' /\ Owing(th)'
  BY DEF Base, CallsOK, TypeOK, ServesCommit, Owing, Idles, RowStable, HandlersOK, HandlerOK, CommitPc, AbortPc

\* The inductive step of the safe-state bookkeeping.
LEMMA OwedStep ==
  ASSUME Base, OwedInv, [Next]_vars
  PROVE  OwedInv'
  <1>0. \A t \in Tx : RowStable(t)
    BY RowsStable DEF Base
  \* A step of one thread: the others' part is kept.
  <1>a. ASSUME NEW th \in Thread, Step(th) \/ DbError(th), owed' \ {th} = owed \ {th},
               executed \subseteq executed', ServesCommit(th)' /\ Owing(th)'
        PROVE  OwedInv'
    BY <1>0, <1>a, OthersIdle, OwedStable DEF OwedInv, Base
  <1> USE DEF ServesCommit, Owing, CommitPc, AbortPc, PreparePc
  <1>1. ASSUME NEW th \in Thread, PrepareReadLock(th) PROVE OwedInv'
    <2>0. th \notin owed
      BY <1>1 DEF PrepareReadLock, OwedInv
    <2>1. ServesCommit(th)' /\ Owing(th)'
      <3>1. owed' = owed BY <1>1 DEF PrepareReadLock, histVars
      <3>2. pc'[th] \in {"done", "prepare_extend", "prepare_tx", "prepare_create"}
        BY <1>1 DEF PrepareReadLock, Denied, Reply, Goto, Base, TypeOK
      <3> QED BY <2>0, <3>1, <3>2
    <2>2. owed' \ {th} = owed \ {th} /\ executed \subseteq executed'
      BY <1>1 DEF PrepareReadLock, Owes, histVars
    <2> QED BY <1>1, <1>a, <2>1, <2>2 DEF Step
  <1>2. ASSUME NEW th \in Thread, PrepareReadTx(th) PROVE OwedInv'
    <2>0. th \notin owed
      BY <1>2 DEF PrepareReadTx, OwedInv
    <2>1. ServesCommit(th)' /\ Owing(th)'
      <3>1. owed' = owed BY <1>2 DEF PrepareReadTx, histVars
      <3>2. pc'[th] \in {"done", "prepare_extend", "prepare_tx", "prepare_create"}
        BY <1>2 DEF PrepareReadTx, Denied, Reply, Goto, Base, TypeOK
      <3> QED BY <2>0, <3>1, <3>2
    <2>2. owed' \ {th} = owed \ {th} /\ executed \subseteq executed'
      BY <1>2 DEF PrepareReadTx, Owes, histVars
    <2> QED BY <1>2, <1>a, <2>1, <2>2 DEF Step
  <1>3. ASSUME NEW th \in Thread, PrepareExtend(th) PROVE OwedInv'
    <2>1. ServesCommit(th)' /\ Owing(th)'
      BY <1>3, <1>0 DEF PrepareExtend, Granted, Reply, Goto, Response, OwedInv, Base, TypeOK, CallsOK,
         HandlersOK, HandlerOK, CommittedOK, RowStable, tableVars, histVars
    <2>2. owed' \ {th} = owed \ {th} /\ executed \subseteq executed'
      BY <1>3 DEF PrepareExtend, Owes, histVars
    <2> QED BY <1>3, <1>a, <2>1, <2>2 DEF Step
  <1>4. ASSUME NEW th \in Thread, PrepareCreate(th) PROVE OwedInv'
    <2>1. ServesCommit(th)' /\ Owing(th)'
      BY <1>4, <1>0 DEF PrepareCreate, Granted, Denied, Reply, Goto, Response, OwedInv, Base, TypeOK, CallsOK,
         HandlersOK, HandlerOK, CommittedOK, RowStable, tableVars, histVars
    <2>2. owed' \ {th} = owed \ {th} /\ executed \subseteq executed'
      BY <1>4 DEF PrepareCreate, Owes, histVars
    <2> QED BY <1>4, <1>a, <2>1, <2>2 DEF Step
  <1>5. ASSUME NEW th \in Thread, ReadyReadTx(th) PROVE OwedInv'
    <2>1. ServesCommit(th)' /\ Owing(th)'
      BY <1>5, <1>0 DEF ReadyReadTx, Mine, Reply, Goto, Response, OwedInv, Base, TypeOK, CallsOK,
         HandlersOK, HandlerOK, CommittedOK, RowStable, tableVars, histVars
    <2>2. owed' \ {th} = owed \ {th} /\ executed \subseteq executed'
      BY <1>5 DEF ReadyReadTx, Owes, histVars
    <2> QED BY <1>5, <1>a, <2>1, <2>2 DEF Step
  <1>6. ASSUME NEW th \in Thread, ReadyReadLock(th) PROVE OwedInv'
    <2>1. ServesCommit(th)' /\ Owing(th)'
      BY <1>6, <1>0 DEF ReadyReadLock, Reply, Goto, Response, OwedInv, Base, TypeOK, CallsOK,
         HandlersOK, HandlerOK, CommittedOK, RowStable, tableVars, histVars
    <2>2. owed' \ {th} = owed \ {th} /\ executed \subseteq executed'
      BY <1>6 DEF ReadyReadLock, Owes, histVars
    <2> QED BY <1>6, <1>a, <2>1, <2>2 DEF Step
  <1>7. ASSUME NEW th \in Thread, ExecuteSucceeds(th) PROVE OwedInv'
    <2>1. ServesCommit(th)' /\ Owing(th)'
      BY <1>7, <1>0 DEF ExecuteSucceeds, Reply, Goto, Response, OwedInv, Base, TypeOK, CallsOK,
         HandlersOK, HandlerOK, CommittedOK, RowStable, tableVars, histVars
    <2>2. owed' \ {th} = owed \ {th} /\ executed \subseteq executed'
      BY <1>7 DEF ExecuteSucceeds, Owes, histVars
    <2> QED BY <1>7, <1>a, <2>1, <2>2 DEF Step
  <1>8. ASSUME NEW th \in Thread, ExecuteFails(th) PROVE OwedInv'
    <2>1. ServesCommit(th)' /\ Owing(th)'
      BY <1>8, <1>0 DEF ExecuteFails, Owes, Reply, Goto, Response, OwedInv, Base, TypeOK, CallsOK,
         HandlersOK, HandlerOK, CommittedOK, RowStable, tableVars, histVars
    <2>2. owed' \ {th} = owed \ {th} /\ executed \subseteq executed'
      BY <1>8 DEF ExecuteFails, Owes, histVars
    <2> QED BY <1>8, <1>a, <2>1, <2>2 DEF Step
  <1>9. ASSUME NEW th \in Thread, FinalizeReadTx(th) PROVE OwedInv'
    <2>1. ServesCommit(th)' /\ Owing(th)'
      BY <1>9, <1>0 DEF FinalizeReadTx, Mine, Reply, Goto, Response, OwedInv, Base, TypeOK, CallsOK,
         HandlersOK, HandlerOK, CommittedOK, RowStable, tableVars, histVars
    <2>2. owed' \ {th} = owed \ {th} /\ executed \subseteq executed'
      BY <1>9 DEF FinalizeReadTx, Owes, histVars
    <2> QED BY <1>9, <1>a, <2>1, <2>2 DEF Step
  <1>10. ASSUME NEW th \in Thread, FinalizeUpdate(th) PROVE OwedInv'
    <2>1. ServesCommit(th)' /\ Owing(th)'
      BY <1>10, <1>0 DEF FinalizeUpdate, Reply, Goto, Response, OwedInv, Base, TypeOK, CallsOK,
         HandlersOK, HandlerOK, CommittedOK, RowStable, tableVars, histVars
    <2>2. owed' \ {th} = owed \ {th} /\ executed \subseteq executed'
      BY <1>10 DEF FinalizeUpdate, Owes, histVars
    <2> QED BY <1>10, <1>a, <2>1, <2>2 DEF Step
  <1>11. ASSUME NEW th \in Thread, AbortReadTx(th) PROVE OwedInv'
    <2>1. ServesCommit(th)' /\ Owing(th)'
      BY <1>11, <1>0 DEF AbortReadTx, Owes, Mine, SafeStateThen, AbortAnswer, Reply, Goto, Response, OwedInv, Base, TypeOK, CallsOK,
         HandlersOK, HandlerOK, CommittedOK, RowStable, tableVars, histVars
    <2>2. owed' \ {th} = owed \ {th} /\ executed \subseteq executed'
      BY <1>11 DEF AbortReadTx, Owes, histVars
    <2> QED BY <1>11, <1>a, <2>1, <2>2 DEF Step
  <1>12. ASSUME NEW th \in Thread, AbortUpdate(th) PROVE OwedInv'
    <2>1. ServesCommit(th)' /\ Owing(th)'
      BY <1>12, <1>0 DEF AbortUpdate, Owes, SafeStateThen, AbortAnswer, Reply, Goto, Response, OwedInv, Base, TypeOK, CallsOK,
         HandlersOK, HandlerOK, CommittedOK, RowStable, tableVars, histVars
    <2>2. owed' \ {th} = owed \ {th} /\ executed \subseteq executed'
      BY <1>12 DEF AbortUpdate, Owes, histVars
    <2> QED BY <1>12, <1>a, <2>1, <2>2 DEF Step
  <1>13. ASSUME NEW th \in Thread, EstopUpdate(th) PROVE OwedInv'
    <2>1. ServesCommit(th)' /\ Owing(th)'
      BY <1>13, <1>0 DEF EstopUpdate, SafeStateThen, Reply, Goto, Response, OwedInv, Base, TypeOK, CallsOK,
         HandlersOK, HandlerOK, CommittedOK, RowStable, tableVars, histVars
    <2>2. owed' \ {th} = owed \ {th} /\ executed \subseteq executed'
      BY <1>13 DEF EstopUpdate, Owes, histVars
    <2> QED BY <1>13, <1>a, <2>1, <2>2 DEF Step
  <1>14. ASSUME NEW th \in Thread, SafeState(th) PROVE OwedInv'
    <2>1. ServesCommit(th)' /\ Owing(th)'
      BY <1>14, <1>0 DEF SafeState, Reply, Goto, Response, OwedInv, Base, TypeOK, CallsOK,
         HandlersOK, HandlerOK, CommittedOK, RowStable, tableVars, histVars
    <2>2. owed' \ {th} = owed \ {th} /\ executed \subseteq executed'
      BY <1>14 DEF SafeState, Owes, histVars
    <2> QED BY <1>14, <1>a, <2>1, <2>2 DEF Step
  <1>15. ASSUME NEW th \in Thread, DbError(th) PROVE OwedInv'
    <2>1. ServesCommit(th)' /\ Owing(th)'
      BY <1>15, <1>0 DEF DbError, Denied, SafeStateThen, AbortAnswer, Reply, Goto, Response, OwedInv, Base, TypeOK, CallsOK,
         HandlersOK, HandlerOK, CommittedOK, RowStable, tableVars, histVars
    <2>2. owed' \ {th} = owed \ {th} /\ executed \subseteq executed'
      BY <1>15 DEF DbError, Owes, histVars
    <2> QED BY <1>15, <1>a, <2>1, <2>2 DEF Step
  <1>16. ASSUME NEW th \in Thread, Return(th) PROVE OwedInv'
    <2>1. ServesCommit(th)' /\ Owing(th)'
      BY <1>16, <1>0 DEF Return, Reply, Goto, Response, OwedInv, Base, TypeOK, CallsOK,
         HandlersOK, HandlerOK, CommittedOK, RowStable, tableVars, histVars
    <2>2. owed' \ {th} = owed \ {th} /\ executed \subseteq executed'
      BY <1>16 DEF Return, Owes, histVars
    <2> QED BY <1>16, <1>a, <2>1, <2>2 DEF Step
  <1>17. ASSUME NEW th \in Thread, NEW o \in DOMAIN FirstPc, NEW u \in Tx \cup {NoTx},
               NEW a \in Asset, o # "estop" => u \in Tx, Request(th, o, u, a)
         PROVE  OwedInv'
    <2>1. th \in owed => o = "estop"
      BY <1>17 DEF Request, OwedInv
    <2>2. ServesCommit(th)' /\ Owing(th)'
      BY <1>17, <2>1 DEF Request, Owes, FirstPc, Goto, Base, TypeOK
    <2>3. \A v \in Thread \ {th} : Idles(v) /\ (v \in owed' <=> v \in owed) /\ executed' = executed
      BY <1>17 DEF Request, Owes, Goto, Idles, Base, TypeOK
    <2> QED BY <2>2, <2>3, <1>0, OwedStable DEF OwedInv
  <1>18. ASSUME NEW c \in late, LateWrite(c) PROVE OwedInv'
    BY <1>18, <1>0, OwedStable DEF LateWrite, OwedInv, Idles, callVars, histVars
  <1>19. ASSUME Tick PROVE OwedInv'
    BY <1>19, <1>0, OwedStable DEF Tick, OwedInv, Idles, callVars, histVars
  <1>20. ASSUME Crash PROVE OwedInv'
    BY <1>20 DEF Crash, OwedInv
  <1>21. ASSUME UNCHANGED vars PROVE OwedInv'
    BY <1>21, <1>0, OwedStable DEF vars, OwedInv, Idles, callVars, histVars
  <1> QED
    BY <1>1, <1>2, <1>3, <1>4, <1>5, <1>6, <1>7, <1>8, <1>9, <1>10, <1>11, <1>12, <1>13, <1>14, <1>15, <1>16, <1>17, <1>18, <1>19, <1>20, <1>21 DEF Next, Step, FirstPc

\* A failed execution, an abort and an E-STOP are followed by an attempt at the
\* safe state before the handler answers (routes.py 172, 192, 252, 275), but
\* for a COMMIT answered HTTP 500 because its abort() failed on the database or
\* met a row that another COMMIT of the transaction had executed and finalized.
THEOREM SafeStateBeforeAnswerHolds == Spec => []SafeStateBeforeAnswer
  <1>1. Init => OwedInv
    BY DEF Init, OwedInv, ServesCommit, Owing, CommitPc
  <1>2. Base /\ OwedInv /\ [Next]_vars => OwedInv'
    BY OwedStep
  <1>3. Base /\ OwedInv => SafeStateBeforeAnswer
    BY DEF Base, TypeOK, OwedInv, Owing, SafeStateBeforeAnswer, AbortPc
  <1> QED
    BY <1>1, <1>2, <1>3, BaseHolds, PTL DEF Spec

-----------------------------------------------------------------------------
(***************************************************************************)
(* The asset lock.                                                         *)
(***************************************************************************)
\* No lock is created or prolonged.
NoNewLock ==
    \A t \in Tx : status'[t] = "LOCKED" =>
        status[t] = "LOCKED" /\ assetOf'[t] = assetOf[t] /\ expires'[t] = expires[t]

\* Locks only go away while no PREPARE writes and the clock moves on.
LEMMA ActiveShrink ==
  ASSUME Base, NoNewLock, now <= now', now' \in Nat, NEW a, NEW time \in Nat
  PROVE  /\ ActiveLocks(a, time)' \subseteq ActiveLocks(a, time)
         /\ \A u \in ActiveLocks(a, now)' : u \in ActiveLocks(a, now)
  BY DEF NoNewLock, ActiveLocks, Base, TypeOK

\* Then what the PREPAREs in progress know stays true.
LEMMA WindowStable ==
  ASSUME Base, NoNewLock, now <= now', now' \in Nat, raced \subseteq raced',
         NEW o \in Thread, Window(o), Idles(o)
  PROVE  Window(o)'
  <1> SUFFICES ASSUME pc[o] \in PreparePc
               PROVE  Window(o)'
    BY DEF Window, Idles
  <1>1. local[o].time \in Nat /\ local[o].time <= now /\ now \in Nat
    BY ConstantAssumption DEF Base, TypeOK, Window
  <1>2. local'[o].time <= now'
    BY <1>1 DEF Idles
  <1>3. Rival(tx[o], asset[o])' => Rival(tx[o], asset[o])
    BY <1>1 DEF Rival, ActiveLocks, NoNewLock, Idles, Base, TypeOK
  <1>4. (tx[o] \in ActiveLocks(asset[o], local[o].time))'
        => tx[o] \in ActiveLocks(asset[o], local[o].time)
    BY <1>1 DEF ActiveLocks, NoNewLock, Idles, Base, TypeOK
  <1> QED
    BY <1>2, <1>3, <1>4 DEF Window, Idles

\* Without a new lock, exclusiveness is kept.
LEMMA ExclusiveStable ==
  ASSUME Base, NoNewLock, now <= now', now' \in Nat, raced \subseteq raced',
         ExclusiveUnlessRaced
  PROVE  ExclusiveUnlessRaced'
  BY ActiveShrink DEF ExclusiveUnlessRaced

\* The scan: a PREPARE that goes on has no rival.
LEMMA ScanStep ==
  ASSUME Base, LockInv, NEW th \in Thread, PrepareReadLock(th)
  PROVE  Window(th)'
  <1>1. /\ pc[th] = "prepare_lock" /\ tx[th] \in Tx /\ Window(th)
        /\ local[th].time \in Nat /\ now \in Nat
        /\ now' = now /\ UNCHANGED <<status, assetOf, expires, tx, asset, raced>>
    BY ConstantAssumption
    DEF PrepareReadLock, Base, CallsOK, TypeOK, PreparePc, LockInv, tableVars, histVars
  <1>2. CASE Denied(th)
    BY <1>2 DEF Denied, Reply, Goto, Window, PreparePc, Base, TypeOK
  <1>3. CASE /\ Goto(th, "prepare_extend") /\ UNCHANGED local
             /\ tx[th] \in GetActiveLock(asset[th], local[th].time)
    <2>1. tx[th] \in ActiveLocks(asset[th], local[th].time)
      BY <1>1, <1>3, ConstantAssumption DEF GetActiveLock
    <2>2. asset[th] \notin raced => ~Rival(tx[th], asset[th])
      BY <1>1, <2>1 DEF Window, PreparePc
    <2> QED
      BY <1>1, <1>3, <2>2 DEF Window, Rival, ActiveLocks, PreparePc, Goto, Base, TypeOK
  <1>4. CASE /\ Goto(th, "prepare_tx") /\ UNCHANGED local
             /\ NoTx \in GetActiveLock(asset[th], local[th].time)
    <2>1. ActiveLocks(asset[th], local[th].time) = {}
      BY <1>4, ConstantAssumption DEF GetActiveLock, ActiveLocks
    <2>2. ActiveLocks(asset[th], now) = {}
      BY <1>1, <2>1 DEF ActiveLocks, Window, PreparePc, Base, TypeOK
    <2> QED
      BY <1>1, <1>4, <2>2 DEF Window, Rival, ActiveLocks, PreparePc, Goto, Base, TypeOK
  <1> QED
    BY <1>2, <1>3, <1>4 DEF PrepareReadLock

\* The write: on an asset where it meets no other transaction's PREPARE, the
\* written lock is the only active one, and the other assets keep theirs.
LEMMA WriteStep ==
  ASSUME Base, LockInv, NEW th \in Thread, pc[th] \in {"prepare_extend", "prepare_create"},
         NoteRace(th), now' = now, UNCHANGED <<tx, asset>>,
         pc' = [pc EXCEPT ![th] = "done"], \A o \in Thread \ {th} : local'[o] = local[o],
         \A t \in Tx \ {tx[th]} :
            status'[t] = status[t] /\ assetOf'[t] = assetOf[t] /\ expires'[t] = expires[t],
         status'[tx[th]] = "LOCKED" => assetOf'[tx[th]] = asset[th]
  PROVE  LockInv'
  <1> DEFINE t0 == tx[th]
             a0 == asset[th]
  <1>1. /\ Window(th) /\ raced \subseteq raced' /\ a0 \in Asset /\ t0 \in Tx
        /\ now \in Nat /\ pc \in [Thread -> Pc]
    BY ConstantAssumption
    DEF LockInv, NoteRace, Base, TypeOK, CallsOK, PreparePc, Pc, CommitPc, AbortPc
  <1>2. a0 \notin raced' => /\ \A u \in Tx \ {t0} : ~(status'[u] = "LOCKED" /\ assetOf'[u] = a0 /\ expires'[u] > now)
                           /\ \A o \in Thread : pc[o] \in PreparePc /\ asset[o] = a0 => tx[o] = t0
    <2> SUFFICES ASSUME a0 \notin raced'
                 PROVE  /\ \A u \in Tx \ {t0} : ~(status'[u] = "LOCKED" /\ assetOf'[u] = a0 /\ expires'[u] > now)
                        /\ \A o \in Thread : pc[o] \in PreparePc /\ asset[o] = a0 => tx[o] = t0
      OBVIOUS
    <2>1. \A o \in Thread : pc[o] \in PreparePc /\ asset[o] = a0 => tx[o] = t0
      BY DEF NoteRace, Preparing
    <2>2. ~Rival(t0, a0)
      BY <1>1 DEF Window, PreparePc
    <2> QED
      BY <2>1, <2>2 DEF Rival, ActiveLocks
  <1>3. ExclusiveUnlessRaced'
    <2> SUFFICES ASSUME NEW a \in Asset, a \notin raced',
                        NEW u \in Tx, NEW v \in Tx,
                        status'[u] = "LOCKED", assetOf'[u] = a, expires'[u] > now,
                        status'[v] = "LOCKED", assetOf'[v] = a, expires'[v] > now
                 PROVE  u = v
      BY DEF ExclusiveUnlessRaced, ActiveLocks
    <2>1. CASE a = a0
      BY <1>2, <2>1
    <2>2. CASE a # a0
      BY <1>1, <2>2 DEF LockInv, ExclusiveUnlessRaced, ActiveLocks
    <2> QED BY <2>1, <2>2
  <1>4. ASSUME NEW o \in Thread PROVE Window(o)'
    <2>1. CASE o = th
      BY <1>1, <2>1 DEF Window, PreparePc
    <2>2. CASE o # th /\ asset[o] = a0
      BY <1>1, <1>2, <2>2 DEF LockInv, Window, Rival, ActiveLocks
    <2>3. CASE o # th /\ asset[o] # a0
      BY <1>1, <2>3 DEF LockInv, Window, Rival, ActiveLocks
    <2> QED BY <2>1, <2>2, <2>3
  <1> QED
    BY <1>3, <1>4 DEF LockInv

\* The inductive step of the lock bookkeeping.
LEMMA LockStep ==
  ASSUME Base, LockInv, [Next]_vars
  PROVE  LockInv'
  <1>t. now \in Nat /\ pc \in [Thread -> Pc]
    BY ConstantAssumption DEF Base, TypeOK
  \* A step of one thread that writes no lock and leaves the window, or is the scan.
  <1>a. ASSUME NEW th \in Thread, \A o \in Thread \ {th} : Idles(o), Window(th)',
               NoNewLock, now' = now, raced' = raced
        PROVE  LockInv'
    <2>1. \A o \in Thread \ {th} : Window(o)'
      BY <1>a, <1>t, WindowStable DEF LockInv
    <2>2. ExclusiveUnlessRaced'
      BY <1>a, <1>t, ExclusiveStable DEF LockInv
    <2> QED BY <1>a, <2>1, <2>2 DEF LockInv
  <1>b. ASSUME \A o \in Thread : Idles(o), NoNewLock, now <= now', now' \in Nat, raced' = raced
        PROVE  LockInv'
    <2>1. \A o \in Thread : Window(o)'
      BY <1>b, WindowStable DEF LockInv
    <2>2. ExclusiveUnlessRaced'
      BY <1>b, ExclusiveStable DEF LockInv
    <2> QED BY <2>1, <2>2 DEF LockInv
  <1>1. ASSUME NEW th \in Thread, PrepareReadLock(th) PROVE LockInv'
    <2>1. \A o \in Thread \ {th} : Idles(o)
      BY <1>1, OthersIdle DEF Step, Base
    <2>2. Window(th)'
      BY <1>1, ScanStep
    <2> QED BY <1>1, <1>a, <2>1, <2>2 DEF PrepareReadLock, NoNewLock, tableVars, histVars
  <1>2. ASSUME NEW th \in Thread, PrepareReadTx(th) PROVE LockInv'
    <2>1. \A o \in Thread \ {th} : Idles(o)
      BY <1>2, OthersIdle DEF Step, Base
    <2>2. Window(th)'
      <3>1. CASE Denied(th)
        BY <3>1, <1>t DEF Denied, Reply, Goto, Window, PreparePc
      <3>2. CASE UNCHANGED local
        <4>1. Window(th) /\ pc[th] = "prepare_tx"
          BY <1>2 DEF PrepareReadTx, LockInv
        <4> QED
          BY <1>2, <3>2, <4>1
          DEF PrepareReadTx, Window, Rival, ActiveLocks, PreparePc, tableVars, histVars
      <3> QED BY <1>2, <3>1, <3>2 DEF PrepareReadTx
    <2> QED BY <1>2, <1>a, <2>1, <2>2 DEF PrepareReadTx, NoNewLock, tableVars, histVars
  <1>3. ASSUME NEW th \in Thread, PrepareExtend(th) PROVE LockInv'
    <2>1. \A o \in Thread \ {th} : Idles(o)
      BY <1>3, OthersIdle DEF Step, Base
    <2>2. assetOf[tx[th]] = asset[th]
      BY <1>3 DEF PrepareExtend, Base, HandlersOK, HandlerOK
    <2> QED
      BY <1>3, <2>1, <2>2, WriteStep
      DEF PrepareExtend, ExtendLock, Granted, Reply, Goto, Idles, Base, TypeOK
  <1>4. ASSUME NEW th \in Thread, PrepareCreate(th) PROVE LockInv'
    <2>1. \A o \in Thread \ {th} : Idles(o)
      BY <1>4, OthersIdle DEF Step, Base
    <2>2. CASE status[tx[th]] = "NONE"
      <3>1. /\ CreateLock(tx[th], asset[th], local[th].time + LockTtl)
            /\ Granted(th) /\ NoteRace(th) /\ pc[th] = "prepare_create"
            /\ now' = now /\ UNCHANGED <<tx, asset>>
        BY <1>4, <2>2 DEF PrepareCreate
      <3>2. tx[th] \in Tx
        BY <3>1 DEF Base, CallsOK, PreparePc
      <3>3. /\ assetOf'[tx[th]] = asset[th]
            /\ \A t \in Tx \ {tx[th]} :
                 status'[t] = status[t] /\ assetOf'[t] = assetOf[t] /\ expires'[t] = expires[t]
        BY <3>1, <3>2 DEF CreateLock, Base, TypeOK
      <3> QED
        BY <2>1, <3>1, <3>3, WriteStep DEF Granted, Reply, Goto, Idles
    <2>3. CASE status[tx[th]] # "NONE"
      <3>1. Window(th)' /\ NoNewLock
        BY <1>4, <2>3, <1>t DEF PrepareCreate, Denied, Reply, Goto, Window, PreparePc, NoNewLock, tableVars
      <3> QED BY <1>4, <1>a, <2>1, <2>3, <3>1 DEF PrepareCreate
    <2> QED BY <2>2, <2>3
  <1>5. ASSUME NEW th \in Thread, ReadyReadTx(th) PROVE LockInv'
    <2>1. \A o \in Thread \ {th} : Idles(o)
      BY <1>5, OthersIdle DEF Step, Base
    <2>2. Window(th)'
      BY <1>5, <1>t DEF ReadyReadTx, Reply, Goto, Window, PreparePc
    <2>3. NoNewLock
      BY <1>5 DEF ReadyReadTx, NoNewLock, tableVars, Base, TypeOK
    <2> QED BY <1>5, <1>a, <2>1, <2>2, <2>3 DEF ReadyReadTx, histVars
  <1>6. ASSUME NEW th \in Thread, ReadyReadLock(th) PROVE LockInv'
    <2>1. \A o \in Thread \ {th} : Idles(o)
      BY <1>6, OthersIdle DEF Step, Base
    <2>2. Window(th)'
      BY <1>6, <1>t DEF ReadyReadLock, Reply, Goto, Window, PreparePc
    <2>3. NoNewLock
      BY <1>6 DEF ReadyReadLock, NoNewLock, tableVars, Base, TypeOK
    <2> QED BY <1>6, <1>a, <2>1, <2>2, <2>3 DEF ReadyReadLock, histVars
  <1>7. ASSUME NEW th \in Thread, ExecuteSucceeds(th) PROVE LockInv'
    <2>1. \A o \in Thread \ {th} : Idles(o)
      BY <1>7, OthersIdle DEF Step, Base
    <2>2. Window(th)'
      BY <1>7, <1>t DEF ExecuteSucceeds, Goto, Window, PreparePc
    <2>3. NoNewLock
      BY <1>7 DEF ExecuteSucceeds, NoNewLock, tableVars, Base, TypeOK
    <2> QED BY <1>7, <1>a, <2>1, <2>2, <2>3 DEF ExecuteSucceeds, histVars
  <1>8. ASSUME NEW th \in Thread, ExecuteFails(th) PROVE LockInv'
    <2>1. \A o \in Thread \ {th} : Idles(o)
      BY <1>8, OthersIdle DEF Step, Base
    <2>2. Window(th)'
      BY <1>8, <1>t DEF ExecuteFails, Goto, Window, PreparePc
    <2>3. NoNewLock
      BY <1>8 DEF ExecuteFails, NoNewLock, tableVars, Base, TypeOK
    <2> QED BY <1>8, <1>a, <2>1, <2>2, <2>3 DEF ExecuteFails, histVars
  <1>9. ASSUME NEW th \in Thread, FinalizeReadTx(th) PROVE LockInv'
    <2>1. \A o \in Thread \ {th} : Idles(o)
      BY <1>9, OthersIdle DEF Step, Base
    <2>2. Window(th)'
      BY <1>9, <1>t DEF FinalizeReadTx, Reply, Goto, Window, PreparePc
    <2>3. NoNewLock
      BY <1>9 DEF FinalizeReadTx, NoNewLock, tableVars, Base, TypeOK
    <2> QED BY <1>9, <1>a, <2>1, <2>2, <2>3 DEF FinalizeReadTx, histVars
  <1>10. ASSUME NEW th \in Thread, FinalizeUpdate(th) PROVE LockInv'
    <2>1. \A o \in Thread \ {th} : Idles(o)
      BY <1>10, OthersIdle DEF Step, Base
    <2>2. Window(th)'
      BY <1>10, <1>t DEF FinalizeUpdate, Reply, Goto, Window, PreparePc
    <2>3. NoNewLock
      BY <1>10 DEF FinalizeUpdate, UpdateStatus, NoNewLock, tableVars, Base, TypeOK
    <2> QED BY <1>10, <1>a, <2>1, <2>2, <2>3 DEF FinalizeUpdate, histVars
  <1>11. ASSUME NEW th \in Thread, AbortReadTx(th) PROVE LockInv'
    <2>1. \A o \in Thread \ {th} : Idles(o)
      BY <1>11, OthersIdle DEF Step, Base
    <2>2. Window(th)'
      BY <1>11, <1>t DEF AbortReadTx, SafeStateThen, Reply, Goto, Window, PreparePc
    <2>3. NoNewLock
      BY <1>11 DEF AbortReadTx, NoNewLock, tableVars, Base, TypeOK
    <2> QED BY <1>11, <1>a, <2>1, <2>2, <2>3 DEF AbortReadTx, histVars
  <1>12. ASSUME NEW th \in Thread, AbortUpdate(th) PROVE LockInv'
    <2>1. \A o \in Thread \ {th} : Idles(o)
      BY <1>12, OthersIdle DEF Step, Base
    <2>2. Window(th)'
      BY <1>12, <1>t DEF AbortUpdate, SafeStateThen, Reply, Goto, Window, PreparePc
    <2>3. NoNewLock
      BY <1>12 DEF AbortUpdate, UpdateStatus, NoNewLock, tableVars, Base, TypeOK
    <2> QED BY <1>12, <1>a, <2>1, <2>2, <2>3 DEF AbortUpdate, histVars
  <1>13. ASSUME NEW th \in Thread, EstopUpdate(th) PROVE LockInv'
    <2>1. \A o \in Thread \ {th} : Idles(o)
      BY <1>13, OthersIdle DEF Step, Base
    <2>2. Window(th)'
      BY <1>13, <1>t DEF EstopUpdate, SafeStateThen, Reply, Goto, Window, PreparePc
    <2>3. NoNewLock
      BY <1>13 DEF EstopUpdate, AbortActiveLocksForAsset, NoNewLock, tableVars, Base, TypeOK
    <2> QED BY <1>13, <1>a, <2>1, <2>2, <2>3 DEF EstopUpdate, histVars
  <1>14. ASSUME NEW th \in Thread, SafeState(th) PROVE LockInv'
    <2>1. \A o \in Thread \ {th} : Idles(o)
      BY <1>14, OthersIdle DEF Step, Base
    <2>2. Window(th)'
      BY <1>14, <1>t DEF SafeState, Reply, Goto, Window, PreparePc
    <2>3. NoNewLock
      BY <1>14 DEF SafeState, NoNewLock, tableVars, Base, TypeOK
    <2> QED BY <1>14, <1>a, <2>1, <2>2, <2>3 DEF SafeState, histVars
  <1>15. ASSUME NEW th \in Thread, DbError(th) PROVE LockInv'
    <2>1. \A o \in Thread \ {th} : Idles(o)
      BY <1>15, OthersIdle DEF Step, Base
    <2>2. Window(th)'
      BY <1>15, <1>t DEF DbError, Denied, SafeStateThen, Reply, Goto, Window, PreparePc
    <2>3. NoNewLock
      BY <1>15 DEF DbError, NoNewLock, tableVars, Base, TypeOK
    <2> QED BY <1>15, <1>a, <2>1, <2>2, <2>3 DEF DbError, histVars
  <1>16. ASSUME NEW th \in Thread, Return(th) PROVE LockInv'
    <2>1. \A o \in Thread \ {th} : Idles(o)
      BY <1>16, OthersIdle DEF Step, Base
    <2>2. Window(th)'
      BY <1>16, <1>t DEF Return, Goto, Window, PreparePc
    <2>3. NoNewLock
      BY <1>16 DEF Return, NoNewLock, tableVars, Base, TypeOK
    <2> QED BY <1>16, <1>a, <2>1, <2>2, <2>3 DEF Return, histVars
  <1>17. ASSUME NEW th \in Thread, NEW o \in DOMAIN FirstPc, NEW u \in Tx \cup {NoTx},
               NEW a \in Asset, o # "estop" => u \in Tx, Request(th, o, u, a)
         PROVE  LockInv'
    <2>1. \A v \in Thread \ {th} : Idles(v)
      BY <1>17 DEF Request, Goto, Idles, Base, TypeOK
    <2>2. Window(th)'
      <3>1. asset[th]' = a /\ tx[th]' = u /\ pc[th]' = FirstPc[o]
        BY <1>17 DEF Request, Goto, Base, TypeOK
      <3>2. CASE o = "prepare"
        <4>1. local[th]'.time = now
          BY <1>17, <3>2 DEF Request, Base, TypeOK
        <4>2. a \notin raced => \A v, w \in ActiveLocks(a, now) : v = w
          BY DEF LockInv, ExclusiveUnlessRaced
        <4>3. /\ ActiveLocks(asset[th], local[th].time)' = ActiveLocks(a, now)
              /\ ActiveLocks(asset[th], now)' = ActiveLocks(a, now)
              /\ raced' = raced /\ now' = now
          BY <1>17, <3>1, <4>1 DEF Request, ActiveLocks, tableVars, histVars
        <4>4. pc[th]' = "prepare_lock"
          BY <3>1, <3>2 DEF FirstPc
        <4> QED
          BY <1>t, <3>1, <4>1, <4>2, <4>3, <4>4 DEF Window, Rival
      <3>3. CASE o # "prepare"
        BY <3>1, <3>3 DEF FirstPc, Window, PreparePc
      <3> QED BY <3>2, <3>3
    <2> QED BY <1>17, <1>a, <2>1, <2>2 DEF Request, NoNewLock, tableVars, histVars
  <1>18. ASSUME NEW c \in late, LateWrite(c) PROVE LockInv'
    BY <1>18, <1>b, <1>t DEF LateWrite, Idles, NoNewLock, callVars, tableVars, histVars
  <1>19. ASSUME Tick PROVE LockInv'
    BY <1>19, <1>b, <1>t DEF Tick, Idles, NoNewLock, callVars, tableVars, histVars
  <1>20. ASSUME Crash PROVE LockInv'
    <2>1. \A o \in Thread : Window(o)'
      BY <1>20 DEF Crash, Window, PreparePc
    <2>2. ExclusiveUnlessRaced'
      BY <1>20 DEF Crash, LockInv, ExclusiveUnlessRaced, ActiveLocks, tableVars
    <2> QED BY <2>1, <2>2 DEF LockInv
  <1>21. ASSUME UNCHANGED vars PROVE LockInv'
    BY <1>21, <1>b, <1>t DEF vars, Idles, NoNewLock, callVars, tableVars, histVars
  <1> QED
    BY <1>1, <1>2, <1>3, <1>4, <1>5, <1>6, <1>7, <1>8, <1>9, <1>10, <1>11, <1>12, <1>13, <1>14, <1>15, <1>16, <1>17, <1>18, <1>19, <1>20, <1>21 DEF Next, Step, FirstPc

\* The asset lock is exclusive unless two PREPAREs of different transactions
\* overlap: expiry, E-STOP, abort, commit, retry, database errors and crashes
\* never give two transactions an active lock on one asset (service.py 16-57).
THEOREM ExclusiveUnlessRacedHolds == Spec => []ExclusiveUnlessRaced
  <1>1. Init => LockInv
    BY DEF Init, LockInv, ExclusiveUnlessRaced, ActiveLocks, Window, PreparePc
  <1>2. Base /\ LockInv /\ [Next]_vars => LockInv'
    BY LockStep
  <1>3. LockInv => ExclusiveUnlessRaced
    BY DEF LockInv
  <1> QED
    BY <1>1, <1>2, <1>3, BaseHolds, PTL DEF Spec
=============================================================================
