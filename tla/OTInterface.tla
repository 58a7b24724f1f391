---------------------------- MODULE OTInterface ----------------------------
(***************************************************************************)
(* The OT Interface service: the PREPARE / COMMIT / ABORT / E-STOP         *)
(* handlers of pcag/apps/ot_interface/routes.py over the transaction table *)
(* kept by pcag/apps/ot_interface/service.py and repository.py.            *)
(*                                                                         *)
(* The handlers are plain "def" FastAPI routes, so they run concurrently   *)
(* in worker threads.  Each database session runs at PostgreSQL's default  *)
(* READ COMMITTED level: every SELECT and every UPDATE+commit is one       *)
(* atomic step, and other sessions may commit between two of them.         *)
(***************************************************************************)
EXTENDS Naturals, FiniteSets

CONSTANTS
    Tx,        \* transaction ids
    Asset,     \* asset ids
    Thread,    \* worker threads that serve requests
    NoTx,      \* "no transaction" (None in the code)
    NoAsset,   \* "no asset"
    Safe,      \* the device runs its safe-state commands
    Boot,      \* the device before any command
    LockTtl,   \* lock_ttl_ms of every PREPARE (Field(gt=0))
    MaxTime,   \* bound: the clock stops here
    MaxLate,   \* bound: timed-out writes on their way at the same time
    Faults     \* bound: the faults that happen in an instance

ASSUME ConstantAssumption ==
    /\ LockTtl \in Nat \ {0}
    /\ MaxTime \in Nat
    /\ MaxLate \in Nat
    /\ NoTx \notin Tx
    /\ NoAsset \notin Asset
    /\ Safe \notin Tx
    /\ Boot \notin Tx \cup {Safe}
    /\ Faults \subseteq {"db", "timeout", "partial", "crash"}

VARIABLES
    now,       \* time.time() * 1000, shared by all threads
    status,    \* TransactionRecord.status; "NONE" when there is no row
    assetOf,   \* TransactionRecord.asset_id, meaningful when there is a row
    expires,   \* TransactionRecord.lock_expires_at_ms
    pc,        \* where each worker thread is
    op,        \* the route a thread serves
    tx,        \* request.transaction_id
    asset,     \* request.asset_id
    local,     \* values a session read and uses later
    resp,      \* the response being built, or returned when pc = "done"
    device,    \* last command set that reached the asset
    late,      \* commands whose caller timed out, still on their way
    executed,  \* history: transactions for which execute() succeeded
    raced,     \* history: assets where a PREPARE ran into another's window
    owed       \* history: handlers that still have to try safe_state, see Owes

tableVars  == <<status, assetOf, expires>>
callVars   == <<pc, op, tx, asset, local, resp>>
deviceVars == <<device, late>>
histVars   == <<executed, raced, owed>>
vars == <<now, tableVars, callVars, deviceVars, histVars>>

-----------------------------------------------------------------------------

Status == {"NONE", "LOCKED", "COMMITTED", "ABORTED"}
Terminal == {"COMMITTED", "ABORTED"}

PreparePc == {"prepare_lock", "prepare_tx", "prepare_extend", "prepare_create"}
CommitPc  == {"ready_tx", "ready_lock", "execute", "finalize_tx", "finalize_update"}
AbortPc   == {"abort_tx", "abort_update"}
Pc == {"idle", "estop_update", "safe_state", "done"}
        \cup PreparePc \cup CommitPc \cup AbortPc

Ops == {"none", "prepare", "commit", "abort", "estop"}

\* Literal types of the response contracts, plus the HTTP error codes.
RespStatus == {"none", "LOCK_GRANTED", "LOCK_DENIED", "ACK",
               "ALREADY_COMMITTED", "TIMEOUT", "EXECUTION_FAILED",
               "ABORTED", "ALREADY_ABORTED", "ABORT_REJECTED",
               "ESTOP_EXECUTED", "HTTP_409", "HTTP_500"}

NoLocal == [time |-> 0, expires |-> 0, tooLate |-> FALSE]
Response(s, safe) == [status |-> s, safe |-> safe]
NoResponse == Response("none", FALSE)

Init ==
    /\ now = 0
    /\ status = [t \in Tx |-> "NONE"]
    /\ assetOf = [t \in Tx |-> NoAsset]
    /\ expires = [t \in Tx |-> 0]
    /\ pc = [th \in Thread |-> "idle"]
    /\ op = [th \in Thread |-> "none"]
    /\ tx = [th \in Thread |-> NoTx]
    /\ asset = [th \in Thread |-> NoAsset]
    /\ local = [th \in Thread |-> NoLocal]
    /\ resp = [th \in Thread |-> NoResponse]
    /\ device = [a \in Asset |-> Boot]
    /\ late = {}
    /\ executed = {}
    /\ raced = {}
    /\ owed = {}

-----------------------------------------------------------------------------
(***************************************************************************)
(* Requests.  A client may send any request at any time; the two handlers  *)
(* that need the clock read it before their first query.                   *)
(***************************************************************************)
Goto(th, p) == pc' = [pc EXCEPT ![th] = p]

\* The handler returns: r is the response body or the HTTP error.
Reply(th, r) ==
    /\ Goto(th, "done")
    /\ resp' = [resp EXCEPT ![th] = r]
    /\ local' = [local EXCEPT ![th] = NoLocal]

FirstPc == [prepare |-> "prepare_lock", commit |-> "ready_tx",
            abort |-> "abort_tx", estop |-> "estop_update"]

\* An E-STOP, a handler whose execution failed and one that found or made its
\* transaction ABORTED have to try the safe state of their asset.
Owes(th) == owed' = owed \cup {th}

\* A request about transaction t on asset a reaches an idle worker thread; an
\* E-STOP names no transaction.
Request(th, o, t, a) ==
    /\ pc[th] = "idle"
    /\ Goto(th, FirstPc[o])
    /\ op' = [op EXCEPT ![th] = o]
    /\ tx' = [tx EXCEPT ![th] = t]
    /\ asset' = [asset EXCEPT ![th] = a]
    /\ local' = [local EXCEPT ![th] =
                    [time |-> IF o \in {"prepare", "commit"} THEN now ELSE 0,
                     expires |-> 0,
                     tooLate |-> o = "commit" /\ status[t] \in Terminal]]
    /\ IF o = "estop" THEN Owes(th) ELSE UNCHANGED owed
    /\ UNCHANGED <<now, tableVars, resp, deviceVars, executed, raced>>

\* The client has its response and the thread is free again.
Return(th) ==
    /\ pc[th] = "done"
    /\ Goto(th, "idle")
    /\ op' = [op EXCEPT ![th] = "none"]
    /\ tx' = [tx EXCEPT ![th] = NoTx]
    /\ asset' = [asset EXCEPT ![th] = NoAsset]
    /\ resp' = [resp EXCEPT ![th] = NoResponse]
    /\ owed' = owed \ {th}
    /\ UNCHANGED <<now, tableVars, local, deviceVars, executed, raced>>

-----------------------------------------------------------------------------
(***************************************************************************)
(* TxRepository.                                                           *)
(***************************************************************************)
ActiveLocks(a, time) ==
    {t \in Tx : status[t] = "LOCKED" /\ assetOf[t] = a /\ expires[t] > time}

\* get_active_lock returns .first() of an unordered SELECT: any of the rows.
GetActiveLock(a, time) ==
    IF ActiveLocks(a, time) = {} THEN {NoTx} ELSE ActiveLocks(a, time)

\* Threads between reading the clock in prepare() and writing the lock.
Preparing(a) == {th \in Thread : pc[th] \in PreparePc /\ asset[th] = a}

\* create_lock: the INSERT and its commit.
CreateLock(t, a, time) ==
    /\ status' = [status EXCEPT ![t] = "LOCKED"]
    /\ assetOf' = [assetOf EXCEPT ![t] = a]
    /\ expires' = [expires EXCEPT ![t] = time]

\* extend_lock: UPDATE ... WHERE transaction_id, whatever the status is now.
ExtendLock(t, time) ==
    /\ expires' = [expires EXCEPT ![t] = time]
    /\ UNCHANGED <<status, assetOf>>

\* update_status(clear_lock=True): UPDATE ... WHERE transaction_id only, so
\* it overwrites whatever another session committed since the SELECT.
UpdateStatus(t, s) ==
    /\ status' = [status EXCEPT ![t] = s]
    /\ expires' = [expires EXCEPT ![t] = 0]
    /\ UNCHANGED assetOf

\* abort_active_locks_for_asset: one UPDATE over all LOCKED rows, expired too.
LockedOn(a) == {t \in Tx : status[t] = "LOCKED" /\ assetOf[t] = a}
AbortActiveLocksForAsset(a) ==
    /\ status' = [t \in Tx |-> IF t \in LockedOn(a) THEN "ABORTED" ELSE status[t]]
    /\ expires' = [t \in Tx |-> IF t \in LockedOn(a) THEN 0 ELSE expires[t]]
    /\ UNCHANGED assetOf

-----------------------------------------------------------------------------
(***************************************************************************)
(* PREPARE: PersistentTxStateMachine.prepare and its route.  The route     *)
(* answers LOCK_DENIED for PREPARE_REJECTED too.                           *)
(***************************************************************************)
Denied(th) == Reply(th, Response("LOCK_DENIED", FALSE))
Granted(th) == Reply(th, Response("LOCK_GRANTED", FALSE))

\* Mutant: the idempotency check comes first, so an expired lock is renewed
\* without looking for the transaction that holds the asset now.
PrepareReadLock_RenewFirst(th) ==
    /\ pc[th] = "prepare_lock"
    /\ \E l \in GetActiveLock(asset[th], local[th].time) :
          LET own == status[tx[th]] = "LOCKED" /\ assetOf[tx[th]] = asset[th]
          IN \/ /\ l \notin {NoTx, tx[th]} /\ ~own
                /\ Denied(th)
             \/ /\ l = tx[th] \/ own
                /\ Goto(th, "prepare_extend")
                /\ UNCHANGED <<local, resp>>
             \/ /\ l = NoTx
                /\ Goto(th, "prepare_tx")
                /\ UNCHANGED <<local, resp>>
    /\ UNCHANGED <<now, tableVars, op, tx, asset, deviceVars, histVars>>

\* The first SELECT.  When the row is the caller's own, session.get finds it
\* in the identity map: it is LOCKED and for this asset, so extend_lock runs.
PrepareReadLock(th) ==
    /\ pc[th] = "prepare_lock"
    /\ \E l \in GetActiveLock(asset[th], local[th].time) :
          \/ /\ l \notin {NoTx, tx[th]}
             /\ Denied(th)
          \/ /\ l = tx[th]
             /\ Goto(th, "prepare_extend")
             /\ UNCHANGED <<local, resp>>
          \/ /\ l = NoTx
             /\ Goto(th, "prepare_tx")
             /\ UNCHANGED <<local, resp>>
    /\ UNCHANGED <<now, tableVars, op, tx, asset, deviceVars, histVars>>

PrepareReadTx(th) ==
    /\ pc[th] = "prepare_tx"
    /\ \/ /\ status[tx[th]] = "NONE"
          /\ Goto(th, "prepare_create")
          /\ UNCHANGED <<local, resp>>
       \/ /\ status[tx[th]] = "LOCKED"
          /\ assetOf[tx[th]] = asset[th]
          /\ Goto(th, "prepare_extend")
          /\ UNCHANGED <<local, resp>>
       \/ /\ status[tx[th]] # "NONE"
          /\ status[tx[th]] = "LOCKED" => assetOf[tx[th]] # asset[th]
          /\ Denied(th)
    /\ UNCHANGED <<now, tableVars, op, tx, asset, deviceVars, histVars>>

\* A lock is written while another transaction's PREPARE is in its window.
NoteRace(th) ==
    raced' = IF \E o \in Preparing(asset[th]) : tx[o] # tx[th]
             THEN raced \cup {asset[th]} ELSE raced

PrepareExtend(th) ==
    /\ pc[th] = "prepare_extend"
    /\ ExtendLock(tx[th], local[th].time + LockTtl)
    /\ NoteRace(th)
    /\ Granted(th)
    /\ UNCHANGED <<now, op, tx, asset, deviceVars, executed, owed>>

\* Mutant: an upsert (session.merge) instead of the INSERT.
PrepareCreate_Upsert(th) ==
    /\ pc[th] = "prepare_create"
    /\ CreateLock(tx[th], asset[th], local[th].time + LockTtl)
    /\ NoteRace(th)
    /\ Granted(th)
    /\ UNCHANGED <<now, op, tx, asset, deviceVars, executed, owed>>

\* The INSERT fails on the primary key when another session created the row.
PrepareCreate(th) ==
    /\ pc[th] = "prepare_create"
    /\ \/ /\ status[tx[th]] = "NONE"
          /\ CreateLock(tx[th], asset[th], local[th].time + LockTtl)
          /\ NoteRace(th)
          /\ Granted(th)
       \/ /\ status[tx[th]] # "NONE"
          /\ Denied(th)
          /\ UNCHANGED <<tableVars, raced>>
    /\ UNCHANGED <<now, op, tx, asset, deviceVars, executed, owed>>

-----------------------------------------------------------------------------
(***************************************************************************)
(* COMMIT: check_commit_ready, the executor, finalize_commit.              *)
(***************************************************************************)
Mine(th) == status[tx[th]] # "NONE" /\ assetOf[tx[th]] = asset[th]

\* Mutant: the COMMITTED case is missing, a repeated COMMIT goes on.
ReadyReadTx_NoCommittedCheck(th) ==
    /\ pc[th] = "ready_tx"
    /\ \/ /\ ~Mine(th) \/ status[tx[th]] = "ABORTED"
          /\ Reply(th, Response("HTTP_409", FALSE))
       \/ /\ Mine(th) /\ status[tx[th]] # "ABORTED"
          /\ local' = [local EXCEPT ![th].expires = expires[tx[th]]]
          /\ Goto(th, "ready_lock")
          /\ UNCHANGED resp
    /\ UNCHANGED <<now, tableVars, op, tx, asset, deviceVars, histVars>>

\* Mutant: the asset of the request is not compared with the row's.
ReadyReadTx_NoAssetCheck(th) ==
    /\ pc[th] = "ready_tx"
    /\ \/ /\ status[tx[th]] \in {"NONE", "ABORTED"}
          /\ Reply(th, Response("HTTP_409", FALSE))
       \/ /\ status[tx[th]] = "COMMITTED"
          /\ Reply(th, Response("ALREADY_COMMITTED", FALSE))
       \/ /\ status[tx[th]] = "LOCKED"
          /\ local' = [local EXCEPT ![th].expires = expires[tx[th]]]
          /\ Goto(th, "ready_lock")
          /\ UNCHANGED resp
    /\ UNCHANGED <<now, tableVars, op, tx, asset, deviceVars, histVars>>

\* check_commit_ready: get_transaction.
ReadyReadTx(th) ==
    /\ pc[th] = "ready_tx"
    /\ \/ /\ ~Mine(th) \/ status[tx[th]] = "ABORTED"
          /\ Reply(th, Response("HTTP_409", FALSE))
       \/ /\ Mine(th) /\ status[tx[th]] = "COMMITTED"
          /\ Reply(th, Response("ALREADY_COMMITTED", FALSE))
       \/ /\ Mine(th) /\ status[tx[th]] = "LOCKED"
          /\ local' = [local EXCEPT ![th].expires = expires[tx[th]]]
          /\ Goto(th, "ready_lock")
          /\ UNCHANGED resp
    /\ UNCHANGED <<now, tableVars, op, tx, asset, deviceVars, histVars>>

\* check_commit_ready: get_active_lock.  With no active lock left, the expiry
\* read one query earlier decides, and "expires = time" still counts as READY.
ReadyReadLock(th) ==
    /\ pc[th] = "ready_lock"
    /\ \E l \in GetActiveLock(asset[th], local[th].time) :
          LET expired == \/ l \notin {NoTx, tx[th]}
                         \/ l = NoTx /\ local[th].expires < local[th].time
          IN \/ /\ expired
                /\ Reply(th, Response("TIMEOUT", FALSE))
             \/ /\ ~expired
                /\ Goto(th, "execute")
                /\ local' = [local EXCEPT ![th] = [time |-> 0, expires |-> 0,
                                                    tooLate |-> local[th].tooLate]]
                /\ UNCHANGED resp
    /\ UNCHANGED <<now, tableVars, op, tx, asset, deviceVars, histVars>>

\* executor.execute returned True: the command set is on the device.
ExecuteSucceeds(th) ==
    /\ pc[th] = "execute"
    /\ device' = [device EXCEPT ![asset[th]] = tx[th]]
    /\ executed' = executed \cup {tx[th]}
    /\ Goto(th, "finalize_tx")
    /\ UNCHANGED <<now, tableVars, op, tx, asset, local, resp, late,
                   raced, owed>>

\* Mutant: the return value of execute() is ignored.
ExecuteFails_Ignored(th) ==
    /\ pc[th] = "execute"
    /\ Goto(th, "finalize_tx")
    /\ UNCHANGED <<now, tableVars, op, tx, asset, local, resp, deviceVars, histVars>>

\* execute returned False or raised: nothing, or some of it, was applied, or
\* (HTTP time-out of the PLC adapter call) the write is still on its way.
ExecuteFails(th) ==
    /\ pc[th] = "execute"
    /\ \/ UNCHANGED deviceVars
       \/ /\ "partial" \in Faults
          /\ device' = [device EXCEPT ![asset[th]] = tx[th]]
          /\ UNCHANGED late
       \/ /\ "timeout" \in Faults
          /\ Cardinality(late) < MaxLate
          /\ late' = late \cup {<<tx[th], asset[th]>>}
          /\ UNCHANGED device
    /\ Owes(th)
    /\ Goto(th, "abort_tx")
    /\ UNCHANGED <<now, tableVars, op, tx, asset, local, resp, executed, raced>>

\* finalize_commit: get_transaction.
FinalizeReadTx(th) ==
    /\ pc[th] = "finalize_tx"
    /\ \/ /\ Mine(th) /\ status[tx[th]] = "LOCKED"
          /\ Goto(th, "finalize_update")
          /\ UNCHANGED <<local, resp>>
       \/ /\ Mine(th) /\ status[tx[th]] = "COMMITTED"
          /\ Reply(th, Response("ALREADY_COMMITTED", FALSE))
       \/ /\ ~Mine(th) \/ status[tx[th]] = "ABORTED"
          /\ Reply(th, Response("HTTP_409", FALSE))
    /\ UNCHANGED <<now, tableVars, op, tx, asset, deviceVars, histVars>>

\* finalize_commit: update_status(COMMITTED) and the route's ACK.
FinalizeUpdate(th) ==
    /\ pc[th] = "finalize_update"
    /\ UpdateStatus(tx[th], "COMMITTED")
    /\ Reply(th, Response("ACK", FALSE))
    /\ UNCHANGED <<now, op, tx, asset, deviceVars, histVars>>

-----------------------------------------------------------------------------
(***************************************************************************)
(* ABORT: PersistentTxStateMachine.abort, called by the abort route and by *)
(* the commit route after a failed execution; E-STOP; safe state.          *)
(***************************************************************************)
\* What the two callers of abort() answer for each of its results.
AbortAnswer(th, result) ==
    IF op[th] = "commit"
    THEN IF result = "ABORT_REJECTED" THEN "HTTP_500" ELSE "EXECUTION_FAILED"
    ELSE result

\* The answer is settled but safe_state runs before it is sent.
SafeStateThen(th, answer) ==
    /\ Goto(th, "safe_state")
    /\ resp' = [resp EXCEPT ![th] = Response(answer, FALSE)]
    /\ UNCHANGED local

\* Mutant: the commit route takes only ABORTED for an abort that succeeded.
AbortReadTx_AbortedOnly(th) ==
    /\ pc[th] = "abort_tx"
    /\ \/ /\ \/ ~Mine(th)
             \/ status[tx[th]] = "COMMITTED"
             \/ status[tx[th]] = "ABORTED" /\ op[th] = "commit"
          /\ Reply(th, Response(AbortAnswer(th, "ABORT_REJECTED"), FALSE))
          /\ UNCHANGED owed
       \/ /\ Mine(th) /\ status[tx[th]] = "ABORTED" /\ op[th] # "commit"
          /\ SafeStateThen(th, AbortAnswer(th, "ALREADY_ABORTED"))
          /\ Owes(th)
       \/ /\ Mine(th) /\ status[tx[th]] = "LOCKED"
          /\ Goto(th, "abort_update")
          /\ UNCHANGED <<local, resp, owed>>
    /\ UNCHANGED <<now, tableVars, op, tx, asset, deviceVars, executed, raced>>

\* abort(): get_transaction.
AbortReadTx(th) ==
    /\ pc[th] = "abort_tx"
    /\ \/ /\ ~Mine(th) \/ status[tx[th]] = "COMMITTED"
          /\ Reply(th, Response(AbortAnswer(th, "ABORT_REJECTED"), FALSE))
          /\ UNCHANGED owed
       \/ /\ Mine(th) /\ status[tx[th]] = "ABORTED"
          /\ SafeStateThen(th, AbortAnswer(th, "ALREADY_ABORTED"))
          /\ Owes(th)
       \/ /\ Mine(th) /\ status[tx[th]] = "LOCKED"
          /\ Goto(th, "abort_update")
          /\ UNCHANGED <<local, resp, owed>>
    /\ UNCHANGED <<now, tableVars, op, tx, asset, deviceVars, executed, raced>>

\* Mutant: the route's answer is written to the status column.
AbortUpdate_AnswerAsStatus(th) ==
    /\ pc[th] = "abort_update"
    /\ UpdateStatus(tx[th], AbortAnswer(th, "ABORTED"))
    /\ Owes(th)
    /\ SafeStateThen(th, AbortAnswer(th, "ABORTED"))
    /\ UNCHANGED <<now, op, tx, asset, deviceVars, executed, raced>>

\* Mutant: the COMMIT route answers as soon as the transaction is aborted.
AbortUpdate_NoSafeState(th) ==
    /\ pc[th] = "abort_update"
    /\ UpdateStatus(tx[th], "ABORTED")
    /\ Owes(th)
    /\ IF op[th] = "commit"
       THEN Reply(th, Response("EXECUTION_FAILED", FALSE))
       ELSE SafeStateThen(th, AbortAnswer(th, "ABORTED"))
    /\ UNCHANGED <<now, op, tx, asset, deviceVars, executed, raced>>

\* abort(): update_status(ABORTED) and what the caller does next.
AbortUpdate(th) ==
    /\ pc[th] = "abort_update"
    /\ UpdateStatus(tx[th], "ABORTED")
    /\ Owes(th)
    /\ SafeStateThen(th, AbortAnswer(th, "ABORTED"))
    /\ UNCHANGED <<now, op, tx, asset, deviceVars, executed, raced>>

\* estop(): one UPDATE; the route never reports an error.
EstopUpdate(th) ==
    /\ pc[th] = "estop_update"
    /\ AbortActiveLocksForAsset(asset[th])
    /\ SafeStateThen(th, "ESTOP_EXECUTED")
    /\ UNCHANGED <<now, op, tx, asset, deviceVars, histVars>>

\* _execute_safe_state: True when the executor applied the safe-state set;
\* False when it failed, applied part of it, or timed out with the write on
\* its way.  The handler returns in every case.
SafeState(th) ==
    /\ pc[th] = "safe_state"
    /\ \E ok \in BOOLEAN :
          /\ \/ /\ ok \/ "partial" \in Faults
                /\ device' = [device EXCEPT ![asset[th]] = Safe]
                /\ UNCHANGED late
             \/ /\ ~ok
                /\ UNCHANGED deviceVars
             \/ /\ ~ok /\ "timeout" \in Faults
                /\ Cardinality(late) < MaxLate
                /\ late' = late \cup {<<Safe, asset[th]>>}
                /\ UNCHANGED device
          /\ Reply(th, Response(resp[th].status, ok /\ op[th] # "estop"))
    /\ owed' = owed \ {th}
    /\ UNCHANGED <<now, tableVars, op, tx, asset, executed, raced>>

-----------------------------------------------------------------------------
(***************************************************************************)
(* Faults and the clock.                                                   *)
(***************************************************************************)
\* A query or commit raises: rollback, then each handler's except branch.
DbError(th) ==
    /\ "db" \in Faults
    /\ \/ pc[th] \in PreparePc /\ Denied(th)
       \/ /\ pc[th] \in CommitPc \ {"execute"}
          /\ Reply(th, Response("HTTP_409", FALSE))
       \/ /\ pc[th] \in AbortPc
          /\ Reply(th, Response(AbortAnswer(th, "ABORT_REJECTED"), FALSE))
       \/ pc[th] = "estop_update" /\ SafeStateThen(th, "ESTOP_EXECUTED")
    /\ UNCHANGED <<now, tableVars, op, tx, asset, deviceVars, histVars>>

\* A command whose caller gave up reaches the device after all.
LateWrite(c) ==
    /\ c \in late
    /\ device' = [device EXCEPT ![c[2]] = c[1]]
    /\ late' = late \ {c}
    /\ UNCHANGED <<now, tableVars, callVars, histVars>>

Tick ==
    /\ now < MaxTime
    /\ now' = now + 1
    /\ UNCHANGED <<tableVars, callVars, deviceVars, histVars>>

\* The service process dies and is restarted: handlers are gone, the
\* database and the device keep what was committed.
Crash ==
    /\ "crash" \in Faults
    /\ \E th \in Thread : pc[th] # "idle"
    /\ pc' = [th \in Thread |-> "idle"]
    /\ op' = [th \in Thread |-> "none"]
    /\ tx' = [th \in Thread |-> NoTx]
    /\ asset' = [th \in Thread |-> NoAsset]
    /\ local' = [th \in Thread |-> NoLocal]
    /\ resp' = [th \in Thread |-> NoResponse]
    /\ owed' = {}
    /\ UNCHANGED <<now, tableVars, deviceVars, executed, raced>>

Step(th) ==
    \/ PrepareReadLock(th) \/ PrepareReadTx(th)
    \/ PrepareExtend(th) \/ PrepareCreate(th)
    \/ ReadyReadTx(th) \/ ReadyReadLock(th)
    \/ ExecuteSucceeds(th) \/ ExecuteFails(th)
    \/ FinalizeReadTx(th) \/ FinalizeUpdate(th)
    \/ AbortReadTx(th) \/ AbortUpdate(th)
    \/ EstopUpdate(th) \/ SafeState(th) \/ Return(th)

Next ==
    \/ \E th \in Thread : Step(th) \/ DbError(th)
    \/ \E th \in Thread, a \in Asset :
          \/ \E o \in {"prepare", "commit", "abort"}, t \in Tx : Request(th, o, t, a)
          \/ Request(th, "estop", NoTx, a)
    \/ \E c \in late : LateWrite(c)
    \/ Tick
    \/ Crash

Spec == Init /\ [][Next]_vars

-----------------------------------------------------------------------------
(***************************************************************************)
(* Properties.                                                             *)
(***************************************************************************)
\* Every variable stays in its range.
TypeOK ==
    /\ now \in 0 .. MaxTime
    /\ status \in [Tx -> Status]
    /\ assetOf \in [Tx -> Asset \cup {NoAsset}]
    /\ expires \in [Tx -> Nat]
    /\ pc \in [Thread -> Pc]
    /\ op \in [Thread -> Ops]
    /\ tx \in [Thread -> Tx \cup {NoTx}]
    /\ asset \in [Thread -> Asset \cup {NoAsset}]
    /\ local \in [Thread -> [time : 0 .. MaxTime, expires : Nat, tooLate : BOOLEAN]]
    /\ resp \in [Thread -> [status : RespStatus, safe : BOOLEAN]]
    /\ device \in [Asset -> Tx \cup {Safe, Boot}]
    /\ late \subseteq (Tx \cup {Safe}) \X Asset
    /\ executed \subseteq Tx
    /\ raced \subseteq Asset
    /\ owed \subseteq Thread

\* A row says COMMITTED, and a COMMIT is answered ACK or ALREADY_COMMITTED,
\* only after execute() succeeded for the transaction, whatever other commits,
\* aborts, E-STOPs, crashes and stale UPDATEs were interleaved (routes.py
\* 200-202: COMMITTED means the device really applied it).
CommittedOnlyAfterExecution ==
    /\ \A t \in Tx : status[t] = "COMMITTED" => t \in executed
    /\ \A th \in Thread :
          resp[th].status \in {"ACK", "ALREADY_COMMITTED"} => tx[th] \in executed

\* The device only ever runs, or has on its way, a command set of a
\* transaction that was granted a lock on that very asset (routes.py 107).
OnlyPreparedReachDevice ==
    \A t \in Tx, a \in Asset :
        device[a] = t \/ <<t, a>> \in late => status[t] # "NONE" /\ assetOf[t] = a

\* A COMMIT that arrives when its transaction is already finished never gets
\* to the executor, even if stale UPDATEs flip the final status meanwhile
\* (routes.py 111: the call is answered, not executed again).
NoExecAfterTerminal ==
    \A th \in Thread : pc[th] = "execute" => ~local[th].tooLate

\* An asset has two active locks only if two PREPAREs of different
\* transactions overlapped between their clock read and their write: expiry,
\* E-STOP, aborts, commits, retries and crashes alone never break the lock
\* (service.py 16-51).
ExclusiveUnlessRaced ==
    \A a \in Asset \ raced : \A t, u \in ActiveLocks(a, now) : t = u

\* A handler whose execution failed, that found or made its transaction
\* ABORTED, or that serves an E-STOP tries the safe state before it answers
\* (routes.py 172, 192, 252, 275), except in one case: the abort() after a
\* failed execution was refused, because another COMMIT of the same transaction
\* had executed and finalized it, or because a statement failed; the answer is
\* then HTTP 500 (routes.py 166-170, 186-190).
SafeStateBeforeAnswer ==
    \A th \in owed :
        pc[th] = "done" =>
            /\ op[th] = "commit" /\ resp[th].status = "HTTP_500"
            /\ tx[th] \in executed \/ "db" \in Faults

\* A finished transaction never becomes LOCKED again, and the asset of a row
\* never changes: a retried PREPARE or a stale extend cannot revive it.
NeverRelocked ==
    [][\A t \in Tx :
         /\ status[t] \in Terminal => status'[t] \in Terminal
         /\ status[t] # "NONE" => status'[t] # "NONE" /\ assetOf'[t] = assetOf[t]]_vars

(***************************************************************************)
(* What the code's comments promise and the code does not keep.            *)
(***************************************************************************)
\* routes.py 75-76: PREPARE takes an exclusive lock on the asset, and a lock
\* held by another transaction means LOCK_DENIED.
ExclusiveLock ==
    \A a \in Asset : \A t, u \in ActiveLocks(a, now) : t = u

\* routes.py 111: a COMMIT repeated with the same tx_id is never executed
\* again.  Two overlapping COMMITs break it here; behind the gateway, whose
\* evidence rows admit one pipeline per transaction, it holds.
ExecutedAtMostOnce ==
    [][\A th \in Thread :
         pc[th] = "execute" /\ pc'[th] = "finalize_tx" => tx[th] \notin executed]_vars

\* routes.py 268-269: an E-STOP forcibly stops the transactions in progress:
\* once it has been answered, no aborted transaction reaches the device.
EstopStops ==
    [][\A th \in Thread, t \in Tx :
         /\ pc[th] = "done" /\ op[th] = "estop" /\ status[t] = "ABORTED"
         /\ device'[asset[th]] = t
         => device[asset[th]] = t]_vars

\* routes.py 45-46 and 181-182: after a failed execution the site is put back
\* to its safe state, abort and safe_state alike for an exception and for False.
\* Two overlapping COMMITs, or a failing statement of abort(), break it here;
\* behind the gateway only the failing statement is left.
FailedExecutionIsMadeSafe ==
    \A th \in Thread : pc[th] = "done" => th \notin owed
=============================================================================
