------------------------------ MODULE Gateway ------------------------------
(***************************************************************************)
(* The Gateway pipeline (pcag/apps/gateway/routes.py) composed with the OT *)
(* Interface and the Evidence Ledger.  One pipeline serves one submitted   *)
(* control request; pipelines interleave at every await.                   *)
(*                                                                         *)
(* A call to the OT Interface occupies one of its worker threads until the *)
(* reply is taken.  When the HTTP client gives up, the handler goes on.    *)
(***************************************************************************)
EXTENDS OTInterface, Sequences

CONSTANTS
    Submission, \* control requests sent to the gateway, one pipeline each
    Policy,     \* policy versions
    Reading,    \* sensor snapshots, identified with their hashes
    NoThread,   \* no OT call in progress
    Injection,  \* fault families a proof package asks for, "none" included
    Outages     \* bound: the failures around the gateway in an instance

ASSUME GatewayAssumption ==
    /\ NoThread \notin Thread
    /\ Injection \subseteq {"none", "lock_denied", "reverify_hash_mismatch", "commit_timeout",
                            "commit_failed_recovered", "ot_interface_error"}
    /\ Outages \subseteq {"ledger", "service", "timeout", "crash"}

VARIABLES
    active,     \* the active policy version of the Policy Store
    sensor,     \* the snapshot the Sensor Gateway would return for an asset
    ledger,     \* evidence rows of each transaction
    gpc,        \* the stage a pipeline is about to log, or what it does next
    control,    \* its ControlRequest
    seen,       \* active_version and current_hash as read at [110]
    chain,      \* prev_hash: the events logged so far; its length is evidence_seq
    server,     \* the OT worker thread that serves its call
    answer      \* status of its ControlResponse, settled before the last log

gatewayVars == <<gpc, control, seen, chain, server, answer>>
worldVars == <<active, sensor>>
allVars == <<vars, worldVars, ledger, gatewayVars>>

-----------------------------------------------------------------------------
(***************************************************************************)
(* Evidence.  A hash is modelled by what it commits to: the event hash of  *)
(* a stage logged after prev is the sequence prev followed by the stage.   *)
(***************************************************************************)
Stage == {"RECEIVED", "SCHEMA_VALIDATED", "INTEGRITY_REJECTED", "INTEGRITY_PASSED",
          "SAFETY_UNSAFE", "SAFETY_PASSED", "PREPARE_LOCK_DENIED", "PREPARE_LOCK_GRANTED",
          "REVERIFY_FAILED", "REVERIFY_PASSED", "COMMIT_ERROR", "COMMIT_FAILED",
          "COMMIT_TIMEOUT", "COMMIT_ACK"}
GenesisHash == <<>>
EventHash(prev, stage) == Append(prev, stage)
Event == [seq : Nat, stage : Stage, prev : Seq(Stage), hash : Seq(Stage)]

\* Where the pipeline goes after logging a stage that does not end it.
After == [RECEIVED |-> "SCHEMA_VALIDATED", SCHEMA_VALIDATED |-> "policy",
          INTEGRITY_PASSED |-> "safety", SAFETY_PASSED |-> "prepare",
          PREPARE_LOCK_GRANTED |-> "reverify", REVERIFY_PASSED |-> "commit"]

GatewayPc == Stage \cup {"idle", "policy", "sensor", "integrity", "safety", "prepare",
                         "prepare_wait", "reverify", "commit", "commit_wait",
                         "abort", "abort_wait", "done"}
Status5 == {"COMMITTED", "REJECTED", "UNSAFE", "ABORTED", "ERROR"}

NoControl == [tx |-> NoTx, asset |-> NoAsset, policy |-> "none", hash |-> "none",
              fault |-> "none"]

GatewayInit ==
    /\ Init
    /\ active \in Policy
    /\ sensor \in [Asset -> Reading]
    /\ ledger = [t \in Tx |-> {}]
    /\ gpc = [g \in Submission |-> "idle"]
    /\ control = [g \in Submission |-> NoControl]
    /\ seen = [g \in Submission |-> [policy |-> "none", hash |-> "none"]]
    /\ chain = [g \in Submission |-> GenesisHash]
    /\ server = [g \in Submission |-> NoThread]
    /\ answer = [g \in Submission |-> "none"]

-----------------------------------------------------------------------------
Forward(g, p) == gpc' = [gpc EXCEPT ![g] = p]

\* The function returns a ControlResponse, or raises ("HTTP_500").
Respond(g, a) ==
    /\ Forward(g, "done")
    /\ answer' = [answer EXCEPT ![g] = a]

\* One more event, then the response a.
LogThenRespond(g, stage, a) ==
    /\ Forward(g, stage)
    /\ answer' = [answer EXCEPT ![g] = a]

Submit(g, t, a, p, r, f) ==
    /\ gpc[g] = "idle"
    /\ Forward(g, "RECEIVED")
    /\ control' = [control EXCEPT ![g] =
                     [tx |-> t, asset |-> a, policy |-> p, hash |-> r, fault |-> f]]
    /\ UNCHANGED <<vars, worldVars, ledger, seen, chain, server, answer>>

\* uq_tx_seq: the INSERT of append_event is refused when the row exists.
Rows(t, n) == {e \in ledger[t] : e.seq = n}

\* Mutant: the table has no unique constraint on (transaction, sequence).
Stored_NoUnique(g) ==
    LET t == control[g].tx
        e == [seq |-> Len(chain[g]), stage |-> gpc[g], prev |-> chain[g],
              hash |-> EventHash(chain[g], gpc[g])]
    IN ledger' = [ledger EXCEPT ![t] = @ \cup {e}]

\* append_event succeeds.
Stored(g) ==
    LET t == control[g].tx
        e == [seq |-> Len(chain[g]), stage |-> gpc[g], prev |-> chain[g],
              hash |-> EventHash(chain[g], gpc[g])]
    IN /\ Rows(t, Len(chain[g])) = {}
       /\ ledger' = [ledger EXCEPT ![t] = @ \cup {e}]

\* _log_evidence, and the return that follows the last one.
Log(g) ==
    /\ gpc[g] \in Stage
    /\ Stored(g)
    /\ chain' = [chain EXCEPT ![g] = EventHash(@, gpc[g])]
    /\ Forward(g, IF answer[g] = "none" THEN After[gpc[g]] ELSE "done")
    /\ UNCHANGED <<vars, worldVars, control, seen, server, answer>>

\* Mutant: a failed append is logged and the pipeline goes on.
LogFails_Ignored(g) ==
    /\ gpc[g] \in Stage
    /\ "ledger" \in Outages
    /\ chain' = [chain EXCEPT ![g] = EventHash(@, gpc[g])]
    /\ Forward(g, IF answer[g] = "none" THEN After[gpc[g]] ELSE "done")
    /\ UNCHANGED <<vars, worldVars, ledger, control, seen, server, answer>>

\* _log_evidence raises and nothing catches it: a duplicate row (409), a
\* ledger failure, or a time-out after the row was stored.
LogFails(g) ==
    /\ gpc[g] \in Stage
    /\ \/ /\ Rows(control[g].tx, Len(chain[g])) # {}
          /\ UNCHANGED ledger
       \/ /\ "ledger" \in Outages
          /\ UNCHANGED ledger
       \/ /\ "ledger" \in Outages
          /\ Stored(g)
    /\ Respond(g, "HTTP_500")
    /\ UNCHANGED <<vars, worldVars, control, seen, chain, server>>

-----------------------------------------------------------------------------
(***************************************************************************)
(* [110] and [120]: the reads, the integrity check, the Safety Cluster.    *)
(* Each of these calls may fail; the pipeline then answers ERROR and logs  *)
(* nothing.                                                                *)
(***************************************************************************)
ServiceFails(g) ==
    /\ "service" \in Outages
    /\ gpc[g] \in {"policy", "sensor", "integrity", "safety"}
    /\ Respond(g, "ERROR")
    /\ UNCHANGED <<vars, worldVars, ledger, control, seen, chain, server>>

ReadPolicy(g) ==
    /\ gpc[g] = "policy"
    /\ seen' = [seen EXCEPT ![g].policy = active]
    /\ Forward(g, "sensor")
    /\ UNCHANGED <<vars, worldVars, ledger, control, chain, server, answer>>

ReadSensor(g) ==
    /\ gpc[g] = "sensor"
    /\ seen' = [seen EXCEPT ![g].hash = sensor[control[g].asset]]
    /\ Forward(g, "integrity")
    /\ UNCHANGED <<vars, worldVars, ledger, control, chain, server, answer>>

\* check_integrity can pass only if policy version and snapshot hash agree.
\* The age of the proof and the divergence of its readings are left open.
IntegrityAgrees(g) ==
    /\ control[g].policy = seen[g].policy
    /\ control[g].hash = seen[g].hash

CheckIntegrity(g) ==
    /\ gpc[g] = "integrity"
    /\ \/ IntegrityAgrees(g) /\ Forward(g, "INTEGRITY_PASSED") /\ UNCHANGED answer
       \/ LogThenRespond(g, "INTEGRITY_REJECTED", "REJECTED")
    /\ UNCHANGED <<vars, worldVars, ledger, control, seen, chain, server>>

\* Mutant: the verdict is passed on as the status of the response.
Validate_RawVerdict(g) ==
    /\ gpc[g] = "safety"
    /\ \E v \in {"SAFE", "UNSAFE"} :
          \/ v = "SAFE" /\ LogThenRespond(g, "SAFETY_PASSED", v)
          \/ v = "UNSAFE" /\ LogThenRespond(g, "SAFETY_UNSAFE", v)
    /\ UNCHANGED <<vars, worldVars, ledger, control, seen, chain, server>>

\* Any final verdict of the Safety Cluster.
Validate(g) ==
    /\ gpc[g] = "safety"
    /\ \/ Forward(g, "SAFETY_PASSED") /\ UNCHANGED answer
       \/ LogThenRespond(g, "SAFETY_UNSAFE", "UNSAFE")
    /\ UNCHANGED <<vars, worldVars, ledger, control, seen, chain, server>>

-----------------------------------------------------------------------------
(***************************************************************************)
(* [130] PREPARE, REVERIFY, COMMIT and ABORT.                              *)
(***************************************************************************)
\* client.post to the OT Interface: a worker thread takes the request.
Post(g, th, o, wait) ==
    /\ Request(th, o, control[g].tx, control[g].asset)
    /\ server' = [server EXCEPT ![g] = th]
    /\ Forward(g, wait)
    /\ UNCHANGED <<worldVars, ledger, control, seen, chain, answer>>

\* Its response arrives and the thread is free.
TakeReply(g) ==
    /\ server[g] # NoThread
    /\ Return(server[g])
    /\ server' = [server EXCEPT ![g] = NoThread]

SendPrepare(g) ==
    /\ gpc[g] = "prepare"
    /\ control[g].fault # "lock_denied"
    /\ \E th \in Thread : Post(g, th, "prepare", "prepare_wait")

PrepareInjected(g) ==
    /\ gpc[g] = "prepare"
    /\ control[g].fault = "lock_denied"
    /\ LogThenRespond(g, "PREPARE_LOCK_DENIED", "ABORTED")
    /\ UNCHANGED <<vars, worldVars, ledger, control, seen, chain, server>>

PrepareReply(g) ==
    /\ gpc[g] = "prepare_wait"
    /\ TakeReply(g)
    /\ IF resp[server[g]].status = "LOCK_GRANTED"
       THEN Forward(g, "PREPARE_LOCK_GRANTED") /\ UNCHANGED answer
       ELSE LogThenRespond(g, "PREPARE_LOCK_DENIED", "ABORTED")
    /\ UNCHANGED <<worldVars, ledger, control, seen, chain>>

\* What follows a successful _abort_transaction is settled before it: a
\* REVERIFY that failed ends in ABORTED, a COMMIT that raised in ERROR.
AbortFor(g, a) ==
    /\ Forward(g, "abort")
    /\ answer' = [answer EXCEPT ![g] = a]

\* The snapshot is read again; a failed read or another hash aborts.
Reverify(g) ==
    LET same == sensor[control[g].asset] = seen[g].hash
                   /\ control[g].fault # "reverify_hash_mismatch"
    IN /\ gpc[g] = "reverify"
       /\ \/ same /\ Forward(g, "REVERIFY_PASSED") /\ UNCHANGED answer
          \/ ~same /\ AbortFor(g, "ABORTED")
          \/ "service" \in Outages /\ AbortFor(g, "ABORTED")
       /\ UNCHANGED <<vars, worldVars, ledger, control, seen, chain, server>>

CommitFaults == {"commit_timeout", "commit_failed_recovered", "ot_interface_error"}

SendCommit(g) ==
    /\ gpc[g] = "commit"
    /\ control[g].fault \notin CommitFaults
    /\ \E th \in Thread : Post(g, th, "commit", "commit_wait")

\* The three injected outcomes: the OT Interface is not called.
CommitInjected(g) ==
    /\ gpc[g] = "commit"
    /\ \/ /\ control[g].fault = "commit_timeout"
          /\ LogThenRespond(g, "COMMIT_TIMEOUT", "ABORTED")
       \/ /\ control[g].fault = "commit_failed_recovered"
          /\ LogThenRespond(g, "COMMIT_FAILED", "ABORTED")
       \/ /\ control[g].fault = "ot_interface_error"
          /\ AbortFor(g, "ERROR")
    /\ UNCHANGED <<vars, worldVars, ledger, control, seen, chain, server>>

\* Mutant: a conflict is taken for a commit that already happened.
CommitReply_ConflictIsAck(g) ==
    LET r == resp[server[g]]
    IN /\ gpc[g] = "commit_wait"
       /\ TakeReply(g)
       /\ \/ r.status = "HTTP_500" /\ AbortFor(g, "ERROR")
          \/ /\ r.status = "EXECUTION_FAILED"
             /\ LogThenRespond(g, "COMMIT_FAILED", IF r.safe THEN "ABORTED" ELSE "ERROR")
          \/ r.status = "TIMEOUT" /\ LogThenRespond(g, "COMMIT_TIMEOUT", "ABORTED")
          \/ /\ r.status \in {"ACK", "ALREADY_COMMITTED", "HTTP_409"}
             /\ LogThenRespond(g, "COMMIT_ACK", "COMMITTED")
       /\ UNCHANGED <<worldVars, ledger, control, seen, chain>>

CommitReply(g) ==
    LET r == resp[server[g]]
    IN /\ gpc[g] = "commit_wait"
       /\ TakeReply(g)
       /\ \/ /\ r.status \in {"HTTP_409", "HTTP_500"}
             /\ AbortFor(g, "ERROR")
          \/ /\ r.status = "EXECUTION_FAILED"
             /\ LogThenRespond(g, "COMMIT_FAILED", IF r.safe THEN "ABORTED" ELSE "ERROR")
          \/ /\ r.status = "TIMEOUT"
             /\ LogThenRespond(g, "COMMIT_TIMEOUT", "ABORTED")
          \/ /\ r.status \in {"ACK", "ALREADY_COMMITTED"}
             /\ LogThenRespond(g, "COMMIT_ACK", "COMMITTED")
       /\ UNCHANGED <<worldVars, ledger, control, seen, chain>>

SendAbort(g) ==
    /\ gpc[g] = "abort"
    /\ \E th \in Thread : Post(g, th, "abort", "abort_wait")

AbortReply(g) ==
    /\ gpc[g] = "abort_wait"
    /\ TakeReply(g)
    /\ \/ /\ resp[server[g]].status \in {"ABORTED", "ALREADY_ABORTED"}
          /\ Forward(g, IF answer[g] = "ABORTED" THEN "REVERIFY_FAILED" ELSE "COMMIT_ERROR")
          /\ UNCHANGED answer
       \/ /\ resp[server[g]].status \notin {"ABORTED", "ALREADY_ABORTED"}
          /\ Respond(g, "ERROR")
    /\ UNCHANGED <<worldVars, ledger, control, seen, chain>>

\* The pipeline makes or waits for an OT call.
Calling(g) ==
    \/ gpc[g] \in {"prepare_wait", "commit_wait", "abort", "abort_wait"}
    \/ gpc[g] = "prepare" /\ control[g].fault # "lock_denied"
    \/ gpc[g] = "commit" /\ control[g].fault \notin CommitFaults

\* Mutant: an exception of COMMIT is answered at once, without an abort.
CallFails_NoAbort(g) ==
    /\ Calling(g)
    /\ \/ "timeout" \in Outages
       \/ gpc[g] \in {"prepare_wait", "commit_wait", "abort_wait"} /\ server[g] = NoThread
    /\ server' = [server EXCEPT ![g] = NoThread]
    /\ Respond(g, IF gpc[g] \in {"commit", "commit_wait"} THEN "ABORTED" ELSE "ERROR")
    /\ UNCHANGED <<vars, worldVars, ledger, control, seen, chain>>

\* Mutant: AsyncClient(timeout=None), only a refused connection raises.
CallFails_NoTimeout(g) ==
    /\ Calling(g)
    /\ gpc[g] \in {"prepare", "commit", "abort"}
    /\ IF gpc[g] = "commit" THEN AbortFor(g, "ERROR") ELSE Respond(g, "ERROR")
    /\ UNCHANGED <<vars, worldVars, ledger, control, seen, chain, server>>

\* Mutant: a handler whose client is gone is cancelled half-way.
CallFails_CancelsHandler(g) ==
    LET th == server[g]
    IN /\ "timeout" \in Outages
       /\ gpc[g] = "commit_wait" /\ th # NoThread
       /\ pc' = [pc EXCEPT ![th] = "idle"]
       /\ server' = [server EXCEPT ![g] = NoThread]
       /\ AbortFor(g, "ERROR")
       /\ UNCHANGED <<now, tableVars, op, tx, asset, local, resp, deviceVars, histVars,
                      worldVars, ledger, control, seen, chain>>

\* Mutant: a COMMIT whose outcome is unknown is sent again.
CallFails_RetriesCommit(g) ==
    /\ Calling(g)
    /\ \/ "timeout" \in Outages
       \/ gpc[g] \in {"prepare_wait", "commit_wait", "abort_wait"} /\ server[g] = NoThread
    /\ server' = [server EXCEPT ![g] = NoThread]
    /\ IF gpc[g] = "commit_wait" THEN Forward(g, "commit") /\ UNCHANGED answer
                                 ELSE Respond(g, "ERROR")
    /\ UNCHANGED <<vars, worldVars, ledger, control, seen, chain>>

\* The HTTP client raises: the OT Interface cannot be reached, its process
\* died, or it answers too late and goes on alone.
CallFails(g) ==
    /\ Calling(g)
    /\ \/ "timeout" \in Outages
       \/ gpc[g] \in {"prepare_wait", "commit_wait", "abort_wait"} /\ server[g] = NoThread
    /\ server' = [server EXCEPT ![g] = NoThread]
    /\ IF gpc[g] \in {"commit", "commit_wait"} THEN AbortFor(g, "ERROR")
                                                ELSE Respond(g, "ERROR")
    /\ UNCHANGED <<vars, worldVars, ledger, control, seen, chain>>

-----------------------------------------------------------------------------
(***************************************************************************)
(* The rest of the system.                                                 *)
(***************************************************************************)
\* An operator activates a policy version; a process variable moves.
Activate(p) ==
    /\ active' = p
    /\ UNCHANGED <<vars, sensor, ledger, gatewayVars>>

SensorMoves(a, r) ==
    /\ sensor' = [sensor EXCEPT ![a] = r]
    /\ UNCHANGED <<vars, active, ledger, gatewayVars>>

\* The gateway process dies: its pipelines are gone, their OT calls go on.
GatewayCrash ==
    /\ "crash" \in Outages
    /\ \E g \in Submission : gpc[g] \notin {"idle", "done"}
    /\ gpc' = [g \in Submission |-> IF gpc[g] = "idle" THEN "idle" ELSE "done"]
    /\ answer' = [g \in Submission |-> IF gpc[g] \in {"idle", "done"} THEN answer[g]
                                                                 ELSE "HTTP_500"]
    /\ server' = [g \in Submission |-> NoThread]
    /\ UNCHANGED <<vars, worldVars, ledger, control, seen, chain>>

\* A step inside the OT Interface.  A finished handler waits for a gateway
\* that still wants its reply; a crash breaks every connection.
OTStep ==
    /\ \/ \E th \in Thread :
             /\ Step(th) \/ DbError(th)
             /\ pc[th] = "done" => \A g \in Submission : server[g] # th
             /\ UNCHANGED server
       \/ \E c \in late : LateWrite(c) /\ UNCHANGED server
       \/ Tick /\ UNCHANGED server
       \/ \E th \in Thread, a \in Asset : Request(th, "estop", NoTx, a) /\ UNCHANGED server
       \/ Crash /\ server' = [g \in Submission |-> NoThread]
    /\ UNCHANGED <<worldVars, ledger, gpc, control, seen, chain, answer>>

Pipeline(g) ==
    \/ Log(g) \/ LogFails(g) \/ ServiceFails(g)
    \/ ReadPolicy(g) \/ ReadSensor(g) \/ CheckIntegrity(g) \/ Validate(g)
    \/ SendPrepare(g) \/ PrepareInjected(g) \/ PrepareReply(g)
    \/ Reverify(g)
    \/ SendCommit(g) \/ CommitInjected(g) \/ CommitReply(g)
    \/ SendAbort(g) \/ AbortReply(g) \/ CallFails(g)

GatewayNext ==
    \/ \E g \in Submission : Pipeline(g)
    \/ \E g \in Submission, t \in Tx, a \in Asset, p \in Policy, r \in Reading,
          f \in Injection : Submit(g, t, a, p, r, f)
    \/ \E p \in Policy : Activate(p)
    \/ \E a \in Asset, r \in Reading : SensorMoves(a, r)
    \/ GatewayCrash
    \/ OTStep

GatewaySpec == GatewayInit /\ [][GatewayNext]_allVars

\* The event loop runs every pipeline, and every HTTP call carries a time-out;
\* nothing is assumed of the services.
GatewayFairSpec == GatewaySpec /\ \A g \in Submission : WF_allVars(Pipeline(g))

-----------------------------------------------------------------------------
(***************************************************************************)
(* Properties.                                                             *)
(***************************************************************************)
\* Every gateway variable stays in its range.
GatewayTypeOK ==
    /\ active \in Policy
    /\ sensor \in [Asset -> Reading]
    /\ ledger \in [Tx -> SUBSET Event]
    /\ gpc \in [Submission -> GatewayPc]
    /\ control \in [Submission -> [tx : Tx \cup {NoTx}, asset : Asset \cup {NoAsset},
                                   policy : Policy \cup {"none"}, hash : Reading \cup {"none"},
                                   fault : Injection \cup {"none"}]]
    /\ seen \in [Submission -> [policy : Policy \cup {"none"}, hash : Reading \cup {"none"}]]
    /\ chain \in [Submission -> Seq(Stage)]
    /\ server \in [Submission -> Thread \cup {NoThread}]
    /\ answer \in [Submission -> Status5 \cup {"none", "HTTP_500"}]

Stages(t) == {e.stage : e \in ledger[t]}

\* Every command set that is executed has its whole approval on record first:
\* received, validated, integrity, safety, lock and re-verification, whatever
\* was resubmitted, lost or timed out (routes.py 170-556).
EvidenceBeforeExecution ==
    \A t \in Tx :
        t \in executed \/ (\E th \in Thread : pc[th] = "execute" /\ tx[th] = t)
        => {"RECEIVED", "SCHEMA_VALIDATED", "INTEGRITY_PASSED", "SAFETY_PASSED",
            "PREPARE_LOCK_GRANTED", "REVERIFY_PASSED"} \subseteq Stages(t)

\* verify_chain of the Evidence Ledger.
VerifyChain(t) ==
    \A e \in ledger[t] :
        LET before == {d \in ledger[t] : d.seq < e.seq}
        IN /\ e.hash = EventHash(e.prev, e.stage)
           /\ before = {} => e.prev = GenesisHash
           /\ \A d \in before : (\A b \in before : b.seq <= d.seq) => e.prev = d.hash

\* The hash chain of every transaction verifies at all times, with two
\* submissions of one transaction racing, lost replies and crashes
\* (repository.py of the Evidence Ledger, 53-88).
ChainValid ==
    \A t \in Tx :
        /\ VerifyChain(t)
        /\ \A d, e \in ledger[t] : d.seq = e.seq => d = e

\* A transaction whose COMMIT_ACK is on record, or whose client was told
\* COMMITTED, was executed and is COMMITTED in the OT Interface, and stays so
\* under E-STOPs and late aborts (routes.py 673-692).
AcknowledgedIsCommitted ==
    /\ \A t \in Tx : "COMMIT_ACK" \in Stages(t) => status[t] = "COMMITTED" /\ t \in executed
    /\ \A g \in Submission : gpc[g] = "done" /\ answer[g] = "COMMITTED"
                             => "COMMIT_ACK" \in Stages(control[g].tx)

\* A client that was told REJECTED, UNSAFE or ABORTED can rely on it: the
\* transaction is not COMMITTED and no commit handler works on it any more.
RefusalIsFinal ==
    \A g \in Submission :
        gpc[g] = "done" /\ answer[g] \in {"REJECTED", "UNSAFE", "ABORTED"} =>
            /\ status[control[g].tx] # "COMMITTED"
            /\ \A th \in Thread : pc[th] \in CommitPc => tx[th] # control[g].tx

\* Every submission is answered.
EverySubmissionAnswered ==
    \A g \in Submission : gpc[g] # "idle" ~> gpc[g] = "done"

\* The composition implements the OT Interface: every step of the gateway is
\* one a client of that service may take, or invisible to it, so what holds of
\* the OT Interface for all clients holds here.
ImplementsOTInterface == Spec
=============================================================================
