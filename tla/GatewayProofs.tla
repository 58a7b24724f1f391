--------------------------- MODULE GatewayProofs ---------------------------
(***************************************************************************)
(* Theorems about Gateway: the composition implements the OT Interface,    *)
(* the hash chain of every transaction verifies at all times, and what a   *)
(* submission comes to: no execution without evidence, answers that stay   *)
(* true, at most one execution.                                            *)
(***************************************************************************)
EXTENDS Gateway, OTInterfaceProofs

-----------------------------------------------------------------------------
(***************************************************************************)
(* Typing.  Two facts about a pipeline go with the types: a request that   *)
(* was submitted names a transaction and an asset, and a stage that ends   *)
(* the pipeline, or an abort, is reached with the answer already settled.  *)
(***************************************************************************)
\* The stages that do not end a pipeline.
Passing == {"RECEIVED", "SCHEMA_VALIDATED", "INTEGRITY_PASSED", "SAFETY_PASSED",
            "PREPARE_LOCK_GRANTED", "REVERIFY_PASSED"}

Settled ==
    \A g \in Submission :
        /\ gpc[g] = "idle" => chain[g] = GenesisHash
        /\ gpc[g] # "idle" => control[g].tx \in Tx /\ control[g].asset \in Asset
        /\ gpc[g] \in Stage \ Passing => answer[g] # "none"
        /\ gpc[g] \in {"abort", "abort_wait"} => answer[g] # "none"

GInv == GatewayTypeOK /\ Settled

\* Where a passing stage leads is a place of the pipeline that needs no
\* settled answer.
LEMMA AfterType ==
  ASSUME NEW p \in Passing
  PROVE  /\ After[p] \in GatewayPc
         /\ After[p] \notin (Stage \ Passing) \cup {"idle", "abort", "abort_wait"}
<1>1. CASE p = "RECEIVED" BY <1>1 DEF After, GatewayPc, Stage, Passing
<1>2. CASE p = "SCHEMA_VALIDATED" BY <1>2 DEF After, GatewayPc, Stage, Passing
<1>3. CASE p = "INTEGRITY_PASSED" BY <1>3 DEF After, GatewayPc, Stage, Passing
<1>4. CASE p = "SAFETY_PASSED" BY <1>4 DEF After, GatewayPc, Stage, Passing
<1>5. CASE p = "PREPARE_LOCK_GRANTED" BY <1>5 DEF After, GatewayPc, Stage, Passing
<1>6. CASE p = "REVERIFY_PASSED" BY <1>6 DEF After, GatewayPc, Stage, Passing
<1> QED BY <1>1, <1>2, <1>3, <1>4, <1>5, <1>6 DEF Passing

\* In the initial state nothing is submitted, locked or logged.
LEMMA GInvInit == GatewayInit => GInv
BY DEF GatewayInit, GInv, GatewayTypeOK, Settled, NoControl, GenesisHash, GatewayPc,
       Status5, Stage

\* A step that only moves pipeline g forward, with its answer, keeps GInv.
LEMMA GInvMove ==
  ASSUME GInv, NEW g \in Submission, gpc[g] # "idle",
         NEW p \in GatewayPc \ {"idle"}, Forward(g, p),
         NEW a \in Status5 \cup {"none", "HTTP_500"},
         answer' = [answer EXCEPT ![g] = a],
         p \in (Stage \ Passing) \cup {"abort", "abort_wait"} => a # "none",
         UNCHANGED <<active, sensor, control, chain>>,
         ledger' \in [Tx -> SUBSET Event],
         server' \in [Submission -> Thread \cup {NoThread}],
         seen' \in [Submission -> [policy : Policy \cup {"none"}, hash : Reading \cup {"none"}]]
  PROVE  GInv'
<1>1. GatewayTypeOK'
  BY DEF GInv, GatewayTypeOK, Forward
<1>2. Settled'
  BY DEF GInv, GatewayTypeOK, Settled, Forward
<1> QED BY <1>1, <1>2 DEF GInv

\* The event a pipeline is about to log.
LEMMA StoredType ==
  ASSUME GInv, NEW g \in Submission, gpc[g] \in Stage, Stored(g)
  PROVE  ledger' \in [Tx -> SUBSET Event]
<1>1. control[g].tx \in Tx
  BY DEF GInv, Settled, Stage
<1>2. chain[g] \in Seq(Stage)
  BY DEF GInv, GatewayTypeOK
<1> DEFINE e == [seq |-> Len(chain[g]), stage |-> gpc[g], prev |-> chain[g],
                 hash |-> EventHash(chain[g], gpc[g])]
<1>3. e \in Event
  <2>1. Append(chain[g], gpc[g]) \in Seq(Stage) BY <1>2
  <2>2. Len(chain[g]) \in Nat BY <1>2
  <2> QED BY <1>2, <2>1, <2>2 DEF Event, EventHash
<1>4. ledger' = [ledger EXCEPT ![control[g].tx] = @ \cup {e}]
  BY DEF Stored
<1> HIDE DEF e
<1> QED BY <1>1, <1>3, <1>4 DEF GInv, GatewayTypeOK

\* A step that leaves the pipelines alone, or resets only what a crash of
\* either side resets, keeps GInv.
LEMMA GInvOutside ==
  ASSUME GInv, UNCHANGED <<control, chain, seen, ledger>>,
         active' \in Policy, sensor' \in [Asset -> Reading],
         server' \in [Submission -> Thread \cup {NoThread}],
         UNCHANGED <<gpc, answer>> \/ GatewayCrash
  PROVE  GInv'
<1>1. CASE UNCHANGED <<gpc, answer>>
  BY <1>1 DEF GInv, GatewayTypeOK, Settled
<1>2. CASE GatewayCrash
  <2>1. gpc' \in [Submission -> GatewayPc]
    BY <1>2 DEF GatewayCrash, GatewayPc
  <2>2. answer' \in [Submission -> Status5 \cup {"none", "HTTP_500"}]
    BY <1>2 DEF GatewayCrash, GInv, GatewayTypeOK
  <2>3. \A g \in Submission : gpc'[g] \in {"idle", "done"} /\ (gpc'[g] = "idle" <=> gpc[g] = "idle")
    BY <1>2 DEF GatewayCrash
  <2>4. Settled'
    BY <2>3 DEF GInv, Settled, Stage
  <2> QED BY <2>1, <2>2, <2>4 DEF GInv, GatewayTypeOK
<1> QED BY <1>1, <1>2

\* The invariant is kept by every step of the composition.
LEMMA GInvStep == GInv /\ [GatewayNext]_allVars => GInv'
<1> SUFFICES ASSUME GInv, [GatewayNext]_allVars PROVE GInv'
  OBVIOUS
<1>T. GatewayTypeOK /\ Settled BY DEF GInv
<1>1. ASSUME NEW g \in Submission, Pipeline(g) PROVE GInv'
  <2>a. answer[g] \in Status5 \cup {"none", "HTTP_500"} /\ answer = [answer EXCEPT ![g] = answer[g]]
    BY <1>T DEF GatewayTypeOK
  <2>s. ledger \in [Tx -> SUBSET Event] /\ server \in [Submission -> Thread \cup {NoThread}]
          /\ seen \in [Submission -> [policy : Policy \cup {"none"}, hash : Reading \cup {"none"}]]
    BY <1>T DEF GatewayTypeOK
  <2>n. [server EXCEPT ![g] = NoThread] \in [Submission -> Thread \cup {NoThread}]
    BY <2>s
  <2>r. ASSUME gpc[g] # "idle", NEW p \in GatewayPc \ {"idle"}, NEW a \in Status5,
               Forward(g, p), answer' = [answer EXCEPT ![g] = a],
               UNCHANGED <<worldVars, ledger, control, seen, chain>>,
               server' = server \/ server' = [server EXCEPT ![g] = NoThread]
        PROVE  GInv'
    BY <2>r, <2>s, <2>n, GInvMove, "none" \notin Status5 DEF worldVars, Status5
  <2>q. ASSUME gpc[g] # "idle", NEW p \in Passing, Forward(g, p), UNCHANGED answer,
               UNCHANGED <<worldVars, ledger, control, seen, chain>>,
               server' = server \/ server' = [server EXCEPT ![g] = NoThread]
        PROVE  GInv'
    <3>1. p \in GatewayPc \ {"idle"} /\ p \notin (Stage \ Passing) \cup {"abort", "abort_wait"}
      BY DEF GatewayPc, Stage, Passing
    <3>2. UNCHANGED <<active, sensor>> BY <2>q DEF worldVars
    <3> QED BY <2>q, <3>1, <3>2, <2>s, <2>n, <2>a, GInvMove
  <2>o. ASSUME gpc[g] # "idle", NEW p \in {"sensor", "integrity"}, Forward(g, p),
               UNCHANGED <<active, sensor, ledger, control, chain, server, answer>>,
               seen' \in [Submission -> [policy : Policy \cup {"none"}, hash : Reading \cup {"none"}]]
        PROVE  GInv'
    <3>1. p \in GatewayPc \ {"idle"} /\ p \notin (Stage \ Passing) \cup {"abort", "abort_wait"}
      BY DEF GatewayPc, Stage
    <3> QED BY <2>o, <3>1, <2>s, <2>a, GInvMove
  <2>1. CASE Log(g)
    <3>1. gpc[g] \in Stage /\ Stored(g) /\ gpc[g] # "idle"
      BY <2>1 DEF Log, Stage
    <3>2. ledger' \in [Tx -> SUBSET Event]
      BY <3>1, StoredType
    <3>3. chain' \in [Submission -> Seq(Stage)]
      <4>1. chain[g] \in Seq(Stage) BY <1>T DEF GatewayTypeOK
      <4>2. Append(chain[g], gpc[g]) \in Seq(Stage) BY <4>1, <3>1
      <4> QED BY <4>2, <2>1, <1>T DEF Log, GatewayTypeOK, EventHash
    <3> DEFINE p == IF answer[g] = "none" THEN After[gpc[g]] ELSE "done"
    <3>4. p \in GatewayPc /\ p # "idle" /\ p \notin {"abort", "abort_wait"}
            /\ (p \in Stage \ Passing => answer[g] # "none")
      <4>1. CASE answer[g] = "none"
        <5>1. gpc[g] \in Passing BY <4>1, <3>1, <1>T DEF Settled
        <5> QED BY <5>1, <4>1, AfterType
      <4>2. CASE answer[g] # "none"
        BY <4>2 DEF GatewayPc, Stage
      <4> QED BY <4>1, <4>2
    <3>5. gpc' = [gpc EXCEPT ![g] = p] /\ UNCHANGED <<active, sensor, control, seen, server, answer>>
      BY <2>1 DEF Log, Forward, worldVars
    <3>c. chain' = [chain EXCEPT ![g] = EventHash(@, gpc[g])]
      BY <2>1 DEF Log
    <3> HIDE DEF p
    <3>6. GatewayTypeOK'
      BY <3>2, <3>3, <3>4, <3>5, <1>T DEF GatewayTypeOK
    <3>7. Settled'
      BY <3>1, <3>4, <3>5, <3>c, <1>T DEF GatewayTypeOK, Settled
    <3> QED BY <3>6, <3>7 DEF GInv
  <2>2. CASE LogFails(g)
    <3>1. gpc[g] \in Stage /\ gpc[g] # "idle" BY <2>2 DEF LogFails, Stage
    <3>2. ledger' \in [Tx -> SUBSET Event]
      BY <2>2, <3>1, <2>s, StoredType DEF LogFails
    <3> QED
      BY <2>2, <3>1, <3>2, <2>s, GInvMove, "done" \in GatewayPc \ {"idle"}
      DEF LogFails, Respond, worldVars, GatewayPc
  <2>3. CASE ServiceFails(g)
    <3>1. "done" \in GatewayPc \ {"idle"} /\ "ERROR" \in Status5 BY DEF GatewayPc, Status5
    <3>2. gpc[g] # "idle" BY <2>3 DEF ServiceFails
    <3>3. Forward(g, "done") /\ answer' = [answer EXCEPT ![g] = "ERROR"]
            /\ UNCHANGED <<worldVars, ledger, control, seen, chain, server>>
      BY <2>3 DEF ServiceFails, Respond
    <3> QED BY <3>1, <3>2, <3>3, <2>r
  <2>4. CASE ReadPolicy(g)
    <3>1. seen' \in [Submission -> [policy : Policy \cup {"none"}, hash : Reading \cup {"none"}]]
      BY <2>4, <2>s, <1>T DEF ReadPolicy, GatewayTypeOK
    <3>3. gpc[g] # "idle" /\ Forward(g, "sensor")
            /\ UNCHANGED <<active, sensor, ledger, control, chain, server, answer>>
      BY <2>4 DEF ReadPolicy, worldVars
    <3> QED BY <3>1, <3>3, <2>o
  <2>5. CASE ReadSensor(g)
    <3>0. control[g].asset \in Asset
      BY <2>5, <1>T DEF ReadSensor, Settled
    <3>1. seen' \in [Submission -> [policy : Policy \cup {"none"}, hash : Reading \cup {"none"}]]
      BY <2>5, <3>0, <2>s, <1>T DEF ReadSensor, GatewayTypeOK
    <3>3. gpc[g] # "idle" /\ Forward(g, "integrity")
            /\ UNCHANGED <<active, sensor, ledger, control, chain, server, answer>>
      BY <2>5 DEF ReadSensor, worldVars
    <3> QED BY <3>1, <3>3, <2>o
  <2>6. CASE CheckIntegrity(g)
    <3>1. "INTEGRITY_PASSED" \in Passing /\ "INTEGRITY_REJECTED" \in GatewayPc /\ "REJECTED" \in Status5
      BY DEF GatewayPc, Stage, Passing, Status5
    <3>2. gpc[g] # "idle" /\ UNCHANGED <<worldVars, ledger, control, seen, chain, server>>
      BY <2>6 DEF CheckIntegrity
    <3> QED BY <2>6, <3>1, <3>2, <2>q, <2>r DEF CheckIntegrity, LogThenRespond
  <2>7. CASE Validate(g)
    <3>1. "SAFETY_PASSED" \in Passing /\ "SAFETY_UNSAFE" \in GatewayPc /\ "UNSAFE" \in Status5
      BY DEF GatewayPc, Stage, Passing, Status5
    <3>2. gpc[g] # "idle" /\ UNCHANGED <<worldVars, ledger, control, seen, chain, server>>
      BY <2>7 DEF Validate
    <3> QED BY <2>7, <3>1, <3>2, <2>q, <2>r DEF Validate, LogThenRespond
  <2>p. ASSUME NEW th \in Thread, NEW o, NEW w \in {"prepare_wait", "commit_wait", "abort_wait"},
               gpc[g] # "idle", Post(g, th, o, w), w = "abort_wait" => answer[g] # "none"
        PROVE  GInv'
    <3>1. w \in GatewayPc \ {"idle"} /\ w \notin Stage BY DEF GatewayPc, Stage
    <3>2. server' \in [Submission -> Thread \cup {NoThread}]
      BY <2>p, <2>s DEF Post
    <3> QED BY <2>p, <3>1, <3>2, <2>s, <2>a, GInvMove DEF Post, worldVars
  <2>8. CASE SendPrepare(g)
    BY <2>8, <2>p DEF SendPrepare
  <2>9. CASE PrepareInjected(g)
    <3>1. "PREPARE_LOCK_DENIED" \in GatewayPc /\ "ABORTED" \in Status5
      BY DEF GatewayPc, Stage, Status5
    <3>2. gpc[g] # "idle" /\ UNCHANGED <<worldVars, ledger, control, seen, chain, server>>
      BY <2>9 DEF PrepareInjected
    <3> QED BY <2>9, <3>1, <3>2, <2>r DEF PrepareInjected, LogThenRespond
  <2>10. CASE PrepareReply(g)
    <3>1. "PREPARE_LOCK_GRANTED" \in Passing /\ "PREPARE_LOCK_DENIED" \in GatewayPc
             /\ "ABORTED" \in Status5
      BY DEF GatewayPc, Stage, Passing, Status5
    <3>2. gpc[g] # "idle" /\ UNCHANGED <<worldVars, ledger, control, seen, chain>>
             /\ server' = [server EXCEPT ![g] = NoThread]
      BY <2>10 DEF PrepareReply, TakeReply
    <3>3. \/ Forward(g, "PREPARE_LOCK_GRANTED") /\ UNCHANGED answer
          \/ Forward(g, "PREPARE_LOCK_DENIED") /\ answer' = [answer EXCEPT ![g] = "ABORTED"]
      BY <2>10 DEF PrepareReply, LogThenRespond
    <3> QED BY <3>1, <3>2, <3>3, <2>q, <2>r
  <2>11. CASE Reverify(g)
    <3>1. "REVERIFY_PASSED" \in Passing /\ "abort" \in GatewayPc /\ "ABORTED" \in Status5
      BY DEF GatewayPc, Stage, Passing, Status5
    <3>2. gpc[g] # "idle" /\ UNCHANGED <<worldVars, ledger, control, seen, chain, server>>
      BY <2>11 DEF Reverify
    <3>3. \/ Forward(g, "REVERIFY_PASSED") /\ UNCHANGED answer
          \/ Forward(g, "abort") /\ answer' = [answer EXCEPT ![g] = "ABORTED"]
      BY <2>11 DEF Reverify, AbortFor
    <3> QED BY <3>1, <3>2, <3>3, <2>q, <2>r
  <2>12. CASE SendCommit(g)
    BY <2>12, <2>p DEF SendCommit
  <2>13. CASE CommitInjected(g)
    <3>1. {"COMMIT_TIMEOUT", "COMMIT_FAILED", "abort"} \subseteq GatewayPc \ {"idle"}
             /\ {"ABORTED", "ERROR"} \subseteq Status5
      BY DEF GatewayPc, Stage, Status5
    <3> QED BY <2>13, <3>1, <2>r DEF CommitInjected, LogThenRespond, AbortFor
  <2>14. CASE CommitReply(g)
    <3>1. {"COMMIT_TIMEOUT", "COMMIT_FAILED", "COMMIT_ACK", "abort"} \subseteq GatewayPc \ {"idle"}
             /\ {"ABORTED", "ERROR", "COMMITTED"} \subseteq Status5
      BY DEF GatewayPc, Stage, Status5
    <3>2. gpc[g] = "commit_wait" /\ UNCHANGED <<worldVars, ledger, control, seen, chain>>
             /\ server' = [server EXCEPT ![g] = NoThread]
      BY <2>14 DEF CommitReply, TakeReply
    <3>3. \E p \in {"COMMIT_TIMEOUT", "COMMIT_FAILED", "COMMIT_ACK", "abort"},
             a \in {"ABORTED", "ERROR", "COMMITTED"} :
                Forward(g, p) /\ answer' = [answer EXCEPT ![g] = a]
      BY <2>14 DEF CommitReply, LogThenRespond, AbortFor
    <3> QED BY <3>1, <3>2, <3>3, <2>r
  <2>15. CASE SendAbort(g)
    BY <2>15, <2>p, <1>T DEF SendAbort, Settled
  <2>16. CASE AbortReply(g)
    <3>1. {"REVERIFY_FAILED", "COMMIT_ERROR", "done"} \subseteq GatewayPc \ {"idle"}
             /\ "ERROR" \in Status5
      BY DEF GatewayPc, Stage, Status5
    <3>2. gpc[g] = "abort_wait" /\ UNCHANGED <<worldVars, ledger, control, seen, chain>>
             /\ server' = [server EXCEPT ![g] = NoThread]
      BY <2>16 DEF AbortReply, TakeReply
    <3>3. CASE Forward(g, IF answer[g] = "ABORTED" THEN "REVERIFY_FAILED" ELSE "COMMIT_ERROR")
                 /\ UNCHANGED answer
      <4>1. answer[g] # "none" BY <3>2, <1>T DEF Settled
      <4>2. PICK p \in {"REVERIFY_FAILED", "COMMIT_ERROR"} : Forward(g, p)
        BY <3>3
      <4> QED BY <3>1, <3>2, <3>3, <4>1, <4>2, <2>a, <2>s, <2>n, GInvMove DEF worldVars
    <3>4. CASE Respond(g, "ERROR")
      BY <3>1, <3>2, <3>4, <2>r DEF Respond
    <3> QED BY <2>16, <3>3, <3>4 DEF AbortReply
  <2>17. CASE CallFails(g)
    <3>1. {"abort", "done"} \subseteq GatewayPc \ {"idle"} /\ "ERROR" \in Status5
      BY DEF GatewayPc, Status5
    <3>2. gpc[g] # "idle" /\ UNCHANGED <<worldVars, ledger, control, seen, chain>>
             /\ server' = [server EXCEPT ![g] = NoThread]
      BY <2>17 DEF CallFails, Calling
    <3> QED BY <2>17, <3>1, <3>2, <2>r DEF CallFails, AbortFor, Respond
  <2> QED
    BY <1>1, <2>1, <2>2, <2>3, <2>4, <2>5, <2>6, <2>7, <2>8, <2>9, <2>10, <2>11, <2>12,
       <2>13, <2>14, <2>15, <2>16, <2>17 DEF Pipeline
<1>2. ASSUME NEW g \in Submission, NEW t \in Tx, NEW a \in Asset, NEW p \in Policy,
             NEW r \in Reading, NEW f \in Injection, Submit(g, t, a, p, r, f)
      PROVE  GInv'
  <2> DEFINE c == [tx |-> t, asset |-> a, policy |-> p, hash |-> r, fault |-> f]
  <2>1. c \in [tx : Tx \cup {NoTx}, asset : Asset \cup {NoAsset}, policy : Policy \cup {"none"},
               hash : Reading \cup {"none"}, fault : Injection \cup {"none"}]
          /\ c.tx \in Tx /\ c.asset \in Asset
    OBVIOUS
  <2>2. control' = [control EXCEPT ![g] = c] /\ gpc' = [gpc EXCEPT ![g] = "RECEIVED"]
          /\ UNCHANGED <<active, sensor, ledger, seen, chain, server, answer>>
    BY <1>2 DEF Submit, Forward, worldVars
  <2>3. "RECEIVED" \in GatewayPc /\ "RECEIVED" \in Passing
    BY DEF GatewayPc, Stage, Passing
  <2> HIDE DEF c
  <2>4. GatewayTypeOK'
    BY <2>1, <2>2, <2>3, <1>T DEF GatewayTypeOK
  <2>5. Settled'
    BY <2>1, <2>2, <2>3, <1>T DEF GatewayTypeOK, Settled
  <2> QED BY <2>4, <2>5 DEF GInv
<1>3. CASE \E p \in Policy : Activate(p)
  BY <1>3, <1>T, GInvOutside DEF Activate, gatewayVars, GatewayTypeOK
<1>4. CASE \E a \in Asset, r \in Reading : SensorMoves(a, r)
  BY <1>4, <1>T, GInvOutside DEF SensorMoves, gatewayVars, GatewayTypeOK
<1>5. CASE GatewayCrash
  <2>1. UNCHANGED <<control, chain, seen, ledger, active, sensor>>
          /\ server' = [g \in Submission |-> NoThread]
    BY <1>5 DEF GatewayCrash, worldVars
  <2> QED BY <1>5, <2>1, <1>T, GInvOutside DEF GatewayTypeOK
<1>6. CASE OTStep
  <2>1. UNCHANGED <<control, chain, seen, ledger, active, sensor, gpc, answer>>
          /\ (server' = server \/ server' = [g \in Submission |-> NoThread])
    BY <1>6 DEF OTStep, worldVars
  <2> QED BY <2>1, <1>T, GInvOutside DEF GatewayTypeOK
<1>7. CASE UNCHANGED allVars
  BY <1>7, <1>T, GInvOutside DEF allVars, worldVars, gatewayVars, GatewayTypeOK
<1> QED BY <1>1, <1>2, <1>3, <1>4, <1>5, <1>6, <1>7 DEF GatewayNext

\* Every gateway variable stays in its range, for any number of submissions,
\* transactions, assets and threads (routes.py of the Gateway).
THEOREM GatewayTypeCorrect == GatewaySpec => []GatewayTypeOK
<1>1. GInv => GatewayTypeOK BY DEF GInv
<1> QED BY <1>1, GInvInit, GInvStep, PTL DEF GatewaySpec

-----------------------------------------------------------------------------
(***************************************************************************)
(* Refinement.  The OT Interface's variables are changed by Post, TakeReply *)
(* and OTStep only, and each of these is a step of OTInterface's Next.     *)
(***************************************************************************)
LEMMA OTSimulated == GInv /\ [GatewayNext]_allVars => [Next]_vars
<1> SUFFICES ASSUME GInv, [GatewayNext]_allVars PROVE [Next]_vars
  OBVIOUS
<1>T. GatewayTypeOK /\ Settled BY DEF GInv
<1>1. ASSUME NEW g \in Submission, Pipeline(g) PROVE [Next]_vars
  <2>p. ASSUME NEW th \in Thread, NEW o \in {"prepare", "commit", "abort"}, NEW w,
               gpc[g] # "idle", Post(g, th, o, w)
        PROVE  Next
    <3>1. control[g].tx \in Tx /\ control[g].asset \in Asset
      BY <2>p, <1>T DEF Settled
    <3>2. Request(th, o, control[g].tx, control[g].asset)
      BY <2>p DEF Post
    <3> QED BY <3>1, <3>2 DEF Next
  <2>t. ASSUME TakeReply(g) PROVE Next
    <3>1. server[g] \in Thread /\ Return(server[g])
      BY <2>t, <1>T DEF TakeReply, GatewayTypeOK
    <3> QED BY <3>1 DEF Next, Step
  <2>1. CASE SendPrepare(g) BY <2>1, <2>p DEF SendPrepare
  <2>2. CASE SendCommit(g) BY <2>2, <2>p DEF SendCommit
  <2>3. CASE SendAbort(g) BY <2>3, <2>p DEF SendAbort
  <2>4. CASE PrepareReply(g) BY <2>4, <2>t DEF PrepareReply
  <2>5. CASE CommitReply(g) BY <2>5, <2>t DEF CommitReply
  <2>6. CASE AbortReply(g) BY <2>6, <2>t DEF AbortReply
  <2>7. CASE Log(g) \/ LogFails(g) \/ ServiceFails(g) \/ ReadPolicy(g) \/ ReadSensor(g)
    BY <2>7 DEF Log, LogFails, ServiceFails, ReadPolicy, ReadSensor
  <2>8. CASE CheckIntegrity(g) \/ Validate(g) \/ PrepareInjected(g) \/ Reverify(g)
    BY <2>8 DEF CheckIntegrity, Validate, PrepareInjected, Reverify
  <2>9. CASE CommitInjected(g) \/ CallFails(g)
    BY <2>9 DEF CommitInjected, CallFails
  <2> QED
    BY <1>1, <2>1, <2>2, <2>3, <2>4, <2>5, <2>6, <2>7, <2>8, <2>9 DEF Pipeline
<1>2. CASE OTStep
  <2>1. CASE \E th \in Thread : Step(th) \/ DbError(th)
    BY <2>1 DEF Next
  <2>2. CASE \E th \in Thread, a \in Asset : Request(th, "estop", NoTx, a)
    BY <2>2 DEF Next
  <2>3. CASE \/ \E c \in late : LateWrite(c)
             \/ Tick
             \/ Crash
    BY <2>3 DEF Next
  <2> QED BY <1>2, <2>1, <2>2, <2>3 DEF OTStep
<1>3. CASE \E g \in Submission, t \in Tx, a \in Asset, p \in Policy, r \in Reading,
              f \in Injection : Submit(g, t, a, p, r, f)
  BY <1>3 DEF Submit
<1>4. CASE \/ \E p \in Policy : Activate(p)
           \/ \E a \in Asset, r \in Reading : SensorMoves(a, r)
           \/ GatewayCrash
  BY <1>4 DEF Activate, SensorMoves, GatewayCrash
<1>5. CASE UNCHANGED allVars
  BY <1>5 DEF allVars
<1> QED BY <1>1, <1>2, <1>3, <1>4, <1>5 DEF GatewayNext

\* The composition implements the OT Interface: whatever the pipelines,
\* their retries, time-outs and crashes do, the OT Interface sees only calls
\* and returns its specification allows (routes.py of both services).
THEOREM GatewayImplementsOTInterface == GatewaySpec => ImplementsOTInterface
<1>1. GatewayInit => Init BY DEF GatewayInit
<1> QED BY <1>1, GInvInit, GInvStep, OTSimulated, PTL DEF GatewaySpec, ImplementsOTInterface, Spec

\* What is proved of the OT Interface therefore holds behind the gateway.
THEOREM OTGuaranteesBehindGateway ==
  GatewaySpec => /\ []CommittedOnlyAfterExecution
                 /\ []NoExecAfterTerminal
                 /\ []OnlyPreparedReachDevice
                 /\ []SafeStateBeforeAnswer
                 /\ []ExclusiveUnlessRaced
                 /\ NeverRelocked
BY GatewayImplementsOTInterface, CommittedOnlyAfterExecutionHolds, NoExecAfterTerminalHolds,
   OnlyPreparedReachDeviceHolds, SafeStateBeforeAnswerHolds, ExclusiveUnlessRacedHolds,
   NeverRelockedHolds, PTL DEF ImplementsOTInterface

-----------------------------------------------------------------------------
(***************************************************************************)
(* The hash chain.  ChainValid quantifies over the greatest row below a    *)
(* row, which no step of the code looks at; the inductive form names the   *)
(* row a pipeline stands on instead.                                       *)
(***************************************************************************)
\* A row of t commits to exactly the rows below it, and its predecessor exists.
RowOK(t, e) ==
    /\ e.seq = Len(e.prev)
    /\ e.hash = Append(e.prev, e.stage)
    /\ e.seq > 0 => \E d \in ledger[t] : d.seq = e.seq - 1 /\ d.hash = e.prev

RowsOK == \A t \in Tx : \A e \in ledger[t] : RowOK(t, e)
UniqueSeq == \A t \in Tx : \A d, e \in ledger[t] : d.seq = e.seq => d = e

\* The last event a pipeline logged is in the ledger, so its prev_hash is real.
OnRecord(g) ==
    Len(chain[g]) > 0 => \E d \in ledger[control[g].tx] :
                            d.seq = Len(chain[g]) - 1 /\ d.hash = chain[g]

ChainInv == RowsOK /\ UniqueSeq /\ \A g \in Submission : OnRecord(g)

\* All chains are empty at first.
LEMMA ChainInvInit == GatewayInit => ChainInv
<1> SUFFICES ASSUME GatewayInit PROVE ChainInv
  OBVIOUS
<1>1. \A t \in Tx : ledger[t] = {} BY DEF GatewayInit
<1>2. \A g \in Submission : Len(chain[g]) = 0 BY DEF GatewayInit, GenesisHash
<1> QED BY <1>1, <1>2 DEF ChainInv, RowsOK, UniqueSeq, OnRecord

\* Storing the next event of pipeline g keeps the rows in order.
LEMMA StoredChain ==
  ASSUME GInv, ChainInv, NEW g \in Submission, gpc[g] \in Stage, Stored(g)
  PROVE  /\ RowsOK' /\ UniqueSeq'
         /\ \A t \in Tx : ledger[t] \subseteq ledger'[t]
         /\ \E e \in ledger'[control[g].tx] :
               e.seq = Len(chain[g]) /\ e.hash = Append(chain[g], gpc[g])
<1>1. control[g].tx \in Tx
  BY DEF GInv, Settled, Stage
<1>2. chain[g] \in Seq(Stage) /\ Len(chain[g]) \in Nat
  BY DEF GInv, GatewayTypeOK
<1> DEFINE t0 == control[g].tx
           e0 == [seq |-> Len(chain[g]), stage |-> gpc[g], prev |-> chain[g],
                  hash |-> Append(chain[g], gpc[g])]
<1>3. ledger' = [ledger EXCEPT ![t0] = @ \cup {e0}] /\ (\A d \in ledger[t0] : d.seq # Len(chain[g]))
  BY DEF Stored, EventHash, Rows
<1>4. e0.seq = Len(chain[g]) /\ e0.prev = chain[g] /\ e0.hash = Append(e0.prev, e0.stage)
        /\ e0.hash = Append(chain[g], gpc[g])
  OBVIOUS
<1>5. e0.seq > 0 => \E d \in ledger[t0] : d.seq = e0.seq - 1 /\ d.hash = e0.prev
  BY <1>4 DEF ChainInv, OnRecord
<1>t. t0 \in Tx BY <1>1
<1> HIDE DEF t0, e0
<1>6. /\ \A t \in Tx : ledger[t] \subseteq ledger'[t]
      /\ \A t \in Tx : \A e \in ledger'[t] : e \in ledger[t] \/ (t = t0 /\ e = e0)
      /\ e0 \in ledger'[t0]
  BY <1>3, <1>t DEF GInv, GatewayTypeOK
<1>7. RowsOK'
  <2> SUFFICES ASSUME NEW t \in Tx, NEW e \in ledger'[t]
               PROVE  /\ e.seq = Len(e.prev)
                      /\ e.hash = Append(e.prev, e.stage)
                      /\ e.seq > 0 => \E d \in ledger'[t] : d.seq = e.seq - 1 /\ d.hash = e.prev
    BY DEF RowsOK, RowOK
  <2>1. CASE e \in ledger[t]
    <3>1. RowOK(t, e) BY <2>1 DEF ChainInv, RowsOK
    <3> QED BY <3>1, <1>6 DEF RowOK
  <2>2. CASE t = t0 /\ e = e0
    BY <2>2, <1>4, <1>5, <1>6
  <2> QED BY <2>1, <2>2, <1>6
<1>8. UniqueSeq'
  <2> SUFFICES ASSUME NEW t \in Tx, NEW d \in ledger'[t], NEW e \in ledger'[t], d.seq = e.seq
               PROVE  d = e
    BY DEF UniqueSeq
  <2>1. CASE d \in ledger[t] /\ e \in ledger[t]
    BY <2>1 DEF ChainInv, UniqueSeq
  <2>2. CASE t = t0 /\ (d = e0 \/ e = e0)
    BY <2>2, <1>3, <1>4, <1>6
  <2> QED BY <2>1, <2>2, <1>6
<1> QED BY <1>4, <1>6, <1>7, <1>8 DEF t0

\* The chain invariant is kept by every step.
LEMMA ChainInvStep == GInv /\ ChainInv /\ [GatewayNext]_allVars => ChainInv'
<1> SUFFICES ASSUME GInv, ChainInv, [GatewayNext]_allVars PROVE ChainInv'
  OBVIOUS
<1>T. GatewayTypeOK /\ Settled BY DEF GInv
<1>u. ASSUME UNCHANGED <<ledger, chain, control>> PROVE ChainInv'
  BY <1>u DEF ChainInv, RowsOK, RowOK, UniqueSeq, OnRecord
<1>g. ASSUME NEW g \in Submission, gpc[g] \in Stage, Stored(g), UNCHANGED control,
             chain' = chain \/ chain' = [chain EXCEPT ![g] = EventHash(@, gpc[g])]
      PROVE  ChainInv'
  <2>1. /\ RowsOK' /\ UniqueSeq'
        /\ \A t \in Tx : ledger[t] \subseteq ledger'[t]
    BY <1>g, StoredChain
  <2>2. PICK e \in ledger'[control[g].tx] : e.seq = Len(chain[g]) /\ e.hash = Append(chain[g], gpc[g])
    BY <1>g, StoredChain
  <2>3. chain \in [Submission -> Seq(Stage)]
    BY <1>T DEF GatewayTypeOK
  <2>4. ASSUME NEW h \in Submission PROVE OnRecord(h)'
    <3>1. CASE chain'[h] = chain[h]
      <4>1. SUFFICES ASSUME Len(chain[h]) > 0
                     PROVE  \E d \in ledger'[control[h].tx] :
                               d.seq = Len(chain[h]) - 1 /\ d.hash = chain[h]
        BY <3>1, <1>g DEF OnRecord
      <4>2. gpc[h] # "idle"
        BY <4>1, <1>T DEF Settled, GenesisHash
      <4>3. control[h].tx \in Tx BY <4>2, <1>T DEF Settled
      <4> QED BY <4>1, <4>3, <2>1 DEF ChainInv, OnRecord
    <3>2. CASE h = g /\ chain'[g] = Append(chain[g], gpc[g])
      <4>1. Len(chain'[g]) = Len(chain[g]) + 1 /\ Len(chain[g]) \in Nat
        BY <3>2, <2>3, <1>g
      <4>2. e.seq = Len(chain'[g]) - 1 /\ e.hash = chain'[g]
        BY <4>1, <3>2, <2>2
      <4> QED BY <3>2, <4>2, <1>g DEF OnRecord
    <3> QED BY <3>1, <3>2, <1>g, <2>3 DEF EventHash
  <2> QED BY <2>1, <2>4 DEF ChainInv
<1>1. ASSUME NEW g \in Submission, Pipeline(g) PROVE ChainInv'
  <2>1. CASE Log(g) BY <2>1, <1>g DEF Log
  <2>2. CASE LogFails(g) BY <2>2, <1>g, <1>u DEF LogFails
  <2>3. CASE ServiceFails(g) \/ ReadPolicy(g) \/ ReadSensor(g) \/ CheckIntegrity(g) \/ Validate(g)
    BY <2>3, <1>u DEF ServiceFails, ReadPolicy, ReadSensor, CheckIntegrity, Validate
  <2>4. CASE SendPrepare(g) \/ PrepareInjected(g) \/ PrepareReply(g) \/ Reverify(g)
    BY <2>4, <1>u DEF SendPrepare, Post, PrepareInjected, PrepareReply, Reverify
  <2>5. CASE SendCommit(g) \/ CommitInjected(g) \/ CommitReply(g)
    BY <2>5, <1>u DEF SendCommit, Post, CommitInjected, CommitReply
  <2>6. CASE SendAbort(g) \/ AbortReply(g) \/ CallFails(g)
    BY <2>6, <1>u DEF SendAbort, Post, AbortReply, CallFails
  <2> QED BY <1>1, <2>1, <2>2, <2>3, <2>4, <2>5, <2>6 DEF Pipeline
<1>2. ASSUME NEW g \in Submission, NEW t \in Tx, NEW a \in Asset, NEW p \in Policy,
             NEW r \in Reading, NEW f \in Injection, Submit(g, t, a, p, r, f)
      PROVE  ChainInv'
  <2>1. UNCHANGED <<ledger, chain>> BY <1>2 DEF Submit
  <2>2. Len(chain[g]) = 0 BY <1>2, <1>T DEF Submit, Settled, GenesisHash
  <2>3. \A h \in Submission : h # g => control'[h] = control[h]
    BY <1>2, <1>T DEF Submit, GatewayTypeOK
  <2>4. \A h \in Submission : OnRecord(h)'
    BY <2>1, <2>2, <2>3 DEF ChainInv, OnRecord
  <2>5. RowsOK' /\ UniqueSeq'
    BY <2>1 DEF ChainInv, RowsOK, RowOK, UniqueSeq
  <2> QED BY <2>4, <2>5 DEF ChainInv
<1>3. CASE \/ \E p \in Policy : Activate(p)
           \/ \E a \in Asset, r \in Reading : SensorMoves(a, r)
           \/ GatewayCrash \/ OTStep
  BY <1>3, <1>u DEF Activate, SensorMoves, GatewayCrash, OTStep, gatewayVars
<1>4. CASE UNCHANGED allVars
  BY <1>4, <1>u DEF allVars, gatewayVars
<1> QED BY <1>1, <1>2, <1>3, <1>4 DEF GatewayNext

\* The inductive form gives what verify_chain recomputes.
LEMMA ChainInvValid == GInv /\ ChainInv => ChainValid
<1> SUFFICES ASSUME GInv, ChainInv, NEW t \in Tx, NEW e \in ledger[t]
             PROVE  LET before == {d \in ledger[t] : d.seq < e.seq}
                    IN /\ e.hash = EventHash(e.prev, e.stage)
                       /\ before = {} => e.prev = GenesisHash
                       /\ \A d \in before : (\A b \in before : b.seq <= d.seq) => e.prev = d.hash
  BY DEF ChainValid, VerifyChain, ChainInv, UniqueSeq
<1> DEFINE before == {d \in ledger[t] : d.seq < e.seq}
<1>1. RowOK(t, e) BY DEF ChainInv, RowsOK
<1>2. \A d \in ledger[t] : d.seq \in Nat /\ d.prev \in Seq(Stage)
  BY DEF GInv, GatewayTypeOK, Event
<1>3. before = {} => e.prev = GenesisHash
  <2> SUFFICES ASSUME before = {} PROVE e.prev = <<>>
    BY DEF GenesisHash
  <2>1. ~(e.seq > 0)
    <3> SUFFICES ASSUME e.seq > 0 PROVE FALSE
      OBVIOUS
    <3>1. PICK d \in ledger[t] : d.seq = e.seq - 1 BY <1>1 DEF RowOK
    <3>2. d.seq < e.seq BY <3>1, <1>2
    <3> QED BY <3>2
  <2>2. Len(e.prev) = 0 /\ e.prev \in Seq(Stage) BY <2>1, <1>1, <1>2 DEF RowOK
  <2> QED BY <2>2
<1>4. ASSUME NEW d \in before, \A b \in before : b.seq <= d.seq PROVE e.prev = d.hash
  <2>1. e.seq > 0 BY <1>4, <1>2
  <2>2. PICK b \in ledger[t] : b.seq = e.seq - 1 /\ b.hash = e.prev BY <2>1, <1>1 DEF RowOK
  <2>3. b \in before BY <2>2, <1>2
  <2>4. b.seq = d.seq BY <2>2, <2>3, <1>2, <1>4
  <2>5. b = d BY <2>4 DEF ChainInv, UniqueSeq
  <2> QED BY <2>2, <2>5
<1> QED BY <1>1, <1>3, <1>4 DEF RowOK, EventHash

\* The evidence chain of every transaction verifies at all times, for any
\* number of racing submissions, lost ledger replies and crashes
\* (_log_evidence of the Gateway; repository.py of the Evidence Ledger).
THEOREM ChainValidHolds == GatewaySpec => []ChainValid
BY GInvInit, GInvStep, ChainInvInit, ChainInvStep, ChainInvValid, PTL DEF GatewaySpec

-----------------------------------------------------------------------------
(***************************************************************************)
(* What a submission comes to: nothing is executed without its approval    *)
(* on record, nothing twice, and the answer a client gets is what the OT   *)
(* Interface did.                                                          *)
(*                                                                         *)
(* The argument: the first evidence row of a transaction lets one pipeline *)
(* in, its owner; only the owner calls the OT Interface for it, and COMMIT *)
(* at most once; and as long as the owner has not lost track of a call,    *)
(* which always ends in ERROR or HTTP 500, the handler it waits for is the *)
(* only one that works on the transaction.                                 *)
(***************************************************************************)

-----------------------------------------------------------------------------
(***************************************************************************)
(* The OT Interface's side.                                                *)
(***************************************************************************)
Acks == {"ACK", "ALREADY_COMMITTED"}
Early == {"ready_tx", "ready_lock", "execute"}

\* What a handler is doing fits the request it serves, and only an answer
\* that is finished confirms a commit.
Role(th) ==
    /\ pc[th] \in PreparePc => op[th] = "prepare"
    /\ pc[th] \in CommitPc => op[th] = "commit"
    /\ pc[th] \in AbortPc => op[th] \in {"commit", "abort"}
    /\ pc[th] # "done" => resp[th].status \notin Acks
    /\ pc[th] = "idle" => tx[th] = NoTx /\ op[th] = "none"

Roles == \A th \in Thread : Role(th)

\* The handlers that work on t, and those that were asked to commit it.
On(t) == {th \in Thread : tx[th] = t}
Committing(t) == {th \in On(t) : op[th] = "commit"}

-----------------------------------------------------------------------------
(***************************************************************************)
(* The gateway's side.  A pipeline that logged its first event owns its    *)
(* transaction.                                                            *)
(***************************************************************************)
Approval == <<"RECEIVED", "SCHEMA_VALIDATED", "INTEGRITY_PASSED", "SAFETY_PASSED",
              "PREPARE_LOCK_GRANTED", "REVERIFY_PASSED">>

\* How many events a pipeline has logged at each place.
Depth(g) ==
    /\ gpc[g] \in {"idle", "RECEIVED"} => Len(chain[g]) = 0
    /\ gpc[g] = "SCHEMA_VALIDATED" => Len(chain[g]) = 1
    /\ gpc[g] \in {"policy", "sensor", "integrity", "INTEGRITY_REJECTED", "INTEGRITY_PASSED"}
       => Len(chain[g]) = 2
    /\ gpc[g] \in {"safety", "SAFETY_UNSAFE", "SAFETY_PASSED"} => Len(chain[g]) = 3
    /\ gpc[g] \in {"prepare", "prepare_wait", "PREPARE_LOCK_DENIED", "PREPARE_LOCK_GRANTED"}
       => Len(chain[g]) = 4
    /\ gpc[g] \in {"reverify", "REVERIFY_FAILED", "REVERIFY_PASSED"} => Len(chain[g]) = 5
    /\ gpc[g] \in {"commit", "commit_wait", "COMMIT_ERROR", "COMMIT_FAILED", "COMMIT_TIMEOUT",
                   "COMMIT_ACK"} => Len(chain[g]) = 6
    /\ gpc[g] \in {"abort", "abort_wait"} =>
          \/ answer[g] = "ABORTED" /\ Len(chain[g]) = 5
          \/ answer[g] = "ERROR" /\ Len(chain[g]) = 6

\* The answer is settled only where the pipeline ends or aborts.
Ending(g) ==
    answer[g] # "none" => gpc[g] \in (Stage \ Passing) \cup {"abort", "abort_wait", "done"}

\* A pipeline on its way has the steps of its approval on record.
OnTrack(g) ==
    gpc[g] # "done" =>
        \A i \in 1..6 : i <= Len(chain[g]) => Approval[i] \in Stages(control[g].tx)

Approved(t) == \A i \in 1..6 : Approval[i] \in Stages(t)

Owner(g, t) == control[g].tx = t /\ Len(chain[g]) > 0

\* The first row of a transaction lets one pipeline in.
OneOwner ==
    /\ \A g \in Submission :
          Len(chain[g]) > 0 => \E e \in ledger[control[g].tx] : e.seq = 0
    /\ \A g, h \in Submission :
          Len(chain[g]) > 0 /\ Len(chain[h]) > 0 /\ control[g].tx = control[h].tx => g = h

\* The handler a pipeline waits for serves its call.
Served(g) ==
    /\ server[g] # NoThread =>
          /\ Len(chain[g]) > 0
          /\ tx[server[g]] = control[g].tx
          /\ pc[server[g]] # "idle"
          /\ \/ gpc[g] = "prepare_wait" /\ op[server[g]] = "prepare"
             \/ gpc[g] = "commit_wait" /\ op[server[g]] = "commit"
             \/ gpc[g] = "abort_wait" /\ op[server[g]] = "abort"

\* The COMMIT of the owner is sent.
Spent(g) == Len(chain[g]) >= 6 /\ gpc[g] # "commit"

\* Only an owner contacts the OT Interface, and only one that has its whole
\* approval on record asks for a commit, once.
Contacts(t) ==
    /\ On(t) # {} => \E g \in Submission : Owner(g, t)
    /\ t \in executed \/ Committing(t) # {} =>
          Approved(t) /\ \E g \in Submission : Owner(g, t) /\ Spent(g)
    /\ \A th, u \in Committing(t) : th = u
    /\ \A th \in Committing(t) : pc[th] \in Early => t \notin executed

\* A pipeline that lost track of no call has no other handler at work.
Clean(g) ==
    Len(chain[g]) > 0 /\ answer[g] \notin {"ERROR", "HTTP_500"} =>
        On(control[g].tx) \subseteq {server[g]}

\* The answer agrees with the row of the transaction.
Outcome(g) ==
    /\ answer[g] \in {"REJECTED", "UNSAFE", "ABORTED"} =>
          Len(chain[g]) > 0 /\ status[control[g].tx] # "COMMITTED"
    /\ gpc[g] = "COMMIT_ACK" => answer[g] = "COMMITTED"
    /\ answer[g] = "COMMITTED" =>
          /\ Len(chain[g]) > 0
          /\ status[control[g].tx] = "COMMITTED"
          /\ gpc[g] \in {"COMMIT_ACK", "done"}
          /\ gpc[g] = "done" => "COMMIT_ACK" \in Stages(control[g].tx)
    /\ gpc[g] = "commit_wait" /\ server[g] # NoThread =>
          (status[control[g].tx] = "COMMITTED" <=> resp[server[g]].status \in Acks)

\* A commit on record is over: its owner is done and no handler is left.
Closed(t) ==
    "COMMIT_ACK" \in Stages(t) =>
        /\ status[t] = "COMMITTED"
        /\ On(t) = {}
        /\ \E g \in Submission : Owner(g, t) /\ gpc[g] = "done"

PipelineInv(g) ==
    Depth(g) /\ Ending(g) /\ OnTrack(g) /\ Served(g) /\ Clean(g) /\ Outcome(g)

OutInv ==
    /\ OneOwner
    /\ \A g \in Submission : PipelineInv(g)
    /\ \A t \in Tx : Contacts(t) /\ Closed(t)

-----------------------------------------------------------------------------
(***************************************************************************)
(* What a step of the OT Interface does to a transaction.                  *)
(***************************************************************************)
\* A step of the handler in th before it has answered: only a commit handler
\* makes a row COMMITTED, its own, and it does so exactly when it confirms
\* the commit; another row may at most go from LOCKED to ABORTED.
Effect(th) ==
    /\ tx' = tx /\ op' = op
    /\ pc'[th] # "idle"
    /\ Role(th)'
    /\ \A t \in Tx : t # tx[th] => (status'[t] = "COMMITTED" <=> status[t] = "COMMITTED")
    /\ op[th] # "commit" => \A t \in Tx : status'[t] = "COMMITTED" => status[t] = "COMMITTED"
    /\ op[th] = "commit" /\ tx[th] \in Tx =>
          \/ status[tx[th]] = "COMMITTED"
          \/ status'[tx[th]] = "COMMITTED" <=> resp'[th].status \in Acks
    /\ \/ executed' = executed
       \/ pc[th] = "execute" /\ pc'[th] = "finalize_tx" /\ executed' = executed \cup {tx[th]}
    /\ pc'[th] \in Early => pc[th] \in Early

\* Every step of a handler but its return has that effect.
LEMMA HandlerEffect ==
  ASSUME Base, NEW th \in Thread, Role(th), Step(th) \/ DbError(th), pc[th] # "done"
  PROVE  Effect(th)
<1> USE DEF Effect, Role, Base, TypeOK, CallsOK, Acks, Early, Reply, Goto, Response, tableVars, histVars
<1>1. CASE PrepareReadLock(th)
  BY <1>1 DEF PrepareReadLock, Denied, PreparePc, CommitPc, AbortPc
<1>2. CASE PrepareReadTx(th)
  BY <1>2 DEF PrepareReadTx, Denied, PreparePc, CommitPc, AbortPc
<1>3. CASE PrepareExtend(th)
  BY <1>3 DEF PrepareExtend, ExtendLock, Granted, PreparePc, CommitPc, AbortPc
<1>4. CASE PrepareCreate(th)
  BY <1>4 DEF PrepareCreate, CreateLock, Granted, Denied, PreparePc, CommitPc, AbortPc
<1>5. CASE ReadyReadTx(th)
  BY <1>5 DEF ReadyReadTx, Mine, PreparePc, CommitPc, AbortPc
<1>6. CASE ReadyReadLock(th)
  BY <1>6 DEF ReadyReadLock, PreparePc, CommitPc, AbortPc
<1>7. CASE ExecuteSucceeds(th)
  BY <1>7 DEF ExecuteSucceeds, PreparePc, CommitPc, AbortPc
<1>8. CASE ExecuteFails(th)
  BY <1>8 DEF ExecuteFails, PreparePc, CommitPc, AbortPc
<1>9. CASE FinalizeReadTx(th)
  BY <1>9 DEF FinalizeReadTx, Mine, PreparePc, CommitPc, AbortPc
<1>10. CASE FinalizeUpdate(th)
  BY <1>10 DEF FinalizeUpdate, UpdateStatus, PreparePc, CommitPc, AbortPc
<1>11. CASE AbortReadTx(th)
  BY <1>11 DEF AbortReadTx, SafeStateThen, AbortAnswer, Mine, PreparePc, CommitPc, AbortPc
<1>12. CASE AbortUpdate(th)
  BY <1>12 DEF AbortUpdate, UpdateStatus, SafeStateThen, AbortAnswer, PreparePc, CommitPc, AbortPc
<1>13. CASE EstopUpdate(th)
  BY <1>13 DEF EstopUpdate, AbortActiveLocksForAsset, LockedOn, SafeStateThen,
               PreparePc, CommitPc, AbortPc
<1>14. CASE SafeState(th)
  BY <1>14 DEF SafeState, PreparePc, CommitPc, AbortPc
<1>15. CASE DbError(th)
  BY <1>15 DEF DbError, Denied, SafeStateThen, AbortAnswer, PreparePc, CommitPc, AbortPc
<1>16. CASE Return(th)
  BY <1>16 DEF Return
<1> QED
  BY <1>1, <1>2, <1>3, <1>4, <1>5, <1>6, <1>7, <1>8, <1>9, <1>10, <1>11, <1>12, <1>13, <1>14,
     <1>15, <1>16 DEF Step

\* What a handler does fits its request, at all times.
LEMMA RolesStep == Base /\ Roles /\ [Next]_vars => Roles'
<1> SUFFICES ASSUME Base, Roles, [Next]_vars PROVE Roles'
  OBVIOUS
<1>T. TypeOK /\ CallsOK BY DEF Base
<1>o. ASSUME NEW o \in Thread, Idles(o) PROVE Role(o)'
  BY <1>o DEF Idles, Roles, Role
<1>1. ASSUME NEW th \in Thread, Step(th) \/ DbError(th) PROVE Roles'
  <2>1. ASSUME NEW o \in Thread \ {th} PROVE Role(o)'
    BY <1>1, <1>T, <1>o, OthersIdle
  <2>2. Role(th)'
    <3>1. CASE pc[th] # "done"
      BY <1>1, <3>1, HandlerEffect DEF Effect, Roles
    <3>2. CASE pc[th] = "done"
      <4>1. Return(th)
        BY <1>1, <3>2 DEF Step, PrepareReadLock, PrepareReadTx, PrepareExtend, PrepareCreate,
           ReadyReadTx, ReadyReadLock, ExecuteSucceeds, ExecuteFails, FinalizeReadTx,
           FinalizeUpdate, AbortReadTx, AbortUpdate, EstopUpdate, SafeState, DbError,
           PreparePc, CommitPc, AbortPc
      <4> QED BY <4>1, <1>T DEF Return, Goto, Role, TypeOK, NoResponse, Response, Acks,
                                PreparePc, CommitPc, AbortPc
    <3> QED BY <3>1, <3>2
  <2> QED BY <2>1, <2>2 DEF Roles
<1>2. ASSUME NEW th \in Thread, NEW o \in DOMAIN FirstPc, NEW u, NEW a, Request(th, o, u, a)
      PROVE  Roles'
  <2>1. Role(th)'
    BY <1>2, <1>T DEF Request, FirstPc, Goto, Role, TypeOK, CallsOK, Acks, PreparePc, CommitPc, AbortPc
  <2>2. ASSUME NEW v \in Thread \ {th} PROVE Role(v)'
    <3>1. Idles(v) BY <1>2, <1>T DEF Request, Goto, Idles, TypeOK
    <3> QED BY <3>1, <1>o
  <2> QED BY <2>1, <2>2 DEF Roles
<1>3. CASE (\E c \in late : LateWrite(c)) \/ Tick \/ UNCHANGED vars
  BY <1>3, <1>o DEF LateWrite, Tick, vars, callVars, Idles, Roles
<1>4. CASE Crash
  BY <1>4 DEF Crash, Roles, Role, NoResponse, Response, Acks, PreparePc, CommitPc, AbortPc
<1> QED BY <1>1, <1>2, <1>3, <1>4 DEF Next, FirstPc

\* No thread serves anything in the initial state.
LEMMA RolesInit == Init => Roles
BY DEF Init, Roles, Role, NoResponse, Response, Acks, PreparePc, CommitPc, AbortPc

-----------------------------------------------------------------------------
(***************************************************************************)
(* Steps of the OT Interface keep the invariant of the gateway.            *)
(***************************************************************************)
\* Thread th goes on with what it was doing, or is left alone.
Same(th) == pc'[th] = pc[th] /\ tx'[th] = tx[th] /\ op'[th] = op[th] /\ resp'[th] = resp[th]

\* What an owner's transaction is.
LEMMA OwnerTx ==
  ASSUME GInv, NEW g \in Submission, Len(chain[g]) > 0
  PROVE  gpc[g] # "idle" /\ control[g].tx \in Tx /\ Len(chain[g]) \in Nat
<1>1. gpc[g] # "idle"
  <2> SUFFICES ASSUME gpc[g] = "idle" PROVE FALSE
    OBVIOUS
  <2>1. Len(chain[g]) = 0 BY DEF GInv, Settled, GenesisHash
  <2> QED BY <2>1
<1>2. chain[g] \in Seq(Stage) BY DEF GInv, GatewayTypeOK
<1> QED BY <1>1, <1>2 DEF GInv, Settled

\* A pipeline that waits for nobody has no server.
LEMMA NoServer ==
  ASSUME NEW g \in Submission, Served(g),
         gpc[g] \notin {"prepare_wait", "commit_wait", "abort_wait"}
  PROVE  server[g] = NoThread
BY DEF Served

\* Handlers that return or die, the clock, late writes and E-STOP requests:
\* no row and no execution changes, and no handler joins a transaction.
LEMMA OTQuiet ==
  ASSUME Base, GInv, OutInv,
         UNCHANGED <<ledger, gpc, control, chain, answer, status, executed>>,
         \A th \in Thread : Same(th) \/ tx'[th] = NoTx,
         \/ /\ server' = server
            /\ \A g \in Submission : server[g] # NoThread => Same(server[g])
         \/ /\ server' = [g \in Submission |-> NoThread]
            /\ \A th \in Thread : tx'[th] = NoTx
  PROVE  OutInv'
<1>0. GatewayTypeOK BY DEF GInv
<1>1. OneOwner' BY DEF OutInv, OneOwner
<1>2. ASSUME NEW t \in Tx
      PROVE  /\ On(t)' \subseteq On(t)
             /\ Committing(t)' \subseteq Committing(t)
             /\ \A th \in Committing(t)' : pc'[th] = pc[th]
             /\ Stages(t)' = Stages(t)
  BY ConstantAssumption DEF On, Committing, Same, Stages
<1>3. ASSUME NEW t \in Tx PROVE Contacts(t)'
  <2>1. Contacts(t) BY DEF OutInv
  <2>2. Approved(t) => Approved(t)' BY <1>2 DEF Approved
  <2>3. \A g \in Submission : (Owner(g, t) => Owner(g, t)') /\ (Spent(g) => Spent(g)')
    BY DEF Owner, Spent
  <2> QED BY <1>2, <2>1, <2>2, <2>3 DEF Contacts
<1>4. ASSUME NEW t \in Tx PROVE Closed(t)'
  <2>1. Closed(t) BY DEF OutInv
  <2>2. \A g \in Submission : Owner(g, t) => Owner(g, t)' BY DEF Owner
  <2> QED BY <1>2, <2>1, <2>2 DEF Closed
<1>5. ASSUME NEW g \in Submission PROVE PipelineInv(g)'
  <2>0. PipelineInv(g) BY DEF OutInv
  <2>1. (Depth(g) /\ Ending(g))' BY <2>0 DEF PipelineInv, Depth, Ending
  <2>2. OnTrack(g)' BY <2>0 DEF PipelineInv, OnTrack, Stages
  <2>3. CASE server'[g] = NoThread /\ \A th \in Thread : tx'[th] = NoTx
    <3>1. Served(g)' BY <2>3 DEF Served
    <3>2. Clean(g)'
      BY <2>3, OwnerTx, ConstantAssumption DEF Clean, On
    <3>3. Outcome(g)' BY <2>0, <2>3 DEF PipelineInv, Outcome, Stages
    <3> QED BY <2>1, <2>2, <3>1, <3>2, <3>3 DEF PipelineInv
  <2>4. CASE server'[g] = server[g] /\ (server[g] # NoThread => Same(server[g]))
    <3>1. Served(g)' BY <2>0, <2>4 DEF PipelineInv, Served, Same
    <3>2. Clean(g)' BY <2>0, <2>4, <1>2, OwnerTx DEF PipelineInv, Clean
    <3>3. Outcome(g)' BY <2>0, <2>4 DEF PipelineInv, Outcome, Same, Stages
    <3> QED BY <2>1, <2>2, <3>1, <3>2, <3>3 DEF PipelineInv
  <2> QED BY <2>3, <2>4
<1> QED BY <1>1, <1>3, <1>4, <1>5 DEF OutInv

\* A handler at work: the owner that waits for it knows what it may do.
LEMMA OTHandles ==
  ASSUME Base, Roles, GInv, OutInv, NEW th \in Thread,
         Step(th) \/ DbError(th), pc[th] # "done",
         UNCHANGED <<ledger, gpc, control, chain, answer, server>>
  PROVE  OutInv'
<1>0. GatewayTypeOK /\ TypeOK /\ CommittedOK BY DEF GInv, Base, HandlersOK
<1>r. Role(th) BY DEF Roles
<1>e. Effect(th) BY <1>r, HandlerEffect
<1>o. \A o \in Thread \ {th} : Idles(o) BY <1>0, OthersIdle
<1>1. OneOwner' BY DEF OutInv, OneOwner
<1>2. \A t : On(t)' = On(t) /\ Committing(t)' = Committing(t)
  BY <1>e DEF On, Committing, Effect
<1>3. ASSUME NEW t \in Tx PROVE Contacts(t)'
  <2>1. Contacts(t) BY DEF OutInv
  <2>2. Approved(t)' = Approved(t) BY DEF Approved, Stages
  <2>3. \A g \in Submission : Owner(g, t)' = Owner(g, t) /\ Spent(g)' = Spent(g)
    BY DEF Owner, Spent
  <2>4. t \in executed' => t \in executed \/ th \in Committing(t)
    BY <1>e, <1>r DEF Effect, Role, CommitPc, Committing, On
  <2>5. ASSUME NEW u \in Committing(t), pc'[u] \in Early PROVE t \notin executed'
    <3>1. CASE u = th
      <4>1. pc[th] \in Early BY <3>1, <2>5, <1>e DEF Effect
      <4>2. t \notin executed BY <4>1, <3>1, <2>1 DEF Contacts
      <4>3. executed' = executed BY <3>1, <2>5, <1>e DEF Effect, Early
      <4> QED BY <4>2, <4>3
    <3>2. CASE u # th
      <4>1. u \in Thread /\ pc[u] \in Early BY <3>2, <2>5, <1>o DEF Idles, Committing, On
      <4>2. t \notin executed /\ th \notin Committing(t) BY <4>1, <3>2, <2>1 DEF Contacts
      <4> QED BY <4>2, <2>4
    <3> QED BY <3>1, <3>2
  <2> QED BY <1>2, <2>1, <2>2, <2>3, <2>4, <2>5 DEF Contacts
<1>4. ASSUME NEW t \in Tx PROVE Closed(t)'
  <2>1. Closed(t) BY DEF OutInv
  <2>2. On(t) = {} => t # tx[th] BY DEF On
  <2>3. On(t) = {} => (status'[t] = "COMMITTED" <=> status[t] = "COMMITTED")
    BY <2>2, <1>e DEF Effect
  <2>4. Stages(t)' = Stages(t) BY DEF Stages
  <2>5. \A g \in Submission : Owner(g, t)' = Owner(g, t) BY DEF Owner
  <2> QED BY <1>2, <2>1, <2>3, <2>4, <2>5 DEF Closed
<1>5. ASSUME NEW g \in Submission PROVE PipelineInv(g)'
  <2>0. PipelineInv(g) BY DEF OutInv
  <2>1. (Depth(g) /\ Ending(g))' BY <2>0 DEF PipelineInv, Depth, Ending
  <2>2. OnTrack(g)' BY <2>0 DEF PipelineInv, OnTrack, Stages
  <2>s. server[g] # NoThread => server[g] \in Thread BY <1>0 DEF GatewayTypeOK
  <2>3. Served(g)'
    BY <2>0, <2>s, <1>e, <1>o DEF PipelineInv, Served, Effect, Idles
  <2>4. Clean(g)' BY <2>0, <1>2 DEF PipelineInv, Clean
  <2>5. Outcome(g)'
    <3> DEFINE t == control[g].tx
    <3>1. answer[g] \in {"REJECTED", "UNSAFE", "ABORTED"} =>
            Len(chain[g]) > 0 /\ status'[t] # "COMMITTED"
      <4> SUFFICES ASSUME answer[g] \in {"REJECTED", "UNSAFE", "ABORTED"}
                   PROVE  Len(chain[g]) > 0 /\ status'[t] # "COMMITTED"
        OBVIOUS
      <4>1. Len(chain[g]) > 0 /\ status[t] # "COMMITTED" BY <2>0 DEF PipelineInv, Outcome
      <4>2. t \in Tx BY <4>1, OwnerTx
      <4>3. On(t) \subseteq {server[g]} BY <4>1, <2>0 DEF PipelineInv, Clean
      <4>4. gpc[g] \notin {"prepare_wait", "commit_wait"}
        BY <2>0 DEF PipelineInv, Ending, Stage
      <4>5. CASE tx[th] = t
        <5>1. th = server[g] BY <4>3, <4>5 DEF On
        <5>2. server[g] # NoThread BY <5>1, GatewayAssumption
        <5>3. op[th] = "abort" BY <5>1, <5>2, <4>4, <2>0 DEF PipelineInv, Served
        <5> QED BY <5>3, <4>1, <4>2, <1>e DEF Effect
      <4>6. CASE tx[th] # t
        BY <4>6, <4>1, <4>2, <1>e DEF Effect
      <4> QED BY <4>5, <4>6
    <3>2. answer[g] = "COMMITTED" => status'[t] = "COMMITTED"
      <4> SUFFICES ASSUME answer[g] = "COMMITTED" PROVE status'[t] = "COMMITTED"
        OBVIOUS
      <4>1. Len(chain[g]) > 0 /\ status[t] = "COMMITTED" /\ gpc[g] \in {"COMMIT_ACK", "done"}
        BY <2>0 DEF PipelineInv, Outcome
      <4>2. t \in Tx BY <4>1, OwnerTx
      <4>3. On(t) \subseteq {NoThread}
        BY <4>1, <2>0, NoServer DEF PipelineInv, Clean
      <4>4. tx[th] # t BY <4>3, GatewayAssumption DEF On
      <4> QED BY <4>1, <4>2, <4>4, <1>e DEF Effect
    <3>3. gpc[g] = "commit_wait" /\ server[g] # NoThread =>
            (status'[t] = "COMMITTED" <=> resp'[server[g]].status \in Acks)
      <4> SUFFICES ASSUME gpc[g] = "commit_wait", server[g] # NoThread
                   PROVE  status'[t] = "COMMITTED" <=> resp'[server[g]].status \in Acks
        OBVIOUS
      <4>1. /\ server[g] \in Thread /\ op[server[g]] = "commit" /\ tx[server[g]] = t
            /\ Len(chain[g]) > 0
        BY <2>0, <2>s DEF PipelineInv, Served
      <4>2. t \in Tx BY <4>1, OwnerTx
      <4>3. status[t] = "COMMITTED" <=> resp[server[g]].status \in Acks
        BY <2>0 DEF PipelineInv, Outcome
      <4>4. CASE th = server[g]
        <5>1. status[t] # "COMMITTED" BY <4>3, <4>4, <1>r DEF Role
        <5> QED BY <5>1, <4>1, <4>2, <4>4, <1>e DEF Effect
      <4>5. CASE th # server[g]
        <5>1. answer[g] = "none"
          BY <2>0 DEF PipelineInv, Ending, Stage
        <5>2. On(t) \subseteq {server[g]} BY <4>1, <5>1, <2>0 DEF PipelineInv, Clean
        <5>3. tx[th] # t BY <5>2, <4>5 DEF On
        <5>4. resp'[server[g]] = resp[server[g]] BY <4>1, <4>5, <1>o DEF Idles
        <5> QED BY <4>2, <4>3, <5>3, <5>4, <1>e DEF Effect
      <4> QED BY <4>4, <4>5
    <3> QED BY <2>0, <3>1, <3>2, <3>3 DEF PipelineInv, Outcome, Stages
  <2> QED BY <2>1, <2>2, <2>3, <2>4, <2>5 DEF PipelineInv
<1> QED BY <1>1, <1>3, <1>4, <1>5 DEF OutInv

\* A handler that has answered has nothing left to do but return.
LEMMA DoneReturns ==
  ASSUME NEW th \in Thread, Step(th) \/ DbError(th), pc[th] = "done"
  PROVE  Return(th)
BY DEF Step, PrepareReadLock, PrepareReadTx, PrepareExtend, PrepareCreate, ReadyReadTx,
   ReadyReadLock, ExecuteSucceeds, ExecuteFails, FinalizeReadTx, FinalizeUpdate, AbortReadTx,
   AbortUpdate, EstopUpdate, SafeState, DbError, PreparePc, CommitPc, AbortPc

\* Every step inside the OT Interface keeps the invariant.
LEMMA OTStepKeeps ==
  ASSUME Base, Roles, GInv, OutInv, OTStep
  PROVE  OutInv'
<1>0. TypeOK /\ GatewayTypeOK BY DEF Base, GInv
<1>u. UNCHANGED <<ledger, gpc, control, chain, answer>> BY DEF OTStep
<1>s. \A g \in Submission : server[g] # NoThread => server[g] \in Thread /\ pc[server[g]] # "idle"
  BY <1>0 DEF OutInv, PipelineInv, Served, GatewayTypeOK
<1>1. ASSUME NEW th \in Thread, Step(th) \/ DbError(th),
             pc[th] = "done" => \A g \in Submission : server[g] # th, UNCHANGED server
      PROVE  OutInv'
  <2>1. CASE pc[th] # "done"
    BY <1>1, <1>u, <2>1, OTHandles
  <2>2. CASE pc[th] = "done"
    <3>1. Return(th) BY <1>1, <2>2, DoneReturns
    <3>2. \A o \in Thread \ {th} : Same(o)
      BY <1>0, <1>1, OthersIdle DEF Idles, Same
    <3>3. tx'[th] = NoTx /\ UNCHANGED <<status, executed>>
      BY <3>1, <1>0 DEF Return, TypeOK, tableVars, histVars
    <3>4. \A g \in Submission : server[g] # NoThread => Same(server[g])
      BY <1>s, <1>1, <2>2, <3>2
    <3> QED BY <1>1, <1>u, <3>2, <3>3, <3>4, OTQuiet
  <2> QED BY <2>1, <2>2
<1>2. ASSUME UNCHANGED <<pc, tx, op, resp, status, executed, server>> PROVE OutInv'
  <2>1. \A th : Same(th) BY <1>2 DEF Same
  <2> QED BY <1>2, <1>u, <2>1, OTQuiet
<1>3. CASE (\E c \in late : LateWrite(c) /\ UNCHANGED server) \/ (Tick /\ UNCHANGED server)
  BY <1>3, <1>2 DEF LateWrite, Tick, callVars, tableVars, histVars
<1>4. ASSUME NEW th \in Thread, NEW a \in Asset, Request(th, "estop", NoTx, a), UNCHANGED server
      PROVE  OutInv'
  <2>1. \A o \in Thread \ {th} : Same(o)
    BY <1>4, <1>0 DEF Request, Goto, Same, TypeOK
  <2>2. tx'[th] = NoTx /\ pc[th] = "idle" /\ UNCHANGED <<status, executed>>
    BY <1>4, <1>0 DEF Request, TypeOK, tableVars, histVars
  <2>3. \A g \in Submission : server[g] # NoThread => Same(server[g])
    BY <1>s, <2>1, <2>2
  <2> QED BY <1>4, <1>u, <2>1, <2>2, <2>3, OTQuiet
<1>5. CASE Crash /\ server' = [g \in Submission |-> NoThread]
  <2>1. \A th \in Thread : tx'[th] = NoTx BY <1>5 DEF Crash
  <2>2. UNCHANGED <<status, executed>> BY <1>5 DEF Crash, tableVars
  <2> QED BY <1>5, <1>u, <2>1, <2>2, OTQuiet
<1> QED BY <1>1, <1>3, <1>4, <1>5 DEF OTStep

-----------------------------------------------------------------------------
(***************************************************************************)
(* Steps of a pipeline.                                                    *)
(***************************************************************************)
\* A pipeline that takes no part in the step.
Aside(h) ==
    /\ gpc'[h] = gpc[h] /\ control'[h] = control[h] /\ chain'[h] = chain[h]
    /\ server'[h] = server[h] /\ answer'[h] = answer[h]

\* A step of pipeline g that calls nobody, given what it does to g itself:
\* the other pipelines and the transactions keep what they have.
LEMMA LocalStep ==
  ASSUME Base, GInv, OutInv, NEW g \in Submission,
         UNCHANGED <<pc, tx, op, resp, status, executed, control>>,
         \A h \in Submission \ {g} : Aside(h),
         \A t \in Tx : Stages(t) \subseteq Stages(t)',
         \A t \in Tx : ledger[t] \subseteq ledger'[t],
         \A t \in Tx : "COMMIT_ACK" \in Stages(t)' => "COMMIT_ACK" \in Stages(t)
                          \/ /\ t = control[g].tx /\ gpc[g] = "COMMIT_ACK" /\ gpc'[g] = "done"
                             /\ Len(chain'[g]) > 0,
         gpc[g] = "done" => gpc'[g] = "done",
         gpc'[g] = "commit" => Len(chain[g]) < 6,
         Len(chain'[g]) >= Len(chain[g]), Len(chain'[g]) \in Nat,
         \/ chain'[g] = chain[g]
         \/ Len(chain[g]) > 0
         \/ /\ gpc[g] # "idle" /\ \A e \in ledger[control[g].tx] : e.seq # 0
            /\ \E e \in ledger'[control[g].tx] : e.seq = 0,
         PipelineInv(g)'
  PROVE  OutInv'
<1>0. GatewayTypeOK /\ Settled BY DEF GInv
<1>n. \A h \in Submission : Len(chain[h]) \in Nat BY <1>0 DEF GatewayTypeOK
<1>1. OneOwner'
  <2>1. ASSUME NEW h \in Submission, Len(chain'[h]) > 0
        PROVE  \E e \in ledger'[control[h].tx] : e.seq = 0
    <3>1. CASE Len(chain[h]) > 0
      BY <3>1, OwnerTx DEF OutInv, OneOwner
    <3>2. CASE ~(Len(chain[h]) > 0)
      BY <3>2, <2>1 DEF Aside
    <3> QED BY <3>1, <3>2
  <2>2. ASSUME NEW h \in Submission, NEW k \in Submission, Len(chain'[h]) > 0, Len(chain'[k]) > 0,
               control[h].tx = control[k].tx
        PROVE  h = k
    <3>1. CASE Len(chain[h]) > 0 /\ Len(chain[k]) > 0
      BY <3>1, <2>2 DEF OutInv, OneOwner
    <3>2. CASE ~(Len(chain[h]) > 0) /\ Len(chain[k]) > 0
      <4>1. h = g BY <3>2, <2>2 DEF Aside
      <4>2. \E e \in ledger[control[k].tx] : e.seq = 0 BY <3>2 DEF OutInv, OneOwner
      <4> QED BY <4>1, <4>2, <3>2, <2>2
    <3>3. CASE Len(chain[h]) > 0 /\ ~(Len(chain[k]) > 0)
      <4>1. k = g BY <3>3, <2>2 DEF Aside
      <4>2. \E e \in ledger[control[h].tx] : e.seq = 0 BY <3>3 DEF OutInv, OneOwner
      <4> QED BY <4>1, <4>2, <3>3, <2>2
    <3>4. CASE ~(Len(chain[h]) > 0) /\ ~(Len(chain[k]) > 0)
      BY <3>4, <2>2 DEF Aside
    <3> QED BY <3>1, <3>2, <3>3, <3>4
  <2> QED BY <2>1, <2>2 DEF OneOwner
<1>2. \A t : On(t)' = On(t) /\ Committing(t)' = Committing(t)
  BY DEF On, Committing
<1>3. \A h \in Submission : \A t : Owner(h, t) => Owner(h, t)'
  BY <1>n DEF Owner, Aside
<1>4. \A h \in Submission : Spent(h) => Spent(h)'
  BY <1>n DEF Spent, Aside
<1>5. ASSUME NEW t \in Tx PROVE Contacts(t)'
  <2>1. Contacts(t) BY DEF OutInv
  <2>2. Approved(t) => Approved(t)' BY DEF Approved
  <2> QED BY <1>2, <1>3, <1>4, <2>1, <2>2 DEF Contacts
<1>6. ASSUME NEW h \in Submission \ {g} PROVE PipelineInv(h)'
  <2>0. PipelineInv(h) /\ Aside(h) BY DEF OutInv
  <2>1. (Depth(h) /\ Ending(h))' BY <2>0 DEF PipelineInv, Depth, Ending, Aside
  <2>2. OnTrack(h)'
    <3>1. CASE Len(chain[h]) > 0
      BY <3>1, <2>0, OwnerTx DEF PipelineInv, OnTrack, Aside
    <3>2. CASE ~(Len(chain[h]) > 0)
      BY <3>2, <2>0, <1>n DEF OnTrack, Aside
    <3> QED BY <3>1, <3>2
  <2>3. Served(h)' BY <2>0 DEF PipelineInv, Served, Aside
  <2>4. Clean(h)' BY <2>0, <1>2 DEF PipelineInv, Clean, Aside
  <2>5. Outcome(h)'
    BY <2>0, OwnerTx DEF PipelineInv, Outcome, Aside
  <2> QED BY <2>1, <2>2, <2>3, <2>4, <2>5 DEF PipelineInv
<1>7. ASSUME NEW t \in Tx PROVE Closed(t)'
  <2> SUFFICES ASSUME "COMMIT_ACK" \in Stages(t)'
               PROVE  /\ status[t] = "COMMITTED"
                      /\ On(t) = {}
                      /\ \E h \in Submission : Owner(h, t)' /\ gpc'[h] = "done"
    BY <1>2 DEF Closed
  <2>1. CASE "COMMIT_ACK" \in Stages(t)
    <3>1. Closed(t) BY DEF OutInv
    <3>2. \A h \in Submission : gpc[h] = "done" => gpc'[h] = "done" BY DEF Aside
    <3> QED BY <2>1, <3>1, <3>2, <1>3 DEF Closed
  <2>2. CASE t = control[g].tx /\ gpc[g] = "COMMIT_ACK" /\ gpc'[g] = "done" /\ Len(chain'[g]) > 0
    <3>0. PipelineInv(g) BY DEF OutInv
    <3>1. answer[g] = "COMMITTED" BY <2>2, <3>0 DEF PipelineInv, Outcome
    <3>2. Len(chain[g]) > 0 /\ status[t] = "COMMITTED"
      BY <2>2, <3>0, <3>1 DEF PipelineInv, Outcome
    <3>3. server[g] = NoThread BY <2>2, <3>0, NoServer DEF PipelineInv
    <3>4. On(t) \subseteq {NoThread} BY <2>2, <3>0, <3>1, <3>2, <3>3 DEF PipelineInv, Clean
    <3>5. On(t) = {} BY <3>4, GatewayAssumption DEF On
    <3>6. Owner(g, t)' BY <2>2 DEF Owner
    <3> QED BY <2>2, <3>2, <3>5, <3>6
  <2> QED BY <2>1, <2>2
<1>8. \A h \in Submission : PipelineInv(h)' BY <1>6
<1> QED BY <1>1, <1>5, <1>7, <1>8 DEF OutInv

\* Until the owner has sent its COMMIT nothing is executed or committed.
LEMMA Unsent ==
  ASSUME Base, GInv, OutInv, NEW g \in Submission, Len(chain[g]) > 0, ~Spent(g)
  PROVE  /\ control[g].tx \notin executed
         /\ status[control[g].tx] # "COMMITTED"
         /\ Committing(control[g].tx) = {}
<1> DEFINE t == control[g].tx
<1>1. t \in Tx BY OwnerTx
<1>2. ASSUME NEW h \in Submission, Owner(h, t), Spent(h) PROVE FALSE
  <2>1. h = g BY <1>2 DEF Owner, OutInv, OneOwner
  <2> QED BY <1>2, <2>1
<1>3. Contacts(t) BY <1>1 DEF OutInv
<1>4. t \notin executed /\ Committing(t) = {} BY <1>2, <1>3 DEF Contacts
<1> QED BY <1>1, <1>4 DEF Base, HandlersOK, CommittedOK

\* Pipeline g moves to p with the answer a and logs nothing; it loses a
\* server only with the answer ERROR.
LEMMA MoveStep ==
  ASSUME Base, GInv, OutInv, NEW g \in Submission, gpc[g] \notin {"idle", "done"},
         NEW p \in GatewayPc \ {"idle", "commit", "prepare_wait", "commit_wait", "abort_wait",
                                "COMMIT_ACK"},
         NEW a, a = answer[g] \/ answer[g] = "none" \/ a = "ERROR", a # "COMMITTED",
         UNCHANGED <<pc, tx, op, resp, status, executed, control, ledger, chain>>,
         Forward(g, p), answer' = [answer EXCEPT ![g] = a],
         server' = server \/ server' = [server EXCEPT ![g] = NoThread],
         server'[g] = NoThread, server[g] = NoThread \/ a = "ERROR",
         Depth(g)',
         a # "none" => p \in (Stage \ Passing) \cup {"abort", "done"},
         a \in {"REJECTED", "UNSAFE", "ABORTED"} =>
            Len(chain[g]) > 0 /\ (a = answer[g] \/ status[control[g].tx] # "COMMITTED")
  PROVE  OutInv'
<1>0. GatewayTypeOK /\ PipelineInv(g) BY DEF GInv, OutInv
<1>n. Len(chain[g]) \in Nat BY <1>0 DEF GatewayTypeOK
<1>1. gpc'[g] = p /\ answer'[g] = a /\ chain'[g] = chain[g] /\ control'[g] = control[g]
  BY <1>0 DEF GatewayTypeOK, Forward
<1>2. \A h \in Submission \ {g} : Aside(h)
  BY <1>0 DEF GatewayTypeOK, Forward, Aside
<1>3. \A t : Stages(t)' = Stages(t) BY DEF Stages
<1>4. Ending(g)' BY <1>1 DEF Ending, Stage
<1>5. OnTrack(g)' BY <1>0, <1>1, <1>3 DEF PipelineInv, OnTrack
<1>6. Served(g)' BY <1>1 DEF Served
<1>7. Clean(g)'
  <2> SUFFICES ASSUME Len(chain[g]) > 0, a \notin {"ERROR", "HTTP_500"}
               PROVE  On(control[g].tx)' \subseteq {NoThread}
    BY <1>1 DEF Clean
  <2>1. answer[g] \notin {"ERROR", "HTTP_500"} /\ server[g] = NoThread OBVIOUS
  <2> QED BY <2>1, <1>0 DEF PipelineInv, Clean, On
<1>8. Outcome(g)'
  BY <1>0, <1>1, <1>3 DEF PipelineInv, Outcome
<1>9. PipelineInv(g)' BY <1>4, <1>5, <1>6, <1>7, <1>8 DEF PipelineInv
<1> QED BY <1>n, <1>1, <1>2, <1>3, <1>9, LocalStep

\* The row that is stored, and what it adds to the stages on record.
LEMMA StoredEffect ==
  ASSUME GInv, NEW g \in Submission, gpc[g] \in Stage, Stored(g), UNCHANGED control
  PROVE  /\ \A t \in Tx : ledger[t] \subseteq ledger'[t]
         /\ \A t \in Tx : Stages(t) \subseteq Stages(t)'
         /\ gpc[g] \in Stages(control[g].tx)'
         /\ \A t \in Tx : \A s \in Stages(t)' :
               s \in Stages(t) \/ (t = control[g].tx /\ s = gpc[g])
         /\ \A e \in ledger[control[g].tx] : e.seq # Len(chain[g])
         /\ \E e \in ledger'[control[g].tx] : e.seq = Len(chain[g])
         /\ control[g].tx \in Tx
<1>1. control[g].tx \in Tx BY DEF GInv, Settled, Stage
<1> DEFINE t0 == control[g].tx
           e0 == [seq |-> Len(chain[g]), stage |-> gpc[g], prev |-> chain[g],
                  hash |-> EventHash(chain[g], gpc[g])]
<1>2. ledger' = [ledger EXCEPT ![t0] = @ \cup {e0}] /\ (\A d \in ledger[t0] : d.seq # Len(chain[g]))
  BY DEF Stored, Rows
<1>3. e0.seq = Len(chain[g]) /\ e0.stage = gpc[g] OBVIOUS
<1>4. ledger \in [Tx -> SUBSET Event] BY DEF GInv, GatewayTypeOK
<1> HIDE DEF e0
<1>5. /\ \A t \in Tx : ledger[t] \subseteq ledger'[t]
      /\ \A t \in Tx : \A e \in ledger'[t] : e \in ledger[t] \/ (t = t0 /\ e = e0)
      /\ e0 \in ledger'[t0]
  BY <1>1, <1>2, <1>4
<1>6. ASSUME NEW t \in Tx, NEW s \in Stages(t) PROVE s \in Stages(t)'
  <2>1. PICK e \in ledger[t] : s = e.stage BY <1>6 DEF Stages
  <2> QED BY <2>1, <1>5 DEF Stages
<1>7. gpc[g] \in Stages(control[g].tx)' BY <1>3, <1>5 DEF Stages
<1>8. ASSUME NEW t \in Tx, NEW s \in Stages(t)'
      PROVE  s \in Stages(t) \/ (t = control[g].tx /\ s = gpc[g])
  <2>1. PICK e \in ledger'[t] : s = e.stage BY <1>8 DEF Stages
  <2> QED BY <2>1, <1>3, <1>5 DEF Stages
<1> QED BY <1>1, <1>2, <1>3, <1>5, <1>6, <1>7, <1>8

\* The steps of the approval, in order, and the places behind them.
LEMMA ApprovalSteps ==
  /\ Approval[1] = "RECEIVED" /\ Approval[2] = "SCHEMA_VALIDATED"
  /\ Approval[3] = "INTEGRITY_PASSED" /\ Approval[4] = "SAFETY_PASSED"
  /\ Approval[5] = "PREPARE_LOCK_GRANTED" /\ Approval[6] = "REVERIFY_PASSED"
  /\ After["RECEIVED"] = "SCHEMA_VALIDATED" /\ After["SCHEMA_VALIDATED"] = "policy"
  /\ After["INTEGRITY_PASSED"] = "safety" /\ After["SAFETY_PASSED"] = "prepare"
  /\ After["PREPARE_LOCK_GRANTED"] = "reverify" /\ After["REVERIFY_PASSED"] = "commit"
BY DEF Approval, After

\* A stage that ends the pipeline is never its first.
LEMMA EndDepth ==
  ASSUME NEW g \in Submission, Depth(g), gpc[g] \in Stage \ Passing
  PROVE  Len(chain[g]) > 0
<1>1. CASE gpc[g] = "INTEGRITY_REJECTED"
  <2>1. Len(chain[g]) = 2 BY <1>1 DEF Depth
  <2> QED BY <2>1
<1>2. CASE gpc[g] = "SAFETY_UNSAFE"
  <2>1. Len(chain[g]) = 3 BY <1>2 DEF Depth
  <2> QED BY <2>1
<1>3. CASE gpc[g] = "PREPARE_LOCK_DENIED"
  <2>1. Len(chain[g]) = 4 BY <1>3 DEF Depth
  <2> QED BY <2>1
<1>4. CASE gpc[g] = "REVERIFY_FAILED"
  <2>1. Len(chain[g]) = 5 BY <1>4 DEF Depth
  <2> QED BY <2>1
<1>5. CASE gpc[g] \in {"COMMIT_ERROR", "COMMIT_FAILED", "COMMIT_TIMEOUT", "COMMIT_ACK"}
  <2>1. Len(chain[g]) = 6 BY <1>5 DEF Depth
  <2> QED BY <2>1
<1> QED BY <1>1, <1>2, <1>3, <1>4, <1>5 DEF Stage, Passing

\* A logged stage: the approval grows by one step, or the pipeline ends.
LEMMA LogKeeps ==
  ASSUME Base, GInv, OutInv, NEW g \in Submission, Log(g)
  PROVE  OutInv'
<1>0. GatewayTypeOK /\ Settled /\ PipelineInv(g) BY DEF GInv, OutInv
<1>1. /\ gpc[g] \in Stage /\ Stored(g)
      /\ chain' = [chain EXCEPT ![g] = Append(chain[g], gpc[g])]
      /\ gpc' = [gpc EXCEPT ![g] = IF answer[g] = "none" THEN After[gpc[g]] ELSE "done"]
      /\ UNCHANGED <<pc, tx, op, resp, status, executed, control, server, answer>>
  BY DEF Log, Forward, EventHash, vars, callVars, tableVars, histVars
<1>n. chain[g] \in Seq(Stage) /\ Len(chain[g]) \in Nat BY <1>0 DEF GatewayTypeOK
<1>2. chain'[g] = Append(chain[g], gpc[g]) /\ Len(chain'[g]) = Len(chain[g]) + 1
  BY <1>0, <1>1, <1>n DEF GatewayTypeOK
<1>3. gpc'[g] = IF answer[g] = "none" THEN After[gpc[g]] ELSE "done"
  BY <1>0, <1>1 DEF GatewayTypeOK
<1>4. \A h \in Submission \ {g} : Aside(h)
  BY <1>0, <1>1 DEF GatewayTypeOK, Aside
<1>e. /\ \A t \in Tx : ledger[t] \subseteq ledger'[t]
      /\ \A t \in Tx : Stages(t) \subseteq Stages(t)'
      /\ gpc[g] \in Stages(control[g].tx)'
      /\ \A t \in Tx : \A s \in Stages(t)' :
            s \in Stages(t) \/ (t = control[g].tx /\ s = gpc[g])
      /\ \A e \in ledger[control[g].tx] : e.seq # Len(chain[g])
      /\ \E e \in ledger'[control[g].tx] : e.seq = Len(chain[g])
      /\ control[g].tx \in Tx
  BY <1>1, StoredEffect
<1>s. server[g] = NoThread BY <1>0, <1>1, NoServer DEF PipelineInv, Stage
<1>5. CASE answer[g] = "none"
  <2>1. gpc[g] \in Passing BY <1>0, <1>1, <1>5 DEF Settled
  <2>2. gpc'[g] = After[gpc[g]] BY <1>3, <1>5
  <2>d. Depth(g) BY <1>0 DEF PipelineInv
  <2>3. /\ Depth(g)'
        /\ gpc[g] = Approval[Len(chain[g]) + 1] /\ Len(chain[g]) < 6
        /\ gpc'[g] \notin {"commit_wait", "COMMIT_ACK", "done"} /\ gpc[g] # "COMMIT_ACK"
    <3>1. CASE gpc[g] = "RECEIVED"
      <4>0. Len(chain[g]) = 0 BY <3>1, <2>d DEF Depth
      <4>1. Len(chain[g]) = 0 /\ Len(chain'[g]) = 1 BY <4>0, <1>2
      <4>2. gpc'[g] = "SCHEMA_VALIDATED" BY <3>1, <2>2, ApprovalSteps
      <4>3. Depth(g)' BY <4>1, <4>2 DEF Depth
      <4> QED BY <3>1, <4>1, <4>2, <4>3, ApprovalSteps
    <3>2. CASE gpc[g] = "SCHEMA_VALIDATED"
      <4>0. Len(chain[g]) = 1 BY <3>2, <2>d DEF Depth
      <4>1. Len(chain[g]) = 1 /\ Len(chain'[g]) = 2 BY <4>0, <1>2
      <4>2. gpc'[g] = "policy" BY <3>2, <2>2, ApprovalSteps
      <4>3. Depth(g)' BY <4>1, <4>2 DEF Depth
      <4> QED BY <3>2, <4>1, <4>2, <4>3, ApprovalSteps
    <3>3. CASE gpc[g] = "INTEGRITY_PASSED"
      <4>0. Len(chain[g]) = 2 BY <3>3, <2>d DEF Depth
      <4>1. Len(chain[g]) = 2 /\ Len(chain'[g]) = 3 BY <4>0, <1>2
      <4>2. gpc'[g] = "safety" BY <3>3, <2>2, ApprovalSteps
      <4>3. Depth(g)' BY <4>1, <4>2 DEF Depth
      <4> QED BY <3>3, <4>1, <4>2, <4>3, ApprovalSteps
    <3>4. CASE gpc[g] = "SAFETY_PASSED"
      <4>0. Len(chain[g]) = 3 BY <3>4, <2>d DEF Depth
      <4>1. Len(chain[g]) = 3 /\ Len(chain'[g]) = 4 BY <4>0, <1>2
      <4>2. gpc'[g] = "prepare" BY <3>4, <2>2, ApprovalSteps
      <4>3. Depth(g)' BY <4>1, <4>2 DEF Depth
      <4> QED BY <3>4, <4>1, <4>2, <4>3, ApprovalSteps
    <3>5. CASE gpc[g] = "PREPARE_LOCK_GRANTED"
      <4>0. Len(chain[g]) = 4 BY <3>5, <2>d DEF Depth
      <4>1. Len(chain[g]) = 4 /\ Len(chain'[g]) = 5 BY <4>0, <1>2
      <4>2. gpc'[g] = "reverify" BY <3>5, <2>2, ApprovalSteps
      <4>3. Depth(g)' BY <4>1, <4>2 DEF Depth
      <4> QED BY <3>5, <4>1, <4>2, <4>3, ApprovalSteps
    <3>6. CASE gpc[g] = "REVERIFY_PASSED"
      <4>0. Len(chain[g]) = 5 BY <3>6, <2>d DEF Depth
      <4>1. Len(chain[g]) = 5 /\ Len(chain'[g]) = 6 BY <4>0, <1>2
      <4>2. gpc'[g] = "commit" BY <3>6, <2>2, ApprovalSteps
      <4>3. Depth(g)' BY <4>1, <4>2 DEF Depth
      <4> QED BY <3>6, <4>1, <4>2, <4>3, ApprovalSteps
    <3> QED BY <2>1, <3>1, <3>2, <3>3, <3>4, <3>5, <3>6 DEF Passing
  <2>4. Ending(g)' BY <1>1, <1>5 DEF Ending
  <2>5. OnTrack(g)'
    <3>1. \A i \in 1..6 : i <= Len(chain[g]) => Approval[i] \in Stages(control[g].tx)
      BY <1>0, <1>1 DEF PipelineInv, OnTrack, Stage
    <3>2. ASSUME NEW i \in 1..6, i <= Len(chain[g]) + 1
          PROVE  Approval[i] \in Stages(control[g].tx)'
      <4>0. Stages(control[g].tx) \subseteq Stages(control[g].tx)' BY <1>e, <1>1
      <4>1. CASE i <= Len(chain[g]) BY <4>0, <4>1, <3>1
      <4>2. CASE i = Len(chain[g]) + 1 BY <4>2, <2>3, <1>e
      <4> QED BY <3>2, <4>1, <4>2, <1>n
    <3> QED BY <3>2, <1>1, <1>2 DEF OnTrack
  <2>6. Served(g)' BY <1>1, <1>s DEF Served
  <2>7. Clean(g)'
    <3> SUFFICES On(control[g].tx) \subseteq {NoThread}
      BY <1>1, <1>s DEF Clean, On
    <3>1. CASE Len(chain[g]) > 0
      BY <3>1, <1>0, <1>5, <1>s DEF PipelineInv, Clean
    <3>2. CASE ~(Len(chain[g]) > 0)
      <4>1. Len(chain[g]) = 0 BY <3>2, <1>n
      <4>2. \A e \in ledger[control[g].tx] : e.seq # 0 BY <1>e, <4>1
      <4>3. ~ \E h \in Submission : Owner(h, control[g].tx)
        BY <4>2 DEF OutInv, OneOwner, Owner
      <4> QED BY <4>3, <1>e DEF OutInv, Contacts
    <3> QED BY <3>1, <3>2
  <2>8. Outcome(g)' BY <1>1, <1>5, <2>3 DEF Outcome
  <2>9. PipelineInv(g)' BY <2>3, <2>4, <2>5, <2>6, <2>7, <2>8 DEF PipelineInv
  <2> QED BY <1>1, <1>2, <1>4, <1>e, <1>n, <2>3, <2>9, LocalStep DEF Stage
<1>6. CASE answer[g] # "none"
  <2>1. gpc[g] \in Stage \ Passing /\ gpc'[g] = "done"
    BY <1>0, <1>1, <1>3, <1>6 DEF PipelineInv, Ending, Stage
  <2>2. Len(chain[g]) > 0
    BY <1>0, <2>1, EndDepth DEF PipelineInv
  <2>3. (Depth(g) /\ Ending(g) /\ OnTrack(g))' BY <2>1 DEF Depth, Ending, OnTrack
  <2>4. Served(g)' BY <1>1, <1>s DEF Served
  <2>5. Clean(g)' BY <1>0, <1>1, <2>2 DEF PipelineInv, Clean, On
  <2>6. Outcome(g)'
    BY <1>0, <1>1, <1>2, <1>e, <1>n, <2>1, <2>2 DEF PipelineInv, Outcome
  <2>7. PipelineInv(g)' BY <2>3, <2>4, <2>5, <2>6 DEF PipelineInv
  <2> QED BY <1>1, <1>2, <1>4, <1>e, <1>n, <2>1, <2>2, <2>7, LocalStep DEF Stage
<1> QED BY <1>5, <1>6

\* An append that fails ends the pipeline with HTTP 500, its row stored or not.
LEMMA LogFailsKeeps ==
  ASSUME Base, GInv, OutInv, NEW g \in Submission, LogFails(g)
  PROVE  OutInv'
<1>0. GatewayTypeOK /\ Settled /\ PipelineInv(g) BY DEF GInv, OutInv
<1>1. /\ gpc[g] \in Stage /\ (Stored(g) \/ ledger' = ledger)
      /\ gpc' = [gpc EXCEPT ![g] = "done"]
      /\ answer' = [answer EXCEPT ![g] = "HTTP_500"]
      /\ UNCHANGED <<pc, tx, op, resp, status, executed, control, server, chain>>
  BY DEF LogFails, Respond, Forward, vars, callVars, tableVars, histVars
<1>n. Len(chain[g]) \in Nat BY <1>0 DEF GatewayTypeOK
<1>2. gpc'[g] = "done" /\ answer'[g] = "HTTP_500" /\ chain'[g] = chain[g]
  BY <1>0, <1>1 DEF GatewayTypeOK
<1>3. \A h \in Submission \ {g} : Aside(h)
  BY <1>0, <1>1 DEF GatewayTypeOK, Aside
<1>4. server[g] = NoThread BY <1>0, <1>1, NoServer DEF PipelineInv, Stage
<1>5. PipelineInv(g)'
  BY <1>1, <1>2, <1>4 DEF PipelineInv, Depth, Ending, OnTrack, Served, Clean, Outcome
<1>6. gpc[g] = "COMMIT_ACK" => Len(chain'[g]) > 0
  BY <1>0, <1>1, EndDepth DEF PipelineInv, Stage, Passing
<1>7. CASE ledger' = ledger
  <2>1. \A t : Stages(t)' = Stages(t) BY <1>7 DEF Stages
  <2> QED BY <1>1, <1>2, <1>3, <1>5, <1>7, <1>n, <2>1, LocalStep
<1>8. CASE Stored(g)
  <2>1. /\ \A t \in Tx : ledger[t] \subseteq ledger'[t]
        /\ \A t \in Tx : Stages(t) \subseteq Stages(t)'
        /\ \A t \in Tx : \A s \in Stages(t)' :
              s \in Stages(t) \/ (t = control[g].tx /\ s = gpc[g])
    BY <1>1, <1>8, StoredEffect
  <2> QED BY <1>1, <1>2, <1>3, <1>5, <1>6, <1>n, <2>1, LocalStep
<1> QED BY <1>1, <1>7, <1>8

\* The reads, the checks, the injected faults and a call that fails.
LEMMA MovesKeep ==
  ASSUME Base, GInv, OutInv, NEW g \in Submission,
         \/ ServiceFails(g) \/ ReadPolicy(g) \/ ReadSensor(g) \/ CheckIntegrity(g) \/ Validate(g)
         \/ PrepareInjected(g) \/ Reverify(g) \/ CommitInjected(g) \/ CallFails(g)
  PROVE  OutInv'
<1>0. GatewayTypeOK /\ PipelineInv(g) /\ Depth(g) BY DEF GInv, OutInv, PipelineInv
<1>n. Len(chain[g]) \in Nat BY <1>0 DEF GatewayTypeOK
<1> DEFINE Here == {"policy", "sensor", "integrity", "safety", "prepare", "reverify", "commit"}
           Kept == UNCHANGED <<pc, tx, op, resp, status, executed, control, ledger, chain>>
<1>a. gpc[g] \in Here => answer[g] = "none" /\ server[g] = NoThread
  BY <1>0, NoServer DEF PipelineInv, Ending, Stage
<1>d. ASSUME NEW p, Forward(g, p) PROVE gpc'[g] = p
  BY <1>0, <1>d DEF GatewayTypeOK, Forward
<1>e. ASSUME NEW a, answer' = [answer EXCEPT ![g] = a] PROVE answer'[g] = a
  BY <1>0, <1>e DEF GatewayTypeOK
<1>f. [answer EXCEPT ![g] = answer[g]] = answer BY <1>0 DEF GatewayTypeOK
\* The pipeline passes on to p.
<1>p. ASSUME Kept, UNCHANGED <<server, answer>>, gpc[g] \in Here,
             NEW p \in {"sensor", "integrity", "INTEGRITY_PASSED", "SAFETY_PASSED",
                        "REVERIFY_PASSED"}, Forward(g, p), Depth(g)'
      PROVE  OutInv'
  BY <1>p, <1>a, <1>f, MoveStep DEF GatewayPc, Stage
\* The pipeline ends with the answer a, or aborts first.
<1>q. ASSUME Kept, UNCHANGED server, gpc[g] \in Here,
             NEW p \in (Stage \ Passing) \cup {"abort", "done"}, p # "COMMIT_ACK", Forward(g, p),
             NEW a \in {"REJECTED", "UNSAFE", "ABORTED", "ERROR"},
             answer' = [answer EXCEPT ![g] = a], Depth(g)',
             a # "ERROR" => Len(chain[g]) > 0 /\ ~Spent(g)
      PROVE  OutInv'
  <2>1. a # "ERROR" => status[control[g].tx] # "COMMITTED" BY <1>q, Unsent
  <2>2. p \in GatewayPc \ {"idle", "commit", "prepare_wait", "commit_wait", "abort_wait",
                           "COMMIT_ACK"}
    BY <1>q DEF GatewayPc, Stage
  <2>3. gpc[g] \notin {"idle", "done"} /\ answer[g] = "none" /\ server[g] = NoThread
    BY <1>q, <1>a
  <2> QED BY <1>q, <2>1, <2>2, <2>3, MoveStep
<1>1. CASE ServiceFails(g)
  <2>1. Depth(g)' BY <1>1, <1>d DEF ServiceFails, Respond, Depth
  <2> QED BY <1>1, <2>1, <1>q DEF ServiceFails, Respond, vars, callVars, tableVars, histVars
<1>2. CASE ReadPolicy(g)
  <2>1. Len(chain[g]) = 2 BY <1>0, <1>2 DEF ReadPolicy, Depth
  <2>2. gpc'[g] = "sensor" /\ chain' = chain BY <1>2, <1>d DEF ReadPolicy
  <2>3. Depth(g)' BY <2>1, <2>2 DEF Depth
  <2> QED BY <1>2, <2>3, <1>p DEF ReadPolicy, vars, callVars, tableVars, histVars
<1>3. CASE ReadSensor(g)
  <2>1. Len(chain[g]) = 2 BY <1>0, <1>3 DEF ReadSensor, Depth
  <2>2. gpc'[g] = "integrity" /\ chain' = chain BY <1>3, <1>d DEF ReadSensor
  <2>3. Depth(g)' BY <2>1, <2>2 DEF Depth
  <2> QED BY <1>3, <2>3, <1>p DEF ReadSensor, vars, callVars, tableVars, histVars
<1>4. CASE CheckIntegrity(g)
  <2>0. Kept /\ UNCHANGED server /\ gpc[g] = "integrity"
    BY <1>4 DEF CheckIntegrity, vars, callVars, tableVars, histVars
  <2>1. Len(chain[g]) = 2 BY <1>0, <2>0 DEF Depth
  <2>2. CASE Forward(g, "INTEGRITY_PASSED") /\ UNCHANGED answer
    <3>1. gpc'[g] = "INTEGRITY_PASSED" BY <2>2, <1>d
    <3>2. Depth(g)' BY <2>0, <2>1, <3>1 DEF Depth
    <3> QED BY <2>0, <2>2, <3>2, <1>p
  <2>3. CASE LogThenRespond(g, "INTEGRITY_REJECTED", "REJECTED")
    <3>1. gpc'[g] = "INTEGRITY_REJECTED" BY <2>3, <1>d DEF LogThenRespond
    <3>2. Depth(g)' BY <2>0, <2>1, <3>1 DEF Depth
    <3>3. Len(chain[g]) > 0 /\ ~Spent(g) BY <2>1 DEF Spent
    <3> QED BY <2>0, <2>3, <3>2, <3>3, <1>q DEF LogThenRespond, Stage, Passing
  <2> QED BY <1>4, <2>2, <2>3 DEF CheckIntegrity
<1>5. CASE Validate(g)
  <2>0. Kept /\ UNCHANGED server /\ gpc[g] = "safety"
    BY <1>5 DEF Validate, vars, callVars, tableVars, histVars
  <2>1. Len(chain[g]) = 3 BY <1>0, <2>0 DEF Depth
  <2>2. CASE Forward(g, "SAFETY_PASSED") /\ UNCHANGED answer
    <3>1. gpc'[g] = "SAFETY_PASSED" BY <2>2, <1>d
    <3>2. Depth(g)' BY <2>0, <2>1, <3>1 DEF Depth
    <3> QED BY <2>0, <2>2, <3>2, <1>p
  <2>3. CASE LogThenRespond(g, "SAFETY_UNSAFE", "UNSAFE")
    <3>1. gpc'[g] = "SAFETY_UNSAFE" BY <2>3, <1>d DEF LogThenRespond
    <3>2. Depth(g)' BY <2>0, <2>1, <3>1 DEF Depth
    <3>3. Len(chain[g]) > 0 /\ ~Spent(g) BY <2>1 DEF Spent
    <3> QED BY <2>0, <2>3, <3>2, <3>3, <1>q DEF LogThenRespond, Stage, Passing
  <2> QED BY <1>5, <2>2, <2>3 DEF Validate
<1>6. CASE PrepareInjected(g)
  <2>0. /\ Kept /\ UNCHANGED server /\ gpc[g] = "prepare"
        /\ LogThenRespond(g, "PREPARE_LOCK_DENIED", "ABORTED")
    BY <1>6 DEF PrepareInjected, vars, callVars, tableVars, histVars
  <2>1. Len(chain[g]) = 4 BY <1>0, <2>0 DEF Depth
  <2>2. gpc'[g] = "PREPARE_LOCK_DENIED" BY <2>0, <1>d DEF LogThenRespond
  <2>3. Depth(g)' BY <2>0, <2>1, <2>2 DEF Depth
  <2>4. Len(chain[g]) > 0 /\ ~Spent(g) BY <2>1 DEF Spent
  <2> QED BY <2>0, <2>3, <2>4, <1>q DEF LogThenRespond, Stage, Passing
<1>7. CASE Reverify(g)
  <2>0. Kept /\ UNCHANGED server /\ gpc[g] = "reverify"
    BY <1>7 DEF Reverify, vars, callVars, tableVars, histVars
  <2>1. Len(chain[g]) = 5 BY <1>0, <2>0 DEF Depth
  <2>2. CASE Forward(g, "REVERIFY_PASSED") /\ UNCHANGED answer
    <3>1. gpc'[g] = "REVERIFY_PASSED" BY <2>2, <1>d
    <3>2. Depth(g)' BY <2>0, <2>1, <3>1 DEF Depth
    <3> QED BY <2>0, <2>2, <3>2, <1>p
  <2>3. CASE AbortFor(g, "ABORTED")
    <3>1. gpc'[g] = "abort" /\ answer'[g] = "ABORTED" BY <2>3, <1>d, <1>e DEF AbortFor
    <3>2. Depth(g)' BY <2>0, <2>1, <3>1 DEF Depth
    <3>3. Len(chain[g]) > 0 /\ ~Spent(g) BY <2>1 DEF Spent
    <3> QED BY <2>0, <2>3, <3>2, <3>3, <1>q DEF AbortFor
  <2> QED BY <1>7, <2>2, <2>3 DEF Reverify
<1>8. CASE CommitInjected(g)
  <2>0. Kept /\ UNCHANGED server /\ gpc[g] = "commit"
    BY <1>8 DEF CommitInjected, vars, callVars, tableVars, histVars
  <2>1. Len(chain[g]) = 6 BY <1>0, <2>0 DEF Depth
  <2>2. Len(chain[g]) > 0 /\ ~Spent(g) BY <2>0, <2>1 DEF Spent
  <2>3. CASE LogThenRespond(g, "COMMIT_TIMEOUT", "ABORTED")
    <3>1. gpc'[g] = "COMMIT_TIMEOUT" BY <2>3, <1>d DEF LogThenRespond
    <3>2. Depth(g)' BY <2>0, <2>1, <3>1 DEF Depth
    <3> QED BY <2>0, <2>2, <2>3, <3>2, <1>q DEF LogThenRespond, Stage, Passing
  <2>4. CASE LogThenRespond(g, "COMMIT_FAILED", "ABORTED")
    <3>1. gpc'[g] = "COMMIT_FAILED" BY <2>4, <1>d DEF LogThenRespond
    <3>2. Depth(g)' BY <2>0, <2>1, <3>1 DEF Depth
    <3> QED BY <2>0, <2>2, <2>4, <3>2, <1>q DEF LogThenRespond, Stage, Passing
  <2>5. CASE AbortFor(g, "ERROR")
    <3>1. gpc'[g] = "abort" /\ answer'[g] = "ERROR" BY <2>5, <1>d, <1>e DEF AbortFor
    <3>2. Depth(g)' BY <2>0, <2>1, <3>1 DEF Depth
    <3> QED BY <2>0, <2>5, <3>2, <1>q DEF AbortFor
  <2> QED BY <1>8, <2>3, <2>4, <2>5 DEF CommitInjected
<1>9. CASE CallFails(g)
  <2>0. /\ Kept /\ server' = [server EXCEPT ![g] = NoThread] /\ server'[g] = NoThread
        /\ gpc[g] \in {"prepare", "commit", "abort", "prepare_wait", "commit_wait", "abort_wait"}
    BY <1>9, <1>0 DEF CallFails, Calling, GatewayTypeOK, vars, callVars, tableVars, histVars
  <2>1. CASE gpc[g] \in {"commit", "commit_wait"} /\ AbortFor(g, "ERROR")
    <3>1. gpc'[g] = "abort" /\ answer'[g] = "ERROR" BY <2>1, <1>d, <1>e DEF AbortFor
    <3>2. Len(chain[g]) = 6 BY <1>0, <2>1 DEF Depth
    <3>3. Depth(g)' BY <2>0, <3>1, <3>2 DEF Depth
    <3> QED BY <2>0, <2>1, <3>3, MoveStep DEF AbortFor, GatewayPc
  <2>2. CASE Respond(g, "ERROR")
    <3>1. gpc'[g] = "done" BY <2>2, <1>d DEF Respond
    <3>2. Depth(g)' BY <3>1 DEF Depth
    <3> QED BY <2>0, <2>2, <3>2, MoveStep DEF Respond, GatewayPc
  <2> QED BY <1>9, <2>1, <2>2 DEF CallFails
<1> QED BY <1>1, <1>2, <1>3, <1>4, <1>5, <1>6, <1>7, <1>8, <1>9

-----------------------------------------------------------------------------
(***************************************************************************)
(* Calls to the OT Interface and their replies.                            *)
(***************************************************************************)
\* An owner starts or ends a call: thread th joins or leaves its transaction.
LEMMA ContactStep ==
  ASSUME Base, GInv, OutInv, NEW g \in Submission, Len(chain[g]) > 0, gpc[g] # "done",
         NEW th \in Thread, \A h \in Submission \ {g} : server[h] # th,
         \A o \in Thread \ {th} : Same(o),
         tx[th] \in {NoTx, control[g].tx}, tx'[th] \in {NoTx, control[g].tx},
         UNCHANGED <<status, executed, ledger, control, chain>>,
         \A h \in Submission \ {g} : Aside(h),
         gpc'[g] # "commit", PipelineInv(g)',
         tx'[th] # NoTx /\ op'[th] = "commit" =>
            /\ Approved(control[g].tx) /\ Len(chain[g]) = 6
            /\ control[g].tx \notin executed /\ Committing(control[g].tx) = {}
  PROVE  OutInv'
<1>0. GatewayTypeOK /\ TypeOK BY DEF GInv, Base
<1> DEFINE t0 == control[g].tx
<1>t. t0 \in Tx /\ t0 # NoTx BY OwnerTx, ConstantAssumption
<1>1. OneOwner' BY DEF OutInv, OneOwner
<1>2. \A t : Stages(t)' = Stages(t) /\ (Approved(t) => Approved(t)') BY DEF Stages, Approved
<1>3. \A h \in Submission : \A t : Owner(h, t)' = Owner(h, t) BY DEF Owner
<1>4. \A h \in Submission : Spent(h) => Spent(h)' BY DEF Spent, Aside
<1>5. ASSUME NEW t \in Tx \ {t0} PROVE On(t)' = On(t) /\ Committing(t)' = Committing(t)
                                      /\ \A o \in Committing(t) : pc'[o] = pc[o]
  <2>1. t # NoTx BY ConstantAssumption
  <2>2. \A o \in Thread : tx'[o] = t <=> tx[o] = t BY <2>1 DEF Same
  <2>3. \A o \in Thread : tx[o] = t => op'[o] = op[o] /\ pc'[o] = pc[o] BY <2>1 DEF Same
  <2>4. On(t)' = On(t) BY <2>2 DEF On
  <2>5. Committing(t)' = Committing(t) BY <2>3, <2>4 DEF Committing, On
  <2> QED BY <2>3, <2>4, <2>5 DEF Committing, On
<1>6. ASSUME NEW t \in Tx PROVE Contacts(t)'
  <2>0. Contacts(t) BY DEF OutInv
  <2>1. CASE t # t0
    BY <2>0, <2>1, <1>2, <1>3, <1>4, <1>5 DEF Contacts
  <2>2. CASE t = t0
    <3>1. \E h \in Submission : Owner(h, t)' BY <2>2, <1>3 DEF Owner
    <3>2. \A o \in Committing(t)' : o = th \/ (o \in Committing(t) /\ pc'[o] = pc[o])
      BY DEF Committing, On, Same
    <3>3. CASE th \in Committing(t)'
      <4>1. /\ Approved(t) /\ Len(chain[g]) = 6
            /\ t \notin executed /\ Committing(t) = {}
        BY <3>3, <2>2, <1>t DEF Committing, On
      <4>2. Owner(g, t)' /\ Spent(g)' BY <4>1, <2>2 DEF Owner, Spent
      <4>3. \A o \in Committing(t)' : o = th BY <3>2, <4>1
      <4> QED BY <3>1, <4>1, <4>2, <4>3, <1>2 DEF Contacts
    <3>4. CASE th \notin Committing(t)'
      <4>1. Committing(t)' \subseteq Committing(t) /\ \A o \in Committing(t)' : pc'[o] = pc[o]
        BY <3>2, <3>4
      <4> QED BY <2>0, <3>1, <4>1, <1>2, <1>3, <1>4 DEF Contacts
    <3> QED BY <3>3, <3>4
  <2> QED BY <2>1, <2>2
<1>7. ASSUME NEW t \in Tx PROVE Closed(t)'
  <2>0. Closed(t) BY DEF OutInv
  <2>1. CASE t # t0
    <3>1. \A h \in Submission : Owner(h, t) /\ gpc[h] = "done" => gpc'[h] = "done"
      BY <2>1 DEF Owner, Aside
    <3> QED BY <2>0, <2>1, <3>1, <1>2, <1>3, <1>5 DEF Closed
  <2>2. CASE t = t0
    <3>1. \A h \in Submission : Owner(h, t) => h = g
      BY <2>2 DEF Owner, OutInv, OneOwner
    <3>2. "COMMIT_ACK" \notin Stages(t) BY <2>0, <3>1 DEF Closed
    <3> QED BY <3>2, <1>2 DEF Closed
  <2> QED BY <2>1, <2>2
<1>8. ASSUME NEW h \in Submission \ {g} PROVE PipelineInv(h)'
  <2>0. PipelineInv(h) /\ Aside(h) BY DEF OutInv
  <2>1. (Depth(h) /\ Ending(h))' BY <2>0 DEF PipelineInv, Depth, Ending, Aside
  <2>2. OnTrack(h)' BY <2>0, <1>2 DEF PipelineInv, OnTrack, Aside
  <2>s. server[h] # NoThread => server[h] \in Thread /\ Same(server[h])
    BY <1>0 DEF GatewayTypeOK
  <2>3. Served(h)' BY <2>0, <2>s DEF PipelineInv, Served, Aside, Same
  <2>4. Clean(h)'
    <3> SUFFICES ASSUME Len(chain[h]) > 0, answer[h] \notin {"ERROR", "HTTP_500"}
                 PROVE  On(control[h].tx)' \subseteq {server[h]}
      BY <2>0 DEF Clean, Aside
    <3>1. control[h].tx \in Tx \ {t0} BY OwnerTx DEF OutInv, OneOwner
    <3>2. On(control[h].tx) \subseteq {server[h]} BY <2>0 DEF PipelineInv, Clean
    <3>3. On(control[h].tx)' = On(control[h].tx) BY <3>1, <1>5 DEF On
    <3> QED BY <3>2, <3>3
  <2>5. Outcome(h)' BY <2>0, <2>s, <1>2 DEF PipelineInv, Outcome, Aside, Same
  <2> QED BY <2>1, <2>2, <2>3, <2>4, <2>5 DEF PipelineInv
<1>9. \A h \in Submission : PipelineInv(h)' BY <1>8
<1> QED BY <1>1, <1>6, <1>7, <1>9 DEF OutInv

\* A call is sent: an idle thread takes it.
LEMMA PostKeeps ==
  ASSUME Base, Roles, GInv, OutInv, NEW g \in Submission, NEW th \in Thread,
         NEW o \in {"prepare", "commit", "abort"}, NEW w,
         Post(g, th, o, w), gpc[g] = o,
         w = CASE o = "prepare" -> "prepare_wait" [] o = "commit" -> "commit_wait"
               [] OTHER -> "abort_wait"
  PROVE  OutInv'
<1>0. GatewayTypeOK /\ TypeOK /\ PipelineInv(g) BY DEF GInv, Base, OutInv
<1>1. /\ pc[th] = "idle" /\ pc' = [pc EXCEPT ![th] = FirstPc[o]]
      /\ op' = [op EXCEPT ![th] = o] /\ tx' = [tx EXCEPT ![th] = control[g].tx]
      /\ server' = [server EXCEPT ![g] = th] /\ gpc' = [gpc EXCEPT ![g] = w]
      /\ UNCHANGED <<resp, status, executed, ledger, control, chain, answer>>
  BY DEF Post, Request, Goto, Forward, tableVars, histVars
<1>2. gpc'[g] = w /\ server'[g] = th /\ answer'[g] = answer[g] /\ chain'[g] = chain[g]
  BY <1>0, <1>1 DEF GatewayTypeOK
<1>3. pc'[th] \in {"prepare_lock", "ready_tx", "abort_tx"} /\ op'[th] = o /\ tx'[th] = control[g].tx
      /\ resp'[th] = resp[th]
  BY <1>0, <1>1 DEF TypeOK, FirstPc
<1>4. \A v \in Thread \ {th} : Same(v) BY <1>0, <1>1 DEF TypeOK, Same
<1>5. \A h \in Submission \ {g} : Aside(h) BY <1>0, <1>1 DEF GatewayTypeOK, Aside
<1>6. tx[th] = NoTx /\ resp[th].status = "none"
  BY <1>1 DEF Roles, Role, Base, CallsOK
<1>7. \A h \in Submission : server[h] # th
  BY <1>1, GatewayAssumption DEF OutInv, PipelineInv, Served
<1>8. server[g] = NoThread BY <1>0, NoServer DEF PipelineInv
<1>9. /\ Len(chain[g]) > 0
      /\ o = "commit" => Len(chain[g]) = 6 /\ answer[g] = "none"
      /\ Depth(g)'
  <2>d. Depth(g) BY <1>0 DEF PipelineInv
  <2>1. CASE o = "prepare"
    <3>1. Len(chain[g]) = 4 BY <2>1, <2>d DEF Depth
    <3>2. Depth(g)' BY <3>1, <2>1, <1>2 DEF Depth
    <3> QED BY <2>1, <3>1, <3>2
  <2>2. CASE o = "commit"
    <3>1. Len(chain[g]) = 6 BY <2>2, <2>d DEF Depth
    <3>2. Depth(g)' BY <3>1, <2>2, <1>2 DEF Depth
    <3>3. answer[g] = "none" BY <2>2, <1>0 DEF PipelineInv, Ending, Stage
    <3> QED BY <2>2, <3>1, <3>2, <3>3
  <2>3. CASE o = "abort"
    <3>1. \/ answer[g] = "ABORTED" /\ Len(chain[g]) = 5
          \/ answer[g] = "ERROR" /\ Len(chain[g]) = 6
      BY <2>3, <2>d DEF Depth
    <3>2. Depth(g)' BY <3>1, <2>3, <1>2 DEF Depth
    <3>3. CASE Len(chain[g]) = 5 BY <3>2, <3>3, <2>3
    <3>4. CASE Len(chain[g]) = 6 BY <3>2, <3>4, <2>3
    <3> QED BY <3>1, <3>3, <3>4
  <2> QED BY <2>1, <2>2, <2>3
<1>10. Ending(g)'
  BY <1>0, <1>2 DEF PipelineInv, Ending, Stage
<1>11. OnTrack(g)' BY <1>0, <1>1, <1>2 DEF PipelineInv, OnTrack, Stages
<1>12. Served(g)' BY <1>1, <1>2, <1>3, <1>9 DEF Served
<1>13. Clean(g)'
  <2> SUFFICES ASSUME answer[g] \notin {"ERROR", "HTTP_500"}
               PROVE  On(control[g].tx)' \subseteq {th}
    BY <1>1, <1>2 DEF Clean
  <2>1. On(control[g].tx) \subseteq {NoThread} BY <1>0, <1>8, <1>9 DEF PipelineInv, Clean
  <2>2. \A v \in Thread \ {th} : tx'[v] # control[g].tx
    BY <2>1, <1>4, GatewayAssumption DEF On, Same
  <2> QED BY <2>2, <1>1 DEF On
<1>14. o = "commit" => /\ Approved(control[g].tx) /\ status[control[g].tx] # "COMMITTED"
                       /\ control[g].tx \notin executed /\ Committing(control[g].tx) = {}
  <2> SUFFICES ASSUME o = "commit"
               PROVE  /\ Approved(control[g].tx) /\ status[control[g].tx] # "COMMITTED"
                      /\ control[g].tx \notin executed /\ Committing(control[g].tx) = {}
    OBVIOUS
  <2>1. ~Spent(g) BY DEF Spent
  <2>0. Len(chain[g]) = 6 BY <1>9
  <2>2. \A i \in 1..6 : i <= Len(chain[g]) BY <2>0
  <2>3. Approved(control[g].tx) BY <2>2, <1>0 DEF PipelineInv, OnTrack, Approved
  <2> QED BY <2>1, <2>3, <1>9, Unsent
<1>15. Outcome(g)'
  <2>1. w = "commit_wait" => status[control[g].tx] # "COMMITTED" /\ resp'[th].status \notin Acks
    BY <1>3, <1>6, <1>14 DEF Acks
  <2> QED BY <2>1, <1>0, <1>1, <1>2 DEF PipelineInv, Outcome, Stages
<1>16. PipelineInv(g)' BY <1>9, <1>10, <1>11, <1>12, <1>13, <1>15 DEF PipelineInv
<1> QED BY <1>1, <1>2, <1>3, <1>4, <1>5, <1>6, <1>7, <1>9, <1>14, <1>16, ContactStep

\* A reply is taken: the owner goes to p with the answer a, and its handler is
\* gone.
LEMMA ReplyKeeps ==
  ASSUME Base, GInv, OutInv, NEW g \in Submission, TakeReply(g),
         NEW p \in (Stage \ {"RECEIVED"}) \cup {"abort", "done"}, Forward(g, p),
         NEW a, answer' = [answer EXCEPT ![g] = a],
         UNCHANGED <<ledger, control, chain>>,
         a = answer[g] \/ answer[g] = "none" \/ a = "ERROR", Depth(g)',
         a # "none" => p \in (Stage \ Passing) \cup {"abort", "done"},
         a \in {"REJECTED", "UNSAFE", "ABORTED"} => status[control[g].tx] # "COMMITTED",
         a = "COMMITTED" <=> p = "COMMIT_ACK",
         a = "COMMITTED" => status[control[g].tx] = "COMMITTED"
  PROVE  OutInv'
<1>0. GatewayTypeOK /\ TypeOK /\ PipelineInv(g) BY DEF GInv, Base, OutInv
<1> DEFINE s == server[g]
<1>1. /\ s \in Thread /\ tx[s] = control[g].tx /\ Len(chain[g]) > 0
      /\ gpc[g] \in {"prepare_wait", "commit_wait", "abort_wait"}
  BY <1>0 DEF TakeReply, GatewayTypeOK, PipelineInv, Served
<1>2. /\ pc' = [pc EXCEPT ![s] = "idle"] /\ tx' = [tx EXCEPT ![s] = NoTx]
      /\ op' = [op EXCEPT ![s] = "none"] /\ resp' = [resp EXCEPT ![s] = NoResponse]
      /\ server' = [server EXCEPT ![g] = NoThread] /\ UNCHANGED <<status, executed>>
  BY DEF TakeReply, Return, Goto, tableVars, histVars
<1>3. gpc'[g] = p /\ server'[g] = NoThread /\ answer'[g] = a
  BY <1>0, <1>2 DEF GatewayTypeOK, Forward
<1>4. \A v \in Thread \ {s} : Same(v) BY <1>0, <1>1, <1>2 DEF TypeOK, Same
<1>5. \A h \in Submission \ {g} : Aside(h) BY <1>0, <1>2 DEF GatewayTypeOK, Aside, Forward
<1>6. ASSUME NEW h \in Submission \ {g} PROVE server[h] # s
  <2>1. PipelineInv(h) BY DEF OutInv
  <2> QED BY <2>1, <1>1, GatewayAssumption DEF PipelineInv, Served, OutInv, OneOwner
<1>7. tx'[s] = NoTx BY <1>0, <1>1, <1>2 DEF TypeOK
<1>8. Ending(g)' BY <1>3 DEF Ending
<1>9. OnTrack(g)' BY <1>0, <1>1, <1>3 DEF PipelineInv, OnTrack, Stages
<1>10. Served(g)' BY <1>3 DEF Served
<1>11. Clean(g)'
  <2> SUFFICES ASSUME a \notin {"ERROR", "HTTP_500"}
               PROVE  On(control[g].tx)' \subseteq {NoThread}
    BY <1>3 DEF Clean
  <2>1. On(control[g].tx) \subseteq {s} BY <1>0, <1>1 DEF PipelineInv, Clean
  <2>2. control[g].tx # NoTx BY <1>1, OwnerTx, ConstantAssumption
  <2>3. \A v \in Thread : tx'[v] # control[g].tx
    BY <2>1, <2>2, <1>4, <1>7 DEF On, Same
  <2> QED BY <2>3 DEF On
<1>12. Outcome(g)'
  BY <1>1, <1>2, <1>3 DEF Outcome, Stage
<1>13. PipelineInv(g)' BY <1>8, <1>9, <1>10, <1>11, <1>12 DEF PipelineInv
<1> QED BY <1>1, <1>2, <1>3, <1>4, <1>5, <1>6, <1>7, <1>13, ContactStep DEF Stage

\* Every call and every reply.
LEMMA CallsKeep ==
  ASSUME Base, Roles, GInv, OutInv, NEW g \in Submission,
         \/ SendPrepare(g) \/ SendCommit(g) \/ SendAbort(g)
         \/ PrepareReply(g) \/ CommitReply(g) \/ AbortReply(g)
  PROVE  OutInv'
<1>0. GatewayTypeOK /\ PipelineInv(g) /\ Depth(g) BY DEF GInv, OutInv, PipelineInv
<1>d. ASSUME NEW p, Forward(g, p) PROVE gpc'[g] = p
  BY <1>0, <1>d DEF GatewayTypeOK, Forward
<1>e. ASSUME NEW a, answer' = [answer EXCEPT ![g] = a] PROVE answer'[g] = a
  BY <1>0, <1>e DEF GatewayTypeOK
<1>f. [answer EXCEPT ![g] = answer[g]] = answer BY <1>0 DEF GatewayTypeOK
<1>1. CASE SendPrepare(g)
  <2>1. PICK th \in Thread : Post(g, th, "prepare", "prepare_wait") BY <1>1 DEF SendPrepare
  <2> QED BY <1>1, <2>1, PostKeeps DEF SendPrepare
<1>2. CASE SendCommit(g)
  <2>1. PICK th \in Thread : Post(g, th, "commit", "commit_wait") BY <1>2 DEF SendCommit
  <2> QED BY <1>2, <2>1, PostKeeps DEF SendCommit
<1>3. CASE SendAbort(g)
  <2>1. PICK th \in Thread : Post(g, th, "abort", "abort_wait") BY <1>3 DEF SendAbort
  <2> QED BY <1>3, <2>1, PostKeeps DEF SendAbort
<1>4. CASE PrepareReply(g)
  <2>0. TakeReply(g) /\ gpc[g] = "prepare_wait" /\ UNCHANGED <<ledger, control, chain>>
    BY <1>4 DEF PrepareReply
  <2>1. Len(chain[g]) = 4 BY <1>0, <2>0 DEF Depth
  <2>2. answer[g] = "none" BY <1>0, <2>0 DEF PipelineInv, Ending, Stage
  <2>3. CASE Forward(g, "PREPARE_LOCK_GRANTED") /\ UNCHANGED answer
    <3>1. gpc'[g] = "PREPARE_LOCK_GRANTED" BY <2>3, <1>d
    <3>2. Depth(g)' BY <2>0, <2>1, <3>1 DEF Depth
    <3> QED BY <2>0, <2>2, <2>3, <3>2, <1>f, ReplyKeeps DEF Stage
  <2>4. CASE LogThenRespond(g, "PREPARE_LOCK_DENIED", "ABORTED")
    <3>1. gpc'[g] = "PREPARE_LOCK_DENIED" BY <2>4, <1>d DEF LogThenRespond
    <3>2. Depth(g)' BY <2>0, <2>1, <3>1 DEF Depth
    <3>3. Len(chain[g]) > 0 /\ ~Spent(g) BY <2>1 DEF Spent
    <3>4. status[control[g].tx] # "COMMITTED" BY <3>3, Unsent
    <3>5. "PREPARE_LOCK_DENIED" \in Stage \ (Passing \cup {"RECEIVED"}) BY DEF Stage, Passing
    <3>6. Forward(g, "PREPARE_LOCK_DENIED") /\ answer' = [answer EXCEPT ![g] = "ABORTED"]
      BY <2>4 DEF LogThenRespond
    <3> QED BY <2>0, <2>2, <3>2, <3>4, <3>5, <3>6, ReplyKeeps
  <2> QED BY <1>4, <2>3, <2>4 DEF PrepareReply
<1>5. CASE CommitReply(g)
  <2> DEFINE r == resp[server[g]]
  <2>0. /\ TakeReply(g) /\ gpc[g] = "commit_wait" /\ server[g] # NoThread
        /\ UNCHANGED <<ledger, control, chain>>
    BY <1>5 DEF CommitReply, TakeReply
  <2>1. Len(chain[g]) = 6 BY <1>0, <2>0 DEF Depth
  <2>2. answer[g] = "none" BY <1>0, <2>0 DEF PipelineInv, Ending, Stage
  <2>3. status[control[g].tx] = "COMMITTED" <=> r.status \in Acks
    BY <1>0, <2>0 DEF PipelineInv, Outcome
  <2>4. CASE AbortFor(g, "ERROR")
    <3>1. gpc'[g] = "abort" /\ answer'[g] = "ERROR" BY <2>4, <1>d, <1>e DEF AbortFor
    <3>2. Depth(g)' BY <2>0, <2>1, <3>1 DEF Depth
    <3> QED BY <2>0, <2>2, <2>4, <3>2, ReplyKeeps DEF AbortFor
  <2>5. ASSUME NEW a \in {"ABORTED", "ERROR"}, r.status \in {"EXECUTION_FAILED", "TIMEOUT"},
               NEW p \in {"COMMIT_FAILED", "COMMIT_TIMEOUT"}, LogThenRespond(g, p, a)
        PROVE  OutInv'
    <3>1. gpc'[g] = p BY <2>5, <1>d DEF LogThenRespond
    <3>2. Depth(g)' BY <2>0, <2>1, <2>5, <3>1 DEF Depth
    <3>3. status[control[g].tx] # "COMMITTED" BY <2>3, <2>5 DEF Acks
    <3> QED BY <2>0, <2>2, <2>5, <3>2, <3>3, ReplyKeeps DEF LogThenRespond, Stage, Passing
  <2>6. CASE r.status \in Acks /\ LogThenRespond(g, "COMMIT_ACK", "COMMITTED")
    <3>1. gpc'[g] = "COMMIT_ACK" BY <2>6, <1>d DEF LogThenRespond
    <3>2. Depth(g)' BY <2>0, <2>1, <3>1 DEF Depth
    <3> QED BY <2>0, <2>2, <2>3, <2>6, <3>2, ReplyKeeps DEF LogThenRespond, Stage, Passing
  <2> QED BY <1>5, <2>4, <2>5, <2>6 DEF CommitReply, Acks
<1>6. CASE AbortReply(g)
  <2>0. TakeReply(g) /\ gpc[g] = "abort_wait" /\ UNCHANGED <<ledger, control, chain>>
    BY <1>6 DEF AbortReply
  <2>1. \/ answer[g] = "ABORTED" /\ Len(chain[g]) = 5
        \/ answer[g] = "ERROR" /\ Len(chain[g]) = 6
    BY <1>0, <2>0 DEF Depth
  <2>2. CASE answer[g] = "ABORTED" /\ Forward(g, "REVERIFY_FAILED") /\ UNCHANGED answer
    <3>1. gpc'[g] = "REVERIFY_FAILED" BY <2>2, <1>d
    <3>2. Depth(g)' BY <2>0, <2>1, <2>2, <3>1 DEF Depth
    <3>3. status[control[g].tx] # "COMMITTED" BY <1>0, <2>2 DEF PipelineInv, Outcome
    <3> QED BY <2>0, <2>2, <3>2, <3>3, <1>f, ReplyKeeps DEF Stage, Passing
  <2>3. CASE answer[g] # "ABORTED" /\ Forward(g, "COMMIT_ERROR") /\ UNCHANGED answer
    <3>1. gpc'[g] = "COMMIT_ERROR" BY <2>3, <1>d
    <3>2. Depth(g)' BY <2>0, <2>1, <2>3, <3>1 DEF Depth
    <3>3. answer[g] = "ERROR" BY <2>1, <2>3
    <3> QED BY <2>0, <2>3, <3>2, <3>3, <1>f, ReplyKeeps DEF Stage, Passing
  <2>4. CASE Respond(g, "ERROR")
    <3>1. gpc'[g] = "done" BY <2>4, <1>d DEF Respond
    <3>2. Depth(g)' BY <3>1 DEF Depth
    <3> QED BY <2>0, <2>4, <3>2, ReplyKeeps DEF Respond
  <2> QED BY <1>6, <2>2, <2>3, <2>4 DEF AbortReply
<1> QED BY <1>1, <1>2, <1>3, <1>4, <1>5, <1>6

-----------------------------------------------------------------------------
(***************************************************************************)
(* The invariant and what follows from it.                                 *)
(***************************************************************************)
LEMMA OutInvInit == GatewayInit => OutInv
<1> SUFFICES ASSUME GatewayInit PROVE OutInv
  OBVIOUS
<1>1. \A g \in Submission :
         /\ gpc[g] = "idle" /\ chain[g] = <<>> /\ Len(chain[g]) = 0
         /\ server[g] = NoThread /\ answer[g] = "none"
  BY DEF GatewayInit, GenesisHash
<1>2. \A t \in Tx : On(t) = {} /\ Stages(t) = {} /\ t \notin executed
  BY ConstantAssumption DEF GatewayInit, Init, On, Stages
<1>3. OneOwner BY <1>1 DEF OneOwner
<1>4. ASSUME NEW t \in Tx PROVE Contacts(t) /\ Closed(t)
  BY <1>2 DEF Contacts, Closed, Committing
<1>5. ASSUME NEW g \in Submission PROVE PipelineInv(g)
  <2>1. OnTrack(g) BY <1>1 DEF OnTrack
  <2> QED BY <1>1, <2>1 DEF PipelineInv, Depth, Ending, Served, Clean, Outcome
<1> QED BY <1>3, <1>4, <1>5 DEF OutInv

\* A submission enters before it owns anything.
LEMMA SubmitKeeps ==
  ASSUME Base, GInv, OutInv, NEW g \in Submission, NEW t \in Tx, NEW a, NEW p, NEW r, NEW f,
         Submit(g, t, a, p, r, f)
  PROVE  OutInv'
<1>0. GatewayTypeOK /\ Settled /\ PipelineInv(g) BY DEF GInv, OutInv
<1>1. /\ gpc[g] = "idle" /\ gpc' = [gpc EXCEPT ![g] = "RECEIVED"]
      /\ \A h \in Submission \ {g} : control'[h] = control[h]
      /\ UNCHANGED <<pc, tx, op, resp, status, executed, ledger, chain, server, answer>>
  BY <1>0 DEF Submit, Forward, GatewayTypeOK, vars, callVars, tableVars, histVars
<1>2. Len(chain[g]) = 0 /\ gpc'[g] = "RECEIVED"
  BY <1>0, <1>1 DEF Settled, GatewayTypeOK, GenesisHash
<1>3. \A h \in Submission \ {g} : Aside(h)
  BY <1>0, <1>1 DEF GatewayTypeOK, Aside
<1>4. server[g] = NoThread /\ answer[g] = "none"
  BY <1>0, <1>1, NoServer DEF PipelineInv, Ending, Stage
<1>5. \A u : /\ Stages(u)' = Stages(u) /\ On(u)' = On(u) /\ Committing(u)' = Committing(u)
             /\ Approved(u)' = Approved(u)
  BY <1>1 DEF Stages, On, Committing, Approved
<1>6. \A h \in Submission : Len(chain[h]) > 0 => h # g BY <1>2
<1>7. \A h \in Submission : \A u : Owner(h, u) => Owner(h, u)' /\ (Spent(h) => Spent(h)')
                                                 /\ gpc'[h] = gpc[h]
  BY <1>1, <1>3, <1>6 DEF Owner, Spent, Aside
<1>8. OneOwner'
  BY <1>1, <1>3, <1>6 DEF OutInv, OneOwner, Aside
<1>9. ASSUME NEW u \in Tx PROVE Contacts(u)' /\ Closed(u)'
  <2>1. Contacts(u) /\ Closed(u) BY DEF OutInv
  <2>2. Contacts(u)' BY <1>1, <1>5, <1>7, <2>1 DEF Contacts
  <2>3. Closed(u)' BY <1>1, <1>5, <1>7, <2>1 DEF Closed
  <2> QED BY <2>2, <2>3
<1>10. ASSUME NEW h \in Submission PROVE PipelineInv(h)'
  <2>0. PipelineInv(h) BY DEF OutInv
  <2>1. CASE h = g
    <3>1. Depth(g)' BY <1>1, <1>2 DEF Depth
    <3>2. OnTrack(g)' BY <1>1, <1>2 DEF OnTrack
    <3>3. (Ending(g) /\ Served(g) /\ Clean(g) /\ Outcome(g))'
      BY <1>1, <1>2, <1>4 DEF Ending, Served, Clean, Outcome
    <3> QED BY <2>1, <3>1, <3>2, <3>3 DEF PipelineInv
  <2>2. CASE h # g
    <3>0. Aside(h) /\ Stages(control[h].tx)' = Stages(control[h].tx)
                   /\ On(control[h].tx)' = On(control[h].tx)
      BY <2>2, <1>1, <1>3 DEF Aside, Stages, On
    <3>1. (Depth(h) /\ Ending(h))' BY <2>0, <3>0 DEF PipelineInv, Depth, Ending, Aside
    <3>2. OnTrack(h)' BY <2>0, <3>0 DEF PipelineInv, OnTrack, Aside
    <3>3. Served(h)' BY <2>0, <3>0, <1>1 DEF PipelineInv, Served, Aside
    <3>4. Clean(h)' BY <2>0, <3>0 DEF PipelineInv, Clean, Aside
    <3>5. Outcome(h)' BY <2>0, <3>0, <1>1 DEF PipelineInv, Outcome, Aside
    <3> QED BY <3>1, <3>2, <3>3, <3>4, <3>5 DEF PipelineInv
  <2> QED BY <2>1, <2>2
<1> QED BY <1>8, <1>9, <1>10 DEF OutInv

\* The gateway dies: its pipelines are done, and no call is tracked any more.
LEMMA GatewayCrashKeeps ==
  ASSUME Base, GInv, OutInv, GatewayCrash
  PROVE  OutInv'
<1>0. GatewayTypeOK /\ Settled BY DEF GInv
<1>1. /\ UNCHANGED <<pc, tx, op, resp, status, executed, ledger, control, chain>>
      /\ \A g \in Submission :
            /\ gpc'[g] = IF gpc[g] = "idle" THEN "idle" ELSE "done"
            /\ answer'[g] = IF gpc[g] \in {"idle", "done"} THEN answer[g] ELSE "HTTP_500"
            /\ server'[g] = NoThread
  BY DEF GatewayCrash, vars, callVars, tableVars, histVars
<1>2. \A u : /\ Stages(u)' = Stages(u) /\ On(u)' = On(u) /\ Committing(u)' = Committing(u)
             /\ Approved(u)' = Approved(u)
  BY <1>1 DEF Stages, On, Committing, Approved
<1>3. \A h \in Submission : \A u : /\ Owner(h, u) => Owner(h, u)'
                                   /\ Spent(h) => Spent(h)'
                                   /\ gpc[h] = "done" => gpc'[h] = "done"
  BY <1>1 DEF Owner, Spent
<1>4. OneOwner' BY <1>1 DEF OutInv, OneOwner
<1>5. ASSUME NEW u \in Tx PROVE Contacts(u)' /\ Closed(u)'
  <2>1. Contacts(u) /\ Closed(u) BY DEF OutInv
  <2>2. Contacts(u)' BY <1>1, <1>2, <1>3, <2>1 DEF Contacts
  <2>3. Closed(u)' BY <1>1, <1>2, <1>3, <2>1 DEF Closed
  <2> QED BY <2>2, <2>3
<1>6. ASSUME NEW h \in Submission PROVE PipelineInv(h)'
  <2>0. PipelineInv(h) BY DEF OutInv
  <2>1. CASE gpc[h] = "idle"
    <3>1. /\ Len(chain[h]) = 0 /\ answer[h] = "none" /\ gpc'[h] = "idle" /\ answer'[h] = "none"
          /\ chain' = chain /\ server'[h] = NoThread
      BY <1>0, <1>1, <2>0, <2>1 DEF Settled, GenesisHash, PipelineInv, Ending, Stage
    <3>2. OnTrack(h)' BY <3>1 DEF OnTrack
    <3> QED BY <3>1, <3>2 DEF PipelineInv, Depth, Ending, Served, Clean, Outcome
  <2>2. CASE gpc[h] = "done"
    <3>1. gpc'[h] = "done" /\ answer'[h] = answer[h] /\ server'[h] = NoThread
      BY <1>1, <2>2
    <3>2. server[h] = NoThread BY <2>0, <2>2, NoServer DEF PipelineInv
    <3>3. (Depth(h) /\ Ending(h) /\ OnTrack(h) /\ Served(h))'
      BY <3>1 DEF Depth, Ending, OnTrack, Served
    <3>4. Clean(h)' BY <2>0, <3>1, <3>2, <1>1 DEF PipelineInv, Clean, On
    <3>5. Outcome(h)' BY <2>0, <2>2, <3>1, <1>1 DEF PipelineInv, Outcome, Stages
    <3> QED BY <3>3, <3>4, <3>5 DEF PipelineInv
  <2>3. CASE gpc[h] \notin {"idle", "done"}
    <3>1. gpc'[h] = "done" /\ answer'[h] = "HTTP_500" /\ server'[h] = NoThread
      BY <1>1, <2>3
    <3> QED BY <3>1 DEF PipelineInv, Depth, Ending, OnTrack, Served, Clean, Outcome
  <2> QED BY <2>1, <2>2, <2>3
<1> QED BY <1>4, <1>5, <1>6 DEF OutInv

\* Every step keeps the invariant.
LEMMA OutInvStep ==
  ASSUME Base, Roles, GInv, OutInv, [GatewayNext]_allVars
  PROVE  OutInv'
<1>1. ASSUME NEW g \in Submission, Pipeline(g) PROVE OutInv'
  BY <1>1, LogKeeps, LogFailsKeeps, MovesKeep, CallsKeep DEF Pipeline
<1>2. ASSUME NEW g \in Submission, NEW t \in Tx, NEW a, NEW p, NEW r, NEW f,
             Submit(g, t, a, p, r, f)
      PROVE  OutInv'
  BY <1>2, SubmitKeeps
<1>3. ASSUME UNCHANGED <<pc, tx, op, resp, status, executed, server>>,
             UNCHANGED <<ledger, gpc, control, chain, answer>>
      PROVE  OutInv'
  <2>1. \A th : Same(th) BY <1>3 DEF Same
  <2> QED BY <1>3, <2>1, OTQuiet
<1>4. CASE (\E p \in Policy : Activate(p)) \/ (\E a \in Asset, r \in Reading : SensorMoves(a, r))
           \/ UNCHANGED allVars
  BY <1>3, <1>4 DEF Activate, SensorMoves, allVars, gatewayVars, vars, callVars, tableVars, histVars
<1>5. CASE GatewayCrash BY <1>5, GatewayCrashKeeps
<1>6. CASE OTStep BY <1>6, OTStepKeeps
<1> QED BY <1>1, <1>2, <1>4, <1>5, <1>6 DEF GatewayNext

GatewayInvariant == Base /\ Roles /\ GInv /\ OutInv

\* The whole invariant holds in every behaviour of the composed system.
THEOREM GatewayInvariantHolds == GatewaySpec => []GatewayInvariant
<1>1. GatewayInit => GatewayInvariant
  BY TypeInit, HandlerInit, RolesInit, GInvInit, OutInvInit
  DEF GatewayInit, GatewayInvariant, Base
<1>2. GatewayInvariant /\ [GatewayNext]_allVars => GatewayInvariant'
  <2> SUFFICES ASSUME GatewayInvariant, [GatewayNext]_allVars PROVE GatewayInvariant'
    OBVIOUS
  <2>1. Base /\ Roles /\ GInv /\ OutInv BY DEF GatewayInvariant
  <2>2. [Next]_vars BY <2>1, OTSimulated
  <2>3. Base' BY <2>1, <2>2, TypeStep, HandlerStep DEF Base
  <2>4. Roles' BY <2>1, <2>2, RolesStep
  <2>5. GInv' BY <2>1, GInvStep
  <2>6. OutInv' BY <2>1, OutInvStep
  <2> QED BY <2>3, <2>4, <2>5, <2>6 DEF GatewayInvariant
<1> QED BY <1>1, <1>2, PTL DEF GatewaySpec

\* Nothing reaches the executor without its whole approval in the ledger, for
\* any number of submissions, threads and transactions (routes.py 170-556).
THEOREM EvidenceBeforeExecutionHolds == GatewaySpec => []EvidenceBeforeExecution
<1>1. GatewayInvariant => EvidenceBeforeExecution
  <2> SUFFICES ASSUME GatewayInvariant, NEW t \in Tx,
                      t \in executed \/ \E th \in Thread : pc[th] = "execute" /\ tx[th] = t
               PROVE  {"RECEIVED", "SCHEMA_VALIDATED", "INTEGRITY_PASSED", "SAFETY_PASSED",
                       "PREPARE_LOCK_GRANTED", "REVERIFY_PASSED"} \subseteq Stages(t)
    BY DEF EvidenceBeforeExecution
  <2>1. \A th \in Thread : pc[th] = "execute" /\ tx[th] = t => th \in Committing(t)
    BY DEF GatewayInvariant, Roles, Role, CommitPc, Committing, On
  <2>2. Contacts(t) BY DEF GatewayInvariant, OutInv
  <2>3. Approved(t) BY <2>1, <2>2 DEF Contacts
  <2> QED BY <2>3, ApprovalSteps DEF Approved
<1> QED BY <1>1, GatewayInvariantHolds, PTL

\* A COMMIT_ACK on record and a client that was told COMMITTED are both true of
\* the OT Interface's row, at all times afterwards (routes.py 673-692).
THEOREM AcknowledgedIsCommittedHolds == GatewaySpec => []AcknowledgedIsCommitted
<1>1. GatewayInvariant => AcknowledgedIsCommitted
  <2> SUFFICES ASSUME GatewayInvariant PROVE AcknowledgedIsCommitted
    OBVIOUS
  <2>1. ASSUME NEW t \in Tx, "COMMIT_ACK" \in Stages(t)
        PROVE  status[t] = "COMMITTED" /\ t \in executed
    <3>1. Closed(t) BY DEF GatewayInvariant, OutInv
    <3> QED BY <2>1, <3>1 DEF Closed, GatewayInvariant, Base, HandlersOK, CommittedOK
  <2>2. ASSUME NEW g \in Submission, gpc[g] = "done", answer[g] = "COMMITTED"
        PROVE  "COMMIT_ACK" \in Stages(control[g].tx)
    <3>1. Outcome(g) BY DEF GatewayInvariant, OutInv, PipelineInv
    <3> QED BY <2>2, <3>1 DEF Outcome
  <2> QED BY <2>1, <2>2 DEF AcknowledgedIsCommitted
<1> QED BY <1>1, GatewayInvariantHolds, PTL

\* A client that was told REJECTED, UNSAFE or ABORTED can rely on it: no row
\* says COMMITTED and no commit handler is left that could make it so
\* (routes.py 255-671).
THEOREM RefusalIsFinalHolds == GatewaySpec => []RefusalIsFinal
<1>1. GatewayInvariant => RefusalIsFinal
  <2> SUFFICES ASSUME GatewayInvariant, NEW g \in Submission, gpc[g] = "done",
                      answer[g] \in {"REJECTED", "UNSAFE", "ABORTED"}
               PROVE  /\ status[control[g].tx] # "COMMITTED"
                      /\ \A th \in Thread : tx[th] # control[g].tx
    BY DEF RefusalIsFinal
  <2>0. PipelineInv(g) BY DEF GatewayInvariant, OutInv
  <2>1. Len(chain[g]) > 0 /\ status[control[g].tx] # "COMMITTED"
    BY <2>0 DEF PipelineInv, Outcome
  <2>2. server[g] = NoThread BY <2>0, NoServer DEF PipelineInv
  <2>3. On(control[g].tx) \subseteq {NoThread} BY <2>0, <2>1, <2>2 DEF PipelineInv, Clean
  <2> QED BY <2>1, <2>3, GatewayAssumption DEF On
<1> QED BY <1>1, GatewayInvariantHolds, PTL

\* Behind the gateway no command set is executed twice, whatever is submitted
\* again, times out or crashes; the OT Interface alone does not promise it.
THEOREM ExecutedAtMostOnceHolds == GatewaySpec => ExecutedAtMostOnce
<1>1. GatewayInvariant /\ [GatewayNext]_allVars =>
        [\A th \in Thread :
            pc[th] = "execute" /\ pc'[th] = "finalize_tx" => tx[th] \notin executed]_vars
  <2> SUFFICES ASSUME GatewayInvariant, NEW th \in Thread, pc[th] = "execute"
               PROVE  tx[th] \notin executed
    OBVIOUS
  <2>1. th \in Committing(tx[th]) /\ tx[th] \in Tx
    BY DEF GatewayInvariant, Base, CallsOK, Roles, Role, CommitPc, Committing, On
  <2>2. Contacts(tx[th]) BY <2>1 DEF GatewayInvariant, OutInv
  <2> QED BY <2>1, <2>2 DEF Contacts, Early
<1> QED BY <1>1, GatewayInvariantHolds, PTL DEF GatewaySpec, ExecutedAtMostOnce

-----------------------------------------------------------------------------

\* Behind the gateway one of the two ways to leave a failed execution without
\* its safe state is closed: no other COMMIT of the transaction can finalize
\* the row, so only a failing statement of abort() is left (routes.py 166-170,
\* 186-190).
THEOREM FailureIsMadeSafeBehindGateway ==
  GatewaySpec => []("db" \notin Faults => FailedExecutionIsMadeSafe)
<1> DEFINE Unexecuted == \A th \in owed : op[th] = "commit" => tx[th] \notin executed
           I == OwedInv /\ Unexecuted
<1>1. GatewayInit => I
  BY DEF GatewayInit, Init, OwedInv, ServesCommit, Owing, CommitPc, AbortPc
<1>2. GatewayInvariant /\ I /\ [GatewayNext]_allVars => I'
  <2> SUFFICES ASSUME GatewayInvariant, I, [GatewayNext]_allVars PROVE I'
    OBVIOUS
  <2>0. Base /\ TypeOK BY DEF GatewayInvariant, Base
  <2>1. [Next]_vars BY OTSimulated DEF GatewayInvariant
  <2>2. OwedInv' BY <2>0, <2>1, OwedStep
  <2>3. ASSUME NEW th \in Thread, pc[th] = "execute"
        PROVE  /\ op[th] = "commit" /\ th \notin owed /\ tx[th] \notin executed
               /\ \A u \in owed : op[u] = "commit" => tx[u] # tx[th]
    <3>1. op[th] = "commit" /\ th \notin owed
      BY <2>3 DEF OwedInv, ServesCommit, Owing, CommitPc, AbortPc
    <3>2. tx[th] \in Tx /\ th \in Committing(tx[th])
      BY <2>0, <2>3, <3>1 DEF Base, CallsOK, CommitPc, Committing, On
    <3>3. Contacts(tx[th]) BY <3>2 DEF GatewayInvariant, OutInv
    <3>4. ASSUME NEW u \in owed, op[u] = "commit", tx[u] = tx[th] PROVE FALSE
      <4>1. u \in Committing(tx[th]) BY <2>0, <3>4 DEF TypeOK, Committing, On
      <4> QED BY <3>1, <3>2, <3>3, <4>1 DEF Contacts
    <3> QED BY <2>3, <3>1, <3>2, <3>3, <3>4 DEF Contacts, Early
  <2>4. ASSUME NEW th \in Thread, ExecuteSucceeds(th) PROVE Unexecuted'
    BY <2>3, <2>4, <2>0 DEF ExecuteSucceeds, TypeOK
  <2>5. ASSUME NEW th \in Thread, ExecuteFails(th) PROVE Unexecuted'
    BY <2>3, <2>5 DEF ExecuteFails, Owes
  <2>6. ASSUME NEW th \in Thread, AbortReadTx(th) \/ AbortUpdate(th) PROVE Unexecuted'
    <3>1. op[th] = "commit" => th \in owed
      BY <2>6 DEF AbortReadTx, AbortUpdate, OwedInv, ServesCommit, AbortPc
    <3> QED BY <2>6, <3>1 DEF AbortReadTx, AbortUpdate, Owes
  <2>7. ASSUME NEW th \in Thread,
               \/ PrepareReadLock(th) \/ PrepareReadTx(th) \/ PrepareExtend(th)
               \/ PrepareCreate(th) \/ ReadyReadTx(th) \/ ReadyReadLock(th)
               \/ FinalizeReadTx(th) \/ FinalizeUpdate(th) \/ EstopUpdate(th)
               \/ SafeState(th) \/ DbError(th)
        PROVE  Unexecuted'
    BY <2>7 DEF PrepareReadLock, PrepareReadTx, PrepareExtend, PrepareCreate, ReadyReadTx,
       ReadyReadLock, FinalizeReadTx, FinalizeUpdate, EstopUpdate, SafeState, DbError, histVars
  <2>8. ASSUME NEW th \in Thread, Return(th) PROVE Unexecuted'
    BY <2>8, <2>0 DEF Return, TypeOK
  <2>9. ASSUME NEW th \in Thread, NEW a \in Asset,
               \/ \E o \in {"prepare", "commit", "abort"}, t \in Tx : Request(th, o, t, a)
               \/ Request(th, "estop", NoTx, a)
        PROVE  Unexecuted'
    <3>1. th \notin owed
      BY <2>9 DEF Request, OwedInv, Owing, AbortPc
    <3>2. /\ executed' = executed
          /\ \A u \in Thread \ {th} : op'[u] = op[u] /\ tx'[u] = tx[u] /\ (u \in owed' => u \in owed)
      BY <2>9, <2>0 DEF Request, Owes, TypeOK
    <3>3. th \in owed' => op'[th] = "estop"
      BY <2>9, <2>0, <3>1 DEF Request, Owes, TypeOK
    <3>4. owed' \subseteq Thread
      BY <2>9, <2>0 DEF Request, Owes, TypeOK
    <3> QED BY <3>2, <3>3, <3>4
  <2>10. ASSUME (\E c \in late : LateWrite(c)) \/ Tick PROVE Unexecuted'
    BY <2>10 DEF LateWrite, Tick, callVars, histVars
  <2>11. ASSUME Crash PROVE Unexecuted' BY <2>11 DEF Crash
  <2>12. ASSUME UNCHANGED vars PROVE Unexecuted' BY <2>12 DEF vars, callVars, histVars
  <2> QED BY <2>1, <2>2, <2>4, <2>5, <2>6, <2>7, <2>8, <2>9, <2>10, <2>11, <2>12 DEF Next, Step
<1>3. GatewayInvariant /\ I => ("db" \notin Faults => FailedExecutionIsMadeSafe)
  BY DEF OwedInv, Owing, FailedExecutionIsMadeSafe, AbortPc
<1> QED BY <1>1, <1>2, <1>3, GatewayInvariantHolds, PTL DEF GatewaySpec

=============
