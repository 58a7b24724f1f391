----------------------------- MODULE IsaacProxy -----------------------------
(***************************************************************************)
(* The Isaac Sim proxy of the Safety Cluster (isaac_proxy.py) and its      *)
(* worker process (isaac_worker.py): a queue RPC under one lock.           *)
(*                                                                         *)
(* Callers are request threads.  A reply that arrives after its caller's   *)
(* time-out stays in the result queue and is what the next caller gets.    *)
(***************************************************************************)
EXTENDS Naturals, Sequences

CONSTANTS
    Caller,     \* request threads of the Safety Cluster
    Runtime,    \* runtime ids of benchmark shells
    Scene,      \* scene paths
    SceneOf,    \* the scene each runtime's shell refers to
    None,       \* None in the code: no runtime, no scene, no caller, no job
    Cleared,    \* a world that was stopped and cleared
    MaxJobs     \* bound: round trips in a behaviour

VARIABLES
    initialized, \* _initialized: the boot message was ok
    alive,       \* _proc.is_alive()
    reqQ,        \* _req_q
    resQ,        \* _res_q
    busy,        \* the job the worker took from the queue, or None
    current,     \* the worker's current_runtime_id and current_scene
    world,       \* the runtime and scene really loaded, or Cleared
    lock,        \* owner of _rpc_lock, or None
    pc,          \* where each caller is
    request,     \* the request dictionary of a caller
    got,         \* job_id of the message its round trip returned
    answer,      \* what the proxy returned
    jobs         \* number of job ids handed out (uuid4: always fresh)

queueVars  == <<reqQ, resQ>>
workerVars == <<alive, busy, current, world>>
callVars   == <<lock, pc, request, got, answer, jobs>>
vars == <<initialized, queueVars, workerVars, callVars>>

-----------------------------------------------------------------------------

\* What a job asks the worker to have loaded.
Want == {[rt |-> r, scene |-> SceneOf[r]] : r \in Runtime}
            \cup {[rt |-> None, scene |-> s] : s \in Scene \cup {None}}
Nothing == [rt |-> None, scene |-> None]
Worlds == Want \cup {Cleared}

Kind == {"validate", "state", "preload"}
Job == [id : Nat, kind : Kind, want : Want]
\* in: the world the worker answered from.
Message == [id : Nat, ok : BOOLEAN, in : Worlds]

ASSUME ConstantAssumption ==
    /\ SceneOf \in [Runtime -> Scene]
    /\ None \notin Runtime \cup Scene \cup Caller \cup Nat \cup Job
    /\ Cleared \notin Want
    /\ MaxJobs \in Nat

\* result: what the worker computed.  refused: an INDETERMINATE verdict, an
\* empty state or an exception, depending on the method.
Answer == [status : {"none", "result", "refused"}, in : Worlds]
NoAnswer == [status |-> "none", in |-> Nothing]
Refused  == [status |-> "refused", in |-> Nothing]

Init ==
    /\ initialized = FALSE
    /\ alive = FALSE
    /\ reqQ = <<>>
    /\ resQ = <<>>
    /\ busy = None
    /\ current = Nothing
    /\ world = Nothing
    /\ lock = None
    /\ pc = [c \in Caller |-> "idle"]
    /\ request = [c \in Caller |-> None]
    /\ got = [c \in Caller |-> None]
    /\ answer = [c \in Caller |-> NoAnswer]
    /\ jobs = 0

-----------------------------------------------------------------------------
(***************************************************************************)
(* Life cycle.  initialize runs before the first request is served and     *)
(* shutdown after the last one is answered; a failed boot leaves the proxy *)
(* as it was.                                                              *)
(***************************************************************************)
NoCalls == \A c \in Caller : pc[c] = "idle"

Initialize ==
    /\ ~initialized /\ NoCalls
    /\ initialized' = TRUE
    /\ alive' = TRUE
    /\ reqQ' = <<>> /\ resQ' = <<>>
    /\ busy' = None
    /\ current' = Nothing /\ world' = Nothing
    /\ UNCHANGED callVars

\* SHUTDOWN message, join, terminate if need be, _cleanup.
Shutdown ==
    /\ initialized /\ NoCalls
    /\ initialized' = FALSE
    /\ alive' = FALSE
    /\ reqQ' = <<>> /\ resQ' = <<>>
    /\ busy' = None
    /\ UNCHANGED <<current, world, callVars>>

\* The worker process dies (a native crash of the simulator).  The proxy
\* keeps its queues and does not start it again.
WorkerDies ==
    /\ alive
    /\ alive' = FALSE
    /\ busy' = None
    /\ UNCHANGED <<initialized, queueVars, current, world, callVars>>

-----------------------------------------------------------------------------
(***************************************************************************)
(* validate_trajectory, get_current_state and preload_runtime.             *)
(***************************************************************************)
IsInitialized == initialized /\ alive

\* The method is entered: is_initialized, then a fresh job_id.
Call(c, kind, want) ==
    /\ pc[c] = "idle"
    /\ \/ /\ ~IsInitialized
          /\ pc' = [pc EXCEPT ![c] = "done"]
          /\ answer' = [answer EXCEPT ![c] = Refused]
          /\ UNCHANGED <<request, jobs>>
       \/ /\ IsInitialized
          /\ jobs < MaxJobs
          /\ jobs' = jobs + 1
          /\ request' = [request EXCEPT ![c] = [id |-> jobs, kind |-> kind, want |-> want]]
          /\ pc' = [pc EXCEPT ![c] = "acquire"]
          /\ UNCHANGED answer
    /\ UNCHANGED <<initialized, queueVars, workerVars, lock, got>>

\* _round_trip: the lock, then _req_q.put.
Put(c) ==
    /\ pc[c] = "acquire"
    /\ lock = None
    /\ lock' = c
    /\ reqQ' = Append(reqQ, request[c])
    /\ pc' = [pc EXCEPT ![c] = "get"]
    /\ UNCHANGED <<initialized, resQ, workerVars, request, got, answer, jobs>>

\* Mutant: the job_id of the reply is not compared.
Receive_NoJobIdCheck(c) ==
    LET m == Head(resQ)
    IN /\ pc[c] = "get"
       /\ resQ # <<>>
       /\ resQ' = Tail(resQ)
       /\ lock' = None
       /\ got' = [got EXCEPT ![c] = m.id]
       /\ answer' = [answer EXCEPT ![c] = IF m.ok THEN [status |-> "result", in |-> m.in]
                                                  ELSE Refused]
       /\ pc' = [pc EXCEPT ![c] = "done"]
       /\ UNCHANGED <<initialized, reqQ, workerVars, request, jobs>>

\* _res_q.get returns the oldest message, whosever it is; the lock is released
\* and the job ids are compared.
Receive(c) ==
    LET m == Head(resQ)
        mine == m.id = request[c].id
    IN /\ pc[c] = "get"
       /\ resQ # <<>>
       /\ resQ' = Tail(resQ)
       /\ lock' = None
       /\ got' = [got EXCEPT ![c] = m.id]
       /\ answer' = [answer EXCEPT ![c] = IF mine /\ m.ok THEN [status |-> "result", in |-> m.in]
                                                          ELSE Refused]
       /\ pc' = [pc EXCEPT ![c] = "done"]
       /\ UNCHANGED <<initialized, reqQ, workerVars, request, jobs>>

\* Mutant: acquire() and release() around the calls, without a finally.
Timeout_KeepsLock(c) ==
    /\ pc[c] = "get"
    /\ resQ = <<>>
    /\ answer' = [answer EXCEPT ![c] = Refused]
    /\ pc' = [pc EXCEPT ![c] = "done"]
    /\ UNCHANGED <<initialized, queueVars, workerVars, lock, request, got, jobs>>

\* _res_q.get raises Empty: the lock is released, the request is not withdrawn.
Timeout(c) ==
    /\ pc[c] = "get"
    /\ resQ = <<>>
    /\ lock' = None
    /\ answer' = [answer EXCEPT ![c] = Refused]
    /\ pc' = [pc EXCEPT ![c] = "done"]
    /\ UNCHANGED <<initialized, queueVars, workerVars, request, got, jobs>>

Return(c) ==
    /\ pc[c] = "done"
    /\ pc' = [pc EXCEPT ![c] = "idle"]
    /\ request' = [request EXCEPT ![c] = None]
    /\ got' = [got EXCEPT ![c] = None]
    /\ answer' = [answer EXCEPT ![c] = NoAnswer]
    /\ UNCHANGED <<initialized, queueVars, workerVars, lock, jobs>>

-----------------------------------------------------------------------------
(***************************************************************************)
(* The worker loop of isaac_worker_main.                                   *)
(***************************************************************************)
WorkerTake ==
    /\ alive /\ busy = None
    /\ reqQ # <<>>
    /\ busy' = Head(reqQ)
    /\ reqQ' = Tail(reqQ)
    /\ UNCHANGED <<initialized, resQ, alive, current, world, callVars>>

\* result_queue.put
PutResult(ok, in) ==
    /\ resQ' = Append(resQ, [id |-> busy.id, ok |-> ok, in |-> in])
    /\ busy' = None
    /\ UNCHANGED <<initialized, reqQ, alive, callVars>>

\* Mutant: only the scene is compared, two runtimes may share one.
NeedsLoad_SceneOnly(job) ==
    \/ job.kind = "preload"
    \/ job.kind = "validate" /\ job.want.scene \notin {None, current.scene}

\* PRELOAD_RUNTIME always loads.  A validation loads when it names a runtime
\* and the runtime or its scene differs from what is recorded, or when it
\* names only a scene and that differs.
NeedsLoad(job) ==
    \/ job.kind = "preload"
    \/ /\ job.kind = "validate"
       /\ \/ job.want.rt # None /\ job.want # current
          \/ job.want.rt = None /\ job.want.scene \notin {None, current.scene}

\* _preload_runtime_scene or _reload_scene succeeds; the job is answered from
\* the new world, or fails in it.
WorkerLoads ==
    /\ alive /\ busy # None
    /\ NeedsLoad(busy)
    /\ current' = busy.want
    /\ world' = busy.want
    /\ \E ok \in BOOLEAN : PutResult(ok, busy.want)

\* Mutant: the failed load is recorded as what is current.
WorkerLoadFails_Recorded ==
    /\ alive /\ busy # None
    /\ NeedsLoad(busy)
    /\ world' = Cleared
    /\ current' = Cleared
    /\ PutResult(FALSE, Cleared)

\* The load raises.  The old world was stopped and cleared before the new one
\* was built, and current_runtime_id and current_scene are not touched.
WorkerLoadFails ==
    /\ alive /\ busy # None
    /\ NeedsLoad(busy)
    /\ world' = Cleared
    /\ UNCHANGED current
    /\ PutResult(FALSE, Cleared)

\* The job is answered, or fails, in the world that is loaded.
WorkerAnswers ==
    /\ alive /\ busy # None
    /\ ~NeedsLoad(busy)
    /\ \E ok \in BOOLEAN : PutResult(ok, world)
    /\ UNCHANGED <<current, world>>

Next ==
    \/ Initialize \/ Shutdown \/ WorkerDies
    \/ \E c \in Caller :
          \/ \E w \in Want : Call(c, "validate", w)
          \/ \E r \in Runtime : Call(c, "preload", [rt |-> r, scene |-> SceneOf[r]])
          \/ Call(c, "state", Nothing)
          \/ Put(c) \/ Receive(c) \/ Timeout(c) \/ Return(c)
    \/ WorkerTake \/ WorkerLoads \/ WorkerLoadFails \/ WorkerAnswers

Spec == Init /\ [][Next]_vars

\* Queue.get has a time-out, so a caller that waits for a reply goes on.
FairSpec == Spec /\ \A c \in Caller : WF_vars(Receive(c) \/ Timeout(c))

-----------------------------------------------------------------------------
(***************************************************************************)
(* Properties.                                                             *)
(***************************************************************************)
\* Every variable stays in its range.
TypeOK ==
    /\ initialized \in BOOLEAN
    /\ alive \in BOOLEAN
    /\ reqQ \in Seq(Job)
    /\ resQ \in Seq(Message)
    /\ busy \in Job \cup {None}
    /\ current \in Want
    /\ world \in Worlds
    /\ lock \in Caller \cup {None}
    /\ pc \in [Caller -> {"idle", "acquire", "get", "done"}]
    /\ request \in [Caller -> Job \cup {None}]
    /\ got \in [Caller -> Nat \cup {None}]
    /\ answer \in [Caller -> Answer]
    /\ jobs \in Nat

\* A caller gets a result only if it is the reply to its own request, however
\* many late replies of other callers are in the queue (isaac_proxy.py 107,
\* 132, 154).
ResultIsOwn ==
    \A c \in Caller : answer[c].status = "result" => got[c] = request[c].id

\* A validation or preload that names a runtime, or only a scene, is answered
\* from a world with that runtime or scene, across every order of loads, plain
\* scenes and late replies, or from a world that a failed load has cleared
\* (isaac_worker.py 81-105).
ComputedInRequestedWorld ==
    \A c \in Caller :
        LET in == answer[c].in
            want == request[c].want
        IN answer[c].status = "result" /\ in # Cleared =>
              /\ want.rt # None => in = want
              /\ want.scene # None => in.scene = want.scene

\* Requests on their way that no waiting caller will take the reply of.
Abandoned ==
    LET outstanding == Len(reqQ) + Len(resQ) + (IF busy = None THEN 0 ELSE 1)
    IN outstanding > (IF lock = None THEN 0 ELSE 1)

\* After a time-out every later call is refused until the process restarts:
\* the abandoned reply shifts the queue by one for good, so no verdict is
\* taken from the simulator any more (isaac_proxy.py 188-190, fail-closed).
AbandonedRefusesAll ==
    [][Abandoned => \A c \in Caller :
          answer'[c].status = "result" => answer[c].status = "result"]_vars

\* The lock is always released: no caller waits for it forever because
\* another one's reply was lost (isaac_proxy.py 188-190).
LockIsReleased == lock # None ~> lock = None
=============================================================================
