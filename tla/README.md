# PCAG: a TLA+ model of the proof-carrying action gateway

PCAG sits between an AI agent and industrial devices. An agent submits a control
request with a proof package; the gateway checks it against the active policy and the
current sensor snapshot, asks the Safety Cluster for a verdict, and only then drives a
two-phase execution (PREPARE, re-verify, COMMIT) through the OT Interface. Every stage
is recorded in a hash-chained Evidence Ledger. Each service is one uvicorn process
(`src/scripts/start_services.py:50`); services talk over HTTP and share one PostgreSQL
database at its default isolation level, READ COMMITTED.

Paths below are relative to `src/pcag/`.

## 1. Inventory

| Component | State it keeps | Operations | Hard parts |
|---|---|---|---|
| OT Interface `apps/ot_interface/` | `transactions` table (status, asset, lock expiry); the device behind the executor | PREPARE, COMMIT, ABORT, E-STOP | handlers are plain `def` routes, so they run concurrently in threads; every handler is several SQL statements; executor calls time out and the write arrives later; lock TTL |
| Gateway `apps/gateway/` | per request only: stage, evidence sequence number and previous hash, what was read | one pipeline per request | every `await` is a point where anything may happen; a call that timed out goes on at the callee; evidence failures end the pipeline |
| Evidence Ledger `apps/evidence_ledger/` | `evidence_events`, unique on (transaction, sequence) | append, read, verify chain | duplicate submissions, lost replies |
| Policy Store / Policy Admin `apps/policy_store/`, `apps/policy_admin/` | `policies` table with an `is_active` flag per row | create, derive a version, activate, reads | check-then-insert, UPDATE snapshots and row locks of overlapping activations |
| Isaac proxy and worker `apps/safety_cluster/isaac_*.py`, `plugins/simulation/isaac_collision.py` | two queues, the RPC lock, the worker's loaded world | validate, state, preload, initialize, shutdown | late replies, a dying worker, failed loads; checks whose failures are recorded only once |
| Integrity check `core/services/integrity_service.py` | none | compares a proof with policy, reading and clock | both ends of the age window, percentages of zero |
| Safety Cluster validation `apps/safety_cluster/service.py`, `core/services/` | three futures of a thread pool | rules, barrier functions, simulation, consensus | a fan-out where one validator fails or never ends; numeric edges |
| Simulation back ends `plugins/simulation/` | positions and paths of vehicles; the state of a reactor | tick, segment, sample | conflicts between two ticks, wait-for rings, a run cut short |
| PLC Adapter `apps/plc_adapter/` | Modbus connections with a lock each; virtual runtimes without one | read, execute, safe state, preload, health | reconnect and retry of a whole action list; lost responses; a runtime swapped under a request |
| Executors `plugins/executor/`, `apps/ot_interface/executor_manager.py` | executor instances per name, their `last_error` | look-up, execute, safe state, reset | check-then-create, one object for several calls, partial writes |
| Sensor Gateway `apps/sensor_gateway/`, `plugins/sensor/` | one composite source | latest snapshot and its hash | what the hash covers; a source that cannot be created |
| In-memory state machine `core/services/tx_state_machine.py` | dictionaries | the same four operations, sequential | lock expiry |
| Dashboard, viewers, logging, auth, configuration, scripts, benchmarks | display and I/O | | not modelled |

What makes each correct:

* **OT Interface**: one holder per asset lock; a row says COMMITTED only for what was
  executed; finished transactions stay finished; only prepared transactions reach the
  device; after a failed execution, an abort or an E-STOP the safe state is tried before the
  answer.
* **Gateway and ledger**: nothing is executed without its evidence; the chain verifies; a
  transaction runs once; what the client is told agrees with the transaction table; every
  submission is answered.
* **Policy Store**: versions are immutable; a derived version changes one asset; one active
  version.
* **Isaac proxy and worker**: a caller only gets the result of its own request, computed in
  the world it asked for; the lock is always released; SAFE means that no check failed.
* **Sensor Gateway and integrity check**: an admitted proof is fresh and, up to the rounding
  of the hash, speaks of the state the sensors report.
* **Safety Cluster**: an approval means what the rules say, along the whole plan; a validator
  that failed is never outvoted; a simulation cut short is never SAFE; whatever fails, a
  request comes closer to its answer (unless a route starts or ends between two cells).
* **PLC Adapter**: to its callers the writes of a request are atomic, retries included; a
  snapshot is made of words sent during its own request; the lock is freed; health tells the
  last outcome; virtual writes land.
* **Executors**: only initialized instances are handed out; True means written.

`PROJECT.json` lists the hazards at their lines, each with the properties that would catch
it or the reason why none does.

## 2. Modules

| Module | What it is |
|---|---|
| `OTInterface` | the four handlers over the transaction table |
| `OTInterfaceProofs` | theorems about it |
| `PolicyStore` | the policy table as the admin routes use it |
| `PolicyStoreProofs` | theorems about it |
| `IsaacProxy` | the queue RPC and the worker loop |
| `IsaacProxyProofs` | theorems about it |
| `Gateway` | the pipeline and the ledger, composed with `OTInterface` (which it extends) |
| `GatewayProofs` | the composition implements `OTInterface`; the evidence chain; what a submission comes to: approvals, answers, at most one execution |
| `ModbusCodec` | registers, encoding and decoding, translation of actions: operators shared by the next two |
| `AtomicPlc` | abstract specification: a device on which the writes of a request take one step |
| `PlcAdapter` | the adapter service; implements `AtomicPlc` |
| `DataInduction` | lemmas: induction over numbers, what iteration and `FlattenSeq` compute; used by the proofs of three components |
| `PlcAdapterProofs` | theorems about the adapter: the refinement, connections, the virtual path |
| `Executors` | the registry and the three executor plugins |
| `ExecutorsProofs` | theorems about the registry and about what a call reports |
| `SafetyRules` | rules, barriers and consensus as operators |
| `Integrity` | `check_integrity` as operators |
| `SensorGateway` | routing, flattening, canonicalization and hashing of a reading as operators |
| `GridSimulation` | the AGV grid: paths, conflicts, deadlock rings, as operators |
| `RobotSimulation` | the Isaac worker's checks of one move, as operators |
| `SafetyCluster` | stages [110] and [120] of a request, composed of the five modules above and the reactor |
| `SafetyClusterProofs` | theorems about it |
| `MC...` | instances for TLC: symmetry sets, constant functions, catalogues of requests |

### OTInterface

A worker thread serves one request; `pc` says which statement comes next. Each SELECT and
each UPDATE with its commit is one step, because under READ COMMITTED other sessions may
commit between two statements. `prepare` is `PrepareReadLock`, `PrepareReadTx`,
`PrepareExtend` or `PrepareCreate`; `check_commit_ready` is `ReadyReadTx` and
`ReadyReadLock`; the executor is `ExecuteSucceeds` or `ExecuteFails`; `finalize_commit` is
`FinalizeReadTx` and `FinalizeUpdate`; `abort` is `AbortReadTx` and `AbortUpdate`, used by
the abort route and by a COMMIT whose execution failed; `estop` is `EstopUpdate`;
`_execute_safe_state` is `SafeState`. `update_status` and `extend_lock` have a WHERE clause
on the transaction id only, so the model writes over whatever is there.

`local` holds what a session read and uses later (the clock value, the expiry read one
query before it is compared). A row fetched twice in one SQLAlchemy session is not
refreshed, which is why the first values count. `get_active_lock` takes the first row of an
unordered SELECT: any matching row.

A command set is identified with its transaction; `device` is the last one that reached an
asset (`Safe` for the safe-state commands). `Faults` selects what may go wrong: a failing
statement (`db`), an execution that applied part of its commands (`partial`), an adapter
call that timed out with the write still on its way (`timeout`, at most `MaxLate` at a
time), a crash of the process (`crash`). A transaction's `tooLate`, `executed`, `raced` and
`owed` are history: they are read by no action's guard. A handler owes a safe state (`Owes`)
from the moment its execution has failed, it has found or made its transaction ABORTED, or an
E-STOP has come in; only the attempt, or a crash, takes that away. `owed` is set before
`abort()` runs, so an abort that fails leaves it set.

### PolicyStore

An UPDATE under READ COMMITTED is two steps: `UpdateStart` fixes the snapshot,
`UpdateRows` waits for rows another session has changed, checks the WHERE clause again and
locks its rows until commit (`off`). SQLAlchemy emits no UPDATE for an attribute that
already has its value (`on`). `create_policy` and `update_asset_profile` check and insert in
separate statements; the primary key decides.

### IsaacProxy

`Call`, `Put`, `Receive`, `Timeout` are one `_round_trip` under `_rpc_lock`; `WorkerTake`,
`WorkerLoads`, `WorkerLoadFails`, `WorkerAnswers` are the worker loop. `current` is what the
worker recorded, `world` what is really loaded: a load that raises has already cleared the
old world. A result carries the world it was computed in; the physics is left open.

### Gateway

`gpc` is the stage a pipeline is about to log or the call it is about to make. A hash is
modelled by what it commits to: the sequence of stages logged so far, so `chain` gives both
`prev_hash` and `evidence_seq`. A call to the OT Interface is `Post` (a worker thread takes
the request) and `TakeReply`; `CallFails` lets the HTTP client give up while the handler
goes on. Policy activations, sensor changes, E-STOPs, the clock and crashes of both
processes happen at any time. Only the final verdict of the Safety Cluster and, of
`check_integrity`, the comparison of policy version and hash are modelled; the rest of
these checks may go either way; `SafetyCluster` has them in full. Fault injection of a proof
package is an input.

### PlcAdapter and AtomicPlc

A request for an asset with a preloaded runtime works on that runtime's registers, one word
per step and without a lock; a preload replaces the runtime while others keep a reference to
the old one (`rt`). Every other request takes `ManagedModbusConnection.lock` and is
`_run_with_recovery`: connect if needed, one step per Modbus request, on any exception
reconnect and run the whole list again, once. A response may be lost after the device has
carried out the write (`ResponseLost`), the process may die (`Crash`). `Next` of the adapter
is shown to implement `AtomicPlc` under the mapping `plc <- VisibleRegs`: what the device
holds while nobody has the lock, and what it held when the lock was taken otherwise. The
abstract device lets a failed request leave what two runs of its list, each cut off
somewhere, can have written; a successful one leaves the list exactly.

The device changes its sensor registers (`Measured`) by itself at any time (`Drift`); `live`
is what they hold. A read sends one Modbus request per mapping, so the fields of a snapshot
may be of different moments. The refinement says what is left: `sensed <- Sensed` are the words
sent so far, each one sent by the abstract device in a step of its own (`Sense`), a repetition
uses nothing it was sent before (`StartOver`), and the answer is what the words of its own
request decode to; only fields in registers that are not `Measured` are all of one moment. Two
assumptions on the device: it answers one request with registers of one moment, and a request
it received on a connection is carried out before it accepts requests of a later connection.

Values are integers with a scale; a `float32` is a pair of words that stands for the value
(that the two words hold exactly what IEEE 754 would is not modelled). Rounding and 16-bit
wrap-around are modelled. What a list of writes leaves in a register is the value of the last
write that covers it (`Overlay`); where two mappings name one field, the last one decides
(`MappingOf`).

### Executors

`get_executor` is `GetExecutor` (the look-up), `Create`, `Initialize` and `Publish`, because
two handler threads may be between any two of them. `last_error` is one field per object:
`reason` says whose error a handler read.

### SafetyCluster

One request is followed from the reading of its sensor to its answer. A `Case` is everything
the request meets: proof, policy, asset configuration, reading. `ReadSensor`,
`IntegrityCheck`, `Prepare`, `Join` and `Decide` are the request's own thread; `RunRules`,
`RunCbf` and the simulation run in the pool, in any order. The rule and the barrier validator
share no state with the others and are one step each; a simulation takes a step per tick,
segment, sample or move. `sensor` and `hash` are the reading and the hash the gateway got with
it. `Projected` is the state the barrier validator expects after the first n actions: a field
that some action sets has the value of the last such action. `Recorded` is the arm's list of
violations after a move, of which only the first is sure to be recorded; `sim.sampled` counts
what was looked at, per segment or action, and `sim.clear` is history: no check failed so far.

The routes of the vehicles are walked cell by cell before the first tick, action by action
(`RouteGiven`, `RouteRaises`, `RouteCell`, `RouteEnds`), as `_generate_simple_path` does with
`!=` and steps of one. `Meets` says which coordinates such a walk may meet and which it may step
past; one that stepped past goes on for ever (`RouteMissed`, then `Astray`). Coordinates are in
half cells. Whole cells are counted exactly (up to 2^53, where floats lose them); an odd
coordinate stands for any position between two cells. A walk between two of these may end
or not, if they are a whole number of cells apart, because the fractions are rounded: from 1.5
to 0.5 it ends, from 1.1 to 0.1 it does not. Every other one never ends. Not modelled: a
fraction so small that rounding loses it altogether.

The hash of a reading is the text that is hashed, `Canonicalize` of each field: numbers are
rounded to three decimals, half to even, with their sign kept (`Thousandths`, `Decimal`;
`Grain` is a thousandth in the unit of the numbers, 2 in the runs, so that ties occur). Every
number is taken for a float; the code writes an `int` without decimals, so that its hash
differs from that of the equal float. The model only admits more.

Abstractions: numbers are integers in some unit (hundredths for weights), so that comparisons
are exact where the code's are rounded; the weights of a policy are those of the three
validators and the sum of all others (`other`), a missing one being zero; nested fields are flat
(dotted) names. A value that is no number is a text that `float()` rejects (numeric texts are
numbers to the reactor), and a coordinate that is null counts as one. `OdeRaises` raises before
the first segment what the code raises when it comes to the field; the future fails either way.
The rules are those that parse: `_build_ruleset` (`apps/safety_cluster/service.py:59-69`) logs
and skips the others, so `ConservativeApproval` says nothing of a rule that did not. Whether a
barrier of minus infinity in the details can be sent as JSON is left out. The
reactor's solver is open except for the sign of the temperature drift of `_reactor_ode`. The
arm's physics is open: a move may end beside its target, poses and efforts may be anything
or unknown; space has one axis. Viewers are off.

## 3. Runs

| Run | Checks |
|---|---|
| `ot_locks` | two transactions, one asset, two threads, clock 0..2 with a TTL of 1, database errors, crashes |
| `ot_device` | one transaction id on two assets, two threads, every device fault and crashes, no database errors |
| `ot_lock_race` (violation) | `ExclusiveLock` |
| `ot_estop_race` (violation) | `EstopStops` |
| `policy_store` | two sessions, a seeded and a new version, two assets, two profiles, all requests |
| `policy_two_active` (violation) | `SingleActive` |
| `isaac_proxy` | two callers, three jobs, two runtimes that share a scene, plain scenes; liveness under `FairSpec` |
| `gateway_duplicates` | two submissions of one transaction, all outages and device faults |
| `gateway_outcomes` | one submission, all outages and injected faults, two readings, lock expiry; liveness under `GatewayFairSpec` |
| `plc_adapter` | two threads, one connection with two assets, the second with action mappings only; reads, a two-action list, a list that cannot be translated, a value that does not fit a register, safe states, at most two preloads per process; failing connects, requests, lost responses, crashes; one register that the device changes by itself between two values; the refinement of `AtomicPlc`, and liveness under `FairSpec` |
| `executors` | two handler threads, one executor of each type in turn, three assets (with and without safe state, unmapped), no action, mapped, failing, unmapped and low-level actions; every fault, restarts |
| `safety_cluster` | a catalogue of several thousand requests, one at a time, each under every order of the validator threads and every failure |

Why the bounds are enough: every hazard listed needs at most two actors on one row, one
asset or one lock. Two threads give every order of two handlers, and a thread serves any
number of requests one after the other. A clock of 2 with a TTL of 1 reaches a lock before,
at and after its expiry, and the renewal of an expired one. Two assets are needed for a
request that names the wrong asset, two runtimes with one scene for the worker's decision to
reload, three jobs for a late reply that meets a later request. A second preload is needed to
swap a runtime that is in use. One register that changes by itself, next to others that do
not, tells the two kinds of field of a snapshot apart; several are left to the theorem. The
catalogue of `safety_cluster` varies one part of a common request at a time: the proof
(versions, hashes, both ends of the age window, zero and missing readings, numbers at a tie of
the rounding), the reading (each source, what changed since the agent saw it), fourteen rule sets against plans and snapshots under every consensus mode, weights and thresholds at
their ties, all one-step movements of three and four vehicles on a square (rings included),
routes with obstacles, half cells and unknown vehicles, reactor plans with and without
durations, arm plans at, inside and outside every limit. Requests share no state in the
cluster, so one at a time is enough. What depends on more actors
is covered by the theorems, which hold for every value of the constants.

Deadlock is checked in every run. Symmetry is used only where no liveness property is
checked.

Fairness. `FairSpec` of `IsaacProxy`: a caller in `Queue.get` goes on, because the call has a
time-out; nothing is assumed of the worker. `GatewayFairSpec`: every pipeline keeps taking steps, because the
event loop runs it and `AsyncClient(timeout=30.0)` ends every call; nothing is assumed of
the services. `FairSpec` of `PlcAdapter`: the holder of a connection lock goes on, because
every call of the Modbus client has a time-out; nothing is assumed about who gets a contended
lock or about the virtual path. `OTInterface` and `SafetyCluster` have no fairness. In the OT
Interface every statement goes on to the next, so that a thread which is scheduled answers;
what a property can ask is what it has done before it does. In the cluster `EveryStepCloser`
says that every step of a request makes a list of natural numbers smaller (stages, futures to
await, running validators, and what the back end's loops have left, compared in this order),
which together with the absence of deadlock means that it is answered under any scheduling that
lets some thread run. The endless walk along a route is a step that is seen (`Astray`), and the
property allows it only for a route with a coordinate to cover that does not start and end on a
whole cell.

### Where the code does not do what it says

* `ot_lock_race`: `prepare` looks for an active lock and inserts its own in two statements;
  two PREPAREs that overlap are both granted (`apps/ot_interface/service.py:23`).
  `ExclusiveUnlessRaced` shows that this overlap is the only way.
* `ot_estop_race`: a COMMIT past its readiness check runs its executor after an E-STOP has
  been answered (`apps/ot_interface/routes.py:272`).
* `policy_two_active`: two activations that overlap leave two active versions
  (`apps/policy_store/repository.py:46`). `SoloActivationRepairs` shows that the next
  activation that runs alone repairs it. Three overlapping activations may also leave none.

Seen while modelling and not checked by a run of its own:

* OT Interface and Gateway. Two overlapping COMMITs of one transaction both execute (not
  behind the gateway, see `ExecutedAtMostOnce` in `gateway_duplicates`); an abort that read
  LOCKED overwrites COMMITTED; a lock may expire while its commands run (it lasts 5 s by
  default, an executor call up to 10 s); a policy activated after stage 110 is not noticed
  before execution. If the append of COMMIT_ACK fails after
  the device has executed, the client gets HTTP 500 and nothing is undone
  (`apps/gateway/routes.py:676`), although `routes.py:141` calls the pipeline fail-closed.
* OT Interface. A failed execution need not be followed by the safe state. `commit` calls
  `abort()` first, and where that raises or is refused it answers HTTP 500 and never comes to
  `_execute_safe_state` (`apps/ot_interface/routes.py:166-170`, `186-190`), although the comments
  at 45-46 and 181-182 say that the site is put back to its safe state after every failed
  execution. It takes a failing statement, or two overlapping COMMITs of one transaction: one
  executes and is finalized, the execution of the other fails, and its `abort()` finds COMMITTED.
  `FailedExecutionIsMadeSafe` states what the comments say; it is false in `OTInterface`.
  `SafeStateBeforeAnswer` shows that nothing else breaks it, and
  `FailureIsMadeSafeBehindGateway` that the second case cannot occur behind the gateway.
* Isaac proxy. A reply that comes after its caller's time-out is taken by the next caller
  (and refused, see `AbandonedRefusesAll`: after one time-out every later call is refused
  until a restart).
* Executors. `ModbusExecutor.execute` assigns the result of a low-level action to `success`,
  which never reaches `all_success` (`plugins/executor/modbus_executor.py:209`): every
  configured safe state is in that form, so `safe_state` returns True after failed writes,
  against `core/ports/executor.py` ("True if the safe state command was successfully sent").
  `OutcomeIsReported` covers everything else. Two threads that create an executor together
  leave one instance that `reset` never shuts down (`InstancesAccounted`: only they do).
* PLC Adapter. Virtual runtimes are lost in a restart, and the next request for such an asset
  goes to the device. The first of two methods named `safe_state` is dead. A snapshot is not the
  device at one moment: each mapping is read in a request of its own (`service.py:205-214`) while
  the sensors move.
* Barriers and rules. `cbf_validator.py:112` accepts a barrier of 0 where the comments say
  that more than 0 is SAFE, and lines 52-59 return INDETERMINATE where the port says it must
  not. A threshold without operator means equality to the rules, at most to the barriers
  and nothing to the reactor. A second rule with the same id replaces the first one's barrier.
* Simulations. Of several routes of one vehicle only the last is simulated; explicit paths may
  jump; an unknown vehicle is not simulated; a route from or to a position between two cells may
  be computed forever, and the request waits for it (`plugins/simulation/discrete_event.py:468`:
  1.1 to 0.1 never ends, for 1.1 - 1 is not 0.1; see `Meets`). A reactor run that times
  out answers INDETERMINATE even if it had found violations, and RENORMALIZE then takes the
  simulator out of the vote. The arm's workspace check passes when the pose is unknown; a rule
  about a joint's velocity is applied to its position.
* Sensor Gateway. The hash rounds to three decimals (`core/utils/canonicalize.py:39`), so
  a proof may carry the hash of the current snapshot and still differ from it in every reading,
  by up to a thousandth each. One asset configured as mock in production makes every read fail.

## 4. Proofs

Everything below is proved for every number of transactions, assets, threads, sessions,
submissions, callers, connections and vehicles, every request and policy, every lock TTL,
every clock bound and every choice of faults and outages. The assumptions are the named ones
of the modules, which TLC evaluates on every instance:

* `ConstantAssumption`, `GatewayAssumption`, `ExecutorAssumption`, `PlcAssumption`,
  `ClusterAssumption`, `GridAssumption`, `GrainAssumption`: bounds are naturals, the unit of
  rounding is positive, the TTL is positive as the
  request contract demands, the "no such" values are not members of their sets, threads and
  vehicles are finitely many.
* `RequestAssumption` of `PlcAdapter` and `ListAssumption` of `Executors`: lists are lists,
  and what is not refused has a connection, because `initialize` makes one for each asset of
  the mapping files.
* `MappingAssumption` of `PlcAdapter`: no two sensor mappings of an asset share a field or a
  register, a scale is positive, and a translated action writes at least one word. This is how
  `config/sensor_mappings.yaml` is written (distinct fields and addresses, scales 0.01, 0.1
  and 1.0); nothing in the code checks it. It is used for
  `VirtualAnswersHold` only, and there it is needed: two fields on one register cannot both be
  read back.
* `RequestAssumption`, `PlanAssumption`, `WorldAssumption` and `JointAssumption` of
  `SafetyCluster` and `SensorGateway`: what JSON and the model classes guarantee of a request
  and its policy. Lists are lists; a value is a number or is not; where the code computes
  without a check, in configuration and policy, there are numbers (integers here); a time
  step is positive; `grid.order` numbers the vehicles, as positions in a dict do. No order,
  sign, bound or uniqueness is assumed of any other value.

**`OTInterfaceProofs`.** `TypeCorrect`, `NeverRelockedHolds`,
`CommittedOnlyAfterExecutionHolds`, `NoExecAfterTerminalHolds`,
`OnlyPreparedReachDeviceHolds`, `SafeStateBeforeAnswerHolds`, `ExclusiveUnlessRacedHolds`.
None of the properties is inductive alone, because a handler acts on what it read several
steps ago. The inductive invariant is built in layers:

* `CallsOK`: a busy thread holds a request; it goes with `TypeOK`.
* `RowsStable`: a row, once written, keeps its asset and never goes back to NONE, nor from a
  terminal status to LOCKED. This action fact is what keeps the handlers' knowledge true
  while other handlers run (`HandlerStable`).
* `HandlerOK`: past its checks a handler works on an existing row of its own asset,
  `finalize_commit` runs only after a successful execution, and a COMMIT that came too late
  is still in front of its first query. `Base` is all of this together.
* `OwedInv`: a handler that owes a safe state is on its way to it: in the statements of
  `abort()`, about to try it, or at the end of a COMMIT with HTTP 500 whose transaction another
  handler executed, or with a statement that failed.
* `LockInv`: exclusiveness together with `Window`, what a PREPARE knows between its scan and
  its write: as long as nobody raced on the asset, it has no rival once its scan is over, and
  before it no rival that the scan could overlook because it returns the caller's own row.
  Extending an expired lock is the delicate case: only the scan that comes before it keeps
  it from reviving next to another transaction's lock.

**`PolicyStoreProofs`.** `TypeCorrect`, `ImmutableHolds`, `DerivedChangesOneAssetHolds`,
`SoloActivationRepairsHolds`. `SessionOK` says what a session has established at each step of
its route (the base it copied still exists, and differs from its candidate in one asset
only); `SoloOK` says that an activation nobody overlapped has selected, and then locked,
exactly the active rows.

**`GatewayProofs`.** `GatewayTypeCorrect` uses `Settled`: a submitted request names a
transaction and an asset, and a stage that ends the pipeline, like an abort, is reached with
its answer settled. `GatewayImplementsOTInterface` is the refinement: the variables of the
OT Interface are changed only by `Post`, `TakeReply` and `OTStep`, and each is a step of its
`Next`; the mapping is the identity on them. `OTGuaranteesBehindGateway` carries six of
the results above over to the composition. `FailureIsMadeSafeBehindGateway` adds what holds there
only: a transaction is executed at most once, so an execution that failed is not refused its
abort. `ChainValidHolds` needs `ChainInv`: the greatest
lower row, of which `verify_chain` speaks, is replaced by a predecessor row that every row
names (`RowOK`), sequence numbers are unique (`UniqueSeq`, from `uq_tx_seq`), and the last
event a pipeline logged is on record (`OnRecord`), also when a time-out hid a stored row.

Its second half is about outcomes: `EvidenceBeforeExecutionHolds`, `AcknowledgedIsCommittedHolds`,
`RefusalIsFinalHolds`, `ExecutedAtMostOnceHolds`. The first evidence row of a transaction
lets one pipeline in (`OneOwner`: a second one runs into `uq_tx_seq` and ends); only the owner
calls the OT Interface for it, and COMMIT at most once. `Role` says what a handler that works
on a COMMIT or an abort has behind it. `Clean` and `Outcome` are the core: as long as the owner
has not lost track of a call (a call that timed out always ends in ERROR or HTTP 500), the
handler it waits for is the only one that works on the transaction, so that what it answers is
what the row will say for good. `Closed` keeps that true for every later E-STOP, abort, lock
expiry and crash.

**`IsaacProxyProofs`.** `IsaacTypeCorrect`, `OwnResults`, `RequestedWorld`,
`AbandonedRefuses`. A reply carries no request id but the job id that `validate_trajectory`
compares, and a preload or a state request has none at all; the argument is about order: the
request on its way and the reply on its way belong to the caller that holds the lock, until a
reply is abandoned (`Answered`, `Fresh`, `Youngest`), and from then on every reply is older
than the caller that takes it. `Recorded`: what the worker has recorded as loaded is loaded,
or nothing is.

**`DataInduction`.** The induction theorems of the library take an operator as a parameter,
which the provers cannot instantiate. The rules proved here speak of sets: a set of numbers
that is not empty has a least element (`LeastNumber`, from the well-foundedness of strict
inclusion of finite sets), so a set with 0 that is closed under successor holds every number
(`Induction`, `BoundedInduction`), and a step function can be iterated (`IterationExists`),
which makes a recursive function satisfy its equation. With them `FlattenSeq` is unfolded
(`FlattenAppend`, `JoinedStep`), and a list that is worked off element by element, each in
its parts, is related to its concatenation (`ListCut`, `AppendNext`, `GoesOn`).

**`ExecutorsProofs`.** `InstancesAccountedHolds`, `ReasonIsOwnHolds`,
`OutcomeIsReportedHolds`. An object is not ready
until its creator has initialized it, so a new object never takes the place of one that was
handed out (`Pool`, `Known`); two threads that build for one name have both noted the other
(`Late`), and so have two that work on one object (`Apart`). For `OutcomeIsReported` a loop
invariant goes with these (`BInv`): before an action the acknowledged writes are exactly those
of the actions done (`Finished`), inside one also the first j of its own (`Inside`); so they
are a prefix of what the request asks for at every step, and all of it when the loop is through
(`PrefixSoFar`).

**`PlcAdapterProofs`.** `PlcTypeCorrect`, `HealthTellsLastOutcomeHolds`,
`PlcImplementsAtomicPlc`, `VirtualAnswersHoldHolds`. A lock is held by the thread inside the with-block (`Lock`). `Written`
says of a thread in there that the registers are those it found, overlaid with the first i
actions of its list, cut short by a failure, and then the first j of the repetition;
`ReadSoFar` says of a read that the words it was sent agree with the registers it found wherever
the device does not change them itself (`Drifting`: these are the only registers `live` speaks of). From
it each step is matched with the abstract device: taking the lock, single writes and a drifting
register are stutters, a single read is a `Sense`, a reconnect that throws away what was read a
`StartOver`, the release is the step in which the abstract request runs whole or fails cut
short, a crash is an abstract crash. The
lemmas `OverlayAt`, `OverlayStep` and `OverlayAgain` say how writes compose.

`VirtualAnswersHold` has an invariant of its own, `VInv`, because a virtual request works on
shared registers without a lock. `Objects` and `Reference`: a published runtime
belongs to one asset, and only requests for that asset refer to it. `Undisturbed`: a request that was left alone finds in the
current runtime of its asset the words it has written so far (`DoneWords`), or the image it
preloaded, and has read back the first n registers of it (`Fetched`). `TouchedThreads` is the
delicate half: a word written, or a preload, by another thread makes every request on that
runtime count as disturbed, and no other. The data half is `PreloadReadsBack`: the flattened
list of registers is cut at the mappings, no later mapping overwrites a register of an earlier
one, and encoding followed by decoding gives a value back up to half a unit of its scale.

**`SafetyClusterProofs`.** `NoVerdictWithoutValidatorsHolds`, `AdmittedIsFreshHolds`,
`ConservativeApprovalHolds`, `OpenSimulationIsBetweenHolds`, `SafeSimulationIsCompleteHolds`,
`SafeMeansNoContactHolds`, `DeadlockIsCycleHolds`, `EveryStepCloserHolds`, from four invariants:

* `Control`: how far the futures are. A future that was awaited is settled, and while none
  failed they all returned a verdict.
* `Reading`: what was read comes from the source of the asset, with its hash, and nothing is
  validated that the integrity check did not accept. `AdmittedIsFresh` then needs what equal
  hashes mean (`HashTells`) for every kind of source, and what a divergence within its limit
  means (`DivergenceBounds`).
* `Backed`: rules and barriers are what the two validators compute, and a SAFE answer is what
  the consensus makes of the verdicts. `BarrierMeans` and `AlongProjected` say what a
  barrier that is not negative means for the fields along the plan.
* `Simulated`: what a simulation has looked at so far. At tick k every conflict at the ticks
  before k is recorded; the samples of the segments before this one were all taken, of this one
  all but `left`; every move before this one was simulated, and a check that failed left a
  violation. `SafeMeansNoContact` adds geometry: vehicles that are a cell apart and move by at
  most a cell can only cross half-way by exchanging their cells (`CrossingIsSwap`), which
  `_detect_edge_swap_conflicts` reports.

`DeadlockIsCycleHolds` is about the walk along the wait-for edges. It comes back to a vehicle
within as many steps as there are vehicles (`WalkLoops`, by the pigeon-hole principle), what
lies between is closed under waiting and no part of it is (`CycleCloses`, by induction along the
walk), and a walk that starts in a closed set stays there (`WalkStays`). So a cycle found is a
ring, and from any vehicle of a ring the walk runs into all of it (`CyclesAreRings`); two
vehicles that wait for each other exchange their cells and are reported as that.

`EveryStepCloserHolds` is an action property: with the four invariants each action but
`RouteMissed` and `Astray` makes one number of the measure smaller and none before it larger, and
all of them stay natural numbers (`WorkNat`): no simulation runs past its plan and no walk past
the last cell of its route. For the two others the invariant knows that the route they walk is
`Fractional`, for two whole cells always meet.

Every invariant and action property the runs check is proved. Only model-checked are the
liveness properties `EverySubmissionAnswered`, `LockIsReleased` and
`LockIsFreed`: fairness is out of the prover's reach.

Three definitions were wrong or unclear in earlier versions and came out in the proofs: the
cases of `EffectiveMode` overlapped (for a mode other than AUTO the SIL could have been
looked at), and what two writes to one register leave was a recursion where the code just
writes in order. `SUBSET s \ {{}, s}` in `DeadlockIsCycle` has parentheses now: the model
checker and the prover read it differently without them.

## 5. Plan

1. `OTInterface`, `PolicyStore`, `IsaacProxy`, `Gateway` with their runs: done.
2. `PlcAdapter` with `AtomicPlc`, `Executors`, `SafetyCluster` with its operators: done.
3. Theorems about every component (section 4): done.
4. Every invariant and action property of the runs as a theorem: done.

## 6. Not modelled

* `core/services/tx_state_machine.py`: the sequential predecessor of the OT Interface's
  service, imported by its unit tests only.
* `plugins/simulation/isaac_backend.py` (an in-process variant of the worker) and
  `plugins/sensor/modbus_sensor.py`: no service uses them.
* The numbers a solver or a physics engine computes: open in the model.
* Viewers, scene construction, dashboard, logging, authentication, configuration files,
  alternative-action texts, scripts, seeds and benchmarks: they keep no state that the control
  path depends on, or are input and output only. `PROJECT.json` gives the reason for each
  component.
