--------------------------- MODULE SafetyCluster ---------------------------
(***************************************************************************)
(* Stages [110] and [120] of a control request: the sensor reading the     *)
(* gateway fetches, its integrity check of the proof package and the       *)
(* Safety Cluster it calls when that passes                                *)
(* (pcag/apps/safety_cluster/service.py).                                  *)
(*                                                                         *)
(* run_safety_validation starts three validators in a thread pool, waits   *)
(* for all of them and combines their verdicts.  The rule and the barrier  *)
(* validator compute in one step (SafetyRules); the simulation runs tick   *)
(* by tick (GridSimulation), move by move (RobotSimulation) or sample by   *)
(* sample (the reactor of pcag/plugins/simulation/ode_solver.py, here).    *)
(***************************************************************************)
EXTENDS Integrity, SensorGateway, GridSimulation, RobotSimulation

CONSTANTS
    Case,               \* the requests and policies of the instance
    NoCase,
    SetHeater,          \* the action types of the reactor
    SetCooling,
    Faults              \* bound: "fetch", "solver", "timeout" may happen

ASSUME ClusterAssumption == /\ NoCase \notin Case
                            /\ Faults \subseteq {"fetch", "solver", "timeout"}

Codec == INSTANCE ModbusCodec

\* What JSON and the model classes make of a request and its policy: numbers
\* where the code computes with them, lists, and integer milliseconds.
IsSeq(s)   == s \in Seq(ToSet(s))
IsValue(x) == /\ x.num \in BOOLEAN
              /\ x.num => x.v \in Int
              /\ ~x.num /\ IsList(x) => x.v \in Seq(Int)
IsPoint(p) == p \in Int \X Int

ASSUME RequestAssumption == \A c \in Case :
    /\ c.age \in Int /\ c.maxAge \in Int /\ c.sil \in Int
    /\ \A t \in c.thresholds : t.limit \in Int
    /\ \A f \in DOMAIN c.proof.snapshot : IsValue(c.proof.snapshot[f])
    /\ \A f \in DOMAIN c.raw : IsValue(c.raw[f])
    /\ Routed(c.route) = "isaac" =>
          \A f \in {"joint_positions", "joint_velocities", "joint_efforts"} :
             Has(c.raw, f) => c.raw[f].v \in Seq(Int)

ASSUME PlanAssumption == \A c \in Case :
    /\ IsSeq(c.actions) /\ IsSeq(c.mappings) /\ IsSeq(c.ruleset)
    /\ \A i \in DOMAIN c.actions :
          /\ c.actions[i].duration \in Seq(Int)
          /\ \A f \in DOMAIN c.actions[i].params : IsValue(c.actions[i].params[f])
    /\ \A i \in DOMAIN c.ruleset :
          /\ c.ruleset[i].min \in Seq(Int) /\ c.ruleset[i].max \in Seq(Int)
          /\ \A k \in DOMAIN c.ruleset[i].limit : IsValue(c.ruleset[i].limit[k])
          /\ IsSeq(c.ruleset[i].limit)
    /\ {"mode", "weights", "threshold", "onSim"} \subseteq DOMAIN c.consensus
    /\ c.consensus.threshold \in Int
    /\ \/ c.consensus.weights = <<>>
       \/ c.consensus.weights \in [{"rules", "cbf", "sim", "other"} -> Int]
    /\ c.reactor.horizon \in Int /\ c.reactor.dt \in Nat \ {0}

ASSUME WorldAssumption == \A c \in Case :
    /\ DOMAIN c.grid.agvs \subseteq Vehicle
    /\ \A a \in DOMAIN c.grid.agvs :
          IsPoint(c.grid.agvs[a].pos) /\ c.grid.agvs[a].path \in Seq(Int \X Int)
    /\ \A i \in DOMAIN c.actions : \A k \in DOMAIN c.actions[i].path :
          c.actions[i].path[k] \in Seq(Int \X Int)
    /\ \A i \in DOMAIN c.actions : IsSeq(c.actions[i].path)
    /\ c.grid.order \in [Vehicle -> Int]
    /\ c.grid.minDistance \in Int

Validator == {"rules", "cbf", "sim"}
Order     == <<"rules", "cbf", "sim">>

VARIABLES
    case,     \* the request, the policy and the world it is decided in
    sensor,   \* the reading of the asset, and the hash of it that the sensor
    hash,     \*   gateway gave: <<>> before there is one
    pc,       \* where the request is
    thread,   \* thread[v]: "none", "running", "returned" or "raised"
    verdict,  \* verdict[v] of a validator that returned
    joined,   \* futures awaited so far
    failed,   \* validators whose future raised, in the order awaited
    sim,      \* the simulation's own state
    answer    \* what the caller gets

request == <<case, sensor, hash>>
vars == <<request, pc, thread, verdict, joined, failed, sim, answer>>

NoSim == [stage |-> "none", index |-> 0, left |-> 0,
          positions |-> <<>>, paths |-> <<>>, at |-> <<>>, next |-> <<>>,
          values |-> <<>>, violations |-> {}, sampled |-> <<>>,
          first |-> FALSE, clear |-> TRUE]

Init ==
    /\ case = NoCase /\ sensor = <<>> /\ hash = <<>>
    /\ pc = "idle"
    /\ thread = [v \in Validator |-> "none"]
    /\ verdict = [v \in Validator |-> "none"]
    /\ joined = 0
    /\ failed = <<>>
    /\ sim = NoSim
    /\ answer = "none"

-----------------------------------------------------------------------------
Submit(c) ==
    /\ pc = "idle"
    /\ case' = c
    /\ pc' = "sensor"
    /\ UNCHANGED <<sensor, hash, thread, verdict, joined, failed, sim, answer>>

Respond(a) == pc' = "done" /\ answer' = a

\* The latest snapshot of the asset and its hash.
ReadSensor ==
    /\ pc = "sensor"
    /\ IF SourceMissing(case) \/ ReadRaises(case) THEN Respond("ERROR") /\ UNCHANGED <<sensor, hash>>
       ELSE /\ sensor' = ReadSnapshot(case, case.raw)
            /\ hash' = <<SnapshotHash(case, sensor')>>
            /\ pc' = "integrity" /\ UNCHANGED answer
    /\ UNCHANGED <<case, thread, verdict, joined, failed, sim>>

\* The sensor gateway cannot be reached.
SensorFails ==
    /\ pc = "sensor" /\ "fetch" \in Faults
    /\ Respond("ERROR")
    /\ UNCHANGED <<request, thread, verdict, joined, failed, sim>>

\* Divergence is looked at only when the proof carries a snapshot.
Thresholds(c) == IF DOMAIN c.proof.snapshot = {} THEN {} ELSE c.thresholds

IntegrityCheck ==
    /\ pc = "integrity"
    /\ LET reason == CheckIntegrity(case.proof, case.active, hash, case.age,
                                    case.maxAge, Thresholds(case), sensor)
       IN IF reason = "ok" THEN pc' = "fetch" /\ UNCHANGED answer
          ELSE Respond("REJECTED")
    /\ UNCHANGED <<request, thread, verdict, joined, failed, sim>>

\* The policy store cannot be reached or does not answer 200.
FetchFails ==
    /\ pc = "fetch" /\ "fetch" \in Faults
    /\ Respond("ERROR")
    /\ UNCHANGED <<request, thread, verdict, joined, failed, sim>>

\* The white list applies only if it is not empty.
Allowed(c) ==
    \/ c.allowed = {}
    \/ \A i \in DOMAIN c.actions : c.actions[i].type \in c.allowed

\* run_safety_validation up to the fan-out.
Prepare ==
    /\ pc = "fetch"
    /\ IF ~Allowed(case) THEN Respond("UNSAFE") /\ UNCHANGED thread
       ELSE IF case.mappings = <<>> THEN Respond("ERROR") /\ UNCHANGED thread
       ELSE /\ pc' = "join"
            /\ thread' = [v \in Validator |-> "running"]
            /\ UNCHANGED answer
    /\ UNCHANGED <<request, verdict, joined, failed, sim>>

-----------------------------------------------------------------------------
(* The validators. *)

Return(v, r) ==
    /\ thread' = [thread EXCEPT ![v] = "returned"]
    /\ verdict' = [verdict EXCEPT ![v] = r]

Raise(v) ==
    /\ thread' = [thread EXCEPT ![v] = "raised"]
    /\ UNCHANGED verdict

RunRules ==
    /\ thread["rules"] = "running"
    /\ Return("rules", ValidateRules(sensor, case.actions, case.ruleset))
    /\ UNCHANGED <<request, pc, joined, failed, sim, answer>>

RunCbf ==
    /\ thread["cbf"] = "running"
    /\ LET r == ValidateSafety(sensor, case.actions, case.ruleset, case.mappings)
       IN IF r = "RAISED" THEN Raise("cbf") ELSE Return("cbf", r)
    /\ UNCHANGED <<request, pc, joined, failed, sim, answer>>

\* build_runtime_sim_config: the runtime context may override the engine.
Engine(c) == IF c.override = "" THEN c.engine ELSE c.override

SimIdle == thread["sim"] = "running" /\ sim.stage = "none"
SimStep == thread["sim"] = "running" /\ sim.stage # "none"

\* A missing shell file, an engine nobody knows, Isaac Sim not connected.
StartFails ==
    /\ SimIdle
    /\ \/ ~case.shellFound
       \/ Engine(case) \notin {"none", "ode_solver", "discrete_event", "isaac_sim"}
       \/ Engine(case) = "isaac_sim"
    /\ Raise("sim")
    /\ UNCHANGED <<request, pc, joined, failed, sim, answer>>

\* Engine "none" is always open.
StartNone ==
    /\ SimIdle /\ case.shellFound /\ Engine(case) = "none"
    /\ Return("sim", "INDETERMINATE")
    /\ UNCHANGED <<request, pc, joined, failed, sim, answer>>

SimReturns(r) ==
    /\ Return("sim", r)
    /\ sim' = [sim EXCEPT !.stage = "ended"]

-----------------------------------------------------------------------------
(* DiscreteEventBackend *)

Ticks    == MaxSteps(sim.paths)
At(step) == PositionsForStep(step, sim.positions, sim.paths)

\* positions_at_step and next_positions of a turn of the loop.
Turn(s, step) ==
    [s EXCEPT !.index = step,
              !.at = PositionsForStep(step, s.positions, s.paths),
              !.next = PositionsForStep(Min({step + 1, MaxSteps(s.paths)}), s.positions, s.paths)]

StartGrid ==
    /\ SimIdle /\ case.shellFound /\ Engine(case) = "discrete_event"
    /\ sim' = [sim EXCEPT !.stage = "route", !.index = 1,
                          !.positions = AgvPositions(case.grid, sensor)]
    /\ UNCHANGED <<request, pc, thread, verdict, joined, failed, answer>>

(* _extract_agv_paths: the actions in turn, each route cell by cell; sim.left *)
(* counts the cells walked, along x to the corner, then along y.             *)

Current == case.actions[sim.index]
Route  == <<Start(sim.positions, Current.agv), Target(Current)>>
Leg(i) == IF Route[1][i].num /\ Route[2][i].num THEN Steps(Route[1][i].v, Route[2][i].v) ELSE 0
Met(i) == Meets(Route[1][i].v, Route[2][i].v)

\* What is looked at before the first cell; y of the start is at the corner.
Readable == Route[1][1].num /\ Route[2][1].num /\ Route[2][2].num

Planning == SimStep /\ sim.stage = "route" /\ sim.index <= Len(case.actions)
Walking  == Planning /\ Generates(Current) /\ Readable
AtCorner == Walking /\ sim.left = Leg(1)
AlongY   == Walking /\ sim.left >= Leg(1) /\ TRUE \in Met(1) /\ Route[1][2].num

RouteGiven ==
    /\ Planning /\ ~Generates(Current)
    /\ sim' = [sim EXCEPT !.index = @ + 1]
    /\ UNCHANGED <<request, pc, thread, verdict, joined, failed, answer>>

\* A coordinate that is not a number: ValueError or TypeError.
RouteRaises ==
    /\ \/ Planning /\ Generates(Current) /\ ~Readable
       \/ AtCorner /\ TRUE \in Met(1) /\ ~Route[1][2].num
    /\ Raise("sim")
    /\ UNCHANGED <<request, pc, joined, failed, sim, answer>>

RouteCell ==
    /\ \/ Walking /\ sim.left < Leg(1)
       \/ AlongY /\ sim.left < Leg(1) + Leg(2)
    /\ sim' = [sim EXCEPT !.left = @ + 1]
    /\ UNCHANGED <<request, pc, thread, verdict, joined, failed, answer>>

RouteEnds ==
    /\ AlongY /\ sim.left = Leg(1) + Leg(2) /\ TRUE \in Met(2)
    /\ sim' = [sim EXCEPT !.index = @ + 1, !.left = 0]
    /\ UNCHANGED <<request, pc, thread, verdict, joined, failed, answer>>

\* The loop did not meet its coordinate: it steps past it and back for ever.
RouteMissed ==
    /\ \/ AtCorner /\ FALSE \in Met(1)
       \/ AlongY /\ sim.left = Leg(1) + Leg(2) /\ FALSE \in Met(2)
    /\ sim' = [sim EXCEPT !.stage = "astray", !.left = 0]
    /\ UNCHANGED <<request, pc, thread, verdict, joined, failed, answer>>

Astray ==
    /\ SimStep /\ sim.stage = "astray"
    /\ sim' = [sim EXCEPT !.left = 1 - @]
    /\ UNCHANGED <<request, pc, thread, verdict, joined, failed, answer>>

\* A position that is not a number raises in the first turn of the loop.
StartTicks ==
    /\ SimStep /\ sim.stage = "route" /\ sim.index > Len(case.actions)
    /\ IF \E a \in DOMAIN sim.positions, i \in {1, 2} : ~sim.positions[a][i].num
       THEN Raise("sim") /\ UNCHANGED sim
       ELSE /\ sim' = Turn([sim EXCEPT !.stage = "grid", !.positions = Points(@),
                             !.paths = AgvPaths(case.grid, sim.positions, case.actions)], 0)
            /\ UNCHANGED <<thread, verdict>>
    /\ UNCHANGED <<request, pc, joined, failed, answer>>

GridTick ==
    /\ SimStep /\ sim.stage = "grid"
    /\ LET all == sim.violations
                    \cup DetectStepViolations(case.grid, sim.at, sim.next, case.ruleset)
       IN IF sim.index < Ticks
          THEN /\ sim' = Turn([sim EXCEPT !.violations = all], sim.index + 1)
               /\ UNCHANGED <<thread, verdict>>
          ELSE /\ Return("sim", IF all = {} THEN "SAFE" ELSE "UNSAFE")
               /\ sim' = [sim EXCEPT !.stage = "ended", !.violations = all]
    /\ UNCHANGED <<request, pc, joined, failed, answer>>

-----------------------------------------------------------------------------
(* ODESolverBackend *)

ReactorFields == {"temperature", "pressure", "heater_output", "cooling_valve"}

\* _require_numeric, float(value) of a control, float(limit) of a rule.
OdeRaises(c) ==
    \/ \E f \in ReactorFields : ~Has(sensor, f) \/ ~sensor[f].num
    \/ \E i \in DOMAIN c.actions :
          /\ c.actions[i].type \in {SetHeater, SetCooling}
          /\ Has(c.actions[i].params, "value") /\ ~c.actions[i].params["value"].num
    \/ \E i \in DOMAIN c.ruleset :
          /\ c.ruleset[i].type = "threshold" /\ c.ruleset[i].field \in ReactorFields
          /\ c.ruleset[i].op \in {"lt", "lte", "gt", "gte"}
          /\ c.ruleset[i].limit # <<>> /\ ~c.ruleset[i].limit[1].num

\* Sampled points of a segment: _build_t_eval without its first point.
Samples(c, i) ==
    LET n        == Len(c.actions)
        duration == IF n = 0 THEN c.reactor.horizon
                    ELSE IF c.actions[i].duration # <<>> THEN c.actions[i].duration[1]
                    ELSE c.reactor.horizon \div n
    IN Max({Codec!RoundDiv(Max({duration, c.reactor.dt}), c.reactor.dt), 1})

\* An empty sequence is one segment under the current controls.
Segments(c) == Max({Len(c.actions), 1})

\* _apply_action_controls
Controls(c, i, values) ==
    IF i > Len(c.actions) THEN values
    ELSE LET a == c.actions[i]
         IN IF ~Has(a.params, "value") THEN values
            ELSE CASE a.type = SetHeater  -> [values EXCEPT !.heater_output = a.params["value"].v]
                   [] a.type = SetCooling -> [values EXCEPT !.cooling_valve = a.params["value"].v]
                   [] OTHER -> values

StartOde ==
    /\ SimIdle /\ case.shellFound /\ Engine(case) = "ode_solver"
    /\ IF OdeRaises(case) THEN Raise("sim") /\ UNCHANGED sim
       ELSE /\ sim' = [sim EXCEPT !.stage = "segment", !.index = 1,
                         !.values = [f \in ReactorFields |-> sensor[f].v]]
            /\ UNCHANGED <<thread, verdict>>
    /\ UNCHANGED <<request, pc, joined, failed, answer>>

\* The controls of the next action; solve_ivp succeeds.
SegmentSolved ==
    /\ SimStep /\ sim.stage = "segment"
    /\ sim' = [sim EXCEPT !.stage = "samples", !.left = Samples(case, sim.index),
                          !.sampled = Append(@, 0),
                          !.values = Controls(case, sim.index, sim.values)]
    /\ UNCHANGED <<request, pc, thread, verdict, joined, failed, answer>>

SegmentFails ==
    /\ SimStep /\ sim.stage = "segment" /\ "solver" \in Faults
    /\ SimReturns("INDETERMINATE")
    /\ UNCHANGED <<request, pc, joined, failed, answer>>

\* The sign of dT/dt in _reactor_ode; what the solver makes of it is left
\* open: at a sample each state variable moved that way by at most one.
Drift(c, x) ==
    LET p == c.reactor
        d == x.heater_output * p.heater
               - x.cooling_valve * p.transfer * (x.temperature - p.coolant)
               - 100 * p.loss * (x.temperature - p.ambient)
    IN CASE d > 0 -> 1 [] d < 0 -> -1 [] OTHER -> 0

\* _check_constraints.  A serialized rule without operator has operator None
\* and constrains nothing here.
Constrains(rule, x) ==
    LET y == x[rule.field]
    IN /\ rule.field \in ReactorFields
       /\ CASE rule.type = "threshold" ->
                  /\ rule.limit # <<>>
                  /\ \/ rule.op \in {"lt", "lte"} /\ y > rule.limit[1].v
                     \/ rule.op \in {"gt", "gte"} /\ y < rule.limit[1].v
            [] rule.type = "range" ->
                  \/ rule.min # <<>> /\ y < rule.min[1]
                  \/ rule.max # <<>> /\ y > rule.max[1]
            [] OTHER -> FALSE

Sample ==
    /\ SimStep /\ sim.stage = "samples" /\ sim.left > 0
    /\ \E dt, dp \in {0, Drift(case, sim.values)} :
          LET x == [sim.values EXCEPT !.temperature = @ + dt, !.pressure = @ + dp]
          IN sim' = [sim EXCEPT !.values = x, !.left = @ - 1, !.sampled[sim.index] = @ + 1,
                       !.violations = @ \cup {case.ruleset[i].field :
                           i \in {k \in DOMAIN case.ruleset : Constrains(case.ruleset[k], x)}}]
    /\ UNCHANGED <<request, pc, thread, verdict, joined, failed, answer>>

SegmentDone == SimStep /\ sim.stage = "samples" /\ sim.left = 0

\* The clock is read after every segment of an action, the last one included.
SegmentTimeout ==
    /\ SegmentDone /\ "timeout" \in Faults /\ case.actions # <<>>
    /\ SimReturns("INDETERMINATE")
    /\ UNCHANGED <<request, pc, joined, failed, answer>>

SegmentEnds ==
    /\ SegmentDone
    /\ IF sim.index < Segments(case)
       THEN /\ sim' = [sim EXCEPT !.stage = "segment", !.index = @ + 1]
            /\ UNCHANGED <<thread, verdict>>
       ELSE SimReturns(IF sim.violations = {} THEN "SAFE" ELSE "UNSAFE")
    /\ UNCHANGED <<request, pc, joined, failed, answer>>

-----------------------------------------------------------------------------
(* The Isaac worker, asked through the proxy of IsaacProxy. *)

\* Joints the snapshot does not name count as zero; only an empty list of
\* positions is refused.
StartRobot ==
    /\ SimIdle /\ case.shellFound /\ Engine(case) = "isaac_sim"
    /\ IF Has(sensor, "joint_positions") /\ sensor["joint_positions"] = List(<<>>)
       THEN SimReturns("INDETERMINATE")
       ELSE /\ sim' = [sim EXCEPT !.stage = "robot", !.index = 1]
            /\ UNCHANGED <<thread, verdict>>
    /\ UNCHANGED <<request, pc, joined, failed, answer>>

InPlan == SimStep /\ sim.stage = "robot" /\ sim.index <= Len(case.actions)

\* Mutant: the list of violations is started anew for every move.
RobotMove_Resets ==
    /\ InPlan
    /\ IF ~IsMove(case.actions[sim.index])
       THEN sim' = [sim EXCEPT !.index = @ + 1, !.sampled = Append(@, 0)]
       ELSE LET goal == Goal(case.robot, case.actions[sim.index])
            IN \E o \in Observations(case.robot, goal) :
                 LET checks == Checks(case.robot, case.ruleset, goal, o)
                     r      == Recorded(FALSE, {}, checks)
                 IN sim' = [sim EXCEPT !.index = @ + 1, !.sampled = Append(@, 1),
                              !.first = r.first, !.violations = r.names,
                              !.clear = @ /\ \A i \in DOMAIN checks : ~checks[i].fails]
    /\ UNCHANGED <<request, pc, thread, verdict, joined, failed, answer>>

\* One action of the plan; clear is history, whether any check failed so far.
RobotMove ==
    /\ InPlan
    /\ IF ~IsMove(case.actions[sim.index])
       THEN sim' = [sim EXCEPT !.index = @ + 1, !.sampled = Append(@, 0)]
       ELSE LET goal == Goal(case.robot, case.actions[sim.index])
            IN \E o \in Observations(case.robot, goal) :
                 LET checks == Checks(case.robot, case.ruleset, goal, o)
                     r      == Recorded(sim.first, sim.violations, checks)
                 IN sim' = [sim EXCEPT !.index = @ + 1, !.sampled = Append(@, 1),
                              !.first = r.first, !.violations = r.names,
                              !.clear = @ /\ \A i \in DOMAIN checks : ~checks[i].fails]
    /\ UNCHANGED <<request, pc, thread, verdict, joined, failed, answer>>

RobotEnds ==
    /\ SimStep /\ sim.stage = "robot" /\ sim.index > Len(case.actions)
    /\ SimReturns(IF sim.violations = {} THEN "SAFE" ELSE "UNSAFE")
    /\ UNCHANGED <<request, pc, joined, failed, answer>>

\* The worker reports an error, or nothing before the proxy's time-out.
RobotFails ==
    /\ SimStep /\ sim.stage = "robot" /\ "solver" \in Faults
    /\ SimReturns("INDETERMINATE")
    /\ UNCHANGED <<request, pc, joined, failed, answer>>

-----------------------------------------------------------------------------
(* Fan-in and consensus. *)

\* Mutant: the error of a future is forgotten when the next one returns.
Join_LastWins ==
    /\ pc = "join" /\ joined < Len(Order)
    /\ LET v == Order[joined + 1]
       IN /\ thread[v] \in {"returned", "raised"}
          /\ failed' = IF thread[v] = "raised" THEN <<v>> ELSE <<>>
    /\ joined' = joined + 1
    /\ UNCHANGED <<request, pc, thread, verdict, sim, answer>>

\* future.result() of the next future in the order of submission.
Join ==
    /\ pc = "join" /\ joined < Len(Order)
    /\ LET v == Order[joined + 1]
       IN /\ thread[v] \in {"returned", "raised"}
          /\ failed' = IF thread[v] = "raised" THEN Append(failed, v) ELSE failed
    /\ joined' = joined + 1
    /\ UNCHANGED <<request, pc, thread, verdict, sim, answer>>

\* An unknown mode becomes AUTO; an unknown on_sim_indeterminate is refused
\* by the model class.
KnownMode(mode) == IF mode \in {"AND", "WEIGHTED", "WORST_CASE"} THEN mode ELSE "AUTO"
KnownOnSim      == {"FAIL_CLOSED", "RENORMALIZE", "TREAT_AS_UNSAFE", "IGNORE"}

Decide ==
    /\ pc = "join" /\ joined = Len(Order)
    /\ IF failed # <<>> \/ case.consensus.onSim \notin KnownOnSim
       THEN Respond("ERROR")
       ELSE Respond(EvaluateConsensus(case.sil,
                        [case.consensus EXCEPT !.mode = KnownMode(@)], verdict))
    /\ UNCHANGED <<request, thread, verdict, joined, failed, sim>>

\* The caller has its answer; the thread serves the next request.
Finish ==
    /\ pc = "done"
    /\ case' = NoCase /\ sensor' = <<>> /\ hash' = <<>>
    /\ pc' = "idle" /\ answer' = "none"
    /\ thread' = [v \in Validator |-> "none"]
    /\ verdict' = [v \in Validator |-> "none"]
    /\ joined' = 0 /\ failed' = <<>> /\ sim' = NoSim

-----------------------------------------------------------------------------
MainStep == ReadSensor \/ IntegrityCheck \/ Prepare \/ Join \/ Decide
SimulationStep ==
    \/ StartFails \/ StartNone \/ StartGrid \/ StartOde \/ StartRobot
    \/ RouteGiven \/ RouteRaises \/ RouteCell \/ RouteEnds \/ RouteMissed \/ Astray
    \/ StartTicks \/ GridTick \/ RobotMove \/ RobotEnds
    \/ SegmentSolved \/ Sample \/ SegmentEnds
Fault == SensorFails \/ FetchFails \/ RobotFails \/ SegmentFails \/ SegmentTimeout

Next ==
    \/ \E c \in Case : Submit(c)
    \/ MainStep \/ RunRules \/ RunCbf \/ SimulationStep \/ Fault \/ Finish

Spec == Init /\ [][Next]_vars
-----------------------------------------------------------------------------
\* A validator that raised in its thread is never outvoted: the request ends
\* in an error whatever the others said and in whichever order they ended, and
\* a SAFE answer has three verdicts behind it.  (_run_validators_parallel)
NoVerdictWithoutValidators ==
    /\ answer \in {"SAFE", "UNSAFE"} => \A v \in Validator : thread[v] # "raised"
    /\ answer = "SAFE" => \A v \in Validator : verdict[v] \in {"SAFE", "UNSAFE", "INDETERMINATE"}

\* What a numeric rule means for a value, boundaries included.
Within(rule, x) ==
    CASE rule.type = "threshold" /\ rule.op \in {"lt", "lte", ""} -> x <= rule.limit[1].v
      [] rule.type = "threshold" /\ rule.op \in {"gt", "gte"} -> x >= rule.limit[1].v
      [] rule.type = "range" -> rule.min[1] <= x /\ x <= rule.max[1]
      [] OTHER -> TRUE

UniqueIds(c) == \A i, k \in DOMAIN c.ruleset : c.ruleset[i].id = c.ruleset[k].id => i = k

\* Mapping m carries a parameter of action i to field f.
Sets(c, f, i, m) ==
    /\ c.mappings[m].type = c.actions[i].type /\ c.mappings[m].field = f
    /\ Has(c.actions[i].params, c.mappings[m].param)

\* The values field f takes along the plan: the reading, and what each action
\* sets it to, by the last of the mappings that do.
Along(c, f) ==
    (IF Has(sensor, f) THEN {sensor[f]} ELSE {})
      \cup {c.actions[p[1]].params[c.mappings[p[2]].param] :
              p \in {q \in (DOMAIN c.actions) \X (DOMAIN c.mappings) :
                  /\ Sets(c, f, q[1], q[2])
                  /\ \A m \in DOMAIN c.mappings : Sets(c, f, q[1], m) => m <= q[2]}}

\* Under AND and WORST_CASE, which AUTO selects for every SIL but 2, a SAFE
\* answer means that every field a rule is about has numeric values within the
\* rule in the snapshot and after every action, that no forbidden combination
\* is in the snapshot or an action, and that the simulation found nothing.
ConservativeApproval ==
    (/\ answer = "SAFE"
     /\ \/ case.consensus.mode \in {"AND", "WORST_CASE"}
        \/ case.consensus.mode \notin {"AND", "WORST_CASE", "WEIGHTED"} /\ case.sil # 2)
      => /\ sim.violations = {}
         /\ \A i \in DOMAIN case.ruleset :
               LET rule == case.ruleset[i]
               IN /\ UniqueIds(case) =>
                       /\ Has(sensor, rule.field)
                       /\ \A x \in Along(case, rule.field) : x.num /\ Within(rule, x.v)
                  /\ HasConditions(rule) =>
                       \A s \in Sources(sensor, case.actions) :
                          \E k \in DOMAIN rule.conds :
                             \/ ~Has(s, rule.conds[k].field)
                             \/ ~Compare(s[rule.conds[k].field], rule.conds[k].op,
                                         <<rule.conds[k].value>>)

\* For weights that add up to one, none negative for the simulator, and a
\* threshold between zero and one, an open simulation under RENORMALIZE never
\* does better than a SAFE one nor worse than an UNSAFE one: dropping the
\* simulator's weight cannot approve what its consent would not have.
OpenSimulationIsBetween ==
    LET w == case.consensus.weights
        with(r) == EvaluateConsensus(case.sil, [case.consensus EXCEPT !.mode = "WEIGHTED"],
                                     [verdict EXCEPT !["sim"] = r])
    IN (/\ answer \in {"SAFE", "UNSAFE"} /\ verdict["sim"] = "INDETERMINATE"
        /\ case.consensus.onSim = "RENORMALIZE"
        /\ w = <<>> \/ (w.sim >= 0 /\ w.rules + w.cbf + w.sim + w.other = 100)
        /\ case.consensus.threshold \in 0 .. 100)
         => /\ with("UNSAFE") = "SAFE" => with("INDETERMINATE") = "SAFE"
            /\ with("INDETERMINATE") = "SAFE" => with("SAFE") = "SAFE"

Moves(step) == [a \in DOMAIN sim.positions |-> <<At(step)[a], At(Min({step + 1, Ticks}))[a]>>]
Length(m) == Abs(m[1][1] - m[2][1]) + Abs(m[1][2] - m[2][2])
Midpoint(m) == <<m[1][1] + m[2][1], m[1][2] + m[2][2]>>     \* times two

\* If every vehicle moves at most one cell per tick and min_distance is at
\* least a cell, as it is by default, a SAFE grid simulation means that no two
\* vehicles are ever in one place, half-way between two ticks included, and
\* none enters an obstacle or leaves the grid.
\* (_detect_step_violations)
SafeMeansNoContact ==
    (/\ verdict["sim"] = "SAFE" /\ Engine(case) = "discrete_event"
     /\ case.grid.minDistance >= Cell
     /\ \A step \in 0..Ticks : \A a \in DOMAIN sim.positions :
           Length(Moves(step)[a]) \in {0, Cell})
      => \A step \in 0..Ticks :
           LET m == Moves(step)
           IN \A a \in DOMAIN m :
                /\ \A b \in DOMAIN m \ {a} :
                      m[a][1] # m[b][1] /\ Midpoint(m[a]) # Midpoint(m[b])
                /\ m[a][1] \notin case.grid.obstacles /\ ~OffGrid(case.grid, m[a][1])

\* A deadlock is reported exactly when some three or more vehicles, each alone
\* in its cell, each want the cell of another of them: no subset of the
\* vehicles can move first.  (_detect_deadlock_cycles)
DeadlockIsCycle ==
    sim.stage = "grid"
      => LET p == sim.at
             q == sim.next
             ring(s) == /\ Cardinality(s) >= 3
                        /\ \A a \in s : q[a] # p[a] /\ \E b \in s : q[a] = p[b]
                        /\ \A t \in (SUBSET s) \ {{}, s} :
                              \E a \in t : \A b \in t : q[a] # p[b]
         IN (\A a, b \in DOMAIN p : a # b => p[a] # p[b])
              => ((DeadlockCycles(p, q, case.grid.order) # {})
                    <=> \E s \in SUBSET DOMAIN p : ring(s))

\* A SAFE simulation saw the whole plan and found nothing: a run cut short by
\* the solver, the worker or a clock is never taken for a SAFE one, the reactor
\* has sampled every segment, and of the arm every move was simulated and none
\* of its checks failed, although the worker records most failures only while
\* it has recorded none.  (validate_trajectory, _validate_trajectory)
SafeSimulationIsComplete ==
    verdict["sim"] = "SAFE"
      => /\ sim.violations = {} /\ sim.clear
         /\ Engine(case) = "ode_solver" =>
              sim.sampled = [i \in 1..Segments(case) |-> Samples(case, i)]
         /\ Engine(case) = "isaac_sim" =>
              sim.sampled = [i \in DOMAIN case.actions |-> IF IsMove(case.actions[i]) THEN 1 ELSE 0]

Admitted == pc \in {"fetch", "join"} \/ answer \in {"SAFE", "UNSAFE"}

\* What changes by itself in a simulator's state, and the pose, which follows
\* from the joints.
Volatile(f) ==
    \/ f \in {"joint_velocities", "joint_efforts", "ee_position"}
    \/ f \in ToSet(VelocityFields) \cup ToSet(EffortFields)

\* As near as two values with the same three decimals can be.
Near(old, new) ==
    IF old.num THEN new.num /\ Abs(new.v - old.v) <= Grain
    ELSE IF IsList(old)
    THEN /\ IsList(new) /\ Len(new.v) = Len(old.v)
         /\ \A i \in DOMAIN old.v : Abs(new.v[i] - old.v[i]) <= Grain
    ELSE new = old

SameReading(f) ==
    /\ Has(sensor, f) /\ Has(case.proof.snapshot, f)
    /\ Near(case.proof.snapshot[f], sensor[f])

\* A proof the gateway admits is at most maxAge old, speaks of the active
\* policy, and each of its readings that a threshold names is within the limit
\* of the current one, a reading of zero included.  If it carries the hash of
\* its snapshot, no number the agent saw has changed by more than a thousandth
\* and nothing else has changed, except velocities and efforts of a simulated
\* asset, its pose, and fields of the proof that no reading has.
\* (check_integrity, get_latest_snapshot, canonicalize)
AdmittedIsFresh ==
    Admitted
      => /\ case.proof.policy = case.active
         /\ case.age \in (-MaxFuture)..case.maxAge
         /\ DOMAIN case.proof.snapshot # {} =>
              \A t \in case.thresholds :
                 LET old == case.proof.snapshot[t.field] new == sensor[t.field]
                 IN old.num /\ new.num =>
                      Abs(new.v - old.v) * (IF t.method = "absolute" THEN 1 ELSE 100)
                        <= t.limit * (IF t.method = "absolute" THEN 1 ELSE Abs(old.v))
         /\ case.proof.hash = <<SnapshotHash(case, case.proof.snapshot)>> =>
              \A f \in DOMAIN sensor \cup DOMAIN case.proof.snapshot :
                 \/ SameReading(f)
                 \/ case.route.source = "isaac" /\ (Volatile(f) \/ f \notin StateFields)

\* What a request has still to do, the most significant part first: stages,
\* futures to await, validators that run, and the simulation's own loops.
StagesLeft ==
    CASE pc = "sensor" -> 4 [] pc = "integrity" -> 3 [] pc = "fetch" -> 2 [] pc = "join" -> 1 [] OTHER -> 0
Running(v) == IF thread[v] = "running" THEN 1 ELSE 0
CellsLeft ==
    IF sim.index <= Len(case.actions) /\ Generates(Current) THEN Leg(1) + Leg(2) - sim.left ELSE 0
LoopsLeft ==
    CASE sim.stage = "none"    -> <<3, 0, 0>>
      [] sim.stage = "route"   -> <<2, Len(case.actions) + 1 - sim.index, CellsLeft>>
      [] sim.stage = "robot"   -> <<1, Len(case.actions) + 1 - sim.index, 0>>
      [] sim.stage = "grid"    -> <<1, Ticks - sim.index, 0>>
      [] sim.stage = "segment" -> <<1, Segments(case) - sim.index, Samples(case, sim.index) + 1>>
      [] sim.stage = "samples" -> <<1, Segments(case) - sim.index, sim.left>>
      [] OTHER -> <<0, 0, 0>>
Work == <<StagesLeft, 3 - joined, Running("rules"), Running("cbf"), Running("sim"),
          LoopsLeft[1], LoopsLeft[2], LoopsLeft[3]>>

Less(a, b) == \E i \in DOMAIN b : a[i] < b[i] /\ \A j \in 1..(i - 1) : a[j] = b[j]

\* A route with a coordinate to cover that does not start and end on a whole
\* cell: no binary fraction need be met by adding ones to another.
Fractional ==
    \E i \in {1, 2} : LET from == Route[1][i].v to == Route[2][i].v
                      IN from # to /\ ~(Whole(from) /\ Whole(to))

\* Every step of a request, whatever the validators do and in whichever order
\* their threads run, leaves less work, in the lexicographic order of lists of
\* natural numbers, which has no endless descent: no exception, time-out or
\* unfinished future can keep it waiting.  The one exception are the steps that
\* compute the route of a vehicle which starts or ends between two cells: they
\* may go on for ever, and the request waits for them.
\* (run_safety_validation, _generate_simple_path)
EveryStepCloser ==
    [][pc \notin {"idle", "done"} =>
         \/ Work' \in Seq(Nat) /\ Less(Work', Work)
         \/ sim' # sim /\ sim'.stage = "astray" /\ Fractional]_vars
=============================================================================
