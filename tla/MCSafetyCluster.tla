-------------------------- MODULE MCSafetyCluster --------------------------
(***************************************************************************)
(* An instance of SafetyCluster for TLC: families of requests that vary    *)
(* one part of a common request each.                                      *)
(***************************************************************************)
EXTENDS SafetyCluster, TLC

MCMoveTo  == Text(1)
MCSetHeater  == Text(2)
MCSetCooling == Text(3)
MCMoveJoint  == Text(4)
MCJointFields    == <<"joint_0", "joint_1">>
MCVelocityFields == <<"joint_0_velocity", "joint_1_velocity">>
MCEffortFields   == <<"joint_0_effort", "joint_1_effort">>
MCJointOf == [joint_0 |-> 1, joint_1 |-> 2, joint_0_velocity |-> 1, joint_1_velocity |-> 2]
MCXField == [a \in Vehicle |-> a \o ".x"]
MCYField == [a \in Vehicle |-> a \o ".y"]

T(v) == "temperature" :> v
Rule(id, type, field) ==
    [id |-> id, type |-> type, field |-> field, op |-> "", limit |-> <<>>, min |-> <<>>,
     max |-> <<>>, allowed |-> {}, pairs |-> {}, conds |-> <<>>]
Threshold(op, limit) ==
    [Rule(1, "threshold", "temperature") EXCEPT !.op = op, !.limit = limit]
RangeOf(field, lo, hi) == [Rule(2, "range", field) EXCEPT !.min = lo, !.max = hi]
AtMost3 == Threshold("lte", <<Num(3)>>)

Action(type, params) ==
    [type |-> type, params |-> params, fields |-> ("action_type" :> type),
     agv |-> Agv01, path |-> <<>>, duration |-> <<>>, targets |-> <<>>]
Heat(v) == Action(MCSetHeater, "value" :> v)
Move(target) == [Action(MCMoveJoint, <<>>) EXCEPT !.targets = <<target>>]

Weights(rules, cbf, sims, other) == [rules |-> rules, cbf |-> cbf, sim |-> sims, other |-> other]
Config(mode, weights, threshold, onSim) ==
    [mode |-> mode, weights |-> weights, threshold |-> threshold, onSim |-> onSim]

NoGrid == [agvs |-> <<>>, order |-> [a \in Vehicle |-> 0], obstacles |-> {}, width |-> 0, height |-> 0,
           minDistance |-> 0]
Reactor == [horizon |-> 3, dt |-> 2, heater |-> 8, transfer |-> 2, coolant |-> 0,
            loss |-> 1, ambient |-> 1]
\* Two joints of which only the first counts as the arm; no check switched on.
Arm == [joints |-> 2, arm |-> 1, limits |-> <<>>, collision |-> FALSE, fixtures |-> {},
        radius |-> 1, torque |-> FALSE, workspace |-> <<>>, poses |-> {<<0>>}]

Base ==
    [proof |-> [policy |-> "p1", hash |-> <<>>, snapshot |-> T(Num(2))],
     active |-> "p1", age |-> 0, maxAge |-> 1000, thresholds |-> {},
     raw |-> T(Num(2)), actions |-> <<>>, allowed |-> {}, sil |-> 3,
     mappings |-> <<[type |-> MCSetHeater, param |-> "value", field |-> "temperature"]>>,
     consensus |-> Config("AUTO", <<>>, 50, "RENORMALIZE"), ruleset |-> <<AtMost3>>,
     engine |-> "none", override |-> "", shellFound |-> TRUE,
     grid |-> NoGrid, reactor |-> Reactor, robot |-> Arm,
     route |-> [source |-> "auto", mapped |-> TRUE], mockInUse |-> FALSE,
     production |-> FALSE, readable |-> TRUE]

-----------------------------------------------------------------------------
\* The proof: versions, hashes, both ends of the age window, readings of zero,
\* missing ones and texts under both kinds of threshold.
IntegrityCases ==
    {[Base EXCEPT !.proof.policy = p, !.proof.hash = h, !.age = a] :
        p \in {"p1", "p2"}, h \in {<<>>} \cup {<<SnapshotHash(Base, T(Num(n)))>> : n \in {2, 6}},
        a \in {-5001, -5000, 1000, 1001}}
    \cup
    {[Base EXCEPT !.proof.snapshot = s, !.raw = x,
                  !.thresholds = {[field |-> "temperature", method |-> m, limit |-> l]}] :
        s \in {<<>>, T(Num(0)), T(Num(2)), T(Num(-2)), T(Text(1)), "pressure" :> Num(1)},
        x \in {T(Num(0)), T(Num(1)), T(Num(3)), T(Text(1)), T(Text(2))},
        m \in {"absolute", "percentage"}, l \in {1, 50}}

\* Rules against snapshots and plans, under every mode.
Rulesets ==
    {<<>>, <<[Threshold("eq", <<Num(2)>>) EXCEPT !.id = 4], AtMost3>>,
     <<Threshold("lt", <<Num(3)>>)>>, <<Threshold("gte", <<Num(3)>>)>>,
     <<Threshold("", <<Num(2)>>)>>, <<Threshold("lte", <<>>)>>,
     <<Threshold("gt", <<Text(1)>>)>>,
     <<AtMost3, RangeOf("temperature", <<0>>, <<9>>)>>,
     <<AtMost3, [RangeOf("temperature", <<0>>, <<9>>) EXCEPT !.id = 1]>>,
     <<RangeOf("temperature", <<2>>, <<>>)>>,
     <<[Rule(3, "enum", "temperature") EXCEPT !.allowed = {Num(2), Text(1)}]>>,
     <<AtMost3, [Rule(3, "forbidden_combination", "temperature") EXCEPT
                   !.conds = <<[field |-> "temperature", op |-> "gt", value |-> Num(1)],
                               [field |-> "pressure", op |-> "ne", value |-> Num(1)]>>]>>,
     <<[Rule(3, "forbidden_combination", "temperature") EXCEPT !.pairs = {Text(1)}]>>,
     <<RangeOf("value", <<0>>, <<3>>)>>}
Plans == {<<>>, <<Heat(Num(3))>>, <<Heat(Num(4)), Heat(Num(2))>>, <<Heat(Text(1))>>}
RuleCases ==
    {[Base EXCEPT !.raw = x, !.actions = Append(p, Move(<<0>>)), !.ruleset = r, !.sil = s,
                  !.consensus.mode = m, !.engine = "isaac_sim"] :
        x \in {<<>>, T(Num(2)), T(Text(1)), T(Num(2)) @@ "pressure" :> Num(1),
               T(Num(3)) @@ "pressure" :> Num(2)},
        p \in Plans, r \in Rulesets,
        <<m, s>> \in {<<"AUTO", 1>>, <<"AUTO", 3>>, <<"bogus", 2>>}}

\* Weights, thresholds and what an open simulation counts.
ConsensusCases ==
    {[Base EXCEPT !.raw = x, !.actions = <<Heat(Num(v)), Move(<<0>>)>>, !.sil = 2, !.engine = "isaac_sim",
                  !.consensus = Config(m, w, t, o)] :
        x \in {T(Num(2)), T(Num(4)), T(Num(2)) @@ "value" :> Num(9)}, v \in {3, 4},
        t \in {0, 50, 100},
        w \in {<<>>, Weights(10, 65, 25, 0), Weights(35, 40, 25, 0), Weights(0, 0, 100, 0),
               Weights(20, 20, 20, 0), Weights(0, 30, 50, 20), Weights(65, 10, 25, 0)},
        <<m, o>> \in {<<"AUTO", "RENORMALIZE">>, <<"AUTO", "FAIL_CLOSED">>, <<"AUTO", "other">>,
                      <<"WORST_CASE", "RENORMALIZE">>}}

\* What stops a request before or at the start of the validators.
EarlyCases ==
    {[Base EXCEPT !.allowed = {MCMoveTo}, !.actions = p] : p \in Plans}
    \cup {[Base EXCEPT !.mappings = <<>>], [Base EXCEPT !.shellFound = FALSE],
          [Base EXCEPT !.engine = "gazebo"], [Base EXCEPT !.override = "isaac_sim"]}

-----------------------------------------------------------------------------
\* Four vehicles in a square of four cells, each with any short path around
\* it or straight across.
Corner == <<<<0, 0>>, <<2, 0>>, <<2, 2>>, <<0, 2>>>>
Ids    == <<"agv_01", "agv_02", "agv_03", "agv_04">>
OneStep(i, d) == IF d = 0 THEN <<>> ELSE <<Corner[((i + d - 1) % 4) + 1]>>
Square(n, turns) ==
    [agvs |-> [a \in {Ids[i] : i \in 1..n} |->
                 LET i == CHOOSE k \in 1..4 : Ids[k] = a
                 IN [pos |-> Corner[i], path |-> OneStep(i, turns[i])]],
     order |-> [a \in Vehicle |-> CHOOSE k \in 1..4 : Ids[k] = a],
     obstacles |-> {<<4, 0>>}, width |-> 6, height |-> 4, minDistance |-> 2]
GridBase == [Base EXCEPT !.engine = "discrete_event", !.ruleset = <<>>]
SquareCases ==
    {[GridBase EXCEPT !.grid = Square(n, turns)] :
        n \in {3, 4}, turns \in [1..4 -> 0..3]}

\* Vehicle 1 is sent to a target, in one or two actions, while 2 moves on its
\* path; positions from the configuration or the snapshot; a target between two
\* cells, one that is no number, a vehicle nobody knows.
Go(a, x, y) ==
    [Action(MCMoveTo, "target_x" :> x @@ "target_y" :> y) EXCEPT !.agv = a]
RouteCases ==
    {[GridBase EXCEPT !.grid = Square(n, <<0, t, 0, 0>>), !.raw = s, !.actions = p, !.ruleset = r] :
        n \in {1, 2}, t \in {0, 1, 3},
        s \in {<<>>, "position_x" :> Num(4) @@ "position_y" :> Num(2), "position_x" :> Text(1),
               "position_x" :> Num(1) @@ "position_y" :> Num(1), "agv_02.x" :> Num(4),
               "position_x" :> Num(0) @@ "position_y" :> Text(1)},
        p \in {<<Go("agv_01", Num(x), Num(y))>> : x \in {0, 2, 4, 6}, y \in {0, 2}}
                \cup {<<Go("agv_01", Num(1), Num(0))>>, <<Go("agv_01", Text(1), Num(0))>>,
                      <<Go("agv_04", Num(4), Num(2))>>,
                      <<Go("agv_01", Num(3), Num(5)), Go("agv_01", Num(0), Text(1))>>,
                      <<Go("agv_01", Num(4), Num(0)), Go("agv_01", Num(0), Num(2))>>,
                      <<[Go("agv_01", Num(0), Num(0)) EXCEPT !.path = <<<<<<2, 2>>, <<0, 2>>>>>>]>>,
                      <<Action(MCMoveTo, "target_x" :> Num(4))>>},
        r \in {<<>>, <<RangeOf("position_x", <<0>>, <<2>>)>>}}

-----------------------------------------------------------------------------
\* The reactor: plans of up to two actions with and without durations.
State(t, h) == T(Num(t)) @@ "pressure" :> Num(1) @@ "heater_output" :> h @@ "cooling_valve" :> Num(0)
ReactorCases ==
    {[Base EXCEPT !.engine = "ode_solver", !.raw = State(t, h), !.actions = p, !.ruleset = r,
                  !.consensus = Config(m, <<>>, 50, "RENORMALIZE"), !.sil = 2] :
        <<t, m>> \in {<<1, "AND">>, <<3, "WEIGHTED">>, <<3, "AND">>}, h \in {Num(0), Num(100), Text(1)},
        p \in {<<>>, <<Heat(Num(100))>>, <<Heat(Text(1))>>,
               <<[Heat(Num(100)) EXCEPT !.duration = <<5>>], Heat(Num(0))>>,
               <<Heat(Num(0)), Action(MCSetCooling, "value" :> Num(100)), Heat(Num(100))>>},
        r \in {<<AtMost3>>, <<Threshold("", <<Num(3)>>)>>, <<RangeOf("pressure", <<1>>, <<2>>)>>,
               <<RangeOf("pressure", <<1>>, <<>>)>>, <<Threshold("gt", <<Text(1)>>)>>}}

-----------------------------------------------------------------------------
\* The robot: limits and rules at, inside and outside the target and where the
\* move may end, short and long targets, a box beside the tool and one without
\* geometry, a pose that is not known.
RobotCases ==
    {[Base EXCEPT !.engine = "isaac_sim", !.route.source = "isaac",
                  !.raw = ("joint_positions" :> x), !.actions = p,
                  !.ruleset = r, !.robot = [Arm EXCEPT !.limits = l, !.poses = o, !.collision = k,
                       !.fixtures = {<<>>, <<4, 5>>}, !.torque = ~k, !.workspace = w]] :
        x \in {List(<<>>), List(<<0, 0>>)}, k \in BOOLEAN,
        <<w, l>> \in {<<<<>>, <<<<-5, 3>>>>>>, <<<<-1, 2>>, <<>>>>},
        o \in {{<<0>>, <<2>>, <<3>>}, {<<0>>, <<>>}},
        r \in {<<>>, <<RangeOf("joint_1", <<-1>>, <<1>>)>>,
               <<RangeOf("joint_0_velocity", <<0>>, <<2>>)>>},
        p \in {<<>>, <<Move(<<3>>), Move(<<0, 1, 9>>)>>, <<Move(<<4>>), Heat(Num(1))>>,
               <<Action(MCMoveJoint, <<>>), Move(<<1>>)>>}}

\* The reading: where it comes from, what the agent saw and what is there now;
\* numbers with the same and with different thousandths.
Joints(p, v, id) ==
    "joint_positions" :> List(p) @@ "joint_velocities" :> List(v) @@ "runtime_id" :> Text(id)
      @@ "timestamp" :> Num(v[1]) @@ "ee_position" :> List(<<p[1]>>)
Readings(source) ==
    IF source = "isaac"
    THEN {Joints(p, v, id) : p \in {<<0, 0>>, <<0, 1>>, <<0, -1>>, <<3, 0, 2>>}, v \in {<<0, 0>>, <<3, 0>>},
                             id \in 1..2}
            \cup {"timestamp" :> Num(1), "joint_velocities" :> List(<<1, 0>>)}
    ELSE {T(Num(v)) @@ "pressure" :> Num(p) : v \in {-1, 0, 1}, p \in {3, 5, 6}}
ReadingCases ==
    UNION {LET b == [Base EXCEPT !.route.source = s, !.route.mapped = m, !.mockInUse = i,
                                 !.production = pr, !.readable = rd]
           IN {[b EXCEPT !.raw = now, !.proof.snapshot = ReadSnapshot(b, seen),
                         !.proof.hash = <<SnapshotHash(b, ReadSnapshot(b, seen))>>] :
                  seen, now \in Readings(s)} :
             s \in {"isaac", "mock", "modbus", "auto"}, <<m, i>> \in {<<TRUE, FALSE>>, <<FALSE, TRUE>>},
             <<pr, rd>> \in {<<FALSE, TRUE>>, <<TRUE, TRUE>>, <<FALSE, FALSE>>}}

MCCase ==
    IntegrityCases \cup RuleCases \cup ConsensusCases \cup EarlyCases
      \cup SquareCases \cup RouteCases \cup ReactorCases
      \cup RobotCases \cup ReadingCases
=============================================================================
