------------------------ MODULE SafetyClusterProofs ------------------------
(***************************************************************************)
(* Theorems about one request through the integrity check and the Safety   *)
(* Cluster, for any request, policy, fleet of vehicles and arm.            *)
(*                                                                         *)
(* The argument has four parts, each an invariant of its own: how far the  *)
(* futures are (Control), what the verdicts and the answer were computed   *)
(* from (Backed), what was read and admitted (Reading), and how much of    *)
(* the plan the simulation has seen (Simulated).  About the deadlocks of a *)
(* fleet: a walk along the vehicles that wait for one another runs into a  *)
(* cycle, by induction along the walk (DataInduction).                     *)
(***************************************************************************)
EXTENDS SafetyCluster, DataInduction, FiniteSetTheorems, WellFoundedInduction, TLAPS

\* A future that was awaited is settled; while none failed, they all returned.
Settled(v) ==
    /\ thread[v] \in {"returned", "raised"}
    /\ failed = <<>> => thread[v] = "returned"

Early == {"idle", "sensor", "integrity", "fetch"}

Control ==
    /\ thread \in [Validator -> {"none", "running", "returned", "raised"}]
    /\ verdict \in [Validator -> {"none", "SAFE", "UNSAFE", "INDETERMINATE"}]
    /\ pc \in Early \cup {"join", "done"}
    /\ answer \in {"none", "ERROR", "REJECTED", "SAFE", "UNSAFE"}
    /\ joined \in 0 .. 3
    /\ failed \in Seq(Validator)
    /\ \A v \in Validator : thread[v] = "returned" <=> verdict[v] # "none"
    /\ joined >= 1 => Settled("rules")
    /\ joined >= 2 => Settled("cbf")
    /\ joined >= 3 => Settled("sim")
    /\ joined = 0 => failed = <<>>
    /\ pc \in Early => joined = 0 /\ \A v \in Validator : thread[v] = "none"
    /\ pc = "join" => \A v \in Validator : thread[v] # "none"
    /\ pc # "done" => answer = "none"
    /\ pc = "done" /\ joined # 3 => joined = 0 /\ \A v \in Validator : thread[v] = "none"
    /\ answer = "SAFE" => joined = 3
    /\ answer \in {"SAFE", "UNSAFE"} /\ joined = 3 => failed = <<>>

-----------------------------------------------------------------------------
(* Control. *)

\* A validator that ends, with a verdict or with an exception.
LEMMA ValidatorEnds ==
    ASSUME Control, NEW v \in Validator, thread[v] = "running",
           \/ Raise(v)
           \/ \E r \in {"SAFE", "UNSAFE", "INDETERMINATE"} : Return(v, r),
           UNCHANGED <<pc, joined, failed, answer>>
    PROVE  Control'
<1>1. /\ thread' \in [Validator -> {"none", "running", "returned", "raised"}]
      /\ verdict' \in [Validator -> {"none", "SAFE", "UNSAFE", "INDETERMINATE"}]
      /\ \A w \in Validator : thread'[w] = "returned" <=> verdict'[w] # "none"
  BY DEF Control, Raise, Return
<1>2. \A w \in Validator : /\ w # v => thread'[w] = thread[w]
                           /\ thread'[w] = "none" <=> thread[w] = "none"
  BY DEF Control, Raise, Return
<1>3. /\ joined >= 1 => v # "rules"
      /\ joined >= 2 => v # "cbf"
      /\ joined >= 3 => v # "sim"
  BY DEF Control, Settled
<1>4. /\ joined >= 1 => Settled("rules")'
      /\ joined >= 2 => Settled("cbf")'
      /\ joined >= 3 => Settled("sim")'
  BY <1>2, <1>3 DEF Control, Settled, Validator
<1> QED BY <1>1, <1>2, <1>4 DEF Control

\* The verdicts of the three kinds of validator.
LEMMA VerdictTypes ==
    /\ \A s, a, r : ValidateRules(s, a, r) \in {"SAFE", "UNSAFE"}
    /\ \A s, a, r, m : ValidateSafety(s, a, r, m) \in {"SAFE", "UNSAFE", "INDETERMINATE", "RAISED"}
    /\ \A s, c, v : EvaluateConsensus(s, c, v) \in {"SAFE", "UNSAFE"}
<1>1. \A s, a, r : ValidateRules(s, a, r) \in {"SAFE", "UNSAFE"}
  BY Zenon DEF ValidateRules
<1>2. \A s, a, r, m : ValidateSafety(s, a, r, m) \in {"SAFE", "UNSAFE", "INDETERMINATE", "RAISED"}
  BY ZenonT(30) DEF ValidateSafety
<1>3. \A s, c, v : EvaluateConsensus(s, c, v) \in {"SAFE", "UNSAFE"}
  BY Zenon DEF EvaluateConsensus
<1> QED BY <1>1, <1>2, <1>3

\* The steps of the simulation thread.
LEMMA SimulationKeepsControl ==
    ASSUME Control, SimulationStep \/ RobotFails \/ SegmentFails \/ SegmentTimeout
    PROVE  Control'
<1>1. UNCHANGED <<pc, joined, failed, answer>>
  BY DEF SimulationStep, StartFails, StartNone, StartGrid, StartOde, StartRobot, GridTick,
         RouteGiven, RouteRaises, RouteCell, RouteEnds, RouteMissed, Astray, StartTicks, RobotMove, RobotEnds, SegmentSolved, Sample, SegmentEnds, RobotFails, SegmentFails,
         SegmentTimeout, vars
<1>2. \/ UNCHANGED <<thread, verdict>>
      \/ /\ thread["sim"] = "running"
         /\ \/ Raise("sim")
            \/ \E r \in {"SAFE", "UNSAFE", "INDETERMINATE"} : Return("sim", r)
  <2>1. CASE StartFails \/ StartNone \/ StartOde
    BY <2>1 DEF StartFails, StartNone, StartOde, SimIdle
  <2>2. CASE StartTicks \/ RouteRaises
    BY <2>2 DEF StartTicks, RouteRaises, AtCorner, Walking, Planning, SimStep
  <2>3. CASE StartRobot \/ RobotEnds \/ RobotFails \/ SegmentFails
    BY <2>3 DEF StartRobot, RobotEnds, RobotFails, SegmentFails, SimIdle, SimStep, SimReturns
  <2>4. CASE GridTick
    BY <2>4 DEF GridTick, SimStep
  <2>5. CASE SegmentTimeout \/ SegmentEnds
    BY <2>5 DEF SegmentTimeout, SegmentEnds, SegmentDone, SimStep, SimReturns
  <2>6. CASE RobotMove \/ SegmentSolved \/ Sample
    BY <2>6 DEF RobotMove, SegmentSolved, Sample
  <2>7. CASE StartGrid \/ RouteGiven \/ RouteCell \/ RouteEnds \/ RouteMissed \/ Astray
    BY <2>7 DEF StartGrid, RouteGiven, RouteCell, RouteEnds, RouteMissed, Astray
  <2> QED BY <2>1, <2>2, <2>3, <2>4, <2>5, <2>6, <2>7 DEF SimulationStep
<1>3. CASE UNCHANGED <<thread, verdict>>
  BY <1>1, <1>3 DEF Control, Settled
<1> QED BY <1>1, <1>2, <1>3, ValidatorEnds DEF Validator

\* The inductive step of Control.
LEMMA ControlStep == Control /\ [Next]_vars => Control'
<1> SUFFICES ASSUME Control, [Next]_vars PROVE Control'
  OBVIOUS
<1>1. ASSUME NEW c \in Case, Submit(c) PROVE Control'
  BY <1>1 DEF Submit, Control, Settled, Early
<1>2. CASE ReadSensor
  BY <1>2 DEF ReadSensor, Respond, Control, Settled, Early
<1>3. CASE IntegrityCheck
  BY <1>3 DEF IntegrityCheck, Respond, Control, Settled, Early
<1>4. CASE Prepare
  BY <1>4 DEF Prepare, Respond, Control, Settled, Early
<1>5. CASE Join
  <2>1. PICK v \in Validator : v = Order[joined + 1]
    BY <1>5 DEF Join, Order, Validator, Control
  <2>2. /\ joined = 0 => v = "rules"
        /\ joined = 1 => v = "cbf"
        /\ joined = 2 => v = "sim"
    BY <2>1 DEF Order
  <2>3. /\ joined \in 0 .. 2 /\ joined' = joined + 1 /\ thread[v] \in {"returned", "raised"}
        /\ UNCHANGED <<pc, thread, verdict, answer>> /\ pc = "join"
        /\ failed' = IF thread[v] = "raised" THEN Append(failed, v) ELSE failed
    BY <1>5, <2>1 DEF Join, Order, Control
  <2>4. failed' \in Seq(Validator) /\ (failed' = <<>> => failed = <<>> /\ thread[v] = "returned")
    BY <2>3 DEF Control
  <2> QED BY <2>2, <2>3, <2>4 DEF Control, Settled, Early
<1>6. CASE Decide
  <2>1. joined = 3 /\ pc = "join"
    BY <1>6 DEF Decide, Order
  <2>2. /\ pc' = "done" /\ answer' \in {"ERROR", "SAFE", "UNSAFE"}
        /\ answer' # "ERROR" => failed = <<>>
        /\ UNCHANGED <<thread, verdict, joined, failed>>
    BY <1>6, VerdictTypes DEF Decide, Respond
  <2> QED BY <2>1, <2>2 DEF Control, Settled, Early
<1>7. CASE RunRules
  BY <1>7, VerdictTypes, ValidatorEnds DEF RunRules, Validator
<1>8. CASE RunCbf
  <2>1. \/ Raise("cbf")
        \/ \E r \in {"SAFE", "UNSAFE", "INDETERMINATE"} : Return("cbf", r)
    BY <1>8, VerdictTypes DEF RunCbf
  <2> QED BY <1>8, <2>1, ValidatorEnds DEF RunCbf, Validator
<1>9. CASE SimulationStep \/ RobotFails \/ SegmentFails \/ SegmentTimeout
  BY <1>9, SimulationKeepsControl
<1>10. CASE SensorFails \/ FetchFails
  BY <1>10 DEF SensorFails, FetchFails, Respond, Control, Settled, Early
<1>11. CASE Finish
  BY <1>11 DEF Finish, Control, Settled, Early
<1>12. CASE UNCHANGED vars
  BY <1>12 DEF vars, Control, Settled
<1> QED BY <1>1, <1>2, <1>3, <1>4, <1>5, <1>6, <1>7, <1>8, <1>9, <1>10, <1>11, <1>12
        DEF Next, MainStep, Fault

\* How far the futures of a request are, whatever its threads do.
THEOREM ControlHolds == Spec => []Control
<1>1. Init => Control
  BY DEF Init, Control, Settled, Early
<1> QED BY <1>1, ControlStep, PTL DEF Spec

\* A validator that raised is never outvoted: an answer SAFE or UNSAFE that the
\* cluster gives has no raised future behind it, and SAFE has three verdicts,
\* in whichever order the threads ended.  (safety_cluster/service.py)
THEOREM NoVerdictWithoutValidatorsHolds == Spec => []NoVerdictWithoutValidators
<1>1. Control => NoVerdictWithoutValidators
  BY DEF Control, NoVerdictWithoutValidators, Settled, Validator
<1> QED BY <1>1, ControlHolds, PTL

-----------------------------------------------------------------------------
(* What was read and admitted. *)

Accepted == CheckIntegrity(case.proof, case.active, hash, case.age, case.maxAge,
                           Thresholds(case), sensor) = "ok"

\* From the sensor stage on there is a request; from the integrity check on its
\* reading and the hash of it; and what is admitted has passed the check.
Reading ==
    /\ pc # "idle" => case \in Case
    /\ pc = "integrity" \/ Admitted =>
          /\ sensor = ReadSnapshot(case, case.raw)
          /\ hash = <<SnapshotHash(case, sensor)>>
    /\ Admitted => Accepted

\* A step that keeps the request, and admits nothing that was not admitted.
LEMMA ReadingFrame ==
    ASSUME Reading, UNCHANGED request, pc # "idle", pc' # "integrity", Admitted' => Admitted
    PROVE  Reading'
BY DEF Reading, request, Accepted, Thresholds

\* The inductive step of Reading.
LEMMA ReadingStep == Control /\ Reading /\ [Next]_vars => Reading'
<1> SUFFICES ASSUME Control, Reading, [Next]_vars PROVE Reading'
  OBVIOUS
<1>1. ASSUME NEW c \in Case, Submit(c) PROVE Reading'
  BY <1>1 DEF Submit, Reading, Admitted, Control
<1>2. CASE ReadSensor
  <2>1. UNCHANGED case /\ pc = "sensor"
    BY <1>2 DEF ReadSensor
  <2>2. CASE pc' = "integrity"
    <3>1. answer' = "none" /\ sensor' = ReadSnapshot(case, case.raw)
          /\ hash' = <<SnapshotHash(case, sensor')>>
      BY <1>2, <2>2 DEF ReadSensor, Respond, Control
    <3> QED BY <2>1, <2>2, <3>1 DEF Reading, Admitted
  <2>3. CASE pc' = "done" /\ answer' = "ERROR"
    BY <2>1, <2>3 DEF Reading, Admitted
  <2> QED BY <1>2, <2>2, <2>3 DEF ReadSensor, Respond
<1>3. CASE IntegrityCheck
  <2>1. UNCHANGED request /\ pc = "integrity"
    BY <1>3 DEF IntegrityCheck
  <2>2. CASE Accepted
    BY <1>3, <2>1, <2>2 DEF IntegrityCheck, Reading, Accepted, Admitted, request
  <2>3. CASE ~Accepted
    <3>1. pc' = "done" /\ answer' = "REJECTED"
      BY <1>3, <2>3 DEF IntegrityCheck, Accepted, Respond
    <3> QED BY <2>1, <3>1 DEF Reading, Admitted, request
  <2> QED BY <2>2, <2>3
<1>4. CASE Prepare
  BY <1>4, ReadingFrame DEF Prepare, Respond, Admitted, Control, Early
<1>5. CASE Join \/ Decide
  BY <1>5, ReadingFrame DEF Join, Decide, Respond, Admitted, Control, Early
<1>6. CASE RunRules \/ RunCbf
  <2>1. UNCHANGED <<request, pc, answer>> /\ thread # [v \in Validator |-> "none"]
    BY <1>6 DEF RunRules, RunCbf, Validator
  <2>2. pc \notin {"idle", "integrity"}
    BY <1>6 DEF RunRules, RunCbf, Control, Early, Validator
  <2> QED BY <2>1, <2>2, ReadingFrame DEF Admitted
<1>7. CASE SimulationStep \/ RobotFails \/ SegmentFails \/ SegmentTimeout
  <2>1. UNCHANGED <<request, pc, answer>> /\ thread["sim"] = "running"
    BY <1>7 DEF SimulationStep, StartFails, StartNone, StartGrid, StartOde, StartRobot, GridTick,
         RouteGiven, RouteRaises, RouteCell, RouteEnds, RouteMissed, Astray, StartTicks,
         AlongY, AtCorner, Walking, Planning, RobotMove, RobotEnds, SegmentSolved, Sample, SegmentEnds, RobotFails, SegmentFails,
         SegmentTimeout, SegmentDone, InPlan, SimIdle, SimStep, vars
  <2>2. pc \notin {"idle", "integrity"}
    BY <2>1 DEF Control, Early, Validator
  <2> QED BY <2>1, <2>2, ReadingFrame DEF Admitted
<1>8. CASE SensorFails \/ FetchFails
  BY <1>8, ReadingFrame DEF SensorFails, FetchFails, Respond, Admitted, Control, Early
<1>9. CASE Finish
  BY <1>9 DEF Finish, Reading, Admitted
<1>10. CASE UNCHANGED vars
  BY <1>10 DEF vars, request, Reading, Admitted, Accepted, Thresholds
<1> QED BY <1>1, <1>2, <1>3, <1>4, <1>5, <1>6, <1>7, <1>8, <1>9, <1>10
        DEF Next, MainStep, Fault

\* What is validated is the reading that was checked: it comes from the source
\* of the asset, with its hash, and nothing is validated that the integrity check
\* did not accept.  (gateway/routes.py 213-281)
THEOREM ReadingHolds == Spec => []Reading
<1>1. Init => Reading
  BY DEF Init, Reading, Admitted
<1> QED BY <1>1, ReadingStep, ControlHolds, PTL DEF Spec

-----------------------------------------------------------------------------
(* The readings. *)

\* The smaller and the larger of two numbers.
LEMMA MinMaxOfTwo ==
    ASSUME NEW x \in Int, NEW y \in Int
    PROVE  /\ Min({x, y}) = IF x <= y THEN x ELSE y
           /\ Max({x, y}) = IF x >= y THEN x ELSE y
<1>1. Min({x, y}) = IF x <= y THEN x ELSE y
  <2> DEFINE m == IF x <= y THEN x ELSE y
  <2>1. m \in {x, y} /\ \A z \in {x, y} : m <= z
    OBVIOUS
  <2>2. \A k \in {x, y} : (\A z \in {x, y} : k <= z) => k = m
    OBVIOUS
  <2> HIDE DEF m
  <2>3. Min({x, y}) = m
    BY <2>1, <2>2 DEF Min
  <2> QED BY <2>3 DEF m
<1>2. Max({x, y}) = IF x >= y THEN x ELSE y
  <2> DEFINE m == IF x >= y THEN x ELSE y
  <2>1. m \in {x, y} /\ \A z \in {x, y} : m >= z
    OBVIOUS
  <2>2. \A k \in {x, y} : (\A z \in {x, y} : k >= z) => k = m
    OBVIOUS
  <2> HIDE DEF m
  <2>3. Max({x, y}) = m
    BY <2>1, <2>2 DEF Max
  <2> QED BY <2>3 DEF m
<1> QED BY <1>1, <1>2

\* The fields a list is spread over have the numbers of the list.
LEMMA SpreadValues ==
    ASSUME NEW names \in Seq(STRING), NEW data, NEW list,
           Has(data, list) => data[list].v \in Seq(Int),
           NEW f \in DOMAIN Spread(names, data, list)
    PROVE  IsValue(Spread(names, data, list)[f])
<1>1. Has(data, list)
  BY DEF Spread
<1> DEFINE xs == data[list].v
           n  == Min({Len(names), Len(xs)})
<1>2. xs \in Seq(Int)
  BY <1>1
<1>3. n \in Nat /\ n <= Len(xs)
  <2>1. Len(names) \in Int /\ Len(xs) \in Int /\ Len(names) \in Nat /\ Len(xs) \in Nat
    BY <1>2
  <2> HIDE DEF xs
  <2> QED BY <2>1, MinMaxOfTwo
<1>4. Spread(names, data, list) = [g \in {names[i] : i \in 1 .. n} |->
                                     Num(xs[CHOOSE i \in 1 .. n : names[i] = g])]
  BY <1>1 DEF Spread
<1> HIDE DEF n, xs
<1>5. f \in {names[i] : i \in 1 .. n}
  BY <1>4
<1>6. PICK j \in 1 .. n : j = CHOOSE i \in 1 .. n : names[i] = f
  BY <1>5
<1>7. Spread(names, data, list)[f] = Num(xs[j])
  BY <1>4, <1>5, <1>6
<1>8. xs[j] \in Int
  BY <1>2, <1>3
<1> QED BY <1>7, <1>8 DEF Num, IsValue

\* A reading has numbers where it says so.
LEMMA ReadingValues ==
    ASSUME NEW c \in Case, NEW f \in DOMAIN ReadSnapshot(c, c.raw)
    PROVE  IsValue(ReadSnapshot(c, c.raw)[f])
<1>1. CASE Routed(c.route) # "isaac"
  BY <1>1, RequestAssumption DEF ReadSnapshot
<1>2. CASE Routed(c.route) = "isaac"
  <2> DEFINE p == Spread(JointFields, c.raw, "joint_positions")
             v == Spread(VelocityFields, c.raw, "joint_velocities")
             e == Spread(EffortFields, c.raw, "joint_efforts")
             r == Restrict(c.raw, DOMAIN c.raw \ {"timestamp"})
  <2>1. ReadSnapshot(c, c.raw) = Merge(p, Merge(v, Merge(e, r)))
    BY <1>2 DEF ReadSnapshot
  <2>2. /\ \A g \in DOMAIN p : IsValue(p[g])
        /\ \A g \in DOMAIN v : IsValue(v[g])
        /\ \A g \in DOMAIN e : IsValue(e[g])
    <3>1. \A l \in {"joint_positions", "joint_velocities", "joint_efforts"} :
             Has(c.raw, l) => c.raw[l].v \in Seq(Int)
      BY <1>2, RequestAssumption
    <3>2. JointFields \in Seq(STRING) /\ VelocityFields \in Seq(STRING) /\ EffortFields \in Seq(STRING)
      BY JointAssumption
    <3> QED BY <3>1, <3>2, SpreadValues
  <2>3. \A g \in DOMAIN r : IsValue(r[g])
    BY RequestAssumption DEF Restrict
  <2> HIDE DEF p, v, e, r
  <2>4. \A g \in DOMAIN Merge(e, r) : IsValue(Merge(e, r)[g])
    BY <2>2, <2>3 DEF Merge
  <2> DEFINE er == Merge(e, r)
  <2> HIDE DEF er
  <2>5. \A g \in DOMAIN Merge(v, er) : IsValue(Merge(v, er)[g])
    BY <2>2, <2>4 DEF Merge, er
  <2> DEFINE ver == Merge(v, er)
  <2> HIDE DEF ver
  <2>6. \A g \in DOMAIN Merge(p, ver) : IsValue(Merge(p, ver)[g])
    BY <2>2, <2>5 DEF Merge, ver
  <2> QED BY <2>1, <2>6 DEF er, ver
<1> QED BY <1>1, <1>2

\* A threshold that holds bounds the change, of a proof reading of zero too.
LEMMA DivergenceBounds ==
    ASSUME NEW t, NEW old, NEW new, IsValue(old), IsValue(new), t.limit \in Int,
           ~Diverges(t, old, new), old.num, new.num
    PROVE  Abs(new.v - old.v) * (IF t.method = "absolute" THEN 1 ELSE 100)
             <= t.limit * (IF t.method = "absolute" THEN 1 ELSE Abs(old.v))
<1> DEFINE d == Abs(new.v - old.v)
           a == Abs(old.v)
<1>1. old.v \in Int /\ new.v \in Int /\ d \in Nat /\ a \in Nat /\ (old.v = 0 => a = 0)
  BY DEF IsValue, Abs
<1>2. CASE t.method = "absolute"
  BY <1>1, <1>2 DEF Diverges
<1>3. CASE t.method # "absolute" /\ old.v = 0
  <2>1. ~(d > 0)
    BY <1>3 DEF Diverges
  <2>2. d = 0 /\ a = 0
    BY <1>1, <1>3, <2>1
  <2> HIDE DEF d, a
  <2>3. d * 100 <= t.limit * a
    BY <2>2
  <2> QED BY <1>3, <2>3 DEF d, a
<1>4. CASE t.method # "absolute" /\ old.v # 0
  <2>1. ~(d * 100 > t.limit * a)
    BY <1>4 DEF Diverges
  <2>2. d * 100 <= t.limit * a
    <3> HIDE DEF d, a
    <3>1. d * 100 \in Int /\ t.limit * a \in Int
      BY <1>1
    <3> QED BY <2>1, <3>1
  <2> QED BY <1>4, <2>2
<1> QED BY <1>2, <1>3, <1>4

StandsStill == ToSet(JointFields) \cup {"joint_positions", "runtime_id", "scene_path"}

\* Rounding to thousandths moves a number by at most half of one ...
LEMMA RoundingMoves ==
    ASSUME NEW n \in Nat
    PROVE  /\ Thousandths(n) \in Nat
           /\ 2 * n <= 2 * (Grain * Thousandths(n)) + Grain
           /\ 2 * n >= 2 * (Grain * Thousandths(n)) - Grain
<1> DEFINE q == n \div Grain
           r == n % Grain
<1>1. q \in Nat /\ r \in Nat /\ r < Grain /\ n = Grain * q + r
  BY GrainAssumption
<1> HIDE DEF q, r
<1>2. CASE 2 * r > Grain \/ (2 * r = Grain /\ q % 2 = 1)
  <2>1. Thousandths(n) = q + 1
    BY <1>2 DEF Thousandths, q, r
  <2>2. Grain * (q + 1) = Grain * q + Grain
    BY <1>1, GrainAssumption
  <2>3. Grain * q \in Nat
    BY <1>1, GrainAssumption
  <2>4. 2 * r >= Grain
    BY <1>1, <1>2, GrainAssumption
  <2> DEFINE p == Grain * q
  <2>5. Grain * Thousandths(n) = p + Grain
    BY <2>1, <2>2
  <2>6. p \in Nat /\ n = p + r
    BY <1>1, <2>3
  <2> HIDE DEF p
  <2>7. q + 1 \in Nat
    BY <1>1
  <2> QED BY <1>1, <2>1, <2>4, <2>5, <2>6, <2>7, GrainAssumption
<1>3. CASE ~(2 * r > Grain \/ (2 * r = Grain /\ q % 2 = 1))
  <2>1. Thousandths(n) = q
    BY <1>3 DEF Thousandths, q, r
  <2>2. 2 * r <= Grain
    BY <1>1, <1>3, GrainAssumption
  <2> DEFINE p == Grain * q
  <2>3. p \in Nat /\ n = p + r /\ Grain * Thousandths(n) = p
    BY <1>1, <2>1, GrainAssumption
  <2> HIDE DEF p
  <2> QED BY <1>1, <2>1, <2>2, <2>3, GrainAssumption
<1> QED BY <1>2, <1>3

\* ... so two that are written alike differ by at most one.
LEMMA DecimalTells ==
    ASSUME NEW m \in Int, NEW n \in Int, Decimal(m) = Decimal(n)
    PROVE  Abs(n - m) <= Grain
<1>1. ASSUME NEW a \in Nat, NEW b \in Nat, Thousandths(a) = Thousandths(b)
      PROVE  a - b <= Grain /\ b - a <= Grain
  <2> DEFINE p == Grain * Thousandths(a)
  <2>1. p \in Int
    BY RoundingMoves, GrainAssumption
  <2>2. 2 * a <= 2 * p + Grain /\ 2 * a >= 2 * p - Grain
    BY RoundingMoves
  <2>3. 2 * b <= 2 * p + Grain /\ 2 * b >= 2 * p - Grain
    BY <1>1, RoundingMoves
  <2> HIDE DEF p
  <2> QED BY <2>1, <2>2, <2>3, GrainAssumption
<1>2. CASE m < 0 /\ n < 0
  <2>1. -m \in Nat /\ -n \in Nat /\ Thousandths(-m) = Thousandths(-n)
    BY <1>2 DEF Decimal
  <2>2. (-m) - (-n) <= Grain /\ (-n) - (-m) <= Grain
    BY <2>1, <1>1
  <2> QED BY <2>2, GrainAssumption DEF Abs
<1>3. CASE ~(m < 0) /\ ~(n < 0)
  <2>1. m \in Nat /\ n \in Nat /\ Thousandths(m) = Thousandths(n)
    BY <1>3 DEF Decimal
  <2>2. m - n <= Grain /\ n - m <= Grain
    BY <2>1, <1>1
  <2> QED BY <2>2, GrainAssumption DEF Abs
<1>4. CASE m < 0 /\ ~(n < 0)
  BY <1>4 DEF Decimal
<1>5. CASE ~(m < 0) /\ n < 0
  BY <1>5 DEF Decimal
<1> QED BY <1>2, <1>3, <1>4, <1>5

\* Two values with one canonical text are near each other.
LEMMA CanonicalTells ==
    ASSUME NEW old, NEW new, IsValue(old), IsValue(new),
           Canonicalize(old) = Canonicalize(new)
    PROVE  Near(old, new)
<1>1. CASE old.num /\ new.num
  <2>1. Decimal(old.v) = Decimal(new.v)
    BY <1>1 DEF Canonicalize
  <2> QED BY <1>1, <2>1, DecimalTells DEF IsValue, Near
<1>2. CASE ~old.num /\ ~new.num /\ IsList(old) /\ IsList(new)
  <2> DEFINE dv == [i \in DOMAIN old.v |-> Decimal(old.v[i])]
             dw == [i \in DOMAIN new.v |-> Decimal(new.v[i])]
  <2>1. List(dv) = List(dw)
    BY <1>2 DEF Canonicalize
  <2>2. dv = dw
    <3> HIDE DEF dv, dw
    <3> QED BY <2>1 DEF List
  <2>3. old.v \in Seq(Int) /\ new.v \in Seq(Int)
    BY <1>2 DEF IsValue
  <2>4. DOMAIN old.v = DOMAIN new.v
    BY <2>2
  <2>5. Len(old.v) = Len(new.v)
    BY <2>3, <2>4
  <2>6. ASSUME NEW i \in DOMAIN old.v PROVE Abs(new.v[i] - old.v[i]) <= Grain
    <3>1. dv[i] = dw[i]
      BY <2>2
    <3>2. Decimal(old.v[i]) = Decimal(new.v[i])
      BY <2>4, <3>1
    <3>3. old.v[i] \in Int /\ new.v[i] \in Int
      BY <2>3, <2>4
    <3> QED BY <3>2, <3>3, DecimalTells
  <2> QED BY <1>2, <2>5, <2>6 DEF Near
<1>3. CASE ~old.num /\ ~new.num /\ ~IsList(old) /\ ~IsList(new)
  BY <1>3 DEF Canonicalize, Near
<1>4. CASE ~old.num /\ ~new.num /\ ~(IsList(old) <=> IsList(new))
  BY <1>4 DEF Canonicalize, List, IsList
<1>5. CASE ~(old.num <=> new.num)
  <2> DEFINE can(x) == Canonicalize(x)
  <2>1. ASSUME NEW x, IsValue(x) PROVE can(x).num = x.num
    <3>1. CASE x.num
      BY <2>1, <3>1 DEF Canonicalize, IsValue
    <3>2. CASE ~x.num /\ IsList(x)
      BY <2>1, <3>2 DEF Canonicalize, List, IsValue
    <3>3. CASE ~x.num /\ ~IsList(x)
      BY <3>3 DEF Canonicalize
    <3> QED BY <3>1, <3>2, <3>3
  <2> QED BY <1>5, <2>1
<1> QED BY <1>1, <1>2, <1>3, <1>4, <1>5 DEF IsValue

\* Two snapshots with one hash have one canonical text for everything that was
\* hashed.
LEMMA HashTells ==
    ASSUME NEW c, NEW s, NEW u, SnapshotHash(c, s) = SnapshotHash(c, u),
           NEW f \in DOMAIN s \cup DOMAIN u,
           c.route.source # "isaac" \/ f \in StandsStill
    PROVE  f \in DOMAIN s /\ f \in DOMAIN u /\ Canonicalize(s[f]) = Canonicalize(u[f])
<1>1. Routed(c.route) = "isaac" <=> c.route.source = "isaac"
  BY DEF Routed
<1> DEFINE bs == IntegrityBasis(s)
           bu == IntegrityBasis(u)
           ps == IF c.route.source = "isaac" /\ DOMAIN bs # {} THEN bs ELSE s
           pu == IF c.route.source = "isaac" /\ DOMAIN bu # {} THEN bu ELSE u
<1>2. /\ DOMAIN bs = DOMAIN s \cap StandsStill /\ \A g \in DOMAIN bs : bs[g] = s[g]
      /\ DOMAIN bu = DOMAIN u \cap StandsStill /\ \A g \in DOMAIN bu : bu[g] = u[g]
  BY DEF IntegrityBasis, Restrict, StandsStill
<1>3. ComputeSensorHash(ps) = ComputeSensorHash(pu)
  BY <1>1 DEF SnapshotHash
<1>4. /\ DOMAIN ps \subseteq DOMAIN s /\ \A g \in DOMAIN ps : ps[g] = s[g]
      /\ DOMAIN pu \subseteq DOMAIN u /\ \A g \in DOMAIN pu : pu[g] = u[g]
  <2> HIDE DEF bs, bu
  <2> QED BY <1>2
<1>5. f \in DOMAIN ps \/ f \in DOMAIN pu
  <2> HIDE DEF bs, bu
  <2> QED BY <1>2
<1> HIDE DEF bs, bu, ps, pu
<1>6. DOMAIN ps = DOMAIN pu /\ \A g \in DOMAIN ps : Canonicalize(ps[g]) = Canonicalize(pu[g])
  <2>1. ASSUME NEW p PROVE /\ DOMAIN ComputeSensorHash(p) = DOMAIN p
                           /\ \A g \in DOMAIN p : ComputeSensorHash(p)[g] = Canonicalize(p[g])
    BY DEF ComputeSensorHash
  <2>2. DOMAIN ps = DOMAIN pu
    BY <1>3, <2>1
  <2>3. ASSUME NEW g \in DOMAIN ps PROVE Canonicalize(ps[g]) = Canonicalize(pu[g])
    <3>1. ComputeSensorHash(ps)[g] = Canonicalize(ps[g]) /\ ComputeSensorHash(pu)[g] = Canonicalize(pu[g])
      BY <2>1, <2>2
    <3> QED BY <1>3, <3>1
  <2> QED BY <2>2, <2>3
<1> QED BY <1>4, <1>5, <1>6

\* What is admitted is fresh, of the active policy and close to the reading, for
\* every proof, every set of thresholds and every source of readings; a proof
\* that carries its hash shows what the agent saw, to a thousandth.
\* (integrity_service.py, sensor_gateway/routes.py, canonicalize.py)
THEOREM AdmittedIsFreshHolds == Spec => []AdmittedIsFresh
<1>1. Control /\ Reading => AdmittedIsFresh
  <2> SUFFICES ASSUME Control, Reading, Admitted PROVE AdmittedIsFresh
    BY DEF AdmittedIsFresh
  <2> DEFINE old == case.proof.snapshot
  <2>1. /\ case \in Case /\ Accepted
        /\ sensor = ReadSnapshot(case, case.raw) /\ hash = <<SnapshotHash(case, sensor)>>
    BY DEF Reading, Admitted, Control
  <2>2. /\ case.proof.policy = case.active
        /\ case.proof.hash # <<>> => case.proof.hash = hash
        /\ ~(case.age > case.maxAge) /\ ~(case.age < -MaxFuture)
        /\ \A t \in Thresholds(case) : ~DivergenceFails(t, old, sensor)
    <3> DEFINE bad == \E t \in Thresholds(case) : DivergenceFails(t, old, sensor)
    <3>1. bad \in BOOLEAN
      OBVIOUS
    <3>2. /\ case.proof.policy = case.active
          /\ case.proof.hash # <<>> => case.proof.hash = hash
          /\ ~(case.age > case.maxAge) /\ ~(case.age < -MaxFuture) /\ ~bad
      <4> HIDE DEF bad
      <4>1. CheckIntegrity(case.proof, case.active, hash, case.age, case.maxAge,
                           Thresholds(case), sensor)
              = IF case.proof.policy # case.active THEN "INTEGRITY_POLICY_MISMATCH"
                ELSE IF case.proof.hash # <<>> /\ case.proof.hash # hash
                THEN "INTEGRITY_SENSOR_HASH_MISMATCH"
                ELSE IF case.age > case.maxAge THEN "INTEGRITY_TIMESTAMP_EXPIRED"
                ELSE IF case.age < -MaxFuture THEN "INTEGRITY_TIMESTAMP_FUTURE"
                ELSE IF bad THEN "INTEGRITY_SENSOR_DIVERGENCE"
                ELSE "ok"
        BY Zenon DEF CheckIntegrity, bad
      <4> QED BY <2>1, <4>1 DEF Accepted
    <3> QED BY <3>2
  <2>3. case.age \in (-MaxFuture) .. case.maxAge
    BY <2>1, <2>2, RequestAssumption DEF MaxFuture
  <2>4. ASSUME DOMAIN old # {}, NEW t \in case.thresholds,
               old[t.field].num, sensor[t.field].num
        PROVE  Abs(sensor[t.field].v - old[t.field].v) * (IF t.method = "absolute" THEN 1 ELSE 100)
                 <= t.limit * (IF t.method = "absolute" THEN 1 ELSE Abs(old[t.field].v))
    <3>1. ~DivergenceFails(t, old, sensor)
      BY <2>2, <2>4 DEF Thresholds
    <3>2. /\ t.field \in DOMAIN old /\ t.field \in DOMAIN sensor
          /\ ~Diverges(t, old[t.field], sensor[t.field])
      BY <3>1 DEF DivergenceFails, Has
    <3>3. IsValue(old[t.field]) /\ t.limit \in Int
      BY <2>1, <3>2, RequestAssumption
    <3>4. IsValue(sensor[t.field])
      BY <2>1, <3>2, ReadingValues
    <3> QED BY <2>4, <3>2, <3>3, <3>4, DivergenceBounds
  <2>5. ASSUME case.proof.hash = <<SnapshotHash(case, old)>>,
               NEW f \in DOMAIN sensor \cup DOMAIN old
        PROVE  \/ SameReading(f)
               \/ case.route.source = "isaac" /\ (Volatile(f) \/ f \notin StateFields)
    <3>1. SnapshotHash(case, sensor) = SnapshotHash(case, old)
      BY <2>1, <2>2, <2>5
    <3>2. CASE case.route.source # "isaac" \/ f \in StandsStill
      <4>1. f \in DOMAIN sensor /\ f \in DOMAIN old /\ Canonicalize(old[f]) = Canonicalize(sensor[f])
        BY <3>1, <3>2, HashTells
      <4>2. IsValue(old[f]) /\ IsValue(sensor[f])
        BY <2>1, <4>1, RequestAssumption, ReadingValues
      <4> QED BY <4>1, <4>2, CanonicalTells DEF SameReading, Has
    <3>3. CASE case.route.source = "isaac" /\ f \notin StandsStill
      BY <3>3 DEF StandsStill, StateFields, WorkerFields, Volatile
    <3> QED BY <3>2, <3>3
  <2> QED BY <2>2, <2>3, <2>4, <2>5 DEF AdmittedIsFresh
<1> QED BY <1>1, ControlHolds, ReadingHolds, PTL

-----------------------------------------------------------------------------
(* What the verdicts and the answer were computed from. *)

RulesVerdict == ValidateRules(sensor, case.actions, case.ruleset)
CbfVerdict   == ValidateSafety(sensor, case.actions, case.ruleset, case.mappings)
Agreed == EvaluateConsensus(case.sil, [case.consensus EXCEPT !.mode = KnownMode(@)], verdict)

Backed ==
    /\ verdict["rules"] # "none" => verdict["rules"] = RulesVerdict
    /\ verdict["cbf"] # "none" => verdict["cbf"] = CbfVerdict
    /\ answer = "SAFE" => Agreed = "SAFE"

\* Before the fan-out there is nothing to back.
LEMMA NothingBacked ==
    ASSUME Control, pc \in Early \/ (pc = "done" /\ joined = 0)
    PROVE  verdict["rules"] = "none" /\ verdict["cbf"] = "none" /\ verdict["sim"] = "none"
BY DEF Control, Early, Validator

\* The inductive step of Backed.
LEMMA BackedStep == Control /\ Backed /\ [Next]_vars => Backed'
<1> SUFFICES ASSUME Control, Backed, [Next]_vars PROVE Backed'
  OBVIOUS
<1>c. Control'
  BY ControlStep
<1>1. ASSUME pc' \in Early \/ (pc' = "done" /\ joined' = 0) PROVE Backed'
  <2>1. verdict'["rules"] = "none" /\ verdict'["cbf"] = "none"
    <3>1. thread'["rules"] = "none" /\ thread'["cbf"] = "none"
      BY <1>c, <1>1 DEF Control, Early, Validator
    <3> QED BY <1>c, <3>1 DEF Control, Validator
  <2>2. answer' # "SAFE"
    BY <1>c, <1>1 DEF Control, Early
  <2> QED BY <2>1, <2>2 DEF Backed
<1>2. ASSUME NEW c \in Case, Submit(c) PROVE Backed'
  BY <1>1, <1>2 DEF Submit, Early
<1>3. CASE ReadSensor \/ SensorFails \/ IntegrityCheck \/ FetchFails
  <2>1. pc' \in Early \/ (pc' = "done" /\ joined' = 0)
    BY <1>3 DEF ReadSensor, SensorFails, IntegrityCheck, FetchFails, Respond, Control, Early
  <2> QED BY <1>1, <2>1
<1>4. CASE Finish
  BY <1>1, <1>4 DEF Finish, Early
<1>5. CASE Prepare
  <2>1. UNCHANGED verdict /\ pc = "fetch"
    BY <1>5 DEF Prepare
  <2>2. verdict["rules"] = "none" /\ verdict["cbf"] = "none"
    BY <2>1, NothingBacked DEF Early
  <2>3. answer' # "SAFE"
    BY <1>5 DEF Prepare, Respond, Control
  <2> QED BY <2>1, <2>2, <2>3 DEF Backed
<1>6. CASE Join
  <2>1. UNCHANGED <<request, verdict, answer>>
    BY <1>6 DEF Join
  <2> QED BY <2>1 DEF Backed, request, RulesVerdict, CbfVerdict, Agreed
<1>7. CASE Decide
  <2>1. UNCHANGED <<request, verdict>> /\ answer' \in {"ERROR", Agreed}
    BY <1>7 DEF Decide, Respond, Agreed
  <2> QED BY <2>1 DEF Backed, request, RulesVerdict, CbfVerdict, Agreed
<1>8. CASE RunRules
  <2>1. /\ UNCHANGED <<request, answer>> /\ thread["rules"] = "running"
        /\ verdict' = [verdict EXCEPT !["rules"] = RulesVerdict]
    BY <1>8 DEF RunRules, Return, RulesVerdict
  <2>2. verdict'["rules"] = RulesVerdict /\ verdict'["cbf"] = verdict["cbf"]
    BY <2>1 DEF Control, Validator
  <2>3. answer # "SAFE"
    BY <2>1 DEF Control, Settled
  <2> QED BY <2>1, <2>2, <2>3 DEF Backed, request, RulesVerdict, CbfVerdict
<1>9. CASE RunCbf
  <2>1. /\ UNCHANGED <<request, answer>> /\ thread["cbf"] = "running"
        /\ verdict' = verdict \/ verdict' = [verdict EXCEPT !["cbf"] = CbfVerdict]
    BY <1>9 DEF RunCbf, Return, Raise, CbfVerdict
  <2>2. /\ verdict'["rules"] = verdict["rules"]
        /\ verdict'["cbf"] \in {CbfVerdict, verdict["cbf"]}
    BY <2>1 DEF Control, Validator
  <2>3. answer # "SAFE"
    BY <2>1 DEF Control, Settled
  <2> QED BY <2>1, <2>2, <2>3 DEF Backed, request, RulesVerdict, CbfVerdict
<1>10. CASE SimulationStep \/ RobotFails \/ SegmentFails \/ SegmentTimeout
  <2>1. /\ UNCHANGED <<request, answer>> /\ thread["sim"] = "running"
        /\ verdict' = verdict \/ \E r : verdict' = [verdict EXCEPT !["sim"] = r]
    <3>1. CASE StartFails \/ StartNone \/ StartOde
      BY <3>1 DEF StartFails, StartNone, StartOde, SimIdle, Raise, Return
    <3>2. CASE StartTicks \/ RouteRaises
      BY <3>2 DEF StartTicks, RouteRaises, AtCorner, Walking, Planning, SimStep, Raise
    <3>3. CASE StartRobot \/ RobotEnds \/ RobotFails \/ SegmentFails
      BY <3>3 DEF StartRobot, RobotEnds, RobotFails, SegmentFails, SimIdle, SimStep, SimReturns, Return
    <3>4. CASE GridTick
      BY <3>4 DEF GridTick, SimStep, Return
    <3>5. CASE SegmentTimeout \/ SegmentEnds
      BY <3>5 DEF SegmentTimeout, SegmentEnds, SegmentDone, SimStep, SimReturns, Return
    <3>6. CASE RobotMove \/ SegmentSolved \/ Sample
      BY <3>6 DEF RobotMove, SegmentSolved, Sample, SimStep, InPlan
    <3>7. CASE StartGrid \/ RouteGiven \/ RouteCell \/ RouteEnds \/ RouteMissed \/ Astray
      BY <3>7 DEF StartGrid, RouteGiven, RouteCell, RouteEnds, RouteMissed, Astray, SimIdle, SimStep,
                  AlongY, AtCorner, Walking, Planning
    <3> QED BY <1>10, <3>1, <3>2, <3>3, <3>4, <3>5, <3>6, <3>7 DEF SimulationStep
  <2>2. verdict'["rules"] = verdict["rules"] /\ verdict'["cbf"] = verdict["cbf"]
    BY <2>1 DEF Control, Validator
  <2>3. answer # "SAFE"
    BY <2>1 DEF Control, Settled
  <2> QED BY <2>1, <2>2, <2>3 DEF Backed, request, RulesVerdict, CbfVerdict
<1>11. CASE UNCHANGED vars
  BY <1>11 DEF vars, request, Backed, RulesVerdict, CbfVerdict, Agreed
<1> QED BY <1>2, <1>3, <1>4, <1>5, <1>6, <1>7, <1>8, <1>9, <1>10, <1>11
        DEF Next, MainStep, Fault

\* The verdicts of rules and barriers are what the two validators compute, and a
\* SAFE answer is what the consensus makes of three verdicts and no failed future.
\* (safety_cluster/service.py 226-416)
THEOREM BackedHolds == Spec => []Backed
<1>1. Init => Backed
  BY DEF Init, Backed, Validator
<1> QED BY <1>1, BackedStep, ControlHolds, PTL DEF Spec

-----------------------------------------------------------------------------
(* What a unanimous SAFE means. *)

\* The modes that do not weigh ask for three SAFE verdicts.
LEMMA Unanimous ==
    ASSUME NEW sil \in Int, NEW config, "mode" \in DOMAIN config,
           \/ config.mode \in {"AND", "WORST_CASE"}
           \/ config.mode \notin {"AND", "WORST_CASE", "WEIGHTED"} /\ sil # 2,
           NEW v, EvaluateConsensus(sil, [config EXCEPT !.mode = KnownMode(@)], v) = "SAFE"
    PROVE  \A k \in DOMAIN v : v[k] = "SAFE"
<1> DEFINE known == [config EXCEPT !.mode = KnownMode(@)]
<1>1. known.mode = KnownMode(config.mode)
  OBVIOUS
<1>2. EffectiveMode(known.mode, sil) # "WEIGHTED"
  <2> HIDE DEF known
  <2>1. CASE config.mode \in {"AND", "WORST_CASE"}
    BY <1>1, <2>1 DEF EffectiveMode, KnownMode
  <2>2. CASE config.mode \notin {"AND", "WORST_CASE", "WEIGHTED"} /\ sil # 2
    <3>1. known.mode = "AUTO"
      BY <1>1, <2>2 DEF KnownMode
    <3> QED BY <2>2, <3>1 DEF EffectiveMode
  <2> QED BY <2>1, <2>2
<1> HIDE DEF known
<1>3. EvaluateConsensus(sil, known, v) = "SAFE"
  BY DEF known
<1> QED BY <1>2, <1>3 DEF EvaluateConsensus

\* The largest number of a set that has one.
LEMMA MaxIs ==
    ASSUME NEW S \in SUBSET Int, NEW m \in S, \A y \in S : y <= m
    PROVE  Max(S) = m
<1>1. \A y \in S : m >= y
  OBVIOUS
<1>2. \A k \in S : (\A y \in S : k >= y) => k = m
  OBVIOUS
<1> QED BY <1>1, <1>2 DEF Max

\* With ids of their own, every rule has a barrier that is not negative in the
\* snapshot and after each action.
LEMMA BarriersHold ==
    ASSUME NEW c \in Case, NEW s, UniqueIds(c),
           ValidateSafety(s, c.actions, c.ruleset, c.mappings) = "SAFE",
           NEW i \in DOMAIN c.ruleset, NEW n \in 0 .. Len(c.actions)
    PROVE  LET rule == c.ruleset[i]
               st   == Projected(s, c.actions, c.mappings, n)
           IN /\ ~BarrierRaises(rule, st)
              /\ Barrier(rule, st) # <<>> => Barrier(rule, st)[1] >= 0
<1> DEFINE states == ProjectedStates(s, c.actions, c.mappings)
           st     == Projected(s, c.actions, c.mappings, n)
           rule   == c.ruleset[i]
<1>1. n \in DOMAIN states /\ states[n] = st
  BY DEF ProjectedStates
<1>2. /\ ~(\E j \in DOMAIN states, k \in DOMAIN c.ruleset : BarrierRaises(c.ruleset[k], states[j]))
      /\ \A h \in UNION {ComputeBarriers(states[j], c.ruleset) : j \in DOMAIN states} : h >= 0
  <2> HIDE DEF states
  <2> DEFINE raises   == \E j \in DOMAIN states, k \in DOMAIN c.ruleset :
                            BarrierRaises(c.ruleset[k], states[j])
             barriers == UNION {ComputeBarriers(states[j], c.ruleset) : j \in DOMAIN states}
             all      == \A h \in barriers : h >= 0
  <2>1. ValidateSafety(s, c.actions, c.ruleset, c.mappings)
          = IF c.ruleset = <<>> THEN "INDETERMINATE"
            ELSE IF raises THEN "RAISED"
            ELSE IF barriers # {} /\ all THEN "SAFE" ELSE "UNSAFE"
    BY Zenon DEF ValidateSafety, states
  <2> HIDE DEF raises, barriers, all
  <2>2. ~raises /\ all
    BY <2>1
  <2> QED BY <2>2 DEF raises, barriers, all
<1> HIDE DEF states
<1>3. ~BarrierRaises(rule, st)
  BY <1>1, <1>2
<1>4. ASSUME Barrier(rule, st) # <<>> PROVE Barrier(rule, st)[1] >= 0
  <2>1. DOMAIN c.ruleset \subseteq Int
    BY PlanAssumption DEF IsSeq
  <2>2. \A m \in DOMAIN c.ruleset : m > i => c.ruleset[m].id # rule.id
    BY <2>1 DEF UniqueIds
  <2>3. Barrier(rule, st)[1] \in ComputeBarriers(st, c.ruleset)
    <3> HIDE DEF st
    <3> QED BY <1>4, <2>2 DEF ComputeBarriers
  <2> HIDE DEF st
  <2>4. Barrier(rule, st)[1] \in UNION {ComputeBarriers(states[j], c.ruleset) : j \in DOMAIN states}
    BY <1>1, <2>3
  <2> QED BY <1>2, <2>4
<1> QED BY <1>3, <1>4

\* A barrier that is not negative means what the rule says.
LEMMA BarrierMeans ==
    ASSUME NEW c \in Case, NEW i \in DOMAIN c.ruleset, NEW st,
           ~BarrierRaises(c.ruleset[i], st),
           Barrier(c.ruleset[i], st) # <<>> => Barrier(c.ruleset[i], st)[1] >= 0
    PROVE  LET rule == c.ruleset[i]
           IN /\ Has(st, rule.field) /\ st[rule.field].num
              /\ IsValue(st[rule.field]) => Within(rule, st[rule.field].v)
<1> DEFINE rule == c.ruleset[i]
           x    == st[rule.field]
<1>1. Has(st, rule.field) /\ x.num
  <2> SUFFICES ASSUME ~Has(st, rule.field) \/ ~x.num PROVE FALSE
    OBVIOUS
  <2>1. Barrier(rule, st) = <<NegInf>>
    BY DEF Barrier
  <2>2. Barrier(rule, st) # <<>> /\ Barrier(rule, st)[1] = NegInf
    BY <2>1
  <2> QED BY <2>2 DEF NegInf
<1>2. ASSUME IsValue(x) PROVE Within(rule, x.v)
  <2>1. x.v \in Int
    BY <1>1, <1>2 DEF IsValue
  <2>2. CASE rule.type = "threshold" /\ Operator(rule) \in {"lt", "lte", "gt", "gte"}
    <3>1. rule.limit # <<>> /\ rule.limit[1].num
      BY <1>1, <2>2 DEF BarrierRaises
    <3>2. rule.limit[1].v \in Int
      <4>1. 1 \in DOMAIN rule.limit /\ IsValue(rule.limit[1])
        BY <3>1, PlanAssumption DEF IsSeq
      <4> QED BY <3>1, <4>1 DEF IsValue
    <3> DEFINE l == rule.limit[1].v
    <3>3. CASE Operator(rule) \in {"lt", "lte"}
      <4>1. Barrier(rule, st) = <<l - x.v>>
        BY <1>1, <2>2, <3>3 DEF Barrier
      <4>2. l - x.v >= 0
        <5> HIDE DEF l, x
        <5> QED BY <4>1
      <4>3. x.v <= l
        BY <2>1, <3>2, <4>2
      <4>4. rule.op \in {"lt", "lte", ""}
        BY <3>3 DEF Operator
      <4> QED BY <2>2, <4>3, <4>4 DEF Within
    <3>4. CASE Operator(rule) \in {"gt", "gte"}
      <4>1. Barrier(rule, st) = <<x.v - l>>
        BY <1>1, <2>2, <3>4 DEF Barrier
      <4>2. x.v - l >= 0
        <5> HIDE DEF l, x
        <5> QED BY <4>1
      <4>3. x.v >= l
        BY <2>1, <3>2, <4>2
      <4>4. rule.op \in {"gt", "gte"}
        BY <3>4 DEF Operator
      <4> QED BY <2>2, <4>3, <4>4 DEF Within
    <3> QED BY <2>2, <3>3, <3>4
  <2>3. CASE rule.type = "range"
    <3>1. rule.min # <<>> /\ rule.max # <<>>
      BY <1>1, <2>3 DEF BarrierRaises
    <3>2. rule.min[1] \in Int /\ rule.max[1] \in Int
      <4>1. rule.min \in Seq(Int) /\ rule.max \in Seq(Int)
        BY PlanAssumption
      <4> HIDE DEF rule
      <4> QED BY <3>1, <4>1
    <3> DEFINE lo == x.v - rule.min[1]
               hi == rule.max[1] - x.v
    <3>3. Barrier(rule, st) = <<Min({lo, hi})>>
      BY <1>1, <2>3 DEF Barrier
    <3>4. lo \in Int /\ hi \in Int
      BY <2>1, <3>2
    <3>5. Min({lo, hi}) >= 0
      <4> HIDE DEF lo, hi, x
      <4> QED BY <3>3
    <3>6. lo >= 0 /\ hi >= 0
      <4> HIDE DEF lo, hi
      <4> QED BY <3>4, <3>5, MinMaxOfTwo
    <3>7. rule.min[1] <= x.v /\ x.v <= rule.max[1]
      BY <2>1, <3>2, <3>6
    <3> QED BY <2>3, <3>7 DEF Within
  <2>4. CASE ~(rule.type = "threshold" /\ Operator(rule) \in {"lt", "lte", "gt", "gte"})
             /\ rule.type # "range"
    BY <2>4 DEF Within, Operator
  <2> QED BY <2>2, <2>3, <2>4
<1> QED BY <1>1, <1>2

\* What a field takes along the plan is its value in some projected state.
LEMMA AlongProjected ==
    ASSUME NEW c \in Case, c = case, NEW f, NEW x \in Along(c, f)
    PROVE  \E n \in 0 .. Len(c.actions) :
              LET st == Projected(sensor, c.actions, c.mappings, n)
              IN Has(st, f) /\ st[f] = x
<1> DEFINE Setters(g, n) == {i \in 1 .. n : Setting(c.actions[i], c.mappings, g) # {}}
           Mapped == {c.mappings[m].field : m \in DOMAIN c.mappings}
<1>0. /\ Len(c.actions) \in Nat /\ DOMAIN c.actions = 1 .. Len(c.actions)
      /\ DOMAIN c.mappings \subseteq Int
  BY PlanAssumption DEF IsSeq
<1>1. ASSUME NEW n
      PROVE  /\ DOMAIN Projected(sensor, c.actions, c.mappings, n)
                  = DOMAIN sensor \cup {g \in Mapped : Setters(g, n) # {}}
             /\ \A g \in DOMAIN Projected(sensor, c.actions, c.mappings, n) :
                   Projected(sensor, c.actions, c.mappings, n)[g]
                     = IF Setters(g, n) = {} THEN sensor[g]
                       ELSE SetTo(c.actions[Max(Setters(g, n))], c.mappings, g)
  BY DEF Projected
<1>2. CASE Has(sensor, f) /\ x = sensor[f]
  <2> DEFINE st == Projected(sensor, c.actions, c.mappings, 0)
  <2>1. Setters(f, 0) = {}
    OBVIOUS
  <2>2. f \in DOMAIN st
    BY <1>1, <1>2 DEF Has
  <2>3. st[f] = sensor[f]
    BY <1>1, <2>1, <2>2
  <2>4. 0 \in 0 .. Len(c.actions)
    BY <1>0
  <2> HIDE DEF st
  <2> QED BY <1>2, <2>2, <2>3, <2>4 DEF Has, st
<1>3. CASE \E i \in DOMAIN c.actions, m \in DOMAIN c.mappings :
              /\ Sets(c, f, i, m) /\ \A k \in DOMAIN c.mappings : Sets(c, f, i, k) => k <= m
              /\ x = c.actions[i].params[c.mappings[m].param]
  <2>1. PICK i \in DOMAIN c.actions, m \in DOMAIN c.mappings :
              /\ Sets(c, f, i, m) /\ \A k \in DOMAIN c.mappings : Sets(c, f, i, k) => k <= m
              /\ x = c.actions[i].params[c.mappings[m].param]
    BY <1>3
  <2>2. Setting(c.actions[i], c.mappings, f) = {k \in DOMAIN c.mappings : Sets(c, f, i, k)}
    BY DEF Setting, Sets
  <2> DEFINE S == Setting(c.actions[i], c.mappings, f)
             st == Projected(sensor, c.actions, c.mappings, i)
  <2>3. m \in S /\ S \in SUBSET Int /\ \A y \in S : y <= m
    BY <1>0, <2>1, <2>2
  <2>4. Max(S) = m
    <3> HIDE DEF S
    <3> QED BY <2>3, MaxIs
  <2>5. i \in 1 .. i /\ i \in 0 .. Len(c.actions)
    BY <1>0
  <2>6. i \in Setters(f, i) /\ Setters(f, i) \in SUBSET Int /\ \A y \in Setters(f, i) : y <= i
    BY <2>3, <2>5
  <2>7. Max(Setters(f, i)) = i
    <3> HIDE DEF Setters
    <3> QED BY <2>6, MaxIs
  <2>8. f \in Mapped
    BY <2>1 DEF Sets
  <2>9. f \in DOMAIN st
    <3> HIDE DEF Setters, Mapped
    <3> QED BY <1>1, <2>6, <2>8
  <2>10. st[f] = SetTo(c.actions[i], c.mappings, f)
    <3> HIDE DEF Setters, Mapped
    <3> QED BY <1>1, <2>6, <2>7, <2>9
  <2>11. SetTo(c.actions[i], c.mappings, f) = x
    BY <2>1, <2>4 DEF SetTo
  <2> HIDE DEF st, S
  <2> QED BY <2>5, <2>9, <2>10, <2>11 DEF Has, st
<1>4. \/ Has(sensor, f) /\ x = sensor[f]
      \/ \E i \in DOMAIN c.actions, m \in DOMAIN c.mappings :
              /\ Sets(c, f, i, m) /\ \A k \in DOMAIN c.mappings : Sets(c, f, i, k) => k <= m
              /\ x = c.actions[i].params[c.mappings[m].param]
  BY Zenon DEF Along
<1> QED BY <1>2, <1>3, <1>4

\* The values along the plan are values.
LEMMA AlongValues ==
    ASSUME NEW c \in Case, sensor = ReadSnapshot(c, c.raw), NEW f, NEW x \in Along(c, f)
    PROVE  IsValue(x)
<1>1. \/ Has(sensor, f) /\ x = sensor[f]
      \/ \E i \in DOMAIN c.actions, m \in DOMAIN c.mappings :
              Sets(c, f, i, m) /\ x = c.actions[i].params[c.mappings[m].param]
  BY Zenon DEF Along
<1>2. CASE Has(sensor, f) /\ x = sensor[f]
  BY <1>2, ReadingValues DEF Has
<1>3. ASSUME NEW i \in DOMAIN c.actions, NEW m \in DOMAIN c.mappings,
             Sets(c, f, i, m), x = c.actions[i].params[c.mappings[m].param]
      PROVE  IsValue(x)
  <2>1. c.mappings[m].param \in DOMAIN c.actions[i].params
    BY <1>3 DEF Sets, Has
  <2> QED BY <1>3, <2>1, PlanAssumption
<1> QED BY <1>1, <1>2, <1>3

\* What the two deterministic validators establish when both say SAFE.
LEMMA RulesMean ==
    ASSUME case \in Case, sensor = ReadSnapshot(case, case.raw),
           RulesVerdict = "SAFE", CbfVerdict = "SAFE", NEW i \in DOMAIN case.ruleset
    PROVE  LET rule == case.ruleset[i]
           IN /\ UniqueIds(case) =>
                   /\ Has(sensor, rule.field)
                   /\ \A x \in Along(case, rule.field) : x.num /\ Within(rule, x.v)
              /\ HasConditions(rule) =>
                   \A s \in Sources(sensor, case.actions) :
                      \E k \in DOMAIN rule.conds :
                         \/ ~Has(s, rule.conds[k].field)
                         \/ ~Compare(s[rule.conds[k].field], rule.conds[k].op,
                                     <<rule.conds[k].value>>)
<1> DEFINE rule == case.ruleset[i]
           St(n) == Projected(sensor, case.actions, case.mappings, n)
<1>1. ASSUME UniqueIds(case), NEW n \in 0 .. Len(case.actions)
      PROVE  /\ Has(St(n), rule.field) /\ St(n)[rule.field].num
             /\ IsValue(St(n)[rule.field]) => Within(rule, St(n)[rule.field].v)
  <2>1. /\ ~BarrierRaises(rule, St(n))
        /\ Barrier(rule, St(n)) # <<>> => Barrier(rule, St(n))[1] >= 0
    BY <1>1, BarriersHold DEF CbfVerdict
  <2> HIDE DEF St
  <2> QED BY <2>1, BarrierMeans
<1>2. ASSUME UniqueIds(case) PROVE Has(sensor, rule.field)
  <2>1. 0 \in 0 .. Len(case.actions)
    BY PlanAssumption DEF IsSeq
  <2>2. Has(St(0), rule.field)
    BY <1>1, <1>2, <2>1
  <2>3. DOMAIN St(0) = DOMAIN sensor
    BY DEF Projected
  <2> QED BY <2>2, <2>3 DEF Has
<1>3. ASSUME UniqueIds(case), NEW x \in Along(case, rule.field)
      PROVE  x.num /\ Within(rule, x.v)
  <2>1. PICK n \in 0 .. Len(case.actions) : Has(St(n), rule.field) /\ St(n)[rule.field] = x
    BY <1>3, AlongProjected
  <2>2. IsValue(x)
    BY <1>3, AlongValues
  <2> HIDE DEF St
  <2> QED BY <1>1, <1>3, <2>1, <2>2
<1>4. ASSUME HasConditions(rule), NEW s \in Sources(sensor, case.actions)
      PROVE  \E k \in DOMAIN rule.conds :
                \/ ~Has(s, rule.conds[k].field)
                \/ ~Compare(s[rule.conds[k].field], rule.conds[k].op, <<rule.conds[k].value>>)
  <2>1. ~EvaluateSource(rule, s)
    <3> DEFINE Violated(r) ==
                 \/ \E u \in Sources(sensor, case.actions) : EvaluateSource(r, u)
                 \/ /\ r.type # "forbidden_combination"
                    /\ \A u \in Sources(sensor, case.actions) : ~Has(u, r.field)
    <3>1. RulesVerdict = IF \E k \in DOMAIN case.ruleset : Violated(case.ruleset[k])
                         THEN "UNSAFE" ELSE "SAFE"
      BY Zenon DEF RulesVerdict, ValidateRules
    <3>2. ~Violated(rule)
      <4> HIDE DEF Violated
      <4> QED BY <3>1
    <3> QED BY <1>4, <3>2
  <2>2. ~Combination(rule, s)
    BY <1>4, <2>1 DEF EvaluateSource
  <2> QED BY <2>2 DEF Combination
<1> HIDE DEF rule
<1>5. /\ UniqueIds(case) =>
           /\ Has(sensor, rule.field)
           /\ \A x \in Along(case, rule.field) : x.num /\ Within(rule, x.v)
      /\ HasConditions(rule) =>
           \A s \in Sources(sensor, case.actions) :
              \E k \in DOMAIN rule.conds :
                 \/ ~Has(s, rule.conds[k].field)
                 \/ ~Compare(s[rule.conds[k].field], rule.conds[k].op, <<rule.conds[k].value>>)
  BY <1>2, <1>3, <1>4
<1> QED BY <1>5 DEF rule

-----------------------------------------------------------------------------
(* How much of the plan the simulation has seen. *)

SimFields == {"stage", "index", "left", "positions", "paths", "at", "next", "values",
              "violations", "sampled", "first", "clear"}

\* Vehicles at points, on paths of points.
Track(positions, paths) ==
    /\ DOMAIN positions \subseteq Vehicle
    /\ \A a \in DOMAIN positions : IsPoint(positions[a])
    /\ paths \in [Vehicle -> Seq(Int \X Int)]

\* What the back end finds at tick k.
Found(k) == DetectStepViolations(case.grid, At(k), At(Min({k + 1, Ticks})), case.ruleset)

\* What was found at the ticks so far is recorded.
GridSoFar ==
    /\ Track(sim.positions, sim.paths)
    /\ sim.index \in 0 .. Ticks
    /\ sim.at = At(sim.index)
    /\ sim.next = At(Min({sim.index + 1, Ticks}))
    /\ \A k \in 0 .. (sim.index - 1) : Found(k) \subseteq sim.violations

\* The cells of a leg of the route that an action asks for.
LegOf(positions, action, i) ==
    LET from == Start(positions, action.agv)[i] to == Target(action)[i]
    IN IF from.num /\ to.num THEN Steps(from.v, to.v) ELSE 0

\* The routes before this one were computed, this one up to sim.left cells.
RouteSoFar ==
    /\ sim.positions = AgvPositions(case.grid, ReadSnapshot(case, case.raw))
    /\ sim.index \in 1 .. (Len(case.actions) + 1)
    /\ sim.left \in Nat
    /\ sim.left <= IF sim.index <= Len(case.actions) /\ Generates(Current)
                   THEN LegOf(sim.positions, Current, 1) + LegOf(sim.positions, Current, 2) ELSE 0
    /\ \A k \in 1 .. (sim.index - 1) :
          Generates(case.actions[k]) => \A i \in {1, 2} : Target(case.actions[k])[i].num

\* The segments before this one are sampled, this one but for what is left.
OdeSoFar ==
    /\ sim.index \in 1 .. Segments(case)
    /\ sim.sampled \in Seq(Int)
    /\ \A i \in 1 .. (sim.index - 1) : sim.sampled[i] = Samples(case, i)
    /\ sim.stage = "segment" => Len(sim.sampled) = sim.index - 1
    /\ sim.stage = "samples" =>
          /\ Len(sim.sampled) = sim.index
          /\ sim.left \in Nat
          /\ sim.sampled[sim.index] = Samples(case, sim.index) - sim.left

Simulates(i) == IF IsMove(case.actions[i]) THEN 1 ELSE 0

\* The moves before this one were simulated.
RobotSoFar ==
    /\ sim.index \in 1 .. (Len(case.actions) + 1)
    /\ sim.sampled \in Seq(Int)
    /\ Len(sim.sampled) = sim.index - 1
    /\ \A i \in 1 .. (sim.index - 1) : sim.sampled[i] = Simulates(i)

Complete ==
    /\ sim.violations = {}
    /\ Engine(case) = "discrete_event" =>
          Track(sim.positions, sim.paths) /\ \A k \in 0 .. Ticks : Found(k) = {}
    /\ Engine(case) = "ode_solver" =>
          sim.sampled = [i \in 1 .. Segments(case) |-> Samples(case, i)]
    /\ Engine(case) = "isaac_sim" =>
          sim.sampled = [i \in DOMAIN case.actions |-> Simulates(i)]

Simulated ==
    /\ DOMAIN sim = SimFields
    /\ thread["sim"] = "none" => sim = NoSim
    /\ sim.stage = "none" => sim = NoSim
    /\ sim.stage = "ended" => thread["sim"] = "returned"
    /\ sim.stage = "route" => Engine(case) = "discrete_event" /\ RouteSoFar
    /\ sim.stage = "astray" => sim.left \in {0, 1} /\ Fractional
    /\ sim.stage = "grid" => Engine(case) = "discrete_event" /\ GridSoFar
    /\ sim.stage \in {"segment", "samples"} => Engine(case) = "ode_solver" /\ OdeSoFar
    /\ sim.stage = "robot" => Engine(case) = "isaac_sim" /\ RobotSoFar
    /\ sim.first \/ ~sim.clear => sim.violations # {}
    /\ verdict["sim"] = "SAFE" => Complete

\* A simulation that runs belongs to a request that was admitted.
LEMMA SimRunning ==
    ASSUME Control, Reading, thread["sim"] = "running"
    PROVE  /\ pc = "join" /\ case \in Case /\ sensor = ReadSnapshot(case, case.raw)
           /\ verdict["sim"] = "none"
<1>1. pc = "join"
  BY DEF Control, Early, Validator, Settled
<1>2. verdict["sim"] = "none"
  <2>1. "sim" \in Validator
    BY DEF Validator
  <2> QED BY <2>1 DEF Control
<1> QED BY <1>1, <1>2 DEF Reading, Admitted

\* The ticks are those of the same paths.
LEMMA SameTicks ==
    ASSUME sim'.positions = sim.positions, sim'.paths = sim.paths, UNCHANGED case
    PROVE  /\ Ticks' = Ticks
           /\ \A k : At(k)' = At(k)
           /\ \A k : Found(k)' = Found(k)
<1>1. Ticks' = Ticks
  BY DEF Ticks
<1>2. \A k : At(k)' = At(k)
  BY DEF At
<1> QED BY <1>1, <1>2 DEF Found

\* A step that keeps the record of a simulation keeps its completeness.
LEMMA SameComplete ==
    ASSUME sim'.positions = sim.positions, sim'.paths = sim.paths, sim'.sampled = sim.sampled,
           sim'.violations = sim.violations, UNCHANGED case, Complete
    PROVE  Complete'
BY SameTicks DEF Complete, Simulates

\* Steps that do not touch the simulation.
LEMMA SimulatedFrame ==
    ASSUME Simulated, UNCHANGED <<case, sim>>, thread'["sim"] = thread["sim"],
           verdict'["sim"] = verdict["sim"]
    PROVE  Simulated'
<1>1. /\ Ticks' = Ticks
      /\ \A k : At(k)' = At(k)
      /\ \A k : Found(k)' = Found(k)
  BY SameTicks
<1>2. Complete => Complete'
  BY SameComplete
<1>3. GridSoFar => GridSoFar'
  BY <1>1 DEF GridSoFar
<1>4. OdeSoFar => OdeSoFar'
  BY DEF OdeSoFar
<1>5. RobotSoFar => RobotSoFar'
  BY DEF RobotSoFar, Simulates
<1>6. RouteSoFar => RouteSoFar'
  BY DEF RouteSoFar, Current
<1>7. Fractional => Fractional'
  BY DEF Fractional, Route, Current
<1> QED BY <1>2, <1>3, <1>4, <1>5, <1>6, <1>7 DEF Simulated

\* No simulation has begun.
LEMMA NotBegun ==
    ASSUME sim = NoSim, verdict["sim"] # "SAFE"
    PROVE  Simulated
BY DEF NoSim, Simulated, SimFields

\* The simulation returns a verdict; SAFE only if it is complete.
LEMMA SimReturnsKeeps ==
    ASSUME Control, Simulated, UNCHANGED case, NEW r, SimReturns(r), r = "SAFE" => Complete
    PROVE  Simulated'
<1>1. /\ sim' = [sim EXCEPT !.stage = "ended"]
      /\ thread'["sim"] = "returned" /\ verdict'["sim"] = r
  BY DEF SimReturns, Return, Control, Validator
<1>2. /\ DOMAIN sim' = SimFields /\ sim'.stage = "ended"
      /\ sim'.positions = sim.positions /\ sim'.paths = sim.paths
      /\ sim'.sampled = sim.sampled /\ sim'.violations = sim.violations
      /\ sim'.first = sim.first /\ sim'.clear = sim.clear
  BY <1>1 DEF Simulated, SimFields
<1>3. r = "SAFE" => Complete'
  BY <1>2, SameComplete
<1> QED BY <1>1, <1>2, <1>3 DEF Simulated

-----------------------------------------------------------------------------
(* The reactor. *)

\* A reactor plan has at least one segment.
LEMMA SegmentsNat ==
    ASSUME NEW c \in Case
    PROVE  /\ Len(c.actions) \in Nat /\ DOMAIN c.actions = 1 .. Len(c.actions)
           /\ Segments(c) \in Nat /\ Segments(c) >= 1
           /\ Segments(c) = IF Len(c.actions) = 0 THEN 1 ELSE Len(c.actions)
<1>1. Len(c.actions) \in Nat /\ DOMAIN c.actions = 1 .. Len(c.actions)
  BY PlanAssumption DEF IsSeq
<1>2. Segments(c) = IF Len(c.actions) >= 1 THEN Len(c.actions) ELSE 1
  <2>1. Len(c.actions) \in Int /\ 1 \in Int
    BY <1>1
  <2> QED BY <2>1, MinMaxOfTwo, Zenon DEF Segments
<1> QED BY <1>1, <1>2

\* A segment has a whole number of samples, none negative.
LEMMA SamplesNat ==
    ASSUME NEW c \in Case, NEW i \in 1 .. Segments(c)
    PROVE  Samples(c, i) \in Nat
<1> DEFINE n == Len(c.actions)
           duration == IF n = 0 THEN c.reactor.horizon
                       ELSE IF c.actions[i].duration # <<>> THEN c.actions[i].duration[1]
                       ELSE c.reactor.horizon \div n
           dt == c.reactor.dt
<1>1. n \in Nat /\ (n # 0 => i \in DOMAIN c.actions)
  BY SegmentsNat
<1>2. c.reactor.horizon \in Int /\ dt \in Nat /\ dt > 0
  BY PlanAssumption
<1>3. duration \in Int
  <2>1. n # 0 => c.actions[i].duration \in Seq(Int)
    BY <1>1, PlanAssumption
  <2> HIDE DEF n
  <2>2. n # 0 /\ c.actions[i].duration # <<>> => c.actions[i].duration[1] \in Int
    BY <2>1
  <2>3. n # 0 => c.reactor.horizon \div n \in Int
    BY <1>1, <1>2
  <2> QED BY <1>2, <2>2, <2>3
<1> DEFINE m == Max({duration, dt})
<1>4. m \in Int
  <2>1. dt \in Int
    BY <1>2
  <2> HIDE DEF duration, dt
  <2>2. m = IF duration >= dt THEN duration ELSE dt
    BY <1>3, <2>1, MinMaxOfTwo, Zenon
  <2> QED BY <1>3, <2>1, <2>2
<1> DEFINE q == Codec!RoundDiv(m, dt)
<1>5. q \in Int
  <2> HIDE DEF m, dt
  <2> QED BY <1>2, <1>4 DEF Codec!RoundDiv
<1>6. Samples(c, i) = Max({q, 1})
  BY Zenon DEF Samples
<1> HIDE DEF q
<1>7. Max({q, 1}) = IF q >= 1 THEN q ELSE 1
  <2>1. 1 \in Int
    OBVIOUS
  <2> QED BY <1>5, <2>1, MinMaxOfTwo, Zenon
<1> QED BY <1>5, <1>6, <1>7

\* The reactor is set up.
LEMMA StartOdeKeeps ==
    ASSUME Control, Reading, Simulated, StartOde
    PROVE  Simulated'
<1>1. thread["sim"] = "running" /\ sim = NoSim /\ UNCHANGED case
  BY DEF StartOde, SimIdle, Simulated, request
<1>2. case \in Case /\ Engine(case) = "ode_solver" /\ verdict["sim"] = "none"
  BY <1>1, SimRunning DEF StartOde
<1>3. CASE OdeRaises(case)
  <2>1. sim' = NoSim /\ verdict'["sim"] = "none"
    BY <1>1, <1>2, <1>3 DEF StartOde, Raise
  <2>2. thread'["sim"] = "raised"
    BY <1>3 DEF StartOde, Raise, Control, Validator
  <2> QED BY <2>1, <2>2 DEF Simulated, NoSim, SimFields
<1>4. CASE ~OdeRaises(case)
  <2>1. /\ sim' = [NoSim EXCEPT !.stage = "segment", !.index = 1,
                     !.values = [f \in ReactorFields |-> sensor[f].v]]
        /\ UNCHANGED <<thread, verdict>>
    BY <1>1, <1>4 DEF StartOde
  <2>2. /\ DOMAIN sim' = SimFields /\ sim'.stage = "segment" /\ sim'.index = 1
        /\ sim'.sampled = <<>> /\ sim'.first = FALSE /\ sim'.clear = TRUE
    BY <2>1 DEF NoSim, SimFields
  <2>3. OdeSoFar'
    BY <1>1, <1>2, <2>2, SegmentsNat DEF OdeSoFar
  <2> QED BY <1>1, <1>2, <2>1, <2>2, <2>3 DEF Simulated
<1> QED BY <1>3, <1>4

\* A segment is solved; its samples are to be checked.
LEMMA SegmentSolvedKeeps ==
    ASSUME Control, Reading, Simulated, SegmentSolved
    PROVE  Simulated'
<1>1. /\ thread["sim"] = "running" /\ sim.stage = "segment" /\ UNCHANGED <<case, thread, verdict>>
  BY DEF SegmentSolved, SimStep, request
<1>2. /\ case \in Case /\ Engine(case) = "ode_solver" /\ OdeSoFar /\ DOMAIN sim = SimFields
      /\ verdict["sim"] = "none"
  BY <1>1, SimRunning DEF Simulated
<1>3. /\ DOMAIN sim' = SimFields /\ sim'.stage = "samples" /\ sim'.index = sim.index
      /\ sim'.left = Samples(case, sim.index) /\ sim'.sampled = Append(sim.sampled, 0)
      /\ sim'.first = sim.first /\ sim'.clear = sim.clear /\ sim'.violations = sim.violations
  BY <1>2 DEF SegmentSolved, SimFields
<1>4. Samples(case, sim.index) \in Nat /\ sim.index \in Nat
  BY <1>2, SamplesNat, SegmentsNat DEF OdeSoFar
<1>5. /\ sim'.sampled \in Seq(Int) /\ Len(sim'.sampled) = sim.index
      /\ sim'.sampled[sim.index] = 0
      /\ \A i \in 1 .. (sim.index - 1) : sim'.sampled[i] = sim.sampled[i]
  BY <1>1, <1>2, <1>3, <1>4 DEF OdeSoFar
<1>6. OdeSoFar'
  BY <1>1, <1>2, <1>3, <1>4, <1>5 DEF OdeSoFar
<1> QED BY <1>1, <1>2, <1>3, <1>6 DEF Simulated

\* One sample is checked.
LEMMA SampleKeeps ==
    ASSUME Control, Reading, Simulated, Sample
    PROVE  Simulated'
<1>1. /\ thread["sim"] = "running" /\ sim.stage = "samples" /\ UNCHANGED <<case, thread, verdict>>
      /\ sim.left > 0
  BY DEF Sample, SimStep, request
<1>2. /\ case \in Case /\ Engine(case) = "ode_solver" /\ OdeSoFar /\ DOMAIN sim = SimFields
      /\ verdict["sim"] = "none"
  BY <1>1, SimRunning DEF Simulated
<1>3. PICK x, more : sim' = [sim EXCEPT !.values = x, !.left = @ - 1,
                                         !.sampled[sim.index] = @ + 1,
                                         !.violations = @ \cup more]
  BY Zenon DEF Sample
<1>4. /\ DOMAIN sim' = SimFields /\ sim'.stage = "samples" /\ sim'.index = sim.index
      /\ sim'.left = sim.left - 1
      /\ sim'.sampled = [sim.sampled EXCEPT ![sim.index] = @ + 1]
      /\ sim'.first = sim.first /\ sim'.clear = sim.clear
      /\ sim'.violations = sim.violations \cup more
  BY <1>1, <1>2, <1>3 DEF SimFields
<1>5. Samples(case, sim.index) \in Nat /\ sim.index \in Nat /\ sim.index >= 1
  BY <1>2, SamplesNat, SegmentsNat DEF OdeSoFar
<1>6. /\ sim.sampled \in Seq(Int) /\ Len(sim.sampled) = sim.index /\ sim.left \in Nat
      /\ sim.sampled[sim.index] = Samples(case, sim.index) - sim.left
  BY <1>1, <1>2 DEF OdeSoFar
<1>7. /\ sim'.sampled \in Seq(Int) /\ Len(sim'.sampled) = sim.index
      /\ sim'.sampled[sim.index] = sim.sampled[sim.index] + 1
      /\ \A i \in 1 .. (sim.index - 1) : sim'.sampled[i] = sim.sampled[i]
  <2>1. /\ sim.index \in 1 .. Len(sim.sampled)
        /\ sim.sampled[sim.index] \in Int
    BY <1>5, <1>6
  <2>2. sim'.sampled = [sim.sampled EXCEPT ![sim.index] = sim.sampled[sim.index] + 1]
    BY <1>4
  <2>3. sim'.sampled \in Seq(Int) /\ Len(sim'.sampled) = sim.index
    BY <1>6, <2>1, <2>2
  <2>4. /\ sim'.sampled[sim.index] = sim.sampled[sim.index] + 1
        /\ \A i \in 1 .. (sim.index - 1) : sim'.sampled[i] = sim.sampled[i]
    BY <1>5, <1>6, <2>1, <2>2
  <2> QED BY <2>3, <2>4
<1>8. OdeSoFar'
  <2>1. Segments(case)' = Segments(case) /\ \A i : Samples(case, i)' = Samples(case, i)
    BY <1>1
  <2>2. /\ sim'.index \in 1 .. Segments(case)'
        /\ \A i \in 1 .. (sim'.index - 1) : sim'.sampled[i] = Samples(case, i)'
    BY <1>2, <1>4, <1>7, <2>1 DEF OdeSoFar
  <2>3. /\ sim'.left \in Nat
        /\ sim'.sampled[sim'.index] = Samples(case, sim.index) - sim'.left
    BY <1>1, <1>4, <1>5, <1>6, <1>7
  <2> QED BY <1>1, <1>4, <1>7, <2>1, <2>2, <2>3 DEF OdeSoFar
<1> QED BY <1>1, <1>2, <1>4, <1>8 DEF Simulated

\* A segment is over.
LEMMA SegmentEndsKeeps ==
    ASSUME Control, Reading, Simulated, SegmentEnds
    PROVE  Simulated'
<1>1. /\ thread["sim"] = "running" /\ sim.stage = "samples" /\ UNCHANGED case
      /\ sim.left = 0
  BY DEF SegmentEnds, SegmentDone, SimStep, request
<1>2. /\ case \in Case /\ Engine(case) = "ode_solver" /\ OdeSoFar /\ DOMAIN sim = SimFields
      /\ verdict["sim"] = "none"
  BY <1>1, SimRunning DEF Simulated
<1>3. Samples(case, sim.index) \in Nat /\ Segments(case) \in Nat
  BY <1>2, SamplesNat, SegmentsNat DEF OdeSoFar
<1>4. /\ sim.sampled \in Seq(Int) /\ Len(sim.sampled) = sim.index
      /\ \A i \in 1 .. sim.index : sim.sampled[i] = Samples(case, i)
  BY <1>1, <1>2, <1>3 DEF OdeSoFar
<1>5. CASE sim.index < Segments(case)
  <2>1. /\ sim' = [sim EXCEPT !.stage = "segment", !.index = @ + 1]
        /\ UNCHANGED <<thread, verdict>>
    BY <1>5 DEF SegmentEnds
  <2>2. /\ DOMAIN sim' = SimFields /\ sim'.stage = "segment" /\ sim'.index = sim.index + 1
        /\ sim'.sampled = sim.sampled /\ sim'.violations = sim.violations
        /\ sim'.first = sim.first /\ sim'.clear = sim.clear
    BY <1>2, <2>1 DEF SimFields
  <2>3. OdeSoFar'
    BY <1>1, <1>2, <1>3, <1>4, <1>5, <2>2 DEF OdeSoFar
  <2> QED BY <1>1, <1>2, <2>1, <2>2, <2>3 DEF Simulated
<1>6. CASE ~(sim.index < Segments(case))
  <2>1. sim.index = Segments(case)
    BY <1>2, <1>3, <1>6 DEF OdeSoFar
  <2>2. sim.sampled = [i \in 1 .. Segments(case) |-> Samples(case, i)]
    BY <1>4, <2>1
  <2>3. sim.violations = {} => Complete
    BY <1>2, <2>2 DEF Complete
  <2>4. SimReturns(IF sim.violations = {} THEN "SAFE" ELSE "UNSAFE")
    BY <1>6 DEF SegmentEnds
  <2> QED BY <1>1, <2>3, <2>4, SimReturnsKeeps
<1> QED BY <1>5, <1>6

-----------------------------------------------------------------------------
(* The arm. *)

\* Whichever check fails first, something is on record after it.
LEMMA RecordedKeeps ==
    ASSUME NEW first, NEW names, NEW checks, DOMAIN checks = 1 .. 7, first => names # {},
           first \/ \E i \in DOMAIN checks : checks[i].fails
    PROVE  Recorded(first, names, checks).names # {}
<1> DEFINE fails == {i \in DOMAIN checks : checks[i].fails}
           kept  == {i \in fails : checks[i].always \/ (~first /\ \A k \in fails : i <= k)}
<1>1. Recorded(first, names, checks).names = names \cup {checks[i].name : i \in kept}
  BY DEF Recorded
<1>2. CASE first
  BY <1>1, <1>2
<1>3. CASE ~first
  <2>1. fails # {} /\ \A k \in fails : k \in {1, 2, 3, 4, 5, 6, 7}
    BY <1>3
  <2>2. \E m \in fails : \A k \in fails : m <= k
    <3> HIDE DEF fails
    <3>1. CASE 1 \in fails
      BY <2>1, <3>1
    <3>2. CASE 1 \notin fails /\ 2 \in fails
      BY <2>1, <3>2
    <3>3. CASE 1 \notin fails /\ 2 \notin fails /\ 3 \in fails
      BY <2>1, <3>3
    <3>4. CASE 1 \notin fails /\ 2 \notin fails /\ 3 \notin fails /\ 4 \in fails
      BY <2>1, <3>4
    <3>5. CASE 1 \notin fails /\ 2 \notin fails /\ 3 \notin fails /\ 4 \notin fails
      BY <2>1, <3>5
    <3> QED BY <3>1, <3>2, <3>3, <3>4, <3>5
  <2>3. PICK m \in fails : \A k \in fails : m <= k
    BY <2>2
  <2>4. m \in kept
    BY <1>3, <2>3
  <2> HIDE DEF kept
  <2> QED BY <1>1, <2>4
<1> QED BY <1>2, <1>3

\* The arm is set up.
LEMMA StartRobotKeeps ==
    ASSUME Control, Reading, Simulated, StartRobot
    PROVE  Simulated'
<1>1. thread["sim"] = "running" /\ sim = NoSim /\ UNCHANGED case
  BY DEF StartRobot, SimIdle, Simulated, request
<1>2. case \in Case /\ Engine(case) = "isaac_sim" /\ verdict["sim"] = "none"
  BY <1>1, SimRunning DEF StartRobot
<1>3. CASE SimReturns("INDETERMINATE")
  BY <1>1, <1>3, SimReturnsKeeps
<1>4. CASE /\ sim' = [sim EXCEPT !.stage = "robot", !.index = 1]
           /\ UNCHANGED <<thread, verdict>>
  <2>1. /\ DOMAIN sim' = SimFields /\ sim'.stage = "robot" /\ sim'.index = 1
        /\ sim'.sampled = <<>> /\ sim'.first = FALSE /\ sim'.clear = TRUE
    BY <1>1, <1>4 DEF NoSim, SimFields
  <2>2. RobotSoFar'
    BY <1>1, <1>2, <2>1, SegmentsNat DEF RobotSoFar
  <2> QED BY <1>1, <1>2, <1>4, <2>1, <2>2 DEF Simulated
<1> QED BY <1>3, <1>4 DEF StartRobot

\* One action of the arm's plan.
LEMMA RobotMoveKeeps ==
    ASSUME Control, Reading, Simulated, RobotMove
    PROVE  Simulated'
<1>1. /\ thread["sim"] = "running" /\ sim.stage = "robot" /\ UNCHANGED <<case, thread, verdict>>
      /\ sim.index <= Len(case.actions)
  BY DEF RobotMove, InPlan, SimStep, request
<1>2. /\ case \in Case /\ Engine(case) = "isaac_sim" /\ RobotSoFar /\ DOMAIN sim = SimFields
      /\ verdict["sim"] = "none"
  BY <1>1, SimRunning DEF Simulated
<1>3. sim.index \in Nat /\ Len(case.actions) \in Nat
  BY <1>2, SegmentsNat DEF RobotSoFar
<1>4. ASSUME DOMAIN sim' = SimFields, sim'.stage = "robot", sim'.index = sim.index + 1,
             sim'.sampled = Append(sim.sampled, Simulates(sim.index)),
             sim'.first \/ ~sim'.clear => sim'.violations # {}
      PROVE  Simulated'
  <2>1. Simulates(sim.index) \in Int
    BY DEF Simulates
  <2>2. /\ sim'.sampled \in Seq(Int) /\ Len(sim'.sampled) = sim.index
        /\ sim'.sampled[sim.index] = Simulates(sim.index)
        /\ \A i \in 1 .. (sim.index - 1) : sim'.sampled[i] = sim.sampled[i]
    BY <1>2, <1>3, <1>4, <2>1 DEF RobotSoFar
  <2>3. ASSUME NEW i \in 1 .. sim.index PROVE sim'.sampled[i] = Simulates(i)
    <3>1. CASE i = sim.index
      BY <2>2, <3>1
    <3>2. CASE i # sim.index
      <4>1. i \in 1 .. (sim.index - 1)
        BY <1>3, <3>2
      <4> QED BY <1>2, <2>2, <4>1 DEF RobotSoFar
    <3> QED BY <3>1, <3>2
  <2>4. RobotSoFar'
    BY <1>1, <1>3, <1>4, <2>2, <2>3 DEF RobotSoFar, Simulates
  <2> QED BY <1>1, <1>2, <1>4, <2>4 DEF Simulated
<1>5. CASE ~IsMove(case.actions[sim.index])
  <2>1. sim' = [sim EXCEPT !.index = @ + 1, !.sampled = Append(@, 0)]
    BY <1>5 DEF RobotMove
  <2>2. /\ DOMAIN sim' = SimFields /\ sim'.stage = "robot" /\ sim'.index = sim.index + 1
        /\ sim'.sampled = Append(sim.sampled, 0)
        /\ sim'.first = sim.first /\ sim'.clear = sim.clear /\ sim'.violations = sim.violations
    BY <1>1, <1>2, <2>1 DEF SimFields
  <2> QED BY <1>4, <1>5, <2>2 DEF Simulated, Simulates
<1>6. CASE IsMove(case.actions[sim.index])
  <2>1. PICK goal, o :
          LET checks == Checks(case.robot, case.ruleset, goal, o)
              r      == Recorded(sim.first, sim.violations, checks)
          IN sim' = [sim EXCEPT !.index = @ + 1, !.sampled = Append(@, 1),
                       !.first = r.first, !.violations = r.names,
                       !.clear = @ /\ \A i \in DOMAIN checks : ~checks[i].fails]
    BY <1>6, Zenon DEF RobotMove
  <2> DEFINE checks == Checks(case.robot, case.ruleset, goal, o)
             r      == Recorded(sim.first, sim.violations, checks)
             none   == \A i \in DOMAIN checks : ~checks[i].fails
  <2>2. DOMAIN checks = 1 .. 7
    BY DEF Checks
  <2> HIDE DEF checks
  <2>3. r.first = (sim.first \/ ~none)
    BY DEF Recorded
  <2>4. (sim.first => sim.violations # {}) /\ (~sim.clear => sim.violations # {})
    BY DEF Simulated
  <2>5. sim.first \/ ~none => r.names # {}
    BY <2>2, <2>4, RecordedKeeps
  <2>6. r.names = {} => sim.violations = {}
    BY DEF Recorded
  <2>7. sim' = [sim EXCEPT !.index = @ + 1, !.sampled = Append(@, 1),
                  !.first = r.first, !.violations = r.names, !.clear = @ /\ none]
    BY <2>1 DEF checks
  <2> HIDE DEF r, none
  <2>8. /\ DOMAIN sim' = SimFields /\ sim'.stage = "robot" /\ sim'.index = sim.index + 1
        /\ sim'.sampled = Append(sim.sampled, 1)
        /\ sim'.first = r.first /\ sim'.violations = r.names
        /\ sim'.clear = (sim.clear /\ none)
    BY <1>1, <1>2, <2>7 DEF SimFields
  <2>9. sim'.first \/ ~sim'.clear => sim'.violations # {}
    BY <2>3, <2>4, <2>5, <2>6, <2>8
  <2> QED BY <1>4, <1>6, <2>8, <2>9 DEF Simulates
<1> QED BY <1>5, <1>6

\* The arm's plan is over.
LEMMA RobotEndsKeeps ==
    ASSUME Control, Reading, Simulated, RobotEnds
    PROVE  Simulated'
<1>1. /\ thread["sim"] = "running" /\ sim.stage = "robot" /\ UNCHANGED case
      /\ sim.index > Len(case.actions)
      /\ SimReturns(IF sim.violations = {} THEN "SAFE" ELSE "UNSAFE")
  BY DEF RobotEnds, SimStep, request
<1>2. case \in Case /\ Engine(case) = "isaac_sim" /\ RobotSoFar
  BY <1>1, SimRunning DEF Simulated
<1>3. /\ Len(case.actions) \in Nat /\ DOMAIN case.actions = 1 .. Len(case.actions)
      /\ sim.index = Len(case.actions) + 1
  BY <1>1, <1>2, SegmentsNat DEF RobotSoFar
<1>4. sim.sampled = [i \in DOMAIN case.actions |-> Simulates(i)]
  <2> DEFINE n == Len(case.actions)
  <2>1. n \in Nat /\ sim.index - 1 = n
    BY <1>3
  <2> HIDE DEF n
  <2>2. /\ sim.sampled \in Seq(Int) /\ Len(sim.sampled) = n
        /\ \A i \in 1 .. n : sim.sampled[i] = Simulates(i)
    BY <1>2, <2>1 DEF RobotSoFar
  <2>3. sim.sampled = [i \in 1 .. n |-> Simulates(i)]
    BY <2>1, <2>2
  <2> QED BY <1>3, <2>3 DEF n
<1>5. sim.violations = {} => Complete
  BY <1>2, <1>4 DEF Complete
<1> QED BY <1>1, <1>5, SimReturnsKeeps

\* The ways a simulation stays open.
LEMMA OpenKeeps ==
    ASSUME Control, Simulated, RobotFails \/ SegmentFails \/ SegmentTimeout
    PROVE  Simulated'
<1> DEFINE r == "INDETERMINATE"
<1>1. UNCHANGED case /\ SimReturns(r) /\ r # "SAFE"
  BY DEF RobotFails, SegmentFails, SegmentTimeout, request
<1> HIDE DEF r
<1> QED BY <1>1, SimReturnsKeeps

-----------------------------------------------------------------------------
(* The grid. *)

\* Some vehicle has the longest path: max_steps is a number.
LEMMA TicksNat ==
    ASSUME NEW paths \in [Vehicle -> Seq(Int \X Int)]
    PROVE  MaxSteps(paths) \in Nat /\ \A a \in Vehicle : Len(paths[a]) <= MaxSteps(paths)
<1> DEFINE From(a) == {b \in Vehicle : Len(paths[b]) >= Len(paths[a])}
           T == {From(a) : a \in Vehicle}
<1>0. \A a \in Vehicle : Len(paths[a]) \in Nat
  OBVIOUS
<1>1. IsFiniteSet(Vehicle) /\ Vehicle # {}
  BY GridAssumption
<1>2. T \subseteq FiniteSubsetsOf(Vehicle) /\ T # {}
  <2>1. \A a \in Vehicle : From(a) \subseteq Vehicle /\ IsFiniteSet(From(a))
    BY <1>1, FS_Subset
  <2> HIDE DEF From
  <2>2. \A x \in T : x \in FiniteSubsetsOf(Vehicle)
    BY <2>1 DEF FiniteSubsetsOf
  <2>3. T # {}
    BY <1>1
  <2> HIDE DEF T
  <2> QED BY <2>2, <2>3
<1>3. PICK x \in T : \A y \in T : ~(<<y, x>> \in StrictSubsetOrdering(Vehicle))
  <2> HIDE DEF T
  <2> QED BY <1>2, FS_StrictSubsetOrderingWellFounded, WFMin
<1>4. PICK a \in Vehicle : x = From(a)
  BY <1>3
<1>5. ASSUME NEW b \in Vehicle, ~(Len(paths[a]) >= Len(paths[b])) PROVE FALSE
  <2>1. From(b) \in SUBSET Vehicle /\ From(a) \in SUBSET Vehicle /\ From(b) \in T
    OBVIOUS
  <2>2. From(b) \subseteq From(a) /\ a \in From(a) /\ a \notin From(b)
    <3>1. ASSUME NEW z \in From(b) PROVE z \in From(a)
      <4>1. z \in Vehicle /\ Len(paths[z]) \in Nat /\ Len(paths[z]) >= Len(paths[b])
        BY <1>0
      <4>2. Len(paths[z]) >= Len(paths[a])
        BY <4>1, <1>0, <1>5
      <4> QED BY <4>1, <4>2
    <3>2. a \in From(a)
      BY <1>0
    <3>3. a \notin From(b)
      BY <1>0, <1>5
    <3> QED BY <3>1, <3>2, <3>3
  <2>3. <<From(b), From(a)>> \in StrictSubsetOrdering(Vehicle)
    <3> HIDE DEF From
    <3> QED BY <2>1, <2>2 DEF StrictSubsetOrdering
  <2> HIDE DEF From, T
  <2> QED BY <1>3, <1>4, <2>1, <2>3
<1>6. \A b \in Vehicle : Len(paths[b]) <= Len(paths[a])
  BY <1>0, <1>5
<1> HIDE DEF From, T
<1> DEFINE L == {Len(paths[b]) : b \in Vehicle}
<1>7. L \in SUBSET Int /\ Len(paths[a]) \in L /\ \A y \in L : y <= Len(paths[a])
  BY <1>0, <1>6
<1>8. Max(L) = Len(paths[a])
  <2> HIDE DEF L
  <2> QED BY <1>7, MaxIs
<1> QED BY <1>0, <1>6, <1>8 DEF MaxSteps

\* A nonempty set of positions in a plan has a last one.
LEMMA LastOf ==
    ASSUME NEW n \in Nat, NEW S \in SUBSET (1 .. n), S # {}
    PROVE  Max(S) \in S
<1> DEFINE From(m) == {y \in S : y >= m}
           T == {From(m) : m \in S}
<1>0. S \subseteq Int
  OBVIOUS
<1>1. IsFiniteSet(S)
  <2>1. IsFiniteSet(1 .. n)
    BY FS_Interval
  <2> QED BY <2>1, FS_Subset
<1>2. T \subseteq FiniteSubsetsOf(S) /\ T # {}
  <2>1. \A m \in S : From(m) \subseteq S /\ IsFiniteSet(From(m))
    BY <1>1, FS_Subset
  <2> QED BY <2>1 DEF FiniteSubsetsOf
<1>3. PICK x \in T : \A y \in T : ~(<<y, x>> \in StrictSubsetOrdering(S))
  <2> HIDE DEF T
  <2> QED BY <1>2, FS_StrictSubsetOrderingWellFounded, WFMin
<1>4. PICK m \in S : x = From(m)
  BY <1>3
<1>5. ASSUME NEW y \in S, ~(m >= y) PROVE FALSE
  <2>1. From(y) \in SUBSET S /\ From(m) \in SUBSET S /\ From(y) \in T
    OBVIOUS
  <2>2. \A z \in From(y) : z \in From(m)
    BY <1>0, <1>5
  <2>3. m \in From(m) /\ m \notin From(y)
    BY <1>0, <1>5
  <2>4. <<From(y), From(m)>> \in StrictSubsetOrdering(S)
    <3> HIDE DEF From
    <3> QED BY <2>1, <2>2, <2>3 DEF StrictSubsetOrdering
  <2> HIDE DEF From, T
  <2> QED BY <1>3, <1>4, <2>1, <2>4
<1>6. \A y \in S : y <= m
  BY <1>0, <1>5
<1> HIDE DEF From, T
<1> QED BY <1>0, <1>6, MaxIs

\* The generated route is a list of points.
LEMMA SimplePathPoints ==
    ASSUME NEW p, NEW q, IsPoint(p), IsPoint(q)
    PROVE  GenerateSimplePath(p, q) \in Seq(Int \X Int)
<1>1. p[1] \in Int /\ p[2] \in Int /\ q[1] \in Int /\ q[2] \in Int
  BY DEF IsPoint
<1> DEFINE dx == Steps(p[1], q[1])
           dy == Steps(p[2], q[2])
<1>2. dx \in Nat /\ dy \in Nat
  <2>1. \A a, b \in Int : Steps(a, b) \in Nat
    BY DEF Steps, Cell
  <2> QED BY <1>1, <2>1
<1>3. \A a, b, k \in Int : Toward(a, b, k) \in Int
  BY DEF Toward, Cell
<1> DEFINE At1(k) == IF k <= dx THEN <<Toward(p[1], q[1], k), p[2]>>
                     ELSE <<q[1], Toward(p[2], q[2], k - dx)>>
<1> HIDE DEF dx, dy
<1>4. ASSUME NEW k \in 1 .. (dx + dy) PROVE At1(k) \in Int \X Int
  <2>1. k \in Int /\ k - dx \in Int
    BY <1>2
  <2>2. Toward(p[1], q[1], k) \in Int /\ Toward(p[2], q[2], k - dx) \in Int
    BY <1>1, <1>3, <2>1
  <2> QED BY <1>1, <2>2
<1>5. GenerateSimplePath(p, q) = [k \in 1 .. (dx + dy) |-> At1(k)]
  BY DEF GenerateSimplePath, dx, dy
<1> HIDE DEF At1
<1>6. dx + dy \in Nat
  BY <1>2
<1>7. [k \in 1 .. (dx + dy) |-> At1(k)] \in Seq(Int \X Int)
  BY <1>4, <1>6
<1> QED BY <1>5, <1>7

\* Every vehicle has a position, whose coordinates are JSON values.
LEMMA PositionValues ==
    ASSUME NEW c \in Case, NEW s, s = ReadSnapshot(c, c.raw)
    PROVE  /\ DOMAIN AgvPositions(c.grid, s) \subseteq Vehicle
           /\ \A a \in DOMAIN AgvPositions(c.grid, s) :
                 /\ IsValue(AgvPositions(c.grid, s)[a][1])
                 /\ IsValue(AgvPositions(c.grid, s)[a][2])
<1> DEFINE pos == AgvPositions(c.grid, s)
<1>1. DOMAIN pos \subseteq Vehicle
  BY WorldAssumption, GridAssumption DEF AgvPositions
<1>2. \A f \in DOMAIN s : IsValue(s[f])
  BY ReadingValues
<1>v. \A n \in Int : IsValue(Num(n))
  BY DEF IsValue, Num
<1>5. ASSUME NEW a \in DOMAIN pos PROVE IsValue(pos[a][1]) /\ IsValue(pos[a][2])
  <2> DEFINE reported == {b \in Vehicle : Has(s, XField[b]) \/ Has(s, YField[b])}
             single   == IF Has(s, "position_x") THEN {Agv01} ELSE {}
  <2>1. IsValue(Num(0)) /\ \A f : IsValue(Field(s, f, Num(0)))
    BY <1>2, <1>v DEF Field, Has
  <2>2. /\ DOMAIN pos = DOMAIN c.grid.agvs \cup reported \cup single
        /\ a \in single => pos[a] = <<s["position_x"], Field(s, "position_y", Num(0))>>
        /\ a \in reported \ single => pos[a] = <<Field(s, XField[a], Num(0)), Field(s, YField[a], Num(0))>>
        /\ a \notin reported /\ a \notin single =>
              pos[a] = <<Num(c.grid.agvs[a].pos[1]), Num(c.grid.agvs[a].pos[2])>>
    BY DEF AgvPositions
  <2>3. CASE a \in single
    <3>1. IsValue(s["position_x"])
      BY <1>2, <2>3 DEF Has
    <3> HIDE DEF pos
    <3> QED BY <2>1, <2>2, <2>3, <3>1
  <2>4. CASE a \in reported \ single
    <3> HIDE DEF pos, reported, single
    <3> QED BY <2>1, <2>2, <2>4
  <2>5. CASE a \notin reported /\ a \notin single
    <3> HIDE DEF pos, reported, single
    <3>1. a \in DOMAIN c.grid.agvs
      BY <2>2, <2>5
    <3>2. c.grid.agvs[a].pos[1] \in Int /\ c.grid.agvs[a].pos[2] \in Int
      BY <3>1, WorldAssumption DEF IsPoint
    <3> QED BY <1>v, <2>2, <2>5, <3>2
  <2> QED BY <2>3, <2>4, <2>5
<1> QED BY <1>1, <1>5

\* So have the ends of a route that is computed.
LEMMA RouteValues ==
    ASSUME NEW c \in Case, NEW pos, pos = AgvPositions(c.grid, ReadSnapshot(c, c.raw)),
           NEW k \in DOMAIN c.actions, Generates(c.actions[k]), NEW i \in {1, 2}
    PROVE  /\ IsValue(Start(pos, c.actions[k].agv)[i]) /\ IsValue(Target(c.actions[k])[i])
           /\ LegOf(pos, c.actions[k], i) \in Nat
<1> DEFINE act == c.actions[k]
<1>1. IsValue(Start(pos, act.agv)[i])
  <2>1. CASE act.agv \in DOMAIN pos
    <3>1. IsValue(pos[act.agv][1]) /\ IsValue(pos[act.agv][2])
      BY <2>1, PositionValues
    <3>2. Start(pos, act.agv) = pos[act.agv]
      BY <2>1 DEF Start
    <3>3. CASE i = 1
      BY <3>1, <3>2, <3>3
    <3>4. CASE i = 2
      BY <3>1, <3>2, <3>4
    <3> QED BY <3>3, <3>4
  <2>2. CASE act.agv \notin DOMAIN pos
    <3>1. IsValue(Num(0))
      BY DEF IsValue, Num
    <3>2. Start(pos, act.agv) = <<Num(0), Num(0)>>
      BY <2>2 DEF Start
    <3>3. CASE i = 1
      BY <3>1, <3>2, <3>3
    <3>4. CASE i = 2
      BY <3>1, <3>2, <3>4
    <3> QED BY <3>3, <3>4
  <2> QED BY <2>1, <2>2
<1>2. IsValue(Target(act)[i])
  <2>1. "target_x" \in DOMAIN act.params /\ "target_y" \in DOMAIN act.params
    BY DEF Generates, HasTarget, Has
  <2>2. IsValue(act.params["target_x"]) /\ IsValue(act.params["target_y"])
    BY <2>1, PlanAssumption
  <2>3. /\ Target(act)[1] = act.params["target_x"]
        /\ Target(act)[2] = act.params["target_y"]
    BY DEF Target
  <2>4. CASE i = 1
    BY <2>2, <2>3, <2>4
  <2>5. CASE i = 2
    BY <2>2, <2>3, <2>5
  <2> QED BY <2>4, <2>5
<1>3. LegOf(pos, act, i) \in Nat
  <2>1. \A x, y \in Int : Steps(x, y) \in Nat
    BY DEF Steps, Cell
  <2> DEFINE from == Start(pos, act.agv)[i]
             to   == Target(act)[i]
  <2>2. LegOf(pos, act, i) = IF from.num /\ to.num THEN Steps(from.v, to.v) ELSE 0
    BY DEF LegOf
  <2>3. IsValue(from) /\ IsValue(to)
    BY <1>1, <1>2
  <2> HIDE DEF from, to
  <2>4. from.num /\ to.num => from.v \in Int /\ to.v \in Int
    BY <2>3 DEF IsValue
  <2>5. (IF from.num /\ to.num THEN Steps(from.v, to.v) ELSE 0) \in Nat
    BY <2>1, <2>4
  <2> QED BY <2>2, <2>5, Zenon
<1> QED BY <1>1, <1>2, <1>3

\* Where nothing raised the simulation starts from points, on paths of points.
LEMMA StartsOnTrack ==
    ASSUME NEW c \in Case, NEW pos, pos = AgvPositions(c.grid, ReadSnapshot(c, c.raw)),
           \A a \in DOMAIN pos, i \in {1, 2} : pos[a][i].num,
           \A k \in DOMAIN c.actions :
              Generates(c.actions[k]) => \A i \in {1, 2} : Target(c.actions[k])[i].num
    PROVE  Track(Points(pos), AgvPaths(c.grid, pos, c.actions))
<1>1. DOMAIN pos \subseteq Vehicle
  BY PositionValues
<1>3. \A a \in DOMAIN pos, i \in {1, 2} : pos[a][i].num
  OBVIOUS
<1>5. \A a \in DOMAIN pos : IsValue(pos[a][1]) /\ IsValue(pos[a][2])
  BY PositionValues
<1>6. \A a \in DOMAIN pos : IsPoint(Point(pos[a]))
  <2> SUFFICES ASSUME NEW a \in DOMAIN pos PROVE IsPoint(Point(pos[a]))
    OBVIOUS
  <2>1. pos[a][1].v \in Int /\ pos[a][2].v \in Int
    BY <1>3, <1>5 DEF IsValue
  <2> QED BY <2>1 DEF Point, IsPoint
<1>7. /\ DOMAIN Points(pos) = DOMAIN pos
      /\ \A a \in DOMAIN pos : Points(pos)[a] = Point(pos[a])
  BY DEF Points
<1>8. ASSUME NEW a \in Vehicle PROVE AgvPaths(c.grid, pos, c.actions)[a] \in Seq(Int \X Int)
  <2> DEFINE routing == {k \in DOMAIN c.actions : /\ c.actions[k].type = MoveTo
                                                  /\ c.actions[k].agv = a
                                                  /\ c.actions[k].path # <<>> \/ HasTarget(c.actions[k])}
             i == RoutingAction(a, c.actions)
             route == AgvPaths(c.grid, pos, c.actions)[a]
  <2>1. i = IF routing = {} THEN 0 ELSE Max(routing)
    BY DEF RoutingAction
  <2>2. Len(c.actions) \in Nat /\ DOMAIN c.actions = 1 .. Len(c.actions)
    BY SegmentsNat
  <2>3. i # 0 => i \in routing
    <3>1. routing \in SUBSET (1 .. Len(c.actions))
      BY <2>2
    <3> HIDE DEF routing, i
    <3> QED BY <2>1, <2>2, <3>1, LastOf
  <2>4. i = 0 \/ i \in DOMAIN c.actions
    BY <2>3
  <2>5. /\ i # 0 /\ c.actions[i].path # <<>> => route = c.actions[i].path[1]
        /\ i # 0 /\ c.actions[i].path = <<>> =>
             route = GenerateSimplePath(Point(Start(pos, a)), Point(Target(c.actions[i])))
        /\ i = 0 /\ a \in DOMAIN c.grid.agvs => route = c.grid.agvs[a].path
        /\ i = 0 /\ a \notin DOMAIN c.grid.agvs => route = <<>>
    BY DEF AgvPaths
  <2>6. i \in routing => /\ c.actions[i].type = MoveTo /\ c.actions[i].agv = a
                         /\ c.actions[i].path # <<>> \/ HasTarget(c.actions[i])
    OBVIOUS
  <2> HIDE DEF i, route, routing
  <2>7. CASE i # 0 /\ c.actions[i].path # <<>>
    <3>1. IsSeq(c.actions[i].path) /\ \A k \in DOMAIN c.actions[i].path : c.actions[i].path[k] \in Seq(Int \X Int)
      BY <2>4, <2>7, WorldAssumption
    <3>2. 1 \in DOMAIN c.actions[i].path
      BY <2>7, <3>1 DEF IsSeq
    <3> QED BY <2>5, <2>7, <3>1, <3>2 DEF route
  <2>8. CASE i # 0 /\ c.actions[i].path = <<>>
    <3> DEFINE act == c.actions[i]
    <3>1. i \in DOMAIN c.actions /\ act.type = MoveTo /\ act.agv = a /\ HasTarget(act)
      BY <2>3, <2>4, <2>6, <2>8
    <3>2. Generates(act)
      BY <2>8, <3>1 DEF Generates
    <3>3. Target(act)[1].num /\ Target(act)[2].num
      BY <3>1, <3>2
    <3>4. IsValue(Target(act)[1]) /\ IsValue(Target(act)[2])
      BY <3>1, <3>2, RouteValues
    <3>5. IsPoint(Point(Target(act)))
      BY <3>3, <3>4 DEF Point, IsPoint, IsValue
    <3>6. IsPoint(Point(Start(pos, a)))
      <4>1. CASE a \in DOMAIN pos
        BY <1>6, <4>1 DEF Start
      <4>2. CASE a \notin DOMAIN pos
        BY <4>2 DEF Start, Point, Num, IsPoint
      <4> QED BY <4>1, <4>2
    <3> QED BY <2>5, <2>8, <3>5, <3>6, SimplePathPoints DEF route
  <2>9. CASE i = 0
    <3>1. a \in DOMAIN c.grid.agvs => c.grid.agvs[a].path \in Seq(Int \X Int)
      BY WorldAssumption
    <3>2. <<>> \in Seq(Int \X Int)
      OBVIOUS
    <3> QED BY <2>5, <2>9, <3>1, <3>2 DEF route
  <2> QED BY <2>7, <2>8, <2>9
<1>9. AgvPaths(c.grid, pos, c.actions) = [a \in Vehicle |-> AgvPaths(c.grid, pos, c.actions)[a]]
  BY DEF AgvPaths
<1>10. AgvPaths(c.grid, pos, c.actions) \in [Vehicle -> Seq(Int \X Int)]
  BY <1>8, <1>9
<1> QED BY <1>1, <1>6, <1>7, <1>10 DEF Track

\* The positions of the fleet are read.
LEMMA StartGridKeeps ==
    ASSUME Control, Reading, Simulated, StartGrid
    PROVE  Simulated'
<1>1. thread["sim"] = "running" /\ sim = NoSim /\ UNCHANGED <<case, thread, verdict>>
  BY DEF StartGrid, SimIdle, Simulated, request
<1>2. /\ case \in Case /\ Engine(case) = "discrete_event" /\ verdict["sim"] = "none"
      /\ sensor = ReadSnapshot(case, case.raw)
  BY <1>1, SimRunning DEF StartGrid
<1> DEFINE pos == AgvPositions(case.grid, sensor)
<1>3. /\ DOMAIN sim' = SimFields /\ sim'.stage = "route" /\ sim'.index = 1 /\ sim'.left = 0
      /\ sim'.positions = pos /\ sim'.first = FALSE /\ sim'.clear = TRUE
  BY <1>1 DEF StartGrid, NoSim, SimFields
<1>4. Len(case.actions) \in Nat /\ DOMAIN case.actions = 1 .. Len(case.actions)
  BY <1>2, SegmentsNat
<1>5. ASSUME 1 <= Len(case.actions), Generates(case.actions[1])
      PROVE  0 <= LegOf(pos, case.actions[1], 1) + LegOf(pos, case.actions[1], 2)
  <2>1. 1 \in DOMAIN case.actions
    BY <1>4, <1>5
  <2>2. LegOf(pos, case.actions[1], 1) \in Nat /\ LegOf(pos, case.actions[1], 2) \in Nat
    BY <1>2, <1>5, <2>1, RouteValues
  <2> QED BY <2>2
<1> HIDE DEF pos
<1>6. RouteSoFar'
  <2>1. sim'.positions = AgvPositions(case'.grid, ReadSnapshot(case', case'.raw))
    BY <1>1, <1>2, <1>3 DEF pos
  <2>2. Current' = case.actions[1]
    BY <1>1, <1>3 DEF Current
  <2> QED BY <1>1, <1>3, <1>4, <1>5, <2>1, <2>2 DEF RouteSoFar
<1> QED BY <1>1, <1>2, <1>3, <1>6 DEF Simulated

\* The legs of the route are those of its ends.
LEMMA Legs == \A i \in {1, 2} : Leg(i) = LegOf(sim.positions, Current, i)
BY DEF Leg, LegOf, Route

\* The next action is looked at.
LEMMA NextRouteKeeps ==
    ASSUME Control, Reading, Simulated, sim.stage = "route", sim.index <= Len(case.actions),
           thread["sim"] = "running", UNCHANGED <<case, thread, verdict>>,
           DOMAIN sim' = SimFields, sim'.stage = "route", sim'.index = sim.index + 1, sim'.left = 0,
           sim'.positions = sim.positions, sim'.violations = sim.violations,
           sim'.first = sim.first, sim'.clear = sim.clear,
           Generates(Current) => \A i \in {1, 2} : Target(Current)[i].num
    PROVE  Simulated'
<1>1. /\ case \in Case /\ Engine(case) = "discrete_event" /\ verdict["sim"] = "none"
      /\ RouteSoFar
  BY SimRunning DEF Simulated
<1>2. Len(case.actions) \in Nat /\ DOMAIN case.actions = 1 .. Len(case.actions)
  BY <1>1, SegmentsNat
<1> DEFINE n   == sim.index + 1
           act == case.actions[n]
<1>3. sim.index \in Nat /\ n \in 1 .. (Len(case.actions) + 1) /\ n - 1 = sim.index
  BY <1>1, <1>2 DEF RouteSoFar
<1>4. ASSUME n <= Len(case.actions), Generates(act)
      PROVE  0 <= LegOf(sim.positions, act, 1) + LegOf(sim.positions, act, 2)
  <2>1. n \in DOMAIN case.actions
    BY <1>2, <1>3, <1>4
  <2>2. LegOf(sim.positions, act, 1) \in Nat /\ LegOf(sim.positions, act, 2) \in Nat
    BY <1>1, <1>4, <2>1, RouteValues DEF RouteSoFar
  <2> QED BY <2>2
<1>5. ASSUME NEW k \in 1 .. (n - 1), Generates(case.actions[k])
      PROVE  \A i \in {1, 2} : Target(case.actions[k])[i].num
  <2>1. k = sim.index \/ k \in 1 .. (sim.index - 1)
    BY <1>3
  <2> QED BY <1>1, <1>5, <2>1 DEF RouteSoFar, Current
<1>6. Current' = act
  BY DEF Current
<1> HIDE DEF act
<1>7. RouteSoFar'
  <2>1. sim'.index = n /\ sim'.left = 0 /\ sim'.positions = sim.positions /\ case' = case
    OBVIOUS
  <2> HIDE DEF n
  <2> QED BY <1>1, <1>3, <1>4, <1>5, <1>6, <2>1 DEF RouteSoFar
<1>8. sim'.first \/ ~sim'.clear => sim'.violations # {}
  BY DEF Simulated
<1> QED BY <1>1, <1>7, <1>8 DEF Simulated

\* A turn of the loops that compute the routes.
LEMMA RouteKeeps ==
    ASSUME Control, Reading, Simulated,
           RouteGiven \/ RouteRaises \/ RouteCell \/ RouteEnds \/ RouteMissed \/ Astray
    PROVE  Simulated'
<1>1. thread["sim"] = "running" /\ UNCHANGED case
  BY DEF RouteGiven, RouteRaises, RouteCell, RouteEnds, RouteMissed, Astray, AlongY, AtCorner,
         Walking, Planning, SimStep, request
<1>2. /\ case \in Case /\ verdict["sim"] = "none" /\ DOMAIN sim = SimFields
      /\ sim.first \/ ~sim.clear => sim.violations # {}
  BY <1>1, SimRunning DEF Simulated
<1>3. ASSUME ~Astray
      PROVE  /\ sim.stage = "route" /\ sim.index <= Len(case.actions)
             /\ Engine(case) = "discrete_event" /\ RouteSoFar
  BY <1>3 DEF RouteGiven, RouteRaises, RouteCell, RouteEnds, RouteMissed, AlongY, AtCorner,
              Walking, Planning, Simulated
<1>4. CASE RouteGiven
  <2>1. /\ ~Generates(Current) /\ sim' = [sim EXCEPT !.index = @ + 1] /\ ~Astray
        /\ UNCHANGED <<thread, verdict>>
    BY <1>4 DEF RouteGiven, Planning, Astray
  <2>2. sim.left = 0 /\ sim.stage = "route"
    BY <1>3, <2>1 DEF RouteSoFar
  <2>3. /\ DOMAIN sim' = SimFields /\ sim'.stage = "route" /\ sim'.index = sim.index + 1
        /\ sim'.left = 0 /\ sim'.positions = sim.positions /\ sim'.violations = sim.violations
        /\ sim'.first = sim.first /\ sim'.clear = sim.clear
    BY <1>2, <2>1, <2>2 DEF SimFields
  <2> QED BY <1>1, <1>3, <2>1, <2>3, NextRouteKeeps
<1>5. CASE RouteEnds
  <2>1. /\ Readable /\ sim' = [sim EXCEPT !.index = @ + 1, !.left = 0] /\ sim.stage = "route"
        /\ ~Astray /\ UNCHANGED <<thread, verdict>>
    BY <1>5 DEF RouteEnds, AlongY, Walking, Planning, Astray
  <2>2. \A i \in {1, 2} : Target(Current)[i].num
    BY <2>1 DEF Readable, Route
  <2>3. /\ DOMAIN sim' = SimFields /\ sim'.stage = "route" /\ sim'.index = sim.index + 1
        /\ sim'.left = 0 /\ sim'.positions = sim.positions /\ sim'.violations = sim.violations
        /\ sim'.first = sim.first /\ sim'.clear = sim.clear
    BY <1>2, <2>1 DEF SimFields
  <2> QED BY <1>1, <1>3, <2>1, <2>2, <2>3, NextRouteKeeps
<1>6. CASE RouteCell
  <2>1. /\ sim' = [sim EXCEPT !.left = @ + 1] /\ sim.stage = "route" /\ ~Astray
        /\ Generates(Current) /\ UNCHANGED <<thread, verdict>>
        /\ sim.left < Leg(1) \/ sim.left < Leg(1) + Leg(2)
    BY <1>6 DEF RouteCell, AlongY, Walking, Planning, Astray
  <2>2. /\ DOMAIN sim' = SimFields /\ sim'.stage = "route" /\ sim'.index = sim.index
        /\ sim'.left = sim.left + 1 /\ sim'.positions = sim.positions
        /\ sim'.violations = sim.violations /\ sim'.first = sim.first /\ sim'.clear = sim.clear
    BY <1>2, <2>1 DEF SimFields
  <2>3. /\ Leg(1) = LegOf(sim.positions, Current, 1) /\ Leg(1) \in Nat
        /\ Leg(2) = LegOf(sim.positions, Current, 2) /\ Leg(2) \in Nat
    <3>1. sim.index \in DOMAIN case.actions
      BY <1>2, <1>3, <2>1, SegmentsNat DEF RouteSoFar
    <3> QED BY <1>2, <1>3, <2>1, <3>1, Legs, RouteValues DEF RouteSoFar, Current
  <2>4. sim.left \in Nat /\ sim.left + 1 <= Leg(1) + Leg(2)
    BY <1>3, <2>1, <2>3 DEF RouteSoFar
  <2>5. Current' = Current
    BY <1>1, <2>2 DEF Current
  <2>6. RouteSoFar'
    BY <1>1, <1>3, <2>1, <2>2, <2>3, <2>4, <2>5 DEF RouteSoFar
  <2> QED BY <1>1, <1>2, <1>3, <2>1, <2>2, <2>6 DEF Simulated
<1>7. CASE RouteMissed
  <2>1. /\ sim' = [sim EXCEPT !.stage = "astray", !.left = 0] /\ UNCHANGED <<thread, verdict>>
        /\ \E i \in {1, 2} : FALSE \in Met(i)
    BY <1>7 DEF RouteMissed
  <2>2. /\ DOMAIN sim' = SimFields /\ sim'.stage = "astray" /\ sim'.index = sim.index
        /\ sim'.left = 0 /\ sim'.positions = sim.positions
        /\ sim'.violations = sim.violations /\ sim'.first = sim.first /\ sim'.clear = sim.clear
    BY <1>2, <2>1 DEF SimFields
  <2>3. Fractional
    BY <2>1 DEF Fractional, Met, Meets
  <2>4. Fractional'
    BY <1>1, <2>2, <2>3 DEF Fractional, Route, Current
  <2> QED BY <1>1, <1>2, <2>1, <2>2, <2>4 DEF Simulated
<1>8. CASE Astray
  <2>1. /\ sim.stage = "astray" /\ sim' = [sim EXCEPT !.left = 1 - @]
        /\ UNCHANGED <<thread, verdict>> /\ sim.left \in {0, 1} /\ Fractional
    BY <1>8 DEF Astray, Simulated
  <2>2. /\ DOMAIN sim' = SimFields /\ sim'.stage = "astray" /\ sim'.index = sim.index
        /\ sim'.left \in {0, 1} /\ sim'.positions = sim.positions
        /\ sim'.violations = sim.violations /\ sim'.first = sim.first /\ sim'.clear = sim.clear
    BY <1>2, <2>1 DEF SimFields
  <2>3. Fractional'
    BY <1>1, <2>1, <2>2 DEF Fractional, Route, Current
  <2> QED BY <1>1, <1>2, <2>1, <2>2, <2>3 DEF Simulated
<1>9. CASE RouteRaises
  <2>1. /\ UNCHANGED <<sim, verdict>> /\ ~Astray /\ thread' = [thread EXCEPT !["sim"] = "raised"]
    BY <1>3, <1>9 DEF RouteRaises, Raise, Astray, AtCorner, Walking, Planning
  <2>2. thread'["sim"] = "raised"
    BY <2>1 DEF Control, Validator
  <2>3. RouteSoFar'
    BY <1>1, <1>3, <2>1 DEF RouteSoFar, Current
  <2> QED BY <1>1, <1>2, <1>3, <2>1, <2>2, <2>3 DEF Simulated
<1> QED BY <1>4, <1>5, <1>6, <1>7, <1>8, <1>9

\* The routes are there: it raises or starts at tick 0.
LEMMA StartTicksKeeps ==
    ASSUME Control, Reading, Simulated, StartTicks
    PROVE  Simulated'
<1>1. thread["sim"] = "running" /\ sim.stage = "route" /\ UNCHANGED case
  BY DEF StartTicks, SimStep, request
<1>2. /\ case \in Case /\ Engine(case) = "discrete_event" /\ verdict["sim"] = "none"
      /\ DOMAIN sim = SimFields /\ RouteSoFar
      /\ sim.first \/ ~sim.clear => sim.violations # {}
  BY <1>1, SimRunning DEF Simulated
<1>3. CASE Raise("sim") /\ UNCHANGED sim
  <2>1. thread'["sim"] = "raised" /\ UNCHANGED verdict
    BY <1>3 DEF Raise, Control, Validator
  <2>2. RouteSoFar'
    BY <1>1, <1>2, <1>3 DEF RouteSoFar, Current
  <2> QED BY <1>1, <1>2, <1>3, <2>1, <2>2 DEF Simulated
<1> DEFINE p == Points(sim.positions)
           q == AgvPaths(case.grid, sim.positions, case.actions)
<1>4. CASE /\ \A a \in DOMAIN sim.positions, i \in {1, 2} : sim.positions[a][i].num
           /\ sim' = Turn([sim EXCEPT !.stage = "grid", !.positions = p, !.paths = q], 0)
           /\ UNCHANGED <<thread, verdict>>
  <2>1. Track(p, q)
    <3>1. sim.index > Len(case.actions)
      BY DEF StartTicks
    <3>2. Len(case.actions) \in Nat /\ DOMAIN case.actions = 1 .. Len(case.actions)
      BY <1>2, SegmentsNat
    <3>3. DOMAIN case.actions = 1 .. (sim.index - 1)
      BY <1>2, <3>1, <3>2 DEF RouteSoFar
    <3>4. \A k \in DOMAIN case.actions :
             Generates(case.actions[k]) => \A i \in {1, 2} : Target(case.actions[k])[i].num
      BY <1>2, <3>3 DEF RouteSoFar
    <3>5. sim.positions = AgvPositions(case.grid, ReadSnapshot(case, case.raw))
      BY <1>2 DEF RouteSoFar
    <3> QED BY <1>2, <1>4, <3>4, <3>5, StartsOnTrack
  <2> HIDE DEF p, q
  <2>2. /\ DOMAIN sim' = SimFields /\ sim'.stage = "grid" /\ sim'.index = 0
        /\ sim'.positions = p /\ sim'.paths = q
        /\ sim'.at = PositionsForStep(0, p, q)
        /\ sim'.next = PositionsForStep(Min({0 + 1, MaxSteps(q)}), p, q)
        /\ sim'.violations = sim.violations /\ sim'.first = sim.first /\ sim'.clear = sim.clear
    BY <1>2, <1>4 DEF Turn, SimFields
  <2>3. Ticks' = MaxSteps(q) /\ \A k : At(k)' = PositionsForStep(k, p, q)
    BY <2>2 DEF Ticks, At
  <2>4. GridSoFar'
    <3>1. MaxSteps(q) \in Nat
      BY <2>1, TicksNat DEF Track
    <3> QED BY <2>1, <2>2, <2>3, <3>1 DEF GridSoFar
  <2> QED BY <1>1, <1>2, <1>4, <2>2, <2>4 DEF Simulated
<1> QED BY <1>3, <1>4 DEF StartTicks

\* One tick of the fleet.
LEMMA GridTickKeeps ==
    ASSUME Control, Reading, Simulated, GridTick
    PROVE  Simulated'
<1>1. thread["sim"] = "running" /\ sim.stage = "grid" /\ UNCHANGED case
  BY DEF GridTick, SimStep, request
<1>2. /\ case \in Case /\ Engine(case) = "discrete_event" /\ verdict["sim"] = "none"
      /\ DOMAIN sim = SimFields /\ GridSoFar
  BY <1>1, SimRunning DEF Simulated
<1> DEFINE all == sim.violations
                    \cup DetectStepViolations(case.grid, sim.at, sim.next, case.ruleset)
<1>3. all = sim.violations \cup Found(sim.index)
  BY <1>2 DEF GridSoFar, Found
<1>4. /\ sim.index \in Nat /\ Ticks \in Nat
      /\ \A k \in 0 .. sim.index : Found(k) \subseteq all
  <2>1. sim.index \in Nat /\ Ticks \in Nat
    BY <1>2, TicksNat DEF GridSoFar, Track, Ticks
  <2> HIDE DEF all
  <2>2. ASSUME NEW k \in 0 .. sim.index PROVE Found(k) \subseteq all
    <3>1. CASE k = sim.index
      BY <1>3, <3>1
    <3>2. CASE k # sim.index
      <4>1. k \in 0 .. (sim.index - 1)
        BY <2>1, <3>2
      <4> QED BY <1>2, <1>3, <4>1 DEF GridSoFar
    <3> QED BY <3>1, <3>2
  <2> QED BY <2>1, <2>2
<1>5. /\ sim.first \/ ~sim.clear => all # {}
      /\ all = {} => sim.violations = {}
  BY DEF Simulated
<1>6. CASE sim.index < Ticks
  <2>1. sim' = Turn([sim EXCEPT !.violations = all], sim.index + 1) /\ UNCHANGED <<thread, verdict>>
    BY <1>6 DEF GridTick
  <2> HIDE DEF all
  <2> DEFINE n == sim.index + 1
  <2>2. /\ DOMAIN sim' = SimFields /\ sim'.stage = "grid" /\ sim'.index = n
        /\ sim'.positions = sim.positions /\ sim'.paths = sim.paths
        /\ sim'.at = PositionsForStep(n, sim.positions, sim.paths)
        /\ sim'.next = PositionsForStep(Min({n + 1, MaxSteps(sim.paths)}), sim.positions, sim.paths)
        /\ sim'.violations = all /\ sim'.first = sim.first /\ sim'.clear = sim.clear
    BY <1>1, <1>2, <2>1 DEF Turn, SimFields
  <2>3. /\ Ticks' = Ticks
        /\ \A k : At(k)' = At(k)
        /\ \A k : Found(k)' = Found(k)
    BY <1>1, <2>2, SameTicks
  <2>4. sim'.at = At(n) /\ sim'.next = At(Min({n + 1, Ticks}))
    BY <2>2 DEF At, Ticks
  <2>5. n \in 0 .. Ticks /\ n - 1 = sim.index
    BY <1>4, <1>6
  <2> HIDE DEF n
  <2>6. \A k \in 0 .. (n - 1) : Found(k)' \subseteq sim'.violations
    BY <1>4, <2>2, <2>3, <2>5
  <2>7. GridSoFar'
    BY <1>2, <2>2, <2>3, <2>4, <2>5, <2>6 DEF GridSoFar
  <2> QED BY <1>1, <1>2, <1>5, <2>1, <2>2, <2>7 DEF Simulated
<1>7. CASE ~(sim.index < Ticks)
  <2>1. /\ Return("sim", IF all = {} THEN "SAFE" ELSE "UNSAFE")
        /\ sim' = [sim EXCEPT !.stage = "ended", !.violations = all]
    BY <1>7 DEF GridTick
  <2> HIDE DEF all
  <2>2. /\ thread'["sim"] = "returned"
        /\ verdict'["sim"] = IF all = {} THEN "SAFE" ELSE "UNSAFE"
    BY <2>1 DEF Return, Control, Validator
  <2>3. /\ DOMAIN sim' = SimFields /\ sim'.stage = "ended"
        /\ sim'.positions = sim.positions /\ sim'.paths = sim.paths
        /\ sim'.violations = all /\ sim'.first = sim.first /\ sim'.clear = sim.clear
    BY <1>2, <2>1 DEF SimFields
  <2>4. /\ Ticks' = Ticks
        /\ \A k : Found(k)' = Found(k)
    BY <1>1, <2>3, SameTicks
  <2>5. all = {} => \A k \in 0 .. Ticks : Found(k) = {}
    BY <1>4, <1>7
  <2>6. all = {} => Complete'
    BY <1>1, <1>2, <2>3, <2>4, <2>5 DEF Complete, GridSoFar
  <2> QED BY <1>5, <2>2, <2>3, <2>6 DEF Simulated
<1> QED BY <1>6, <1>7

-----------------------------------------------------------------------------
\* The inductive step of Simulated.
LEMMA SimulatedStep == Control /\ Reading /\ Simulated /\ [Next]_vars => Simulated'
<1> SUFFICES ASSUME Control, Reading, Simulated, [Next]_vars PROVE Simulated'
  OBVIOUS
<1>c. Control'
  BY ControlStep
<1>1. ASSUME pc \in Early, UNCHANGED <<verdict, sim>> PROVE Simulated'
  <2>1. thread["sim"] = "none" /\ verdict["sim"] = "none"
    BY <1>1, NothingBacked DEF Control, Validator
  <2>2. sim = NoSim
    BY <2>1 DEF Simulated
  <2>3. sim' = NoSim /\ verdict'["sim"] # "SAFE"
    BY <1>1, <2>1, <2>2
  <2> QED BY <2>3 DEF NoSim, Simulated, SimFields
<1>2. ASSUME NEW c \in Case, Submit(c) PROVE Simulated'
  BY <1>1, <1>2 DEF Submit, Early
<1>3. CASE ReadSensor \/ SensorFails \/ IntegrityCheck \/ FetchFails \/ Prepare
  <2>1. pc \in Early /\ UNCHANGED <<verdict, sim>>
    BY <1>3 DEF ReadSensor, SensorFails, IntegrityCheck, FetchFails, Prepare, Early
  <2> QED BY <1>1, <2>1
<1>4. CASE Join \/ Decide
  BY <1>4, SimulatedFrame DEF Join, Decide, request
<1>5. CASE RunRules
  <2>1. /\ UNCHANGED <<case, sim>> /\ thread'["sim"] = thread["sim"]
        /\ verdict'["sim"] = verdict["sim"]
    BY <1>5 DEF RunRules, Return, Control, Validator, request
  <2> QED BY <2>1, SimulatedFrame
<1>6. CASE RunCbf
  <2>1. /\ UNCHANGED <<case, sim>> /\ thread'["sim"] = thread["sim"]
        /\ verdict'["sim"] = verdict["sim"]
    BY <1>6 DEF RunCbf, Return, Raise, Control, Validator, request
  <2> QED BY <2>1, SimulatedFrame
<1>7. CASE StartFails \/ StartNone
  <2>1. thread["sim"] = "running" /\ sim.stage = "none" /\ UNCHANGED sim
    BY <1>7 DEF StartFails, StartNone, SimIdle
  <2>2. sim' = NoSim
    BY <2>1 DEF Simulated
  <2>3. verdict'["sim"] # "SAFE"
    BY <1>7, <2>1, SimRunning DEF StartFails, StartNone, Raise, Return, Control, Validator
  <2> QED BY <2>2, <2>3 DEF NoSim, Simulated, SimFields
<1>8. CASE Finish
  <2>1. sim' = NoSim /\ verdict' = [v \in Validator |-> "none"]
    BY <1>8 DEF Finish
  <2>2. verdict'["sim"] # "SAFE"
    BY <2>1 DEF Validator
  <2> QED BY <2>1, <2>2 DEF NoSim, Simulated, SimFields
<1>9. CASE UNCHANGED vars
  <2>1. UNCHANGED <<case, sim, thread, verdict>>
    BY <1>9 DEF vars, request
  <2> QED BY <2>1, SimulatedFrame
<1> QED BY <1>2, <1>3, <1>4, <1>5, <1>6, <1>7, <1>8, <1>9, StartGridKeeps, RouteKeeps,
           StartTicksKeeps, GridTickKeeps,
           StartOdeKeeps, SegmentSolvedKeeps, SampleKeeps, SegmentEndsKeeps, StartRobotKeeps,
           RobotMoveKeeps, RobotEndsKeeps, OpenKeeps
        DEF Next, MainStep, SimulationStep, Fault

\* How much of the plan a simulation has seen, step by step of every back end.
THEOREM SimulatedHolds == Spec => []Simulated
<1>1. Init => Simulated
  <2>1. Init => sim = NoSim /\ verdict["sim"] # "SAFE"
    BY DEF Init, Validator
  <2> QED BY <2>1, NotBegun
<1> QED BY <1>1, SimulatedStep, ControlHolds, ReadingHolds, PTL DEF Spec

\* A SAFE simulation saw the whole plan and found nothing, for every plan, rule
\* set and fault: no segment was skipped or cut short, every move of the arm was
\* simulated, and no check failed unrecorded.
\* (ode_solver.py, isaac_worker.py, discrete_event.py)
THEOREM SafeSimulationIsCompleteHolds == Spec => []SafeSimulationIsComplete
<1>1. Simulated => SafeSimulationIsComplete
  BY DEF Simulated, Complete, SafeSimulationIsComplete, Simulates
<1> QED BY <1>1, SimulatedHolds, PTL

\* Under the unanimous modes a SAFE answer means what the policy says: every
\* field a rule is about is a number within the rule in the snapshot and after
\* every action, no forbidden combination is there, and the simulation found
\* nothing.  (consensus_engine.py, cbf_validator.py, rules_validator.py)
THEOREM ConservativeApprovalHolds == Spec => []ConservativeApproval
<1>1. Control /\ Reading /\ Backed /\ Simulated => ConservativeApproval
  <2> SUFFICES ASSUME Control, Reading, Backed, Simulated, answer = "SAFE",
                      \/ case.consensus.mode \in {"AND", "WORST_CASE"}
                      \/ /\ case.consensus.mode \notin {"AND", "WORST_CASE", "WEIGHTED"}
                         /\ case.sil # 2
               PROVE  ConservativeApproval
    BY DEF ConservativeApproval
  <2>1. case \in Case /\ sensor = ReadSnapshot(case, case.raw)
    BY DEF Control, Reading, Admitted
  <2>2. "mode" \in DOMAIN case.consensus /\ case.sil \in Int
    BY <2>1, PlanAssumption, RequestAssumption
  <2>3. \A v \in DOMAIN verdict : verdict[v] = "SAFE"
    BY <2>2, Unanimous DEF Backed, Agreed
  <2>4. verdict["rules"] = "SAFE" /\ verdict["cbf"] = "SAFE" /\ verdict["sim"] = "SAFE"
    BY <2>3 DEF Control, Validator
  <2>5. RulesVerdict = "SAFE" /\ CbfVerdict = "SAFE"
    BY <2>4 DEF Backed
  <2>6. sim.violations = {}
    BY <2>4 DEF Simulated, Complete
  <2> QED BY <2>1, <2>5, <2>6, RulesMean DEF ConservativeApproval
<1> QED BY <1>1, ControlHolds, ReadingHolds, BackedHolds, SimulatedHolds, PTL

-----------------------------------------------------------------------------
(* What nothing found at any tick means. *)

\* A vehicle is at a point at every tick.
LEMMA PointsAtStep ==
    ASSUME NEW pos, NEW paths, Track(pos, paths), NEW step \in Nat, NEW a \in DOMAIN pos
    PROVE  LET p == PositionsForStep(step, pos, paths)[a]
           IN p = <<p[1], p[2]>> /\ p[1] \in Int /\ p[2] \in Int
<1> DEFINE p == PositionsForStep(step, pos, paths)[a]
<1>1. p = IF step = 0 \/ paths[a] = <<>> THEN pos[a] ELSE paths[a][Min({step, Len(paths[a])})]
  BY DEF PositionsForStep
<1>2. pos[a] \in Int \X Int /\ paths[a] \in Seq(Int \X Int)
  BY DEF Track, IsPoint
<1>3. CASE step = 0 \/ paths[a] = <<>>
  BY <1>1, <1>2, <1>3
<1>4. CASE ~(step = 0 \/ paths[a] = <<>>)
  <2> DEFINE n == Len(paths[a])
             m == Min({step, n})
  <2>1. n \in Nat /\ n >= 1 /\ step >= 1 /\ n \in Int /\ step \in Int
    BY <1>2, <1>4
  <2>2. m = IF step <= n THEN step ELSE n
    <3> HIDE DEF n
    <3> QED BY <2>1, MinMaxOfTwo, Zenon
  <2>3. m \in 1 .. n
    BY <2>1, <2>2
  <2> HIDE DEF m
  <2>4. paths[a][m] \in Int \X Int
    BY <1>2, <2>3
  <2>5. p = paths[a][m]
    BY <1>1, <1>4 DEF m
  <2>6. paths[a][m] = <<paths[a][m][1], paths[a][m][2]>>
        /\ paths[a][m][1] \in Int /\ paths[a][m][2] \in Int
    BY <2>4
  <2> QED BY <2>5, <2>6, Zenon
<1> QED BY <1>3, <1>4

\* No violation of any kind in a tick.
LEMMA NothingFound ==
    ASSUME NEW g, NEW at, NEW next, NEW rules, DetectStepViolations(g, at, next, rules) = {}
    PROVE  /\ \A a, b \in DOMAIN at : a # b => ~TooClose(at, a, b, g.minDistance)
           /\ \A a, b \in DOMAIN at : ~Swap(at, next, a, b)
           /\ \A a \in DOMAIN at : at[a] \notin g.obstacles /\ ~OffGrid(g, at[a])
<1> DEFINE K1 == IF \E a, b \in DOMAIN at : a # b /\ TooClose(at, a, b, g.minDistance)
                 THEN {"min_distance"} ELSE {}
           K2 == IF \E a, b \in DOMAIN at : Swap(at, next, a, b) THEN {"edge_swap_conflict"} ELSE {}
           K3 == IF DeadlockCycles(at, next, g.order) # {} THEN {"deadlock_cycle"} ELSE {}
           K4 == IF \E a \in DOMAIN at : at[a] \in g.obstacles THEN {"obstacle_collision"} ELSE {}
           K5 == IF \E a \in DOMAIN at : OffGrid(g, at[a]) THEN {"grid_boundary"} ELSE {}
           K6 == IF \E a \in DOMAIN at, i \in DOMAIN rules : OutOfRange(rules[i], at[a])
                 THEN {"rule"} ELSE {}
<1>1. UNION {K1, K2, K3, K4, K5, K6} = {}
  BY Zenon DEF DetectStepViolations
<1>2. K1 = {} /\ K2 = {} /\ K4 = {} /\ K5 = {}
  <2> HIDE DEF K1, K2, K3, K4, K5, K6
  <2> QED BY <1>1
<1>3. ~(\E a, b \in DOMAIN at : a # b /\ TooClose(at, a, b, g.minDistance))
  BY <1>2
<1>4. ~(\E a, b \in DOMAIN at : Swap(at, next, a, b))
  BY <1>2
<1>5. ~(\E a \in DOMAIN at : at[a] \in g.obstacles) /\ ~(\E a \in DOMAIN at : OffGrid(g, at[a]))
  BY <1>2
<1> HIDE DEF K1, K2, K3, K4, K5, K6
<1> QED BY <1>3, <1>4, <1>5

\* Two points at least a cell apart by the distance of the code.
LEMMA Apart ==
    ASSUME NEW x \in Int, NEW y \in Int, NEW d \in Int, d >= 2, ~(x * x + y * y < d * d)
    PROVE  /\ x # 0 \/ y # 0
           /\ ~(x \in -1 .. 1 /\ y \in -1 .. 1)
<1>1. d * d >= 4
  <2>1. d * d >= 2 * d
    OBVIOUS
  <2> QED BY <2>1
<1>2. x * x + y * y >= 4
  <2>1. d * d \in Int /\ x * x \in Int /\ y * y \in Int
    OBVIOUS
  <2> QED BY <1>1, <2>1
<1>3. ASSUME x \in -1 .. 1, y \in -1 .. 1 PROVE FALSE
  <2>1. x * x <= 1
    <3>1. x = -1 \/ x = 0 \/ x = 1
      BY <1>3
    <3> QED BY <3>1
  <2>2. y * y <= 1
    <3>1. y = -1 \/ y = 0 \/ y = 1
      BY <1>3
    <3> QED BY <3>1
  <2> QED BY <1>2, <2>1, <2>2
<1> QED BY <1>3

\* Two vehicles d apart, one of which moves by m, cross half-way: the other
\* moves by 2d + m.  If neither moves more than a cell and they were a cell
\* apart, each moves to where the other was.
LEMMA CrossingIsSwap ==
    ASSUME NEW dx \in Int, NEW dy \in Int, NEW mx \in Int, NEW my \in Int,
           Abs(mx) + Abs(my) <= 2, Abs(2 * dx + mx) + Abs(2 * dy + my) <= 2,
           ~(dx \in -1 .. 1 /\ dy \in -1 .. 1)
    PROVE  mx = -dx /\ my = -dy
<1>1. /\ mx \in -2 .. 2 /\ my \in -2 .. 2
      /\ 2 * dx + mx \in -2 .. 2 /\ 2 * dy + my \in -2 .. 2
  BY DEF Abs
<1>2. dx \in -2 .. 2 /\ dy \in -2 .. 2
  BY <1>1
<1>3. CASE dx = 2
  BY <1>1, <1>2, <1>3 DEF Abs
<1>4. CASE dx = -2
  BY <1>1, <1>2, <1>4 DEF Abs
<1>5. CASE dy = 2
  BY <1>1, <1>2, <1>5 DEF Abs
<1>6. CASE dy = -2
  BY <1>1, <1>2, <1>6 DEF Abs
<1> QED BY <1>2, <1>3, <1>4, <1>5, <1>6

\* A SAFE grid simulation means no contact, for every fleet, grid and set of
\* paths: the check at the ticks and the check for exchanged cells leave no gap
\* half-way between two ticks.  (discrete_event.py, _detect_step_violations)
THEOREM SafeMeansNoContactHolds == Spec => []SafeMeansNoContact
<1>1. Control /\ Reading /\ Simulated => SafeMeansNoContact
  <2> SUFFICES ASSUME Control, Reading, Simulated,
                      verdict["sim"] = "SAFE", Engine(case) = "discrete_event",
                      case.grid.minDistance >= Cell,
                      \A step \in 0 .. Ticks : \A a \in DOMAIN sim.positions :
                         Length(Moves(step)[a]) \in {0, Cell},
                      NEW step \in 0 .. Ticks, NEW a \in DOMAIN Moves(step)
               PROVE  /\ \A b \in DOMAIN Moves(step) \ {a} :
                            /\ Moves(step)[a][1] # Moves(step)[b][1]
                            /\ Midpoint(Moves(step)[a]) # Midpoint(Moves(step)[b])
                      /\ Moves(step)[a][1] \notin case.grid.obstacles
                      /\ ~OffGrid(case.grid, Moves(step)[a][1])
    BY Zenon DEF SafeMeansNoContact
  <2>1. Track(sim.positions, sim.paths) /\ \A k \in 0 .. Ticks : Found(k) = {}
    BY DEF Simulated, Complete
  <2>2. case \in Case
    <3>1. "sim" \in Validator
      BY DEF Validator
    <3>2. thread["sim"] = "returned"
      BY <3>1 DEF Control
    <3>3. pc # "idle"
      BY <3>1, <3>2 DEF Control, Early
    <3> QED BY <3>3 DEF Reading
  <2>3. Ticks \in Nat
    BY <2>1, TicksNat DEF Track, Ticks
  <2> DEFINE then == Min({step + 1, Ticks})
             p == At(step)
             q == At(then)
  <2>4. then \in 0 .. Ticks /\ then \in Nat
    <3>1. step + 1 \in Int /\ Ticks \in Int
      BY <2>3
    <3>2. then = IF step + 1 <= Ticks THEN step + 1 ELSE Ticks
      BY <3>1, MinMaxOfTwo, Zenon
    <3> QED BY <2>3, <3>2
  <2>5. /\ DOMAIN Moves(step) = DOMAIN sim.positions
        /\ DOMAIN p = DOMAIN sim.positions
        /\ \A b \in DOMAIN sim.positions : Moves(step)[b] = <<p[b], q[b]>>
    BY DEF Moves, At, PositionsForStep
  <2>6. DetectStepViolations(case.grid, p, q, case.ruleset) = {}
    BY <2>1 DEF Found
  <2> HIDE DEF then
  <2>7. \A b \in DOMAIN sim.positions :
           /\ p[b] = <<p[b][1], p[b][2]>> /\ p[b][1] \in Int /\ p[b][2] \in Int
           /\ q[b] = <<q[b][1], q[b][2]>> /\ q[b][1] \in Int /\ q[b][2] \in Int
    BY <2>1, <2>3, <2>4, PointsAtStep DEF At
  <2> HIDE DEF p, q
  <2>8. /\ \A x, y \in DOMAIN p : x # y => ~TooClose(p, x, y, case.grid.minDistance)
        /\ \A x, y \in DOMAIN p : ~Swap(p, q, x, y)
        /\ \A x \in DOMAIN p : p[x] \notin case.grid.obstacles /\ ~OffGrid(case.grid, p[x])
    BY <2>6, NothingFound
  <2>9. a \in DOMAIN p /\ Moves(step)[a] = <<p[a], q[a]>>
    BY <2>5
  <2>10. ASSUME NEW b \in DOMAIN Moves(step) \ {a}
         PROVE  /\ Moves(step)[a][1] # Moves(step)[b][1]
                /\ Midpoint(Moves(step)[a]) # Midpoint(Moves(step)[b])
    <3>1. b \in DOMAIN p /\ b \in DOMAIN sim.positions /\ Moves(step)[b] = <<p[b], q[b]>> /\ a # b
      BY <2>5, <2>10
    <3> DEFINE d == case.grid.minDistance
               x == p[a][1] - p[b][1]
               y == p[a][2] - p[b][2]
    <3>2. x \in Int /\ y \in Int /\ d \in Int /\ d >= 2 /\ ~(x * x + y * y < d * d)
      <4>1. ~TooClose(p, a, b, d)
        BY <2>8, <2>9, <3>1
      <4>2. ~(x * x + y * y < d * d)
        BY <4>1 DEF TooClose
      <4>3. d \in Int /\ d >= 2
        BY <2>2, WorldAssumption DEF Cell
      <4> QED BY <2>5, <2>7, <2>9, <3>1, <4>2, <4>3
    <3>3. (x # 0 \/ y # 0) /\ ~(x \in -1 .. 1 /\ y \in -1 .. 1)
      <4> HIDE DEF x, y, d
      <4> QED BY <3>2, Apart
    <3>4. p[a] # p[b]
      BY <2>7, <2>9, <3>1, <3>3, <2>5
    <3>5. ASSUME Midpoint(<<p[a], q[a]>>) = Midpoint(<<p[b], q[b]>>) PROVE FALSE
      <4>1. /\ p[a][1] + q[a][1] = p[b][1] + q[b][1]
            /\ p[a][2] + q[a][2] = p[b][2] + q[b][2]
        BY <3>5 DEF Midpoint
      <4>2. /\ Abs(p[a][1] - q[a][1]) + Abs(p[a][2] - q[a][2]) \in {0, 2}
            /\ Abs(p[b][1] - q[b][1]) + Abs(p[b][2] - q[b][2]) \in {0, 2}
        <5>1. Length(<<p[a], q[a]>>) \in {0, 2} /\ Length(<<p[b], q[b]>>) \in {0, 2}
          BY <2>5, <2>9, <3>1 DEF Cell
        <5> QED BY <5>1 DEF Length
      <4>3. /\ p[a][1] \in Int /\ p[a][2] \in Int /\ q[a][1] \in Int /\ q[a][2] \in Int
            /\ p[b][1] \in Int /\ p[b][2] \in Int /\ q[b][1] \in Int /\ q[b][2] \in Int
        BY <2>5, <2>7, <2>9, <3>1
      <4>4. /\ q[a][1] = p[b][1] /\ q[a][2] = p[b][2]
            /\ q[b][1] = p[a][1] /\ q[b][2] = p[a][2]
        <5> DEFINE ax == p[a][1]
                   ay == p[a][2]
                   px == q[a][1]
                   py == q[a][2]
                   bx == p[b][1]
                   by == p[b][2]
                   qx == q[b][1]
                   qy == q[b][2]
        <5>1. /\ ax \in Int /\ ay \in Int /\ px \in Int /\ py \in Int
              /\ bx \in Int /\ by \in Int /\ qx \in Int /\ qy \in Int
              /\ Abs(ax - px) + Abs(ay - py) \in {0, 2}
              /\ Abs(bx - qx) + Abs(by - qy) \in {0, 2}
              /\ ax + px = bx + qx /\ ay + py = by + qy
              /\ ~(ax - bx \in -1 .. 1 /\ ay - by \in -1 .. 1)
          BY <3>3, <4>1, <4>2, <4>3
        <5> HIDE DEF ax, ay, px, py, bx, by, qx, qy
        <5> DEFINE dx == ax - bx
                   dy == ay - by
                   mx == px - ax
                   my == py - ay
        <5>2. /\ qx - bx = 2 * dx + mx /\ qy - by = 2 * dy + my
              /\ dx \in Int /\ dy \in Int /\ mx \in Int /\ my \in Int
          BY <5>1
        <5>3. Abs(mx) + Abs(my) <= 2 /\ Abs(2 * dx + mx) + Abs(2 * dy + my) <= 2
          BY <5>1, <5>2 DEF Abs
        <5>4. ~(dx \in -1 .. 1 /\ dy \in -1 .. 1)
          BY <5>1
        <5>5. mx = -dx /\ my = -dy
          <6> HIDE DEF dx, dy, mx, my
          <6> QED BY <5>2, <5>3, <5>4, CrossingIsSwap
        <5>6. px = bx /\ py = by /\ qx = ax /\ qy = ay
          BY <5>1, <5>2, <5>5
        <5> QED BY <5>6 DEF ax, ay, px, py, bx, by, qx, qy
      <4>5. q[a] = p[b] /\ q[b] = p[a]
        BY <2>5, <2>7, <2>9, <3>1, <4>4
      <4> QED BY <2>8, <2>9, <3>1, <3>4, <4>5 DEF Swap
    <3> QED BY <2>9, <3>1, <3>4, <3>5
  <2> QED BY <2>8, <2>9, <2>10
<1> QED BY <1>1, ControlHolds, ReadingHolds, SimulatedHolds, PTL

-----------------------------------------------------------------------------
(* Every step leaves less work. *)

\* What each back end has left is counted by natural numbers.
LEMMA LoopsNat ==
    ASSUME Reading, Simulated, pc # "idle"
    PROVE  LoopsLeft[1] \in Nat /\ LoopsLeft[2] \in Nat /\ LoopsLeft[3] \in Nat
<1>0. case \in Case
  BY DEF Reading
<1>1. CASE sim.stage = "none"
  BY <1>1 DEF LoopsLeft
<1>2. CASE sim.stage = "robot"
  <2>1. IsSeq(case.actions)
    BY <1>0, PlanAssumption
  <2>2. Len(case.actions) \in Nat
    BY <2>1 DEF IsSeq
  <2>3. Len(case.actions) + 1 - sim.index \in Nat
    BY <1>2, <2>2 DEF Simulated, RobotSoFar
  <2> QED BY <1>2, <2>3 DEF LoopsLeft
<1>3. CASE sim.stage = "grid"
  <2>1. Ticks \in Nat /\ sim.index \in 0 .. Ticks
    BY <1>3, TicksNat DEF Simulated, GridSoFar, Track, Ticks
  <2>2. Ticks - sim.index \in Nat
    BY <2>1
  <2> QED BY <1>3, <2>2 DEF LoopsLeft
<1>4. CASE sim.stage \in {"segment", "samples"}
  <2>1. sim.index \in 1 .. Segments(case) /\ (sim.stage = "samples" => sim.left \in Nat)
    BY <1>4 DEF Simulated, OdeSoFar
  <2>2. Segments(case) \in Nat
    BY <1>0, SegmentsNat
  <2>3. Samples(case, sim.index) \in Nat
    BY <1>0, <2>1, <2>2, SamplesNat
  <2>4. Segments(case) - sim.index \in Nat /\ Samples(case, sim.index) + 1 \in Nat
    BY <2>1, <2>2, <2>3
  <2> QED BY <1>4, <2>1, <2>4 DEF LoopsLeft
<1>5. CASE sim.stage = "route"
  <2>1. RouteSoFar /\ Len(case.actions) \in Nat /\ DOMAIN case.actions = 1 .. Len(case.actions)
    BY <1>0, <1>5, SegmentsNat DEF Simulated
  <2>2. Len(case.actions) + 1 - sim.index \in Nat /\ sim.index \in Nat \ {0}
    BY <2>1 DEF RouteSoFar
  <2>3. CellsLeft \in Nat
    <3>1. CASE sim.index <= Len(case.actions) /\ Generates(Current)
      <4>1. sim.index \in DOMAIN case.actions
        BY <2>1, <2>2, <3>1
      <4>2. /\ Leg(1) = LegOf(sim.positions, Current, 1) /\ Leg(1) \in Nat
            /\ Leg(2) = LegOf(sim.positions, Current, 2) /\ Leg(2) \in Nat
        BY <1>0, <2>1, <3>1, <4>1, Legs, RouteValues DEF RouteSoFar, Current
      <4>3. sim.left \in Nat /\ sim.left <= Leg(1) + Leg(2)
        BY <2>1, <3>1, <4>2 DEF RouteSoFar
      <4> QED BY <3>1, <4>2, <4>3 DEF CellsLeft
    <3>2. CASE ~(sim.index <= Len(case.actions) /\ Generates(Current))
      BY <3>2 DEF CellsLeft
    <3> QED BY <3>1, <3>2
  <2> QED BY <1>5, <2>2, <2>3 DEF LoopsLeft
<1>6. CASE sim.stage \notin {"none", "route", "robot", "grid", "segment", "samples"}
  BY <1>6 DEF LoopsLeft
<1> QED BY <1>1, <1>2, <1>3, <1>4, <1>5, <1>6

\* The parts of the measure, before and after a step.
LEMMA WorkParts ==
    /\ DOMAIN Work = 1 .. 8
    /\ Work[1] = StagesLeft /\ Work[2] = 3 - joined
    /\ Work[3] = Running("rules") /\ Work[4] = Running("cbf") /\ Work[5] = Running("sim")
    /\ Work[6] = LoopsLeft[1] /\ Work[7] = LoopsLeft[2] /\ Work[8] = LoopsLeft[3]
    /\ Work'[1] = StagesLeft' /\ Work'[2] = 3 - joined'
    /\ Work'[3] = Running("rules")' /\ Work'[4] = Running("cbf")' /\ Work'[5] = Running("sim")'
    /\ Work'[6] = LoopsLeft[1]' /\ Work'[7] = LoopsLeft[2]' /\ Work'[8] = LoopsLeft[3]'
<1> HIDE DEF StagesLeft, Running, LoopsLeft
<1> QED BY DEF Work

\* The measure of a request is a list of natural numbers.
LEMMA WorkNat == Control /\ Reading /\ Simulated => (pc # "idle" => Work \in Seq(Nat))
<1> SUFFICES ASSUME Control, Reading, Simulated, pc # "idle" PROVE Work \in Seq(Nat)
  OBVIOUS
<1>1. StagesLeft \in Nat
  BY DEF StagesLeft
<1>2. 3 - joined \in Nat
  BY DEF Control
<1>3. Running("rules") \in Nat /\ Running("cbf") \in Nat /\ Running("sim") \in Nat
  BY DEF Running
<1>4. LoopsLeft[1] \in Nat /\ LoopsLeft[2] \in Nat /\ LoopsLeft[3] \in Nat
  BY LoopsNat
<1> HIDE DEF StagesLeft, Running, LoopsLeft
<1> QED BY <1>1, <1>2, <1>3, <1>4 DEF Work

\* A step of the simulation thread: it ends, or what its loops have left drops.
LEMMA SimulationCloser ==
    ASSUME UNCHANGED <<pc, joined>>,
           thread'["rules"] = thread["rules"], thread'["cbf"] = thread["cbf"],
           thread["sim"] = "running",
           \/ thread'["sim"] # "running"
           \/ /\ thread'["sim"] = "running"
              /\ \/ LoopsLeft[1]' < LoopsLeft[1]
                 \/ LoopsLeft[1]' = LoopsLeft[1] /\ LoopsLeft[2]' < LoopsLeft[2]
                 \/ /\ LoopsLeft[1]' = LoopsLeft[1] /\ LoopsLeft[2]' = LoopsLeft[2]
                    /\ LoopsLeft[3]' < LoopsLeft[3]
    PROVE  Less(Work', Work)
<1>1. /\ StagesLeft' = StagesLeft /\ 3 - joined' = 3 - joined
      /\ Running("rules")' = Running("rules") /\ Running("cbf")' = Running("cbf")
  BY DEF StagesLeft, Running
<1>2. \A j \in 1 .. 4 : Work'[j] = Work[j]
  BY <1>1, WorkParts
<1>3. CASE thread'["sim"] # "running"
  <2>1. Work'[5] < Work[5]
    BY <1>3, WorkParts DEF Running
  <2>2. 5 \in DOMAIN Work
    BY WorkParts
  <2>3. \A j \in 1 .. (5 - 1) : Work'[j] = Work[j]
    BY <1>2
  <2> QED BY <2>1, <2>2, <2>3 DEF Less
<1>4. CASE thread'["sim"] = "running"
  <2>1. \A j \in 1 .. 5 : Work'[j] = Work[j]
    <3>1. Work'[5] = Work[5]
      BY <1>4, WorkParts DEF Running
    <3> QED BY <1>2, <3>1
  <2>2. CASE LoopsLeft[1]' < LoopsLeft[1]
    <3>1. 6 \in DOMAIN Work /\ Work'[6] < Work[6]
      BY <2>2, WorkParts
    <3>2. \A j \in 1 .. (6 - 1) : Work'[j] = Work[j]
      BY <2>1
    <3> QED BY <3>1, <3>2 DEF Less
  <2>3. CASE LoopsLeft[1]' = LoopsLeft[1] /\ LoopsLeft[2]' < LoopsLeft[2]
    <3>1. 7 \in DOMAIN Work /\ Work'[7] < Work[7] /\ Work'[6] = Work[6]
      BY <2>3, WorkParts
    <3>2. \A j \in 1 .. (7 - 1) : Work'[j] = Work[j]
      BY <2>1, <3>1
    <3> QED BY <3>1, <3>2 DEF Less
  <2>4. CASE /\ LoopsLeft[1]' = LoopsLeft[1] /\ LoopsLeft[2]' = LoopsLeft[2]
             /\ LoopsLeft[3]' < LoopsLeft[3]
    <3>1. 8 \in DOMAIN Work /\ Work'[8] < Work[8] /\ Work'[6] = Work[6] /\ Work'[7] = Work[7]
      BY <2>4, WorkParts
    <3>2. \A j \in 1 .. (8 - 1) : Work'[j] = Work[j]
      BY <2>1, <3>1
    <3> QED BY <3>1, <3>2 DEF Less
  <2> QED BY <1>4, <2>2, <2>3, <2>4
<1> QED BY <1>3, <1>4

\* The simulation ends in this step.
LEMMA SimulationEnds ==
    ASSUME Control, UNCHANGED <<pc, joined>>, thread["sim"] = "running",
           \/ thread' = [thread EXCEPT !["sim"] = "returned"]
           \/ thread' = [thread EXCEPT !["sim"] = "raised"]
    PROVE  Less(Work', Work)
<1>1. /\ thread'["rules"] = thread["rules"] /\ thread'["cbf"] = thread["cbf"]
      /\ thread'["sim"] # "running"
  BY DEF Control, Validator
<1> QED BY <1>1, SimulationCloser

\* What a move of the arm changes of the request's progress.
LEMMA RobotMoveTurns ==
    ASSUME RobotMove, DOMAIN sim = SimFields
    PROVE  /\ thread["sim"] = "running" /\ sim.stage = "robot"
           /\ UNCHANGED <<case, pc, joined, thread>>
           /\ sim'.stage = "robot" /\ sim'.index = sim.index + 1
<1>1. /\ thread["sim"] = "running" /\ sim.stage = "robot" /\ UNCHANGED <<case, thread>>
  BY DEF RobotMove, InPlan, SimStep, request
<1>2. UNCHANGED pc /\ UNCHANGED joined
  BY DEF RobotMove
<1>3. sim'.stage = "robot" /\ sim'.index = sim.index + 1
  <2>1. CASE ~IsMove(case.actions[sim.index])
    <3>1. sim' = [sim EXCEPT !.index = @ + 1, !.sampled = Append(@, 0)]
      BY <2>1 DEF RobotMove
    <3> QED BY <1>1, <3>1 DEF SimFields
  <2>2. CASE IsMove(case.actions[sim.index])
    <3>1. PICK goal, o :
            LET checks == Checks(case.robot, case.ruleset, goal, o)
                r      == Recorded(sim.first, sim.violations, checks)
            IN sim' = [sim EXCEPT !.index = @ + 1, !.sampled = Append(@, 1),
                         !.first = r.first, !.violations = r.names,
                         !.clear = @ /\ \A i \in DOMAIN checks : ~checks[i].fails]
      BY <2>2, Zenon DEF RobotMove
    <3> DEFINE checks == Checks(case.robot, case.ruleset, goal, o)
               r      == Recorded(sim.first, sim.violations, checks)
               none   == \A i \in DOMAIN checks : ~checks[i].fails
    <3>2. sim' = [sim EXCEPT !.index = @ + 1, !.sampled = Append(@, 1),
                    !.first = r.first, !.violations = r.names, !.clear = @ /\ none]
      BY <3>1
    <3> HIDE DEF r, none
    <3> QED BY <1>1, <3>2 DEF SimFields
  <2> QED BY <2>1, <2>2
<1> QED BY <1>1, <1>2, <1>3

\* The simulation goes on: a back end is chosen, or a turn of its loop is done.
LEMMA SimulationGoesOn ==
    ASSUME Control, Reading, Simulated, thread["sim"] = "running", UNCHANGED <<case, thread>>,
           \/ StartGrid \/ StartOde \/ StartRobot \/ RouteGiven \/ RouteCell \/ RouteEnds
           \/ StartTicks \/ GridTick \/ SegmentSolved \/ Sample \/ SegmentEnds \/ RobotMove
    PROVE  Less(Work', Work)
<1>1. case \in Case /\ DOMAIN sim = SimFields
  BY SimRunning DEF Simulated
<1>2. UNCHANGED <<pc, joined>>
  BY <1>1, RobotMoveTurns
     DEF StartGrid, StartOde, StartRobot, RouteGiven, RouteCell, RouteEnds, StartTicks,
         GridTick, SegmentSolved, Sample, SegmentEnds
<1>3. thread["sim"] # "returned" /\ thread["sim"] # "raised"
  OBVIOUS
<1>4. \/ LoopsLeft[1]' < LoopsLeft[1]
      \/ LoopsLeft[1]' = LoopsLeft[1] /\ LoopsLeft[2]' < LoopsLeft[2]
      \/ /\ LoopsLeft[1]' = LoopsLeft[1] /\ LoopsLeft[2]' = LoopsLeft[2]
         /\ LoopsLeft[3]' < LoopsLeft[3]
  <2>1. CASE StartGrid \/ StartOde \/ StartRobot
    <3>1. sim.stage = "none"
      BY <2>1 DEF StartGrid, StartOde, StartRobot, SimIdle
    <3>2. sim'.stage \in {"route", "segment", "robot"}
      BY <1>1, <1>3, <2>1
         DEF StartGrid, StartOde, StartRobot, SimReturns, Return, Raise, Turn, Control, Validator,
             SimFields
    <3>3. LoopsLeft[1] = 3 /\ LoopsLeft[1]' \in {1, 2}
      BY <3>1, <3>2 DEF LoopsLeft
    <3> QED BY <3>3
  <2>2. CASE GridTick
    <3>1. sim.stage = "grid" /\ sim.index < Ticks
      BY <1>3, <2>2 DEF GridTick, Return, Control, Validator
    <3>2. /\ sim'.stage = "grid" /\ sim'.index = sim.index + 1 /\ sim'.paths = sim.paths
      BY <1>1, <2>2, <3>1 DEF GridTick, Turn, SimFields
    <3>3. Ticks \in Nat /\ sim.index \in 0 .. Ticks /\ Ticks' = Ticks
      BY <3>1, <3>2, TicksNat DEF Simulated, GridSoFar, Track, Ticks
    <3>4. /\ LoopsLeft[1] = 1 /\ LoopsLeft[2] = Ticks - sim.index
          /\ LoopsLeft[1]' = 1 /\ LoopsLeft[2]' = Ticks' - sim'.index
      BY <3>1, <3>2 DEF LoopsLeft
    <3> QED BY <3>2, <3>3, <3>4
  <2>3. CASE SegmentSolved
    <3>1. sim.stage = "segment" /\ sim'.stage = "samples" /\ sim'.index = sim.index
          /\ sim'.left = Samples(case, sim.index)
      BY <1>1, <2>3 DEF SegmentSolved, SimFields
    <3>2. sim.index \in 1 .. Segments(case)
      BY <3>1 DEF Simulated, OdeSoFar
    <3>3. Samples(case, sim.index) \in Nat
      BY <1>1, <3>2, SegmentsNat, SamplesNat
    <3>4. /\ LoopsLeft[1] = 1 /\ LoopsLeft[2] = Segments(case) - sim.index
          /\ LoopsLeft[3] = Samples(case, sim.index) + 1
          /\ LoopsLeft[1]' = 1 /\ LoopsLeft[2]' = Segments(case') - sim'.index
          /\ LoopsLeft[3]' = sim'.left
      BY <3>1 DEF LoopsLeft
    <3> QED BY <3>1, <3>3, <3>4
  <2>4. CASE Sample
    <3>1. sim.stage = "samples" /\ sim'.stage = "samples" /\ sim'.index = sim.index
          /\ sim'.left = sim.left - 1
      BY <1>1, <2>4 DEF Sample, SimFields
    <3>2. sim.left \in Nat
      BY <3>1 DEF Simulated, OdeSoFar
    <3>3. /\ LoopsLeft[1] = 1 /\ LoopsLeft[2] = Segments(case) - sim.index
          /\ LoopsLeft[3] = sim.left
          /\ LoopsLeft[1]' = 1 /\ LoopsLeft[2]' = Segments(case') - sim'.index
          /\ LoopsLeft[3]' = sim'.left
      BY <3>1 DEF LoopsLeft
    <3> QED BY <3>1, <3>2, <3>3
  <2>5. CASE SegmentEnds
    <3>1. sim.stage = "samples" /\ sim.index < Segments(case)
      BY <1>3, <2>5 DEF SegmentEnds, SegmentDone, SimReturns, Return, Control, Validator
    <3>2. sim'.stage = "segment" /\ sim'.index = sim.index + 1
      BY <1>1, <2>5, <3>1 DEF SegmentEnds, SimFields
    <3>3. sim.index \in 1 .. Segments(case) /\ Segments(case) \in Nat
      BY <1>1, <3>1, SegmentsNat DEF Simulated, OdeSoFar
    <3>4. /\ LoopsLeft[1] = 1 /\ LoopsLeft[2] = Segments(case) - sim.index
          /\ LoopsLeft[1]' = 1 /\ LoopsLeft[2]' = Segments(case') - sim'.index
      BY <3>1, <3>2 DEF LoopsLeft
    <3> QED BY <3>2, <3>3, <3>4
  <2>6. CASE RobotMove
    <3>1. sim.stage = "robot"
      BY <1>1, <2>6, RobotMoveTurns
    <3>2. sim'.stage = "robot" /\ sim'.index = sim.index + 1
      BY <1>1, <2>6, RobotMoveTurns
    <3>3. IsSeq(case.actions)
      BY <1>1, PlanAssumption
    <3>4. Len(case.actions) \in Nat
      BY <3>3 DEF IsSeq
    <3>5. sim.index \in Int
      BY <3>1, <3>4 DEF Simulated, RobotSoFar
    <3>6. /\ LoopsLeft[1] = 1 /\ LoopsLeft[2] = Len(case.actions) + 1 - sim.index
          /\ LoopsLeft[1]' = 1 /\ LoopsLeft[2]' = Len(case'.actions) + 1 - sim'.index
      BY <3>1, <3>2 DEF LoopsLeft
    <3> QED BY <3>2, <3>4, <3>5, <3>6
  <2>7. CASE RouteGiven \/ RouteEnds
    <3>1. /\ sim.stage = "route" /\ sim'.stage = "route" /\ sim'.index = sim.index + 1
      BY <1>1, <2>7 DEF RouteGiven, RouteEnds, AlongY, Walking, Planning, SimFields
    <3>2. Len(case.actions) \in Nat /\ sim.index \in Int
      BY <1>1, <3>1, SegmentsNat DEF Simulated, RouteSoFar
    <3>3. /\ LoopsLeft[1] = 2 /\ LoopsLeft[2] = Len(case.actions) + 1 - sim.index
          /\ LoopsLeft[1]' = 2 /\ LoopsLeft[2]' = Len(case'.actions) + 1 - sim'.index
      BY <3>1 DEF LoopsLeft
    <3> QED BY <3>1, <3>2, <3>3
  <2>8. CASE RouteCell
    <3>1. /\ sim.stage = "route" /\ sim.index <= Len(case.actions) /\ Generates(Current)
      BY <2>8 DEF RouteCell, AlongY, Walking, Planning
    <3>2. /\ sim'.stage = "route" /\ sim'.index = sim.index /\ sim'.left = sim.left + 1
          /\ sim'.positions = sim.positions
      BY <1>1, <2>8, <3>1 DEF RouteCell, SimFields
    <3>3. /\ RouteSoFar /\ sim.index \in DOMAIN case.actions
      BY <1>1, <3>1, SegmentsNat DEF Simulated, RouteSoFar
    <3>4. sim.left \in Nat /\ Leg(1) \in Nat /\ Leg(2) \in Nat
      BY <1>1, <3>1, <3>3, Legs, RouteValues DEF RouteSoFar, Current
    <3>5. Current' = Current /\ Leg(1)' = Leg(1) /\ Leg(2)' = Leg(2)
      BY <3>2 DEF Current, Leg, Route
    <3>6. CellsLeft = Leg(1) + Leg(2) - sim.left /\ CellsLeft' = Leg(1) + Leg(2) - sim'.left
      BY <3>1, <3>2, <3>5 DEF CellsLeft
    <3>7. /\ LoopsLeft[1] = 2 /\ LoopsLeft[2] = Len(case.actions) + 1 - sim.index
          /\ LoopsLeft[3] = CellsLeft
          /\ LoopsLeft[1]' = 2 /\ LoopsLeft[2]' = Len(case'.actions) + 1 - sim'.index
          /\ LoopsLeft[3]' = CellsLeft'
      BY <3>1, <3>2 DEF LoopsLeft
    <3> QED BY <3>2, <3>4, <3>6, <3>7
  <2>9. CASE StartTicks
    <3>1. sim.stage = "route" /\ sim'.stage = "grid"
      BY <1>1, <1>3, <2>9 DEF StartTicks, Raise, Turn, Control, Validator, SimFields
    <3>2. LoopsLeft[1] = 2 /\ LoopsLeft[1]' = 1
      BY <3>1 DEF LoopsLeft
    <3> QED BY <3>2
  <2> QED BY <2>1, <2>2, <2>3, <2>4, <2>5, <2>6, <2>7, <2>8, <2>9
<1> QED BY <1>2, <1>4, SimulationCloser

\* The steps that do not bring the request closer are those of a route that
\* does not start and end on whole cells.
LEMMA AstrayMeans ==
    ASSUME Control, Reading, Simulated, RouteMissed \/ Astray
    PROVE  sim' # sim /\ sim'.stage = "astray" /\ Fractional
<1>0. DOMAIN sim = SimFields
  BY DEF Simulated
<1>1. CASE RouteMissed
  <2>1. /\ sim' = [sim EXCEPT !.stage = "astray", !.left = 0] /\ sim.stage = "route"
        /\ \E i \in {1, 2} : FALSE \in Met(i)
    BY <1>1 DEF RouteMissed, AlongY, AtCorner, Walking, Planning
  <2>2. sim'.stage = "astray"
    BY <1>0, <2>1 DEF SimFields
  <2> QED BY <2>1, <2>2 DEF Fractional, Met, Meets
<1>2. CASE Astray
  <2>1. /\ sim' = [sim EXCEPT !.left = 1 - @] /\ sim.stage = "astray"
        /\ sim.left \in {0, 1} /\ Fractional
    BY <1>2 DEF Astray, Simulated
  <2>2. sim'.stage = "astray" /\ sim'.left = 1 - sim.left
    BY <1>0, <2>1 DEF SimFields
  <2>3. sim'.left # sim.left
    BY <2>1, <2>2
  <2> HIDE DEF Fractional
  <2> QED BY <2>1, <2>2, <2>3
<1> QED BY <1>1, <1>2

\* Else some part of the measure drops and none before it changes.
LEMMA EveryStepDrops ==
    ASSUME Control, Reading, Simulated, Next, pc \notin {"idle", "done"}, ~UNCHANGED vars,
           ~RouteMissed, ~Astray
    PROVE  Less(Work', Work) /\ pc' # "idle"
<1>1. CASE ReadSensor \/ SensorFails \/ IntegrityCheck \/ FetchFails \/ Prepare \/ Decide
  <2>1. pc' # "idle" /\ StagesLeft' < StagesLeft
    BY <1>1 DEF ReadSensor, SensorFails, IntegrityCheck, FetchFails, Prepare, Decide, Respond,
                StagesLeft
  <2>2. 1 \in DOMAIN Work /\ Work'[1] < Work[1]
    BY <2>1, WorkParts
  <2>3. \A j \in 1 .. (1 - 1) : Work'[j] = Work[j]
    OBVIOUS
  <2> QED BY <2>1, <2>2, <2>3 DEF Less
<1>2. CASE Join
  <2>1. UNCHANGED pc /\ joined' = joined + 1
    BY <1>2 DEF Join
  <2>2. 2 \in DOMAIN Work /\ Work'[2] < Work[2] /\ Work'[1] = Work[1]
    BY <2>1, WorkParts DEF StagesLeft, Control
  <2>3. \A j \in 1 .. (2 - 1) : Work'[j] = Work[j]
    BY <2>2
  <2> QED BY <2>1, <2>2, <2>3 DEF Less
<1>3. CASE RunRules
  <2>1. UNCHANGED <<pc, joined>> /\ thread["rules"] = "running" /\ thread'["rules"] # "running"
    BY <1>3 DEF RunRules, Return, Control, Validator
  <2>2. /\ 3 \in DOMAIN Work /\ Work'[3] < Work[3]
        /\ Work'[1] = Work[1] /\ Work'[2] = Work[2]
    BY <2>1, WorkParts DEF StagesLeft, Running
  <2>3. \A j \in 1 .. (3 - 1) : Work'[j] = Work[j]
    BY <2>2
  <2> QED BY <2>1, <2>2, <2>3 DEF Less
<1>4. CASE RunCbf
  <2>1. /\ UNCHANGED <<pc, joined>> /\ thread["cbf"] = "running" /\ thread'["cbf"] # "running"
        /\ thread'["rules"] = thread["rules"]
    BY <1>4 DEF RunCbf, Return, Raise, Control, Validator
  <2>2. /\ 4 \in DOMAIN Work /\ Work'[4] < Work[4]
        /\ Work'[1] = Work[1] /\ Work'[2] = Work[2] /\ Work'[3] = Work[3]
    BY <2>1, WorkParts DEF StagesLeft, Running
  <2>3. \A j \in 1 .. (4 - 1) : Work'[j] = Work[j]
    BY <2>2
  <2> QED BY <2>1, <2>2, <2>3 DEF Less
<1>5. CASE \/ StartFails \/ StartNone \/ RouteRaises
           \/ RobotEnds \/ RobotFails \/ SegmentFails \/ SegmentTimeout
  <2>1. /\ UNCHANGED <<pc, joined>> /\ thread["sim"] = "running"
        /\ \/ thread' = [thread EXCEPT !["sim"] = "returned"]
           \/ thread' = [thread EXCEPT !["sim"] = "raised"]
    BY <1>5 DEF StartFails, StartNone, RouteRaises, AtCorner, Walking, Planning, RobotEnds, RobotFails, SegmentFails, SegmentTimeout,
                SegmentDone, SimIdle, SimStep, SimReturns, Return, Raise
  <2> QED BY <2>1, SimulationEnds
<1>6. CASE \/ StartGrid \/ StartOde \/ StartRobot \/ RouteGiven \/ RouteCell \/ RouteEnds
           \/ StartTicks \/ GridTick \/ SegmentSolved \/ Sample \/ SegmentEnds
  <2>1. /\ UNCHANGED <<case, pc, joined>> /\ thread["sim"] = "running"
    BY <1>6 DEF StartGrid, StartOde, StartRobot, RouteGiven, RouteCell, RouteEnds, StartTicks,
                AlongY, Walking, Planning, GridTick, SegmentSolved, Sample, SegmentEnds,
                SegmentDone, SimIdle, SimStep, request
  <2>2. \/ UNCHANGED thread
        \/ thread' = [thread EXCEPT !["sim"] = "returned"]
        \/ thread' = [thread EXCEPT !["sim"] = "raised"]
    BY <1>6 DEF StartGrid, StartOde, StartRobot, RouteGiven, RouteCell, RouteEnds, StartTicks,
                GridTick, SegmentSolved, Sample, SegmentEnds, SimReturns, Return, Raise
  <2> QED BY <1>6, <2>1, <2>2, SimulationEnds, SimulationGoesOn
<1>7. CASE RobotMove
  <2>1. DOMAIN sim = SimFields
    BY DEF Simulated
  <2> QED BY <1>7, <2>1, RobotMoveTurns, SimulationGoesOn
<1>8. ~Finish /\ ~(\E c \in Case : Submit(c))
  BY DEF Finish, Submit
<1> QED BY <1>1, <1>2, <1>3, <1>4, <1>5, <1>6, <1>7, <1>8
        DEF Next, MainStep, SimulationStep, Fault

\* Every step of a request leaves less work, for every plan, fleet, reactor and
\* arm and in whichever order the threads run: a request is answered after
\* finitely many steps, unless it computes the route of a vehicle that does not
\* start and end on whole cells.
\* (safety_cluster/service.py, run_safety_validation)
THEOREM EveryStepCloserHolds == Spec => EveryStepCloser
<1> DEFINE Counted == pc # "idle" => Work \in Seq(Nat)
           Closer  == \/ Work' \in Seq(Nat) /\ Less(Work', Work)
                      \/ sim' # sim /\ sim'.stage = "astray" /\ Fractional
<1>1. Spec => []Counted
  BY WorkNat, ControlHolds, ReadingHolds, SimulatedHolds, PTL
<1>2. Control /\ Reading /\ Simulated /\ Counted' /\ [Next]_vars
        => [pc \notin {"idle", "done"} => Closer]_vars
  <2> SUFFICES ASSUME Control, Reading, Simulated, Counted', Next,
                      pc \notin {"idle", "done"}, ~UNCHANGED vars
               PROVE  Closer
    OBVIOUS
  <2>1. CASE RouteMissed \/ Astray
    BY <2>1, AstrayMeans
  <2>2. CASE ~RouteMissed /\ ~Astray
    BY <2>2, EveryStepDrops
  <2> QED BY <2>1, <2>2
<1> HIDE DEF Counted
<1> QED BY <1>1, <1>2, ControlHolds, ReadingHolds, SimulatedHolds, PTL DEF Spec, EveryStepCloser

-----------------------------------------------------------------------------
(* RENORMALIZE. *)

\* The three comparisons with a threshold t, for a score a of the other two
\* validators and a weight s of the simulator, all in hundredths.
LEMMA Renormalized ==
    ASSUME NEW a \in Int, NEW s \in Int, s >= 0, NEW t \in 0 .. 100,
           NEW share \in Int, share = IF 100 - s > 0 THEN 100 - s ELSE 100
    PROVE  /\ 100 * a >= t * 100 => 100 * a >= t * share
           /\ 100 * a >= t * share => 100 * (a + s) >= t * 100
<1>1. t * s >= 0 /\ (100 - t) * s >= 0
  OBVIOUS
<1>2. t * (100 - s) = t * 100 - t * s
  OBVIOUS
<1>3. (100 - t) * s = 100 * s - t * s
  OBVIOUS
<1>4. t * s \in Int /\ t * 100 \in Int
  OBVIOUS
<1>5. CASE 100 - s > 0
  <2>1. t * share = t * 100 - t * s
    BY <1>2, <1>5
  <2> QED BY <1>1, <1>3, <1>4, <2>1
<1>6. CASE ~(100 - s > 0)
  <2>1. share = 100
    BY <1>6
  <2> QED BY <2>1
<1> QED BY <1>5, <1>6

\* For all weights and verdicts, an open simulation under RENORMALIZE decides
\* between a SAFE and an UNSAFE one.  (consensus_engine.py 95-150)
THEOREM OpenSimulationIsBetweenHolds == Spec => []OpenSimulationIsBetween
<1>1. Control /\ Reading => OpenSimulationIsBetween
  <2> DEFINE w0 == case.consensus.weights
  <2> SUFFICES ASSUME Control, Reading, answer \in {"SAFE", "UNSAFE"},
                      case.consensus.onSim = "RENORMALIZE",
                      w0 = <<>> \/ (w0.sim >= 0 /\ w0.rules + w0.cbf + w0.sim + w0.other = 100),
                      case.consensus.threshold \in 0 .. 100
               PROVE  OpenSimulationIsBetween
    BY DEF OpenSimulationIsBetween
  <2> DEFINE w == IF w0 = <<>> THEN DefaultWeights ELSE w0
             config == [case.consensus EXCEPT !.mode = "WEIGHTED"]
             v(r) == [verdict EXCEPT !["sim"] = r]
             t == case.consensus.threshold
             with(r) == EvaluateConsensus(case.sil, config, v(r))
             a == Counts(w, "rules", verdict) + Counts(w, "cbf", verdict)
             share == IF 100 - w.sim > 0 THEN 100 - w.sim ELSE 100
  <2>1. case \in Case
    BY DEF Control, Reading, Early
  <2>2. /\ {"mode", "weights", "threshold", "onSim"} \subseteq DOMAIN case.consensus
        /\ w0 = <<>> \/ w0 \in [{"rules", "cbf", "sim", "other"} -> Int]
    BY <2>1, PlanAssumption
  <2>3. /\ w.rules \in Int /\ w.cbf \in Int /\ w.sim \in Int /\ w.other \in Int
        /\ w.sim >= 0 /\ w.rules + w.cbf + w.sim + w.other = 100
    BY <2>2 DEF DefaultWeights
  <2>4. /\ config.mode = "WEIGHTED" /\ config.weights = w0 /\ config.threshold = t
        /\ config.onSim = "RENORMALIZE"
    BY <2>2
  <2>5. \A r : v(r).sim = r /\ v(r)["rules"] = verdict["rules"] /\ v(r)["cbf"] = verdict["cbf"]
    BY DEF Control, Validator
  <2> HIDE DEF w, w0, config, v, t
  <2>6. EffectiveMode(config.mode, case.sil) = "WEIGHTED"
    BY <2>4 DEF EffectiveMode
  <2> DEFINE x == Score(w, TRUE, v("INDETERMINATE"))
             y == Score(w, FALSE, v("SAFE"))
             z == Score(w, FALSE, v("UNSAFE"))
  <2>7. /\ with("INDETERMINATE") = "SAFE" <=> 100 * x[1] >= t * x[2]
        /\ with("SAFE") = "SAFE" <=> 100 * y[1] >= t * y[2]
        /\ with("UNSAFE") = "SAFE" <=> 100 * z[1] >= t * z[2]
    <3>1. w = IF config.weights = <<>> THEN DefaultWeights ELSE config.weights
      BY <2>4 DEF w
    <3>2. config.onSim = "RENORMALIZE" /\ config.threshold = t
      BY <2>4
    <3>3. with("INDETERMINATE") = "SAFE" <=> 100 * x[1] >= t * x[2]
      <4>1. (v("INDETERMINATE").sim = "INDETERMINATE" /\ config.onSim = "RENORMALIZE") = TRUE
        BY <2>4, <2>5
      <4> QED BY <2>6, <3>1, <3>2, <4>1 DEF EvaluateConsensus
    <3>4. with("SAFE") = "SAFE" <=> 100 * y[1] >= t * y[2]
      <4>1. (v("SAFE").sim = "INDETERMINATE" /\ config.onSim = "RENORMALIZE") = FALSE
        BY <2>5
      <4> QED BY <2>6, <3>1, <3>2, <4>1 DEF EvaluateConsensus
    <3>5. with("UNSAFE") = "SAFE" <=> 100 * z[1] >= t * z[2]
      <4>1. (v("UNSAFE").sim = "INDETERMINATE" /\ config.onSim = "RENORMALIZE") = FALSE
        BY <2>5
      <4> QED BY <2>6, <3>1, <3>2, <4>1 DEF EvaluateConsensus
    <3> QED BY <3>3, <3>4, <3>5
  <2>8. \A r : Counts(w, "rules", v(r)) + Counts(w, "cbf", v(r)) = a
    BY <2>5 DEF Counts
  <2>9. /\ Counts(w, "sim", v("SAFE")) = w.sim /\ Counts(w, "sim", v("UNSAFE")) = 0
    BY <2>5 DEF Counts
  <2>10. a \in Int
    BY <2>3 DEF Counts
  <2>11. w.rules + w.cbf + w.other = 100 - w.sim
    BY <2>3
  <2> HIDE DEF a
  <2>12. x = <<a, share>> /\ y = <<a + w.sim, 100>> /\ z = <<a + 0, 100>>
    BY <2>8, <2>9, <2>11 DEF Score
  <2>13. /\ with("INDETERMINATE") = "SAFE" <=> 100 * a >= t * share
         /\ with("SAFE") = "SAFE" <=> 100 * (a + w.sim) >= t * 100
         /\ with("UNSAFE") = "SAFE" <=> 100 * a >= t * 100
    <3> HIDE DEF with, share, x, y, z
    <3>1. with("INDETERMINATE") = "SAFE" <=> 100 * a >= t * share
      BY <2>7, <2>12
    <3>2. with("SAFE") = "SAFE" <=> 100 * (a + w.sim) >= t * 100
      BY <2>7, <2>12
    <3>3. with("UNSAFE") = "SAFE" <=> 100 * (a + 0) >= t * 100
      BY <2>7, <2>12
    <3> QED BY <2>10, <3>1, <3>2, <3>3
  <2>14. share \in Int /\ t \in 0 .. 100
    BY <2>3 DEF t
  <2>15. /\ 100 * a >= t * 100 => 100 * a >= t * share
         /\ 100 * a >= t * share => 100 * (a + w.sim) >= t * 100
    <3> DEFINE s == w.sim
    <3>1. s \in Int /\ s >= 0 /\ share = IF 100 - s > 0 THEN 100 - s ELSE 100
      BY <2>3
    <3> HIDE DEF s, share
    <3>2. /\ 100 * a >= t * 100 => 100 * a >= t * share
          /\ 100 * a >= t * share => 100 * (a + s) >= t * 100
      BY <2>10, <2>14, <3>1, Renormalized
    <3> QED BY <3>2 DEF s
  <2>16. /\ with("UNSAFE") = "SAFE" => with("INDETERMINATE") = "SAFE"
         /\ with("INDETERMINATE") = "SAFE" => with("SAFE") = "SAFE"
    BY <2>13, <2>15
  <2> QED BY <2>16 DEF OpenSimulationIsBetween, config, v
<1> QED BY <1>1, ControlHolds, ReadingHolds, PTL

-----------------------------------------------------------------------------
(* Deadlocks of the fleet. *)

\* f is the walk along wait from start.
Walks(wait, start, n, f) ==
    f[0] = start /\ \A i \in 1 .. n : f[i] = Blocker(wait, f[i - 1])

\* It comes back for the first time at last, to where it was at first.
Loops(wait, start, n, f, first, last) ==
    /\ f \in [0 .. n -> Vehicle] /\ Walks(wait, start, n, f)
    /\ last \in 1 .. n /\ first \in 0 .. last - 1 /\ f[first] = f[last]
    /\ \A i \in 1 .. last - 1 : \A m \in 0 .. i - 1 : f[m] # f[i]

\* What CycleFrom finds there.
CycleIn(wait, f, first, last) ==
    IF f[last] \notin DOMAIN wait THEN {} ELSE {f[i] : i \in first .. last - 1}

\* The walk of CycleFrom goes along wait, comes back to where it was within as
\* many steps as there are vehicles, and the first return is the cycle.
LEMMA WalkLoops ==
    ASSUME NEW wait, \A a \in DOMAIN wait : wait[a] \in Vehicle, NEW start \in Vehicle
    PROVE  \E f, first, last :
              /\ Loops(wait, start, Cardinality(Vehicle), f, first, last)
              /\ CycleFrom(wait, start) = CycleIn(wait, f, first, last)
<1> DEFINE N == Cardinality(Vehicle)
           W == CHOOSE g : g = [n \in 0 .. N |-> IF n = 0 THEN start ELSE Blocker(wait, g[n - 1])]
           again == {n \in 1 .. N : \E m \in 0 .. n - 1 : W[m] = W[n]}
           last == Min(again)
           first == CHOOSE m \in 0 .. last - 1 : W[m] = W[last]
<1>1. CycleFrom(wait, start) = CycleIn(wait, W, first, last)
  <2>1. CycleFrom(wait, start) = IF W[last] \notin DOMAIN wait THEN {} ELSE {W[n] : n \in first .. last - 1}
    BY Zenon DEF CycleFrom
  <2> HIDE DEF W, first, last
  <2> QED BY <2>1 DEF CycleIn
<1>2. N \in Nat /\ IsFiniteSet(Vehicle)
  BY GridAssumption, FS_CardinalityType
<1>3. \A x \in Vehicle : Blocker(wait, x) \in Vehicle
  BY DEF Blocker
<1>4. W = [n \in 0 .. N |-> IF n = 0 THEN start ELSE Blocker(wait, W[n - 1])]
  <2> DEFINE next == [i \in 1 .. N |-> [x \in Vehicle |-> Blocker(wait, x)]]
  <2>1. next \in [1 .. N -> [Vehicle -> Vehicle]]
    BY <1>3
  <2>2. PICK f \in [0 .. N -> Vehicle] : Iterates(f, N, start, next)
    <3> HIDE DEF next, N
    <3> QED BY <1>2, <2>1, IterationExists
  <2>3. \A n \in 0 .. N : f[n] = IF n = 0 THEN start ELSE Blocker(wait, f[n - 1])
    <3> SUFFICES ASSUME NEW n \in 1 .. N PROVE f[n] = Blocker(wait, f[n - 1])
      BY <1>2, <2>2 DEF Iterates
    <3>1. f[n] = next[n][f[n - 1]] /\ f[n - 1] \in Vehicle
      BY <1>2, <2>2 DEF Iterates
    <3> QED BY <3>1
  <2> HIDE DEF N, next
  <2>4. f = [n \in 0 .. N |-> IF n = 0 THEN start ELSE Blocker(wait, f[n - 1])]
    BY <2>3, <2>2
  <2> QED BY <2>4
<1> HIDE DEF N, W
<1>5. W \in [0 .. N -> Vehicle] /\ Walks(wait, start, N, W)
  <2> DEFINE S == {n \in 0 .. N : W[n] \in Vehicle}
  <2>1. W[0] = start /\ \A i \in 1 .. N : W[i] = Blocker(wait, W[i - 1])
    BY <1>2, <1>4
  <2>2. 0 \in S
    BY <1>2, <2>1
  <2>3. ASSUME NEW k \in 0 .. N - 1, k \in S PROVE k + 1 \in S
    <3>1. W[k + 1] = Blocker(wait, W[k]) /\ k + 1 \in 0 .. N
      BY <1>2, <2>1
    <3> QED BY <3>1, <2>3, <1>3
  <2>4. 0 .. N \subseteq S
    <3> HIDE DEF S
    <3> QED BY <1>2, <2>2, <2>3, BoundedInduction
  <2>5. \A n \in 0 .. N : W[n] \in Vehicle
    BY <2>4
  <2> QED BY <1>4, <2>1, <2>5 DEF Walks
<1>6. again # {} /\ again \subseteq Nat
  <2>1. Cardinality(0 .. N) = N + 1 /\ IsFiniteSet(0 .. N)
    BY <1>2, FS_Interval
  <2>2. \E x, y \in 0 .. N : x # y /\ W[x] = W[y]
    <3>1. Cardinality(Vehicle) < Cardinality(0 .. N)
      BY <1>2, <2>1 DEF N
    <3> QED BY <1>2, <1>5, <2>1, <3>1, FS_PigeonHole
  <2>3. PICK x \in 0 .. N, y \in 0 .. N : x < y /\ W[x] = W[y]
    BY <1>2, <2>2
  <2> QED BY <1>2, <2>3
<1>7. last \in again /\ \A n \in again : last <= n
  <2>1. \E n \in again : \A m \in again : n <= m
    <3> HIDE DEF again
    <3> QED BY <1>6, LeastNumber
  <2> HIDE DEF again
  <2> QED BY <2>1, Zenon DEF Min
<1> HIDE DEF last
<1>8. first \in 0 .. last - 1 /\ W[first] = W[last] /\ last \in 1 .. N
  BY <1>7
<1> HIDE DEF first
<1>9. \A i \in 1 .. last - 1 : \A m \in 0 .. i - 1 : W[m] # W[i]
  BY <1>2, <1>7, <1>8
<1>10. Loops(wait, start, N, W, first, last)
  BY <1>5, <1>8, <1>9 DEF Loops
<1> QED BY <1>1, <1>10 DEF N

\* Every vehicle of s waits for one of s.
ClosedUnder(wait, s) == \A a \in s : a \in DOMAIN wait /\ wait[a] \in s

\* A walk that starts in such a set stays there.
LEMMA WalkStays ==
    ASSUME NEW wait, NEW start, NEW n \in Nat, NEW f, Walks(wait, start, n, f),
           NEW s, ClosedUnder(wait, s), start \in s
    PROVE  \A i \in 0 .. n : f[i] \in s
<1> DEFINE S == {i \in 0 .. n : f[i] \in s}
<1>1. 0 \in S
  BY DEF Walks
<1>2. ASSUME NEW k \in 0 .. n - 1, k \in S PROVE k + 1 \in S
  <2>1. f[k + 1] = Blocker(wait, f[k]) /\ k + 1 \in 0 .. n
    <3>1. k + 1 \in 1 .. n /\ (k + 1) - 1 = k
      OBVIOUS
    <3> QED BY <3>1 DEF Walks
  <2> QED BY <1>2, <2>1 DEF Blocker, ClosedUnder
<1>3. 0 .. n \subseteq S
  <2> HIDE DEF S
  <2> QED BY <1>1, <1>2, BoundedInduction
<1> QED BY <1>3

\* The vehicles of a cycle wait for one another, and no part of them does.
LEMMA CycleCloses ==
    ASSUME NEW wait, NEW start, NEW n \in Nat, NEW f, NEW first, NEW last,
           Loops(wait, start, n, f, first, last), CycleIn(wait, f, first, last) # {}
    PROVE  LET c == CycleIn(wait, f, first, last)
           IN /\ ClosedUnder(wait, c)
              /\ \A t \in SUBSET c : t # {} /\ ClosedUnder(wait, t) => t = c
<1> DEFINE c == CycleIn(wait, f, first, last)
<1>1. c = {f[i] : i \in first .. last - 1} /\ f[last] \in DOMAIN wait
  BY DEF CycleIn
<1>2. first \in Nat /\ last \in Nat /\ first < last /\ last <= n /\ f[first] = f[last]
  BY DEF Loops
<1>3. ASSUME NEW i \in first .. last - 1
      PROVE  f[i] \in DOMAIN wait /\ f[i + 1] = wait[f[i]]
  <2>1. f[i + 1] = Blocker(wait, f[i])
    <3>1. i + 1 \in 1 .. n /\ (i + 1) - 1 = i
      BY <1>2
    <3> QED BY <3>1 DEF Loops, Walks
  <2>2. CASE i + 1 = last
    BY <1>1, <2>1, <2>2 DEF Blocker
  <2>3. CASE i + 1 # last
    <3>1. i + 1 \in 1 .. last - 1 /\ i \in 0 .. (i + 1) - 1
      BY <1>2, <2>3
    <3>2. f[i] # f[i + 1]
      BY <3>1 DEF Loops
    <3> QED BY <2>1, <3>2 DEF Blocker
  <2> QED BY <2>2, <2>3
<1> HIDE DEF c
<1>4. ClosedUnder(wait, c)
  <2> SUFFICES ASSUME NEW i \in first .. last - 1 PROVE f[i] \in DOMAIN wait /\ wait[f[i]] \in c
    BY <1>1 DEF ClosedUnder
  <2>1. i + 1 \in first .. last - 1 \/ i + 1 = last
    BY <1>2
  <2>2. first \in first .. last - 1
    BY <1>2
  <2>3. f[i + 1] \in c
    BY <1>1, <1>2, <2>1, <2>2
  <2> QED BY <1>3, <2>3
<1>5. ASSUME NEW t \in SUBSET c, t # {}, ClosedUnder(wait, t) PROVE t = c
  <2>1. \A i \in first .. last - 1 : f[i] \in t => f[i + 1] \in t
    BY <1>3, <1>5 DEF ClosedUnder
  <2>2. PICK k \in first .. last - 1 : f[k] \in t
    BY <1>1, <1>5
  <2>3. f[last] \in t
    <3> DEFINE S == {j \in 0 .. last - k : f[k + j] \in t}
    <3>1. last - k \in Nat /\ k \in Int
      BY <1>2
    <3>2. 0 \in S
      BY <2>2, <3>1
    <3>3. ASSUME NEW j \in 0 .. (last - k) - 1, j \in S PROVE j + 1 \in S
      <4>1. k + j \in first .. last - 1 /\ (k + j) + 1 = k + (j + 1)
        BY <1>2, <3>1
      <4> QED BY <2>1, <3>1, <3>3, <4>1
    <3>4. 0 .. last - k \subseteq S
      <4> HIDE DEF S
      <4> QED BY <3>1, <3>2, <3>3, BoundedInduction
    <3>5. last - k \in 0 .. last - k /\ k + (last - k) = last
      BY <1>2, <3>1
    <3>6. f[k + (last - k)] \in t
      BY <3>4, <3>5
    <3> QED BY <3>5, <3>6
  <2>4. ASSUME NEW i \in first .. last - 1 PROVE f[i] \in t
    <3> DEFINE S == {j \in 0 .. i - first : f[first + j] \in t}
    <3>1. i - first \in Nat /\ i \in Int
      BY <1>2
    <3>2. 0 \in S
      BY <1>2, <2>3, <3>1
    <3>3. ASSUME NEW j \in 0 .. (i - first) - 1, j \in S PROVE j + 1 \in S
      <4>1. first + j \in first .. last - 1 /\ (first + j) + 1 = first + (j + 1)
        BY <1>2, <3>1
      <4> QED BY <2>1, <3>1, <3>3, <4>1
    <3>4. 0 .. i - first \subseteq S
      <4> HIDE DEF S
      <4> QED BY <3>1, <3>2, <3>3, BoundedInduction
    <3>5. i - first \in 0 .. i - first /\ first + (i - first) = i
      BY <1>2, <3>1
    <3>6. f[first + (i - first)] \in t
      BY <3>4, <3>5
    <3> QED BY <3>5, <3>6
  <2> QED BY <1>1, <2>4
<1> QED BY <1>4, <1>5 DEF c

\* No two vehicles share a cell.
Alone(p) == \A a, b \in DOMAIN p : a # b => p[a] # p[b]

\* The vehicles that are about to enter an occupied cell.
Wanting(p, q) == {a \in DOMAIN p : q[a] # p[a] /\ \E b \in DOMAIN p : p[b] = q[a]}

\* Then exactly those wait, each for the other vehicle in that cell.
LEMMA BlockersAre ==
    ASSUME NEW p, NEW q, NEW order \in [Vehicle -> Int], DOMAIN p \subseteq Vehicle, Alone(p),
           NEW wait, wait = WaitFor(p, q, order)
    PROVE  /\ DOMAIN wait = Wanting(p, q)
           /\ \A a \in DOMAIN wait : wait[a] \in DOMAIN p /\ p[wait[a]] = q[a] /\ wait[a] # a
<1> DEFINE occupant(x) == CHOOSE b \in DOMAIN p :
                             p[b] = x /\ \A c \in DOMAIN p : p[c] = x => order[c] <= order[b]
           blocked == {a \in DOMAIN p : /\ q[a] # p[a]
                                        /\ \E b \in DOMAIN p : p[b] = q[a]
                                        /\ occupant(q[a]) # a}
<1>1. WaitFor(p, q, order) = [a \in blocked |-> occupant(q[a])]
  BY DEF WaitFor
<1>2. ASSUME NEW a \in DOMAIN p, q[a] # p[a], \E b \in DOMAIN p : p[b] = q[a]
      PROVE  occupant(q[a]) \in DOMAIN p /\ p[occupant(q[a])] = q[a] /\ occupant(q[a]) # a
  <2>1. PICK b \in DOMAIN p : p[b] = q[a]
    BY <1>2
  <2>2. \A c \in DOMAIN p : p[c] = q[a] => c = b
    BY <2>1 DEF Alone
  <2>3. order[b] <= order[b]
    <3>1. order[b] \in Int
      BY <2>1
    <3> QED BY <3>1
  <2>4. p[b] = q[a] /\ \A c \in DOMAIN p : p[c] = q[a] => order[c] <= order[b]
    BY <2>1, <2>2, <2>3
  <2>5. occupant(q[a]) \in DOMAIN p /\ p[occupant(q[a])] = q[a]
    BY <2>4, Zenon
  <2> QED BY <1>2, <2>5
<1>3. blocked = Wanting(p, q)
  BY <1>2 DEF Wanting
<1> HIDE DEF occupant
<1> QED BY <1>1, <1>2, <1>3 DEF Wanting

\* Three vehicles are three, and two are at most two.
LEMMA ThreeAreThree ==
    ASSUME NEW s, IsFiniteSet(s), NEW x \in s, NEW y \in s, NEW z \in s, x # y, x # z, y # z
    PROVE  Cardinality(s) >= 3
<1>1. Cardinality({}) = 0 /\ IsFiniteSet({})
  BY FS_EmptySet
<1>2. Cardinality({z}) = 1 /\ IsFiniteSet({z})
  BY FS_Singleton
<1>3. Cardinality({y, z}) = 2 /\ IsFiniteSet({y, z})
  <2> DEFINE s1 == {z}
  <2>1. {y, z} = s1 \cup {y} /\ y \notin s1
    OBVIOUS
  <2> HIDE DEF s1
  <2>2. Cardinality(s1) = 1 /\ IsFiniteSet(s1)
    BY <1>2 DEF s1
  <2>3. Cardinality(s1 \cup {y}) = 2 /\ IsFiniteSet(s1 \cup {y})
    BY <2>1, <2>2, FS_AddElement
  <2> QED BY <2>1, <2>3
<1>4. Cardinality({x, y, z}) = 3
  <2> DEFINE s2 == {y, z}
  <2>1. {x, y, z} = s2 \cup {x} /\ x \notin s2
    OBVIOUS
  <2> HIDE DEF s2
  <2>2. Cardinality(s2) = 2 /\ IsFiniteSet(s2)
    BY <1>3 DEF s2
  <2>3. Cardinality(s2 \cup {x}) = 3
    BY <2>1, <2>2, FS_AddElement
  <2> QED BY <2>1, <2>3
<1>5. {x, y, z} \subseteq s
  OBVIOUS
<1>6. Cardinality({x, y, z}) <= Cardinality(s) /\ Cardinality(s) \in Nat
  BY <1>5, FS_Subset, FS_CardinalityType
<1> QED BY <1>4, <1>6

LEMMA TwoAreTwo ==
    ASSUME NEW x, NEW y
    PROVE  Cardinality({x, y}) <= 2
<1>1. Cardinality({y}) = 1 /\ IsFiniteSet({y})
  BY FS_Singleton
<1>2. {x, y} = {y} \cup {x}
  OBVIOUS
<1>3. Cardinality({y} \cup {x}) <= 2
  BY <1>1, FS_AddElement
<1> QED BY <1>2, <1>3

\* Three or more vehicles each of which wants the cell of another of them, and
\* no part of them does: the ring of DeadlockIsCycle.
Ring(p, q, s) ==
    /\ Cardinality(s) >= 3
    /\ \A a \in s : q[a] # p[a] /\ \E b \in s : q[a] = p[b]
    /\ \A t \in (SUBSET s) \ {{}, s} : \E a \in t : \A b \in t : q[a] # p[b]

\* Among vehicles that are alone in their cells, the cycles found are rings and
\* every ring is found: from any vehicle of a ring the walk runs into all of it.
\* (_detect_deadlock_cycles)
LEMMA CyclesAreRings ==
    ASSUME NEW p, NEW q, NEW order \in [Vehicle -> Int], DOMAIN p \subseteq Vehicle, Alone(p)
    PROVE  (DeadlockCycles(p, q, order) # {}) <=> \E s \in SUBSET DOMAIN p : Ring(p, q, s)
<1> DEFINE wait == WaitFor(p, q, order)
           N == Cardinality(Vehicle)
<1>w. wait = WaitFor(p, q, order)
  OBVIOUS
<1>3. DeadlockCycles(p, q, order) =
        {c \in {CycleFrom(wait, a) : a \in DOMAIN wait} :
            Cardinality(c) >= 2 /\ ~(\E a, b \in c : c = {a, b} /\ Swap(p, q, a, b))}
  BY DEF DeadlockCycles
<1> HIDE DEF wait
<1>1. DOMAIN wait = {a \in DOMAIN p : q[a] # p[a] /\ \E b \in DOMAIN p : p[b] = q[a]}
  <2>1. DOMAIN wait = Wanting(p, q)
    BY <1>w, BlockersAre
  <2> QED BY <2>1 DEF Wanting
<1>2. \A a \in DOMAIN wait : wait[a] \in DOMAIN p /\ p[wait[a]] = q[a] /\ wait[a] # a
  BY <1>w, BlockersAre
<1>4. N \in Nat /\ IsFiniteSet(Vehicle)
  BY GridAssumption, FS_CardinalityType
<1>5. \A a \in DOMAIN wait : a \in Vehicle /\ wait[a] \in Vehicle
  BY <1>1, <1>2
<1>6. ASSUME NEW start \in DOMAIN wait, CycleFrom(wait, start) # {}
      PROVE  LET c == CycleFrom(wait, start)
             IN /\ ClosedUnder(wait, c)
                /\ \A t \in SUBSET c : t # {} /\ ClosedUnder(wait, t) => t = c
  <2>1. PICK f, first, last : /\ Loops(wait, start, N, f, first, last)
                              /\ CycleFrom(wait, start) = CycleIn(wait, f, first, last)
    BY <1>5, WalkLoops
  <2> HIDE DEF N
  <2> QED BY <1>4, <1>6, <2>1, CycleCloses
<1>7. ASSUME NEW c \in DeadlockCycles(p, q, order) PROVE c \in SUBSET DOMAIN p /\ Ring(p, q, c)
  <2>1. PICK start \in DOMAIN wait : c = CycleFrom(wait, start)
    BY <1>3, <1>7
  <2>2. Cardinality(c) >= 2 /\ ~(\E a, b \in c : c = {a, b} /\ Swap(p, q, a, b))
    BY <1>3, <1>7
  <2>3. c # {}
    BY <2>2, FS_EmptySet
  <2>4. ClosedUnder(wait, c) /\ \A t \in SUBSET c : t # {} /\ ClosedUnder(wait, t) => t = c
    BY <1>6, <2>1, <2>3
  <2>5. \A a \in c : a \in DOMAIN wait /\ wait[a] \in c
    BY <2>4 DEF ClosedUnder
  <2>6. c \subseteq DOMAIN p
    BY <1>1, <2>5
  <2>7. Cardinality(c) >= 3
    <3>1. PICK x \in c : TRUE
      BY <2>3
    <3> DEFINE y == wait[x]
    <3>2. y \in c /\ y # x /\ p[y] = q[x]
      BY <1>2, <2>5
    <3>3. \E z \in c : z # x /\ z # y
      <4> SUFFICES ASSUME c = {x, y} PROVE FALSE
        BY <3>2
      <4>1. wait[y] = x /\ p[x] = q[y]
        BY <1>2, <2>5, <3>2
      <4>2. Swap(p, q, x, y)
        <5>1. p[x] # p[y]
          BY <2>6, <3>2 DEF Alone
        <5> QED BY <3>2, <4>1, <5>1 DEF Swap
      <4> QED BY <2>2, <3>2, <4>2
    <3>4. IsFiniteSet(c)
      BY <1>4, <2>6, FS_Subset
    <3> HIDE DEF y
    <3> QED BY <3>2, <3>3, <3>4, ThreeAreThree
  <2>8. ASSUME NEW t \in (SUBSET c) \ {{}, c} PROVE \E a \in t : \A b \in t : q[a] # p[b]
    <3> SUFFICES ASSUME \A a \in t : \E b \in t : q[a] = p[b] PROVE FALSE
      OBVIOUS
    <3>1. ASSUME NEW a \in t PROVE a \in DOMAIN wait /\ wait[a] \in t
      <4>1. PICK b \in t : q[a] = p[b]
        OBVIOUS
      <4>2. a \in DOMAIN wait /\ p[wait[a]] = q[a] /\ wait[a] \in DOMAIN p
        BY <1>2, <2>5
      <4>3. wait[a] = b
        BY <2>6, <4>1, <4>2 DEF Alone
      <4> QED BY <4>2, <4>3
    <3>2. ClosedUnder(wait, t)
      BY <3>1 DEF ClosedUnder
    <3> QED BY <2>4, <3>2
  <2>9. \A a \in c : q[a] # p[a] /\ \E b \in c : q[a] = p[b]
    BY <1>1, <1>2, <2>5
  <2> QED BY <2>6, <2>7, <2>8, <2>9 DEF Ring
<1>8. ASSUME NEW s \in SUBSET DOMAIN p, Ring(p, q, s) PROVE s \in DeadlockCycles(p, q, order)
  <2>1. /\ Cardinality(s) >= 3
        /\ \A a \in s : q[a] # p[a] /\ \E b \in s : q[a] = p[b]
        /\ \A t \in (SUBSET s) \ {{}, s} : \E a \in t : \A b \in t : q[a] # p[b]
    BY <1>8 DEF Ring
  <2>2. ClosedUnder(wait, s)
    <3> SUFFICES ASSUME NEW a \in s PROVE a \in DOMAIN wait /\ wait[a] \in s
      BY DEF ClosedUnder
    <3>1. PICK b \in s : q[a] = p[b]
      BY <2>1
    <3>2. a \in DOMAIN wait
      BY <1>1, <2>1, <3>1
    <3>3. wait[a] \in DOMAIN p /\ p[wait[a]] = p[b]
      BY <1>2, <3>1, <3>2
    <3> QED BY <3>1, <3>2, <3>3 DEF Alone
  <2>3. PICK start \in s : start \in DOMAIN wait
    <3>1. s # {}
      <4> SUFFICES ASSUME s = {} PROVE FALSE
        OBVIOUS
      <4>1. Cardinality(s) = 0
        BY FS_EmptySet
      <4> QED BY <2>1, <4>1
    <3> QED BY <2>2, <3>1 DEF ClosedUnder
  <2>4. PICK f, first, last : /\ Loops(wait, start, N, f, first, last)
                              /\ CycleFrom(wait, start) = CycleIn(wait, f, first, last)
    BY <1>5, <2>3, WalkLoops
  <2> DEFINE c == CycleFrom(wait, start)
  <2>5. \A i \in 0 .. N : f[i] \in s
    <3> HIDE DEF N
    <3> QED BY <1>4, <2>2, <2>3, <2>4, WalkStays DEF Loops
  <2>6. c # {} /\ c \subseteq s
    <3> HIDE DEF N
    <3>1. first \in Nat /\ last \in Nat /\ first < last /\ last <= N
      BY <1>4, <2>4 DEF Loops
    <3>2. f[last] \in DOMAIN wait
      BY <1>4, <2>2, <2>5, <3>1 DEF ClosedUnder
    <3>3. c = {f[i] : i \in first .. last - 1}
      BY <2>4, <3>2 DEF CycleIn
    <3>4. first \in first .. last - 1 /\ first .. last - 1 \subseteq 0 .. N
      BY <1>4, <3>1
    <3> HIDE DEF c
    <3> QED BY <2>5, <3>3, <3>4
  <2>7. ClosedUnder(wait, c)
    BY <1>6, <2>3, <2>6
  <2>8. c = s
    <3> SUFFICES ASSUME c # s PROVE FALSE
      OBVIOUS
    <3> HIDE DEF c
    <3>1. PICK a \in c : \A b \in c : q[a] # p[b]
      BY <2>1, <2>6
    <3>2. a \in DOMAIN wait /\ wait[a] \in c
      BY <2>7 DEF ClosedUnder
    <3> QED BY <1>2, <3>1, <3>2
  <2>9. ~(\E a, b \in s : s = {a, b} /\ Swap(p, q, a, b))
    <3> SUFFICES ASSUME NEW a, NEW b, s = {a, b} PROVE FALSE
      OBVIOUS
    <3>1. Cardinality(s) <= 2 /\ Cardinality(s) \in Nat
      BY <1>4, TwoAreTwo, FS_Subset, FS_CardinalityType
    <3> QED BY <2>1, <3>1
  <2>10. s \in {CycleFrom(wait, a) : a \in DOMAIN wait} /\ Cardinality(s) >= 2
    <3>1. Cardinality(s) \in Nat
      BY <1>4, FS_Subset, FS_CardinalityType
    <3> QED BY <2>1, <2>3, <2>8, <3>1
  <2> QED BY <1>3, <2>9, <2>10
<1> QED BY <1>7, <1>8

\* A deadlock is reported exactly when a ring of vehicles waits for itself, for
\* every fleet and every set of paths.  (discrete_event.py,
\* _detect_deadlock_cycles)
THEOREM DeadlockIsCycleHolds == Spec => []DeadlockIsCycle
<1>1. Control /\ Reading /\ Simulated => DeadlockIsCycle
  <2> SUFFICES ASSUME Control, Reading, Simulated, sim.stage = "grid",
                      \A a, b \in DOMAIN sim.at : a # b => sim.at[a] # sim.at[b]
               PROVE  (DeadlockCycles(sim.at, sim.next, case.grid.order) # {})
                        <=> \E s \in SUBSET DOMAIN sim.at : Ring(sim.at, sim.next, s)
    BY Zenon DEF DeadlockIsCycle, Ring
  <2>1. DOMAIN sim.at \subseteq Vehicle
    <3>1. Track(sim.positions, sim.paths) /\ sim.at = At(sim.index)
      BY DEF Simulated, GridSoFar
    <3> QED BY <3>1 DEF Track, At, PositionsForStep
  <2>2. case.grid.order \in [Vehicle -> Int]
    <3>1. thread["sim"] # "none"
      BY DEF Simulated, NoSim
    <3>2. pc # "idle"
      BY <3>1 DEF Control, Early, Validator
    <3>3. case \in Case
      BY <3>2 DEF Reading
    <3> QED BY <3>3, WorldAssumption
  <2> QED BY <2>1, <2>2, CyclesAreRings DEF Alone
<1> QED BY <1>1, ControlHolds, ReadingHolds, SimulatedHolds, PTL
=============================================================================
