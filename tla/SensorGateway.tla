--------------------------- MODULE SensorGateway ---------------------------
(***************************************************************************)
(* The Sensor Gateway: the routing of CompositeSensorSource                *)
(* (pcag/apps/sensor_gateway/routes.py), the sources behind it             *)
(* (pcag/plugins/sensor) and the hash the gateway compares.                *)
(*                                                                         *)
(* A hash is modelled by the text that is hashed, canonicalize of the      *)
(* payload.  c is a request: c.route its asset's entry in                  *)
(* sensor_mappings.yaml, c.raw what the source has.                        *)
(***************************************************************************)
EXTENDS SafetyRules, SequencesExt

CONSTANTS
    JointFields,      \* joint_0 .. joint_6 and the fingers, in order
    VelocityFields,   \* joint_0_velocity ..., in order
    EffortFields,     \* joint_0_effort ..., in order
    Grain             \* a thousandth, in the unit of the numbers

ASSUME JointAssumption == {JointFields, VelocityFields, EffortFields} \subseteq Seq(STRING)

ASSUME GrainAssumption == Grain \in Nat \ {0}

List(s)   == [num |-> FALSE, list |-> TRUE, v |-> s]
IsList(x) == "list" \in DOMAIN x

\* The source of an asset; an entry that names none needs mappings.
Routed(route) ==
    IF route.source \in {"isaac", "mock", "modbus"} THEN route.source
    ELSE IF route.mapped THEN "modbus" ELSE "none"

\* The source is created on the first request; one mock asset in production
\* makes that fail, for every asset.
SourceMissing(c) ==
    \/ c.production /\ (c.mockInUse \/ c.route.source = "mock")
    \/ Routed(c.route) = "none"

\* The entries of a list as fields of their own; entries beyond the names of
\* the joints stay in the list only.
Spread(names, data, list) ==
    IF ~Has(data, list) THEN <<>>
    ELSE LET n == Min({Len(names), Len(data[list].v)})
         IN [f \in {names[i] : i \in 1..n} |->
                Num(data[list].v[CHOOSE i \in 1..n : names[i] = f])]

Merge(f, g) == [x \in DOMAIN f \cup DOMAIN g |-> IF x \in DOMAIN f THEN f[x] ELSE g[x]]

\* IsaacSimSensorSource adds the fields and drops the time-stamp; the other
\* sources hand on what they read.
ReadSnapshot(c, raw) ==
    IF Routed(c.route) # "isaac" THEN raw
    ELSE Merge(Spread(JointFields, raw, "joint_positions"),
           Merge(Spread(VelocityFields, raw, "joint_velocities"),
             Merge(Spread(EffortFields, raw, "joint_efforts"),
                   Restrict(raw, DOMAIN raw \ {"timestamp"}))))

\* _get_current_state of the worker without its time-stamp, and what the source
\* adds to it.
WorkerFields == {"joint_positions", "joint_velocities", "joint_efforts", "ee_position",
                 "runtime_id", "scene_path"}
StateFields  == WorkerFields \cup ToSet(JointFields) \cup ToSet(VelocityFields)
                             \cup ToSet(EffortFields)

\* No reading: an error response, or an empty simulator state.
ReadRaises(c) ==
    \/ ~c.readable
    \/ Routed(c.route) = "isaac" /\ DOMAIN c.raw \ {"timestamp"} = {}

\* __integrity_hash_payload: the fields of a simulator state that stand still.
IntegrityBasis(snapshot) ==
    Restrict(snapshot, DOMAIN snapshot \cap
        (ToSet(JointFields) \cup {"joint_positions", "runtime_id", "scene_path"}))

\* round(x, 3) of a number that is not negative, in thousandths: the nearest,
\* and the even one of two that are equally near.
Thousandths(n) ==
    LET q == n \div Grain
        r == n % Grain
    IN IF 2 * r > Grain \/ (2 * r = Grain /\ q % 2 = 1) THEN q + 1 ELSE q

\* A number as canonicalize writes it: the sign stays when the rest rounds to
\* zero ("-0.000").
Decimal(n) == [minus |-> n < 0, thousandths |-> Thousandths(IF n < 0 THEN -n ELSE n)]

\* Every number is taken for a float, lists are written entry by entry.
Canonicalize(x) ==
    IF x.num THEN [num |-> TRUE, v |-> Decimal(x.v)]
    ELSE IF IsList(x) THEN List([i \in DOMAIN x.v |-> Decimal(x.v[i])])
    ELSE x

ComputeSensorHash(payload) == [f \in DOMAIN payload |-> Canonicalize(payload[f])]

\* Mutant: the payload of the simulator is used for every source.
SnapshotHash_AnySource(c, snapshot) == ComputeSensorHash(IntegrityBasis(snapshot))

\* get_latest_snapshot: the hash of the payload, or of everything when there is
\* none.
SnapshotHash(c, snapshot) ==
    ComputeSensorHash(
        IF Routed(c.route) = "isaac" /\ DOMAIN IntegrityBasis(snapshot) # {}
        THEN IntegrityBasis(snapshot) ELSE snapshot)
=============================================================================
