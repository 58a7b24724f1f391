----------------------------- MODULE Integrity -----------------------------
(***************************************************************************)
(* pcag/core/services/integrity_service.py: what the gateway checks of a   *)
(* proof package at [110], before it calls the Safety Cluster.  Values and *)
(* snapshots are those of SafetyRules.                                     *)
(***************************************************************************)
EXTENDS SafetyRules

MaxFuture == 5000    \* ms a proof may be ahead of the gateway's clock

Abs(n) == IF n < 0 THEN -n ELSE n

\* One threshold: an absolute difference, a percentage of the proof's value
\* (none of which is allowed at zero), or equality of other values.
Diverges(threshold, old, new) ==
    IF ~old.num \/ ~new.num THEN old # new
    ELSE LET diff == Abs(new.v - old.v)
         IN IF threshold.method = "absolute" THEN diff > threshold.limit
            ELSE IF old.v = 0 THEN diff > 0
            ELSE diff * 100 > threshold.limit * Abs(old.v)

\* A missing reading fails as well.
DivergenceFails(threshold, old, new) ==
    \/ ~Has(old, threshold.field) \/ ~Has(new, threshold.field)
    \/ Diverges(threshold, old[threshold.field], new[threshold.field])

\* The reason code, or "ok".  A hash of length 0 is absent.
CheckIntegrity(proof, active, hash, age, maxAge, thresholds, sensor) ==
    IF proof.policy # active THEN "INTEGRITY_POLICY_MISMATCH"
    ELSE IF proof.hash # <<>> /\ proof.hash # hash THEN "INTEGRITY_SENSOR_HASH_MISMATCH"
    ELSE IF age > maxAge THEN "INTEGRITY_TIMESTAMP_EXPIRED"
    ELSE IF age < -MaxFuture THEN "INTEGRITY_TIMESTAMP_FUTURE"
    ELSE IF \E t \in thresholds : DivergenceFails(t, proof.snapshot, sensor)
    THEN "INTEGRITY_SENSOR_DIVERGENCE"
    ELSE "ok"
=============================================================================
