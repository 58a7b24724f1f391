---------------------------- MODULE SafetyRules ----------------------------
(***************************************************************************)
(* The deterministic validators of the Safety Cluster and the decision on  *)
(* their verdicts: pcag/core/services/rules_validator.py,                  *)
(* cbf_validator.py and consensus_engine.py, as operators.                 *)
(*                                                                         *)
(* A value is a number or a text; numbers are integers in some unit.  A    *)
(* snapshot, or the dict of an action, is a function from (dotted) field   *)
(* names to values; a field outside its domain is missing.  An optional    *)
(* value is a sequence of length at most one.                              *)
(***************************************************************************)
EXTENDS Integers, Sequences, FiniteSets, FiniteSetsExt

Num(n)  == [num |-> TRUE, v |-> n]
Text(n) == [num |-> FALSE, v |-> n]

Has(source, field) == field \in DOMAIN source

-----------------------------------------------------------------------------
(* validate_rules *)

\* _compare_values finds no mismatch.  Order between unlike values is a
\* TypeError, which is a mismatch.
Compare(a, op, e) ==
    LET ordered == e # <<>> /\ e[1].num = a.num
    IN CASE op = "lt"  -> ordered /\ a.v < e[1].v
         [] op = "lte" -> ordered /\ a.v <= e[1].v
         [] op = "gt"  -> ordered /\ a.v > e[1].v
         [] op = "gte" -> ordered /\ a.v >= e[1].v
         [] op = "eq"  -> <<a>> = e
         [] op = "ne"  -> <<a>> # e

\* Every condition holds in one source: the combination is there.
Combination(rule, source) ==
    \A i \in DOMAIN rule.conds :
        LET c == rule.conds[i]
        IN Has(source, c.field) /\ Compare(source[c.field], c.op, <<c.value>>)

HasConditions(rule) == rule.type = "forbidden_combination" /\ rule.conds # <<>>

\* _check_rule_logic gives a reason.
Breaks(value, rule) ==
    CASE rule.type = "threshold" ->
            ~Compare(value, IF rule.op = "" THEN "eq" ELSE rule.op, rule.limit)
      [] rule.type = "range" ->
            \/ rule.min # <<>> /\ (~value.num \/ value.v < rule.min[1])
            \/ rule.max # <<>> /\ (~value.num \/ value.v > rule.max[1])
      [] rule.type = "enum" -> value \notin rule.allowed
      [] OTHER -> value \in rule.pairs

\* _evaluate_source finds a violation.
EvaluateSource(rule, source) ==
    IF HasConditions(rule)
    THEN Combination(rule, source)
    ELSE Has(source, rule.field) /\ Breaks(source[rule.field], rule)

\* The places a rule is applied to: the snapshot, and params and the fields
\* of every action.
Sources(sensor, actions) ==
    {sensor} \cup {actions[i].params : i \in DOMAIN actions}
             \cup {actions[i].fields : i \in DOMAIN actions}

ValidateRules(sensor, actions, ruleset) ==
    LET sources == Sources(sensor, actions)
        violated(rule) ==
            \/ \E s \in sources : EvaluateSource(rule, s)
            \/ /\ rule.type # "forbidden_combination"
               /\ \A s \in sources : ~Has(s, rule.field)
    IN IF \E i \in DOMAIN ruleset : violated(ruleset[i]) THEN "UNSAFE" ELSE "SAFE"

-----------------------------------------------------------------------------
(* StaticCBFValidator *)

NegInf == -10000    \* -float('inf')

Operator(rule) == IF rule.op = "" THEN "lte" ELSE rule.op

\* _compute_barriers raises on this rule: an incomplete threshold or range,
\* or a limit that cannot be subtracted from.
BarrierRaises(rule, state) ==
    /\ Has(state, rule.field) /\ state[rule.field].num
    /\ \/ /\ rule.type = "threshold"
          /\ \/ rule.limit = <<>>
             \/ ~rule.limit[1].num /\ Operator(rule) \in {"lt", "lte", "gt", "gte"}
       \/ rule.type = "range" /\ (rule.min = <<>> \/ rule.max = <<>>)

\* h(x) of one rule, <<>> where the code computes none.
Barrier(rule, state) ==
    IF ~Has(state, rule.field) \/ ~state[rule.field].num THEN <<NegInf>>
    ELSE LET x == state[rule.field].v
         IN CASE rule.type = "threshold" /\ Operator(rule) \in {"lt", "lte"} ->
                    <<rule.limit[1].v - x>>
              [] rule.type = "threshold" /\ Operator(rule) \in {"gt", "gte"} ->
                    <<x - rule.limit[1].v>>
              [] rule.type = "range" -> <<Min({x - rule.min[1], rule.max[1] - x})>>
              [] OTHER -> <<>>

\* The dict is keyed by rule_id: of two rules with one id the later counts.
ComputeBarriers(state, ruleset) ==
    {Barrier(ruleset[i], state)[1] :
        i \in {k \in DOMAIN ruleset :
                  /\ Barrier(ruleset[k], state) # <<>>
                  /\ \A m \in DOMAIN ruleset :
                        m > k /\ ruleset[m].id = ruleset[k].id
                          => Barrier(ruleset[m], state) = <<>>}}

\* _create_projected_state: the mappings through which an action sets a field;
\* the last one wins.
Setting(action, mappings, f) ==
    {m \in DOMAIN mappings : /\ mappings[m].type = action.type /\ mappings[m].field = f
                             /\ Has(action.params, mappings[m].param)}
SetTo(action, mappings, f) == action.params[mappings[Max(Setting(action, mappings, f))].param]

\* The snapshot after the first n actions of the sequence: a field has the value
\* the last action that sets it gave it.
Projected(sensor, actions, mappings, n) ==
    LET setters(f) == {i \in 1..n : Setting(actions[i], mappings, f) # {}}
        mapped     == {mappings[m].field : m \in DOMAIN mappings}
    IN [f \in DOMAIN sensor \cup {g \in mapped : setters(g) # {}} |->
            IF setters(f) = {} THEN sensor[f] ELSE SetTo(actions[Max(setters(f))], mappings, f)]

\* The snapshot, and the state after each action of the sequence.
ProjectedStates(sensor, actions, mappings) ==
    [n \in 0..Len(actions) |-> Projected(sensor, actions, mappings, n)]

\* "RAISED" stands for the RuntimeError or TypeError.
ValidateSafety(sensor, actions, ruleset, mappings) ==
    LET states   == ProjectedStates(sensor, actions, mappings)
        barriers == UNION {ComputeBarriers(states[i], ruleset) : i \in DOMAIN states}
    IN IF ruleset = <<>> THEN "INDETERMINATE"
       ELSE IF \E i \in DOMAIN states, k \in DOMAIN ruleset :
                  BarrierRaises(ruleset[k], states[i])
       THEN "RAISED"
       ELSE IF barriers # {} /\ \A h \in barriers : h >= 0 THEN "SAFE" ELSE "UNSAFE"

-----------------------------------------------------------------------------
(* evaluate_consensus.  Weights and thresholds are in hundredths. *)

\* In hundredths.  A missing key weighs nothing; other: the sum of the weights
\* under keys that name no validator.
DefaultWeights == [rules |-> 40, cbf |-> 35, sim |-> 25, other |-> 0]

\* Mutant: SIL 3 is treated like SIL 2.
EffectiveMode_Sil3Weighted(mode, sil) ==
    IF mode # "AUTO" THEN mode
    ELSE CASE sil >= 4 -> "AND" [] sil \in 2..3 -> "WEIGHTED" [] OTHER -> "WORST_CASE"

EffectiveMode(mode, sil) ==
    IF mode # "AUTO" THEN mode
    ELSE CASE sil >= 3 -> "AND" [] sil = 2 -> "WEIGHTED" [] OTHER -> "WORST_CASE"

Counts(weights, k, v) == IF v[k] = "SAFE" THEN weights[k] ELSE 0

\* Mutant: what is left of the weights is shared out equally.
Score_EqualShares(weights, renormalize, v) ==
    IF renormalize THEN <<Cardinality({k \in {"rules", "cbf"} : v[k] = "SAFE"}), 2>>
    ELSE <<Counts(weights, "rules", v) + Counts(weights, "cbf", v) + Counts(weights, "sim", v), 100>>

\* The score as a fraction.  RENORMALIZE drops "sim" and divides what is
\* left by its sum, unless that is not positive.
Score(weights, renormalize, v) ==
    LET remaining == weights.rules + weights.cbf + weights.other
        score     == Counts(weights, "rules", v) + Counts(weights, "cbf", v)
    IN IF renormalize THEN <<score, IF remaining > 0 THEN remaining ELSE 100>>
       ELSE <<score + Counts(weights, "sim", v), 100>>

\* v: the verdicts of "rules", "cbf" and "sim".
EvaluateConsensus(sil, config, v) ==
    LET mode  == EffectiveMode(config.mode, sil)
        score == Score(IF config.weights = <<>> THEN DefaultWeights ELSE config.weights,
                       v.sim = "INDETERMINATE" /\ config.onSim = "RENORMALIZE", v)
        safe  == IF mode = "WEIGHTED" THEN 100 * score[1] >= config.threshold * score[2]
                 ELSE \A k \in DOMAIN v : v[k] = "SAFE"
    IN IF safe THEN "SAFE" ELSE "UNSAFE"
=============================================================================
