---------------------------- MODULE MCExecutors ----------------------------
(***************************************************************************)
(* An instance of Executors for TLC: one executor of any type, serving a1  *)
(* (with safe-state actions) and a2 (without); no executor serves a3.      *)
(***************************************************************************)
EXTENDS Executors, TLC

CONSTANTS a1, a2, a3, e1

MCExecutorOf == a1 :> e1 @@ a2 :> e1 @@ a3 :> NoExecutor

Heat(v) == [type |-> "heat", params |-> ("value" :> v @@ "rate" :> 1000)]
HeatMappings ==
    "heat" :> <<[param |-> "value", reg |-> 1, scale |-> 1000],
                [param |-> "rate", reg |-> 2, scale |-> 1000]>>
MCActionMappings == [a \in Asset |-> HeatMappings]
MCSafeActions ==
    [a \in Asset |->
        IF a = a1 THEN <<[reg |-> 1, vals |-> <<0>>], [reg |-> 2, vals |-> <<9>>]>> ELSE <<>>]

\* Two mapped actions; a value that does not fit after one that does; an
\* action without a mapping; an action in low-level form; no action at all.
MCActionSequences ==
    [a \in Asset |->
        IF a = a1
        THEN {<<>>, <<Heat(2000), Heat(3000)>>, <<Heat(2000), Heat(-1000)>>,
              <<[type |-> "none", params |-> <<>>]>>, <<[reg |-> 1, vals |-> <<4>>]>>}
        ELSE {}]

Symmetry == Permutations(Thread)
=============================================================================
