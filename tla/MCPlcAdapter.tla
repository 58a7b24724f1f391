---------------------------- MODULE MCPlcAdapter ---------------------------
(***************************************************************************)
(* An instance of PlcAdapter for TLC: two assets on one connection, as in  *)
(* config/*.yaml; a1 has all its mappings, a2 only the one of its actions. *)
(***************************************************************************)
EXTENDS PlcAdapter, TLC

CONSTANTS a1, a2, c1

MCAsset == {a1, a2}
MCConnOf == [a \in MCAsset |-> c1]
MCSensorMappings ==
    a1 :> <<[field |-> "temp", reg |-> 1, type |-> "int16", scale |-> 100],
            [field |-> "level", reg |-> 2, type |-> "float32", scale |-> 1000]>>
    @@ a2 :> <<>>
MCActionMappings ==
    a1 :> ("heat" :> <<[param |-> "value", reg |-> 1, scale |-> 10000]>>)
    @@ a2 :> ("heat" :> <<[param |-> "value", reg |-> 1, scale |-> 10000]>>)
WriteLevel == [reg |-> 2, vals |-> <<1, 2>>]
MCSafeActions == a1 :> <<>> @@ a2 :> <<WriteLevel>>

\* The temperature drifts to the value the heating action writes and back.
MCReadings == {[r \in {1} |-> 0], [r \in {1} |-> 157]}

Heat(v) == [type |-> "heat", params |-> ("value" :> v)]

\* A two-register write and a mapped action; an action without its
\* parameter; and on a2 a value that does not fit a register.
MCActionSequences ==
    a1 :> {<<WriteLevel, Heat(1570)>>, <<[type |-> "heat", params |-> <<>>]>>}
    @@ a2 :> {<<Heat(-1000)>>}

\* The lowest 16-bit value reached by rounding a tie, a two-register value,
\* and a field that only the overlay has.
MCPreloads ==
    a1 :> {[state   |-> ("temp" :> -3276850 @@ "level" :> Word + 7),
            overlay |-> ("mode" :> 5)]}
    @@ a2 :> {}
=============================================================================
