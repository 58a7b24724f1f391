---------------------------- MODULE ModbusCodec ----------------------------
(***************************************************************************)
(* The conversions between engineering values and Modbus registers, shared *)
(* by the PLC adapter (pcag/apps/plc_adapter/service.py), the direct       *)
(* Modbus executor (pcag/plugins/executor/modbus_executor.py) and the      *)
(* direct Modbus sensor (pcag/plugins/sensor/modbus_sensor.py).            *)
(*                                                                         *)
(* An engineering value and a scale are fixed-point numbers in thousandths *)
(* (the code rounds every decoded value to three decimals); a register is  *)
(* an integer, 16 bits wide on the device.                                 *)
(***************************************************************************)
EXTENDS Integers, Sequences, FiniteSets, SequencesExt

Word == 2^16
One  == 1000            \* the value 1.0

IsSeq(s) == s \in Seq(ToSet(s))

\* Python's round(n / d): ties go to the even neighbour.
RoundDiv(n, d) ==
    LET q == n \div d
        r == 2 * (n % d)
    IN  IF r < d \/ (r = d /\ q % 2 = 0) THEN q ELSE q + 1

\* Python's int(n / d): truncation towards zero.
TruncDiv(n, d) == IF n >= 0 THEN n \div d ELSE -((-n) \div d)

\* struct.pack(">f") and unpack: two words that hold the value between them.
FloatWords(v) == <<v \div Word, v % Word>>
FloatOf(ws)   == ws[1] * Word + ws[2]

(***************************************************************************)
(* A sensor mapping m is a record [field, reg, type, scale]; float32 takes *)
(* two registers, every other type one.                                    *)
(***************************************************************************)
RegisterCount(m) == IF m.type = "float32" THEN 2 ELSE 1

EncodeValueToRegisters(v, m) ==
    LET scaled == RoundDiv(v, IF m.scale = 0 THEN One ELSE m.scale)
    IN  IF m.type = "float32" THEN FloatWords(v)
        ELSE <<IF m.type = "int16" /\ scaled < 0 THEN Word + scaled ELSE scaled>>

DecodeRegisters(ws, m) ==
    LET value == IF m.type = "int16" /\ ws[1] > 32767 THEN ws[1] - Word ELSE ws[1]
    IN  IF m.type = "float32" THEN FloatOf(ws) ELSE value * m.scale

(***************************************************************************)
(* Actions.  A low-level action is a write [reg, vals]; Raise stands for   *)
(* an action whose translation raises ValueError.  A high-level action is  *)
(* a record [type, params] and is looked up in mappings, a function from   *)
(* action types to sequences of [param, reg, scale].                       *)
(***************************************************************************)
Raise == [reg |-> -1, vals |-> <<>>]
IsLowLevel(action) == "reg" \in DOMAIN action

Translate(action, mappings) ==
    LET maps == IF action.type \in DOMAIN mappings THEN mappings[action.type] ELSE <<>>
    IN  IF maps = <<>> \/ \E m \in ToSet(maps) : m.param \notin DOMAIN action.params
        THEN <<Raise>>
        ELSE [i \in DOMAIN maps |->
                [reg  |-> maps[i].reg,
                 vals |-> <<TruncDiv(action.params[maps[i].param] * maps[i].scale, One * One)>>]]

NormalizeAction(action, mappings) ==
    IF IsLowLevel(action) THEN <<action>> ELSE Translate(action, mappings)

\* The low-level actions of a whole action sequence, in the order they run.
Program(actions, mappings) ==
    FlattenSeq([i \in DOMAIN actions |-> NormalizeAction(actions[i], mappings)])

(***************************************************************************)
(* Register files.                                                         *)
(***************************************************************************)
Covers(w, r) == r - w.reg + 1 \in DOMAIN w.vals

\* One write_register or write_registers request.
ApplyWrite(file, w) ==
    [r \in DOMAIN file |-> IF Covers(w, r) THEN w.vals[r - w.reg + 1] ELSE file[r]]

\* A whole program, in order: of the writes to a register the last one counts.
Overlay(file, prog) ==
    [r \in DOMAIN file |->
        LET writes == {i \in DOMAIN prog : Covers(prog[i], r)}
        IN  IF writes = {} THEN file[r] ELSE ApplyWrite(file, prog[Max(writes)])[r]]

\* The client library refuses to pack a value that does not fit a register.
FitsWords(w) == \A i \in DOMAIN w.vals : w.vals[i] \in 0 .. Word - 1

RegistersOf(file, m) == [i \in 1 .. RegisterCount(m) |-> file[m.reg + i - 1]]

\* What the device sends back for m: it keeps the registers of live itself.
DeviceWords(file, live, m) ==
    [i \in 1 .. RegisterCount(m) |->
        LET r == m.reg + i - 1 IN IF r \in DOMAIN live THEN live[r] ELSE file[r]]

\* No register of m is one of S.
Avoids(m, S) == \A i \in 1 .. RegisterCount(m) : m.reg + i - 1 \notin S

\* The mapping that decides field f of a snapshot: the last one of that field.
MappingOf(mappings, f) == Max({i \in DOMAIN mappings : mappings[i].field = f})

Fields(mappings) == {m.field : m \in ToSet(mappings)}

Snapshot(file, mappings) ==
    [f \in Fields(mappings) |->
        LET m == mappings[MappingOf(mappings, f)]
        IN  DecodeRegisters(RegistersOf(file, m), m)]

\* The snapshot made of the words that were read for each mapping.
Decoded(words, mappings) ==
    [f \in Fields(mappings) |->
        LET i == MappingOf(mappings, f) IN DecodeRegisters(words[i], mappings[i])]
=============================================================================
