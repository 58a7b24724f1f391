----------------------------- MODULE PlcAdapter ----------------------------
(***************************************************************************)
(* The PLC adapter: pcag/apps/plc_adapter/service.py behind the plain      *)
(* "def" routes of routes.py, which run concurrently in worker threads.    *)
(*                                                                         *)
(* A request for an asset that has a preloaded virtual runtime works on    *)
(* that runtime's register image, without any lock.  Every other request   *)
(* goes to the device: it takes the connection's lock, connects when       *)
(* needed, runs its list, and on any exception drops the connection,       *)
(* reconnects and runs the whole list once more.                           *)
(*                                                                         *)
(* The device changes some of its registers by itself, at any moment: the  *)
(* sensor registers.  A read of several mappings is one request per        *)
(* mapping and may see them change in between.                             *)
(*                                                                         *)
(* Assumptions on the device: it answers one request with the registers of *)
(* one moment, and a request it receives on a connection is carried out    *)
(* before it accepts requests of a later connection.                       *)
(***************************************************************************)
EXTENDS ModbusCodec

CONSTANTS
    Thread,          \* worker threads
    NoThread,
    Asset,
    Conn,            \* "host:port" keys of the configured connections
    SensorAsset,     \* assets with a modbus entry in sensor_mappings.yaml
    ExecAsset,       \* assets with a modbus entry in executor_mappings.yaml
    SensorConn,      \* SensorConn[a], ExecConn[a]: connection keys
    ExecConn,
    SensorMappings,  \* SensorMappings[a]: sequence of sensor mappings
    ActionMappings,  \* ActionMappings[a]: action type -> sequence of mappings
    SafeActions,     \* SafeActions[a]: sequence of low-level actions
    ActionSequences, \* ActionSequences[a]: what execute requests for a carry
    Preloads,        \* Preloads[a]: the [state, overlay] pairs of preload requests
    Reg,             \* registers of a device
    Measured,        \* those the device changes by itself
    Readings,        \* bound: the contents it gives them
    NoRequest,
    MaxPreload,      \* bound: preloads in the life of one process
    Faults           \* bound: the faults that happen in an instance

ASSUME PlcAssumption ==
    /\ NoThread \notin Thread /\ IsFiniteSet(Thread)
    /\ SensorAsset \subseteq Asset /\ ExecAsset \subseteq Asset
    /\ MaxPreload \in Nat
    /\ Readings \subseteq [Measured -> 0 .. Word - 1]
    /\ Faults \subseteq {"connect", "io", "lost", "crash"}

VARIABLES
    regs,        \* regs[c]: what requests have left in the holding registers
    live,        \* live[c]: what the registers the device changes hold now
    connected,   \* ManagedModbusConnection.connected
    client,      \* ManagedModbusConnection.client is not None
    lastError,   \* ManagedModbusConnection.last_error is not None
    holder,      \* the thread that holds ManagedModbusConnection.lock
    current,     \* _virtual_assets: the runtime of an asset, 0 when none
    runtimes,    \* runtime objects created so far: [image, overlay]
    pc, req, ans,
    todo,        \* low-level actions, or registers, still to do
    got,         \* register words read so far
    attempt,     \* 1, or 2 after a reconnect
    rt,          \* the runtime object a thread has a reference to
    word,        \* next word of a virtual write_registers
    base,        \* history: the registers when the lock was taken
    lastFailed,  \* history: the last operation on the connection failed
    started,     \* history: the runtime image a write request found
    mixed        \* history: another thread touched the asset's runtime meanwhile

connVars    == <<regs, live, connected, client, lastError, holder>>
virtualVars == <<current, runtimes>>
localVars   == <<todo, got, attempt, rt, word>>
callVars    == <<pc, req, ans, localVars>>
historyVars == <<base, lastFailed, started, mixed>>
vars == <<connVars, virtualVars, callVars, historyVars>>

-----------------------------------------------------------------------------
(***************************************************************************)
(* Requests.  req[th] is [op, asset, conn, prog, maps, init]: prog is the  *)
(* program of a write, maps the mappings of a read or a preload, init what *)
(* a preload carries.                                                      *)
(***************************************************************************)
EmptyInit == [state |-> <<>>, overlay |-> <<>>]

ReadRequest(a) ==
    [op |-> "read", asset |-> a, conn |-> SensorConn[a], prog |-> <<>>,
     maps |-> SensorMappings[a], init |-> EmptyInit]
ExecuteRequest(a, actions) ==
    [op |-> "execute", asset |-> a, conn |-> ExecConn[a],
     prog |-> Program(actions, ActionMappings[a]), maps |-> <<>>, init |-> EmptyInit]
SafeStateRequest(a) ==
    [op |-> "safe_state", asset |-> a, conn |-> ExecConn[a],
     prog |-> SafeActions[a], maps |-> <<>>, init |-> EmptyInit]
PreloadRequest(a, p) ==
    [op |-> "preload", asset |-> a, conn |-> SensorConn[a], prog |-> <<>>,
     maps |-> SensorMappings[a], init |-> p]

Requests ==
    UNION {{ReadRequest(a), SafeStateRequest(a)}
             \cup {ExecuteRequest(a, s) : s \in ActionSequences[a]}
             \cup {PreloadRequest(a, p) : p \in Preloads[a]} : a \in Asset}

IsWrite(r) == r.op \in {"execute", "safe_state"}

Answer(s, v, snap) == [status |-> s, virtual |-> v, snapshot |-> snap]
NoAnswer == Answer("none", FALSE, <<>>)

\* The early exits: no mapping (KeyError, 404), no safe-state actions (500).
Refusal(r) ==
    IF \/ r.op \in {"read", "preload"} /\ r.asset \notin SensorAsset
       \/ r.op \in {"execute", "safe_state", "preload"} /\ r.asset \notin ExecAsset
    THEN "http_404"
    ELSE IF r.op = "safe_state" /\ r.prog = <<>> THEN "http_500" ELSE "none"

\* A request carries lists, and what is not refused has a connection: initialize
\* makes one for every asset of the two mapping files.
ASSUME RequestAssumption ==
    /\ NoRequest \notin Requests
    /\ \A r \in Requests :
        /\ IsSeq(r.prog) /\ IsSeq(r.maps)
        /\ Refusal(r) = "none" => r.conn \in Conn

\* The mapping files give a field one entry, an entry registers of its own and
\* a scale, and a translated action at least one word to write.
Registers(m) == m.reg .. m.reg + RegisterCount(m) - 1

ASSUME MappingAssumption ==
    /\ Reg \subseteq Int
    /\ \A r \in Requests :
        /\ \A w \in ToSet(r.prog) \ {Raise} : w.reg \in Int /\ IsSeq(w.vals) /\ w.vals # <<>>
        /\ r.op = "preload" /\ Refusal(r) = "none" =>
            \A i \in DOMAIN r.maps :
                LET m == r.maps[i] IN
                /\ m.reg \in Int /\ m.scale \in Nat \ {0} /\ Registers(m) \subseteq Reg
                /\ m.field \in DOMAIN r.init.state => r.init.state[m.field] \in Int
                /\ \A j \in DOMAIN r.maps \ {i} :
                    /\ r.maps[j].field # m.field
                    /\ Registers(r.maps[j]) \cap Registers(m) = {}

\* How a failure leaves the route: success = False, or an HTTP error.
FailStatus(r) == IF IsWrite(r) THEN "failed" ELSE "http_500"

ZeroRegs == [r \in Reg |-> 0]
NoRuntime == [image |-> ZeroRegs, overlay |-> <<>>]
Image(a) == IF current[a] = 0 THEN ZeroRegs ELSE runtimes[current[a]].image

Init ==
    /\ regs = [c \in Conn |-> ZeroRegs]
    /\ live \in [Conn -> Readings]
    /\ connected = [c \in Conn |-> FALSE]
    /\ client = [c \in Conn |-> FALSE]
    /\ lastError = [c \in Conn |-> FALSE]
    /\ holder = [c \in Conn |-> NoThread]
    /\ current = [a \in Asset |-> 0]
    /\ runtimes = <<>>
    /\ pc = [th \in Thread |-> "idle"]
    /\ req = [th \in Thread |-> NoRequest]
    /\ ans = [th \in Thread |-> NoAnswer]
    /\ todo = [th \in Thread |-> <<>>]
    /\ got = [th \in Thread |-> <<>>]
    /\ attempt = [th \in Thread |-> 1]
    /\ rt = [th \in Thread |-> 0]
    /\ word = [th \in Thread |-> 1]
    /\ base = [c \in Conn |-> ZeroRegs]
    /\ lastFailed = [c \in Conn |-> FALSE]
    /\ started = [th \in Thread |-> ZeroRegs]
    /\ mixed = [th \in Thread |-> FALSE]

Goto(th, p) == pc' = [pc EXCEPT ![th] = p]

Reply(th, a) ==
    /\ Goto(th, "done")
    /\ ans' = [ans EXCEPT ![th] = a]
    /\ todo' = [todo EXCEPT ![th] = <<>>]
    /\ got' = [got EXCEPT ![th] = <<>>]
    /\ attempt' = [attempt EXCEPT ![th] = 1]
    /\ word' = [word EXCEPT ![th] = 1]
    /\ UNCHANGED req

\* What a read still has to fetch: the registers of every mapping, in order.
ReadList(maps) ==
    FlattenSeq([i \in DOMAIN maps |->
        [k \in 1 .. RegisterCount(maps[i]) |-> maps[i].reg + k - 1]])

\* Preloads published or accepted in the life of this process.
PreloadsUsed ==
    Len(runtimes) + Cardinality({o \in Thread : pc[o] = "preload"})

\* virtual_runtime = self._virtual_assets.get(asset_id): the one look that
\* decides where a request goes.
Route(r) ==
    CASE Refusal(r) # "none" -> "done"
      [] Refusal(r) = "none" /\ r.op = "preload" -> "preload"
      [] OTHER -> IF current[r.asset] = 0 THEN "lock"
                  ELSE IF IsWrite(r) THEN "v_write" ELSE "v_fetch"

WorkList(r) == IF IsWrite(r) THEN r.prog ELSE r.maps

\* A request arrives.  Everything up to the look at _virtual_assets, the
\* early exits included, reads only the configuration: one step.
Request(th) ==
    /\ pc[th] = "idle"
    /\ \E r \in Requests :
        /\ r.op = "preload" => PreloadsUsed < MaxPreload
        /\ req' = [req EXCEPT ![th] = r]
        /\ started' = [started EXCEPT ![th] = IF IsWrite(r) THEN Image(r.asset) ELSE ZeroRegs]
        /\ todo' = [todo EXCEPT ![th] = IF Refusal(r) = "none" THEN WorkList(r) ELSE <<>>]
        /\ ans' = [ans EXCEPT ![th] = IF Refusal(r) = "none" THEN NoAnswer
                                      ELSE Answer(Refusal(r), FALSE, <<>>)]
        /\ Goto(th, Route(r))
    /\ UNCHANGED <<connVars, virtualVars, got, attempt, rt, word, base, lastFailed, mixed>>

Return(th) ==
    /\ pc[th] = "done"
    /\ Goto(th, "idle")
    /\ req' = [req EXCEPT ![th] = NoRequest]
    /\ ans' = [ans EXCEPT ![th] = NoAnswer]
    /\ started' = [started EXCEPT ![th] = ZeroRegs]
    /\ mixed' = [mixed EXCEPT ![th] = FALSE]
    /\ UNCHANGED <<connVars, virtualVars, localVars, base, lastFailed>>

-----------------------------------------------------------------------------
(***************************************************************************)
(* _run_with_recovery                                                      *)
(***************************************************************************)
\* Mutant: operations on one connection are not serialised.
Acquire_NoLock(th) ==
    LET c == req[th].conn IN
    /\ pc[th] = "lock"
    /\ holder' = [holder EXCEPT ![c] = th]
    /\ base' = [base EXCEPT ![c] = regs[c]]
    /\ Goto(th, IF connected[c] /\ client[c] THEN "run" ELSE "connect")
    /\ UNCHANGED <<regs, live, connected, client, lastError, virtualVars, req, ans,
                   localVars, lastFailed, started, mixed>>

Acquire(th) ==
    LET c == req[th].conn IN
    /\ pc[th] = "lock"
    /\ holder[c] = NoThread
    /\ holder' = [holder EXCEPT ![c] = th]
    /\ base' = [base EXCEPT ![c] = regs[c]]
    /\ Goto(th, IF connected[c] /\ client[c] THEN "run" ELSE "connect")
    /\ UNCHANGED <<regs, live, connected, client, lastError, virtualVars, req, ans,
                   localVars, lastFailed, started, mixed>>

\* Leave the with-block and answer.
Release(th, failed, a) ==
    LET c == req[th].conn IN
    /\ holder' = [holder EXCEPT ![c] = NoThread]
    /\ base' = [base EXCEPT ![c] = ZeroRegs]
    /\ lastFailed' = [lastFailed EXCEPT ![c] = failed]
    /\ Reply(th, a)
    /\ UNCHANGED <<rt, started, mixed>>

\* Mutant: a reconnect leaves the old error standing.
ConnectSucceeds_KeepsError(th) ==
    LET c == req[th].conn IN
    /\ pc[th] = "connect"
    /\ client' = [client EXCEPT ![c] = TRUE]
    /\ connected' = [connected EXCEPT ![c] = TRUE]
    /\ UNCHANGED lastError
    /\ Goto(th, "run")
    /\ UNCHANGED <<regs, live, holder, virtualVars, req, ans, localVars, historyVars>>

ConnectSucceeds(th) ==
    LET c == req[th].conn IN
    /\ pc[th] = "connect"
    /\ client' = [client EXCEPT ![c] = TRUE]
    /\ connected' = [connected EXCEPT ![c] = TRUE]
    /\ lastError' = [lastError EXCEPT ![c] = FALSE]
    /\ Goto(th, "run")
    /\ UNCHANGED <<regs, live, holder, virtualVars, req, ans, localVars, historyVars>>

ConnectFails(th) ==
    LET c == req[th].conn IN
    /\ pc[th] = "connect"
    /\ "connect" \in Faults
    /\ client' = [client EXCEPT ![c] = TRUE]
    /\ connected' = [connected EXCEPT ![c] = FALSE]
    /\ lastError' = [lastError EXCEPT ![c] = TRUE]
    /\ Release(th, TRUE, Answer(FailStatus(req[th]), FALSE, <<>>))
    /\ UNCHANGED <<regs, live, virtualVars>>

RunDone(th) ==
    LET r == req[th] IN
    /\ pc[th] = "run" /\ todo[th] = <<>>
    /\ Release(th, FALSE, Answer("ok", FALSE, Decoded(got[th], r.maps)))
    /\ UNCHANGED <<regs, live, connected, client, lastError, virtualVars>>

\* The device carries out a write.
Land(c, w) ==
    /\ regs' = [regs EXCEPT ![c] = ApplyWrite(@, w)]
    /\ live' = [live EXCEPT ![c] = ApplyWrite(@, w)]

WriteSucceeds(th) ==
    LET c == req[th].conn IN
    /\ pc[th] = "run" /\ todo[th] # <<>> /\ IsWrite(req[th])
    /\ Head(todo[th]) # Raise /\ FitsWords(Head(todo[th]))
    /\ Land(c, Head(todo[th]))
    /\ todo' = [todo EXCEPT ![th] = Tail(@)]
    /\ UNCHANGED <<connected, client, lastError, holder, virtualVars, pc, req, ans,
                   got, attempt, rt, word, historyVars>>

\* One read_holding_registers request: the registers of one mapping.
ReadSucceeds(th) ==
    LET c == req[th].conn IN
    /\ pc[th] = "run" /\ todo[th] # <<>> /\ ~IsWrite(req[th])
    /\ got' = [got EXCEPT ![th] = Append(@, DeviceWords(regs[c], live[c], Head(todo[th])))]
    /\ todo' = [todo EXCEPT ![th] = Tail(@)]
    /\ UNCHANGED <<connVars, virtualVars, pc, req, ans, attempt, rt, word, historyVars>>

\* Mutant: the retry goes on after the write that failed.
FnRaises_SkipsFailed(th) ==
    LET c == req[th].conn IN
    /\ connected' = [connected EXCEPT ![c] = FALSE]
    /\ lastError' = [lastError EXCEPT ![c] = TRUE]
    /\ client' = [client EXCEPT ![c] = FALSE]
    /\ IF attempt[th] = 1
       THEN /\ Goto(th, "connect")
            /\ attempt' = [attempt EXCEPT ![th] = 2]
            /\ todo' = [todo EXCEPT ![th] = IF IsWrite(req[th]) THEN Tail(@) ELSE WorkList(req[th])]
            /\ got' = [got EXCEPT ![th] = <<>>]
            /\ UNCHANGED <<holder, req, ans, rt, word, historyVars>>
       ELSE Release(th, TRUE, Answer(FailStatus(req[th]), FALSE, <<>>))

\* Mutant: nothing counts the attempts.
FnRaises_RetriesForever(th) ==
    LET c == req[th].conn IN
    /\ connected' = [connected EXCEPT ![c] = FALSE]
    /\ lastError' = [lastError EXCEPT ![c] = TRUE]
    /\ client' = [client EXCEPT ![c] = FALSE]
    /\ IF attempt[th] = 1
       THEN /\ Goto(th, "connect")
            /\ UNCHANGED attempt
            /\ todo' = [todo EXCEPT ![th] = WorkList(req[th])]
            /\ got' = [got EXCEPT ![th] = <<>>]
            /\ UNCHANGED <<holder, req, ans, rt, word, historyVars>>
       ELSE Release(th, TRUE, Answer(FailStatus(req[th]), FALSE, <<>>))

\* _mark_connection_failed, then the reconnect or the end of the operation.
FnRaises(th) ==
    LET c == req[th].conn IN
    /\ connected' = [connected EXCEPT ![c] = FALSE]
    /\ lastError' = [lastError EXCEPT ![c] = TRUE]
    /\ client' = [client EXCEPT ![c] = FALSE]
    /\ IF attempt[th] = 1
       THEN /\ Goto(th, "connect")
            /\ attempt' = [attempt EXCEPT ![th] = 2]
            /\ todo' = [todo EXCEPT ![th] = WorkList(req[th])]
            /\ got' = [got EXCEPT ![th] = <<>>]
            /\ UNCHANGED <<holder, req, ans, rt, word, historyVars>>
       ELSE Release(th, TRUE, Answer(FailStatus(req[th]), FALSE, <<>>))

\* A translation error, a value that does not fit, a lost connection or an
\* error response: nothing reaches the registers.
IoFails(th) ==
    /\ pc[th] = "run" /\ todo[th] # <<>>
    /\ \/ "io" \in Faults
       \/ /\ IsWrite(req[th])
          /\ Head(todo[th]) = Raise \/ ~FitsWords(Head(todo[th]))
    /\ FnRaises(th)
    /\ UNCHANGED <<regs, live, virtualVars>>

\* The device carried the write out and the response was lost.
ResponseLost(th) ==
    LET c == req[th].conn IN
    /\ pc[th] = "run" /\ todo[th] # <<>> /\ IsWrite(req[th])
    /\ "lost" \in Faults
    /\ Head(todo[th]) # Raise /\ FitsWords(Head(todo[th]))
    /\ Land(c, Head(todo[th]))
    /\ FnRaises(th)
    /\ UNCHANGED virtualVars

\* The device gives the registers it changes by itself other contents.
Drift(c) ==
    /\ \E now \in Readings : live' = [live EXCEPT ![c] = now]
    /\ UNCHANGED <<regs, connected, client, lastError, holder,
                   virtualVars, callVars, historyVars>>

-----------------------------------------------------------------------------
(***************************************************************************)
(* The virtual path.  A runtime object stays reachable through the         *)
(* references threads hold after a preload has replaced it.                *)
(***************************************************************************)
\* The others whose request concerns asset a see it change under them.
Touch(th, a) ==
    /\ mixed' = [o \in Thread |->
            mixed[o] \/ (o # th /\ pc[o] # "idle" /\ req[o].asset = a)]
    /\ started' = [o \in Thread |-> IF mixed'[o] THEN ZeroRegs ELSE started[o]]

\* A runtime object that is neither published nor referenced is freed.
Collected(objects) ==
    [i \in DOMAIN objects |->
        IF \/ \E a \in Asset : current'[a] = i
           \/ \E o \in Thread : rt'[o] = i
        THEN objects[i] ELSE NoRuntime]

VirtualReply(th, a) ==
    /\ Reply(th, a)
    /\ rt' = [rt EXCEPT ![th] = 0]
    /\ current' = current
    /\ runtimes' = Collected(runtimes)

VirtualFetch(th) ==
    LET r == req[th] IN
    /\ pc[th] = "v_write" /\ todo[th] # <<>>
    /\ Head(todo[th]) # Raise
    /\ rt' = [rt EXCEPT ![th] = current[r.asset]]
    /\ word' = [word EXCEPT ![th] = 1]
    /\ Goto(th, "v_word")
    /\ UNCHANGED <<connVars, virtualVars, req, ans, todo, got, attempt, historyVars>>

\* Mutant: every word goes to the first register.
VirtualWord_SameRegister(th) ==
    LET w    == Head(todo[th])
        last == word[th] = Len(w.vals)
        r    == w.reg
    IN  /\ pc[th] = "v_word"
        /\ todo' = [todo EXCEPT ![th] = IF last THEN Tail(@) ELSE @]
        /\ word' = [word EXCEPT ![th] = IF last THEN 1 ELSE @ + 1]
        /\ rt' = [rt EXCEPT ![th] = IF last THEN 0 ELSE @]
        /\ Goto(th, IF last THEN "v_write" ELSE "v_word")
        /\ current' = current
        /\ runtimes' = Collected([runtimes EXCEPT ![rt[th]].image[r] = w.vals[word[th]]])
        /\ Touch(th, req[th].asset)
        /\ UNCHANGED <<connVars, req, ans, got, attempt, base, lastFailed>>

\* runtime.register_image[register + offset] = value
VirtualWord(th) ==
    LET w    == Head(todo[th])
        last == word[th] = Len(w.vals)
        r    == w.reg + word[th] - 1
    IN  /\ pc[th] = "v_word"
        /\ todo' = [todo EXCEPT ![th] = IF last THEN Tail(@) ELSE @]
        /\ word' = [word EXCEPT ![th] = IF last THEN 1 ELSE @ + 1]
        /\ rt' = [rt EXCEPT ![th] = IF last THEN 0 ELSE @]
        /\ Goto(th, IF last THEN "v_write" ELSE "v_word")
        /\ current' = current
        /\ runtimes' = Collected([runtimes EXCEPT ![rt[th]].image[r] = w.vals[word[th]]])
        /\ Touch(th, req[th].asset)
        /\ UNCHANGED <<connVars, req, ans, got, attempt, base, lastFailed>>

VirtualWriteEnds(th) ==
    /\ pc[th] = "v_write"
    /\ \/ todo[th] = <<>> /\ VirtualReply(th, Answer("ok", TRUE, <<>>))
       \/ /\ todo[th] # <<>> /\ Head(todo[th]) = Raise
          /\ VirtualReply(th, Answer("failed", TRUE, <<>>))
    /\ UNCHANGED <<connVars, historyVars>>

PreloadImage(r) ==
    [x \in Reg |->
        LET hit == {m \in ToSet(r.maps) : x \in Registers(m)}
            m   == CHOOSE y \in hit : TRUE
            v   == IF m.field \in DOMAIN r.init.state THEN r.init.state[m.field] ELSE 0
        IN  IF hit = {} THEN 0 ELSE EncodeValueToRegisters(v, m)[x - m.reg + 1]]

\* Build the register image, publish the runtime, then read it back.
Preload(th) ==
    LET r == req[th] IN
    /\ pc[th] = "preload"
    /\ current' = [current EXCEPT ![r.asset] = Len(runtimes) + 1]
    /\ rt' = rt
    /\ runtimes' = Collected(Append(runtimes,
                        [image |-> PreloadImage(r), overlay |-> r.init.overlay]))
    /\ Touch(th, r.asset)
    /\ Goto(th, "v_fetch")
    /\ UNCHANGED <<connVars, req, ans, todo, got, attempt, word, base, lastFailed>>

ReadFetch(th) ==
    LET r == req[th] IN
    /\ pc[th] = "v_fetch"
    /\ rt' = [rt EXCEPT ![th] = current[r.asset]]
    /\ todo' = [todo EXCEPT ![th] = ReadList(r.maps)]
    /\ Goto(th, "v_read")
    /\ UNCHANGED <<connVars, virtualVars, req, ans, got, attempt, word, historyVars>>

VirtualReadWord(th) ==
    /\ pc[th] = "v_read" /\ todo[th] # <<>>
    /\ got' = [got EXCEPT ![th] = Append(@, runtimes[rt[th]].image[Head(todo[th])])]
    /\ todo' = [todo EXCEPT ![th] = Tail(@)]
    /\ UNCHANGED <<connVars, virtualVars, pc, req, ans, attempt, rt, word, historyVars>>

\* Decode what was read and merge sensor_state_overlay over it.  (The nested
\* agv_01 copy of two position fields carries nothing new and is left out.)
VirtualReadEnds(th) ==
    LET r        == req[th]
        read     == ReadList(r.maps)
        wordOf(x) == got[th][CHOOSE i \in DOMAIN read : read[i] = x]
        file     == [x \in ToSet(read) |-> wordOf(x)]
        overlay  == runtimes[rt[th]].overlay
        snap     == Snapshot(file, r.maps)
    IN  /\ pc[th] = "v_read" /\ todo[th] = <<>>
        /\ VirtualReply(th, Answer("ok", TRUE, [f \in DOMAIN snap \cup DOMAIN overlay |->
                IF f \in DOMAIN overlay THEN overlay[f] ELSE snap[f]]))
        /\ UNCHANGED <<connVars, historyVars>>

-----------------------------------------------------------------------------
(***************************************************************************)
(* The process dies and starts again: nothing but the device survives.     *)
(***************************************************************************)
Crash ==
    /\ "crash" \in Faults
    /\ UNCHANGED <<regs, live>>
    /\ connected' = [c \in Conn |-> FALSE]
    /\ client' = [c \in Conn |-> FALSE]
    /\ lastError' = [c \in Conn |-> FALSE]
    /\ holder' = [c \in Conn |-> NoThread]
    /\ current' = [a \in Asset |-> 0]
    /\ runtimes' = <<>>
    /\ pc' = [th \in Thread |-> "idle"]
    /\ req' = [th \in Thread |-> NoRequest]
    /\ ans' = [th \in Thread |-> NoAnswer]
    /\ todo' = [th \in Thread |-> <<>>]
    /\ got' = [th \in Thread |-> <<>>]
    /\ attempt' = [th \in Thread |-> 1]
    /\ rt' = [th \in Thread |-> 0]
    /\ word' = [th \in Thread |-> 1]
    /\ base' = [c \in Conn |-> ZeroRegs]
    /\ lastFailed' = [c \in Conn |-> FALSE]
    /\ started' = [th \in Thread |-> ZeroRegs]
    /\ mixed' = [th \in Thread |-> FALSE]

PhysicalStep(th) ==
    \/ ConnectSucceeds(th) \/ ConnectFails(th)
    \/ RunDone(th) \/ WriteSucceeds(th) \/ ReadSucceeds(th)
    \/ IoFails(th) \/ ResponseLost(th)

VirtualStep(th) ==
    \/ VirtualFetch(th) \/ VirtualWord(th) \/ VirtualWriteEnds(th)
    \/ ReadFetch(th) \/ VirtualReadWord(th) \/ VirtualReadEnds(th)

Step(th) ==
    \/ Acquire(th) \/ Preload(th)
    \/ PhysicalStep(th) \/ VirtualStep(th)

Next ==
    \/ Crash
    \/ \E c \in Conn : Drift(c)
    \/ \E th \in Thread : Request(th) \/ Return(th) \/ Step(th)

Spec == Init /\ [][Next]_vars

\* A thread inside _run_with_recovery goes on: every call of the client
\* library returns (it has a timeout).  Nothing is assumed about who gets a
\* contended lock, nor about the virtual path.
HolderStep(c) == \E th \in Thread : holder[c] = th /\ PhysicalStep(th)
FairSpec == Spec /\ \A c \in Conn : WF_vars(HolderStep(c))

-----------------------------------------------------------------------------
(***************************************************************************)
(* Properties                                                              *)
(***************************************************************************)
\* The status get_health reports; it reads the fields without the lock.
Health ==
    IF Conn = {} /\ \A a \in Asset : current[a] = 0 THEN "ERROR"
    ELSE IF \E c \in Conn : lastError[c] THEN "DEGRADED" ELSE "OK"

Pc == {"idle", "preload", "lock", "connect", "run", "v_write", "v_word",
       "v_fetch", "v_read", "done"}

\* The variables keep their types: a device register is always a 16-bit
\* word, and a lock is held only by a thread in the middle of an operation
\* on that connection.
TypeOK ==
    /\ regs \in [Conn -> [Reg -> 0 .. Word - 1]]
    /\ live \in [Conn -> [Measured -> 0 .. Word - 1]]
    /\ connected \in [Conn -> BOOLEAN] /\ client \in [Conn -> BOOLEAN]
    /\ lastError \in [Conn -> BOOLEAN] /\ lastFailed \in [Conn -> BOOLEAN]
    /\ holder \in [Conn -> Thread \cup {NoThread}]
    /\ current \in [Asset -> 0 .. Len(runtimes)]
    /\ Len(runtimes) <= MaxPreload
    /\ pc \in [Thread -> Pc]
    /\ req \in [Thread -> Requests \cup {NoRequest}]
    /\ attempt \in [Thread -> {1, 2}]
    /\ \A c \in Conn, th \in Thread :
        holder[c] = th <=> pc[th] \in {"connect", "run"} /\ req[th].conn = c

\* What a thread that does not hold the lock can see of the device.
VisibleRegs == [c \in Conn |-> IF holder[c] = NoThread THEN regs[c] ELSE base[c]]
\* The words a read under way has been sent.
Sensed == [th \in Thread |-> IF pc[th] = "run" /\ ~IsWrite(req[th]) THEN got[th] ELSE <<>>]
Abstract == INSTANCE AtomicPlc WITH
    plc <- VisibleRegs, request <- req, answer <- ans, sensed <- Sensed

\* _run_with_recovery, with its lock, its write-by-write progress, its lost
\* responses and its retry of the whole list, implements a device on which
\* the writes of a request happen in one step, and whose snapshots are made of
\* words the device sent during this request, one moment per mapping: only
\* the fields the device does not change are all of one moment (AtomicPlc).
ImplementsAtomicPlc == Abstract!Spec

\* get_health reports a connection as broken exactly when the last finished
\* operation on it failed, and a broken connection is one the next operation
\* will reconnect: the flags of _connect and _mark_connection_failed agree
\* with the answers callers got, whatever was retried in between.
HealthTellsLastOutcome ==
    (\A c \in Conn : holder[c] = NoThread) =>
        /\ Health = "DEGRADED" <=> \E c \in Conn : lastFailed[c]
        /\ \A c \in Conn : lastFailed[c] => ~connected[c]

\* v is a value the mapping's register type can hold.
Representable(v, m) ==
    m.type = "int16" => RoundDiv(v, m.scale) \in -(Word \div 2) .. (Word \div 2) - 1

\* preload_runtime answers with the state it was given: an overlaid field as
\* it is, a register field as the nearest value the register's scale can
\* express, through encoding and decoding.
ReadsBack(r, seen) ==
    LET given == r.init.state
        over  == r.init.overlay
    IN  /\ \A f \in DOMAIN over : seen[f] = over[f]
        /\ \A m \in ToSet(r.maps) :
            LET v   == IF m.field \in DOMAIN given THEN given[m.field] ELSE 0
                err == seen[m.field] - v
                eps == IF m.type = "float32" THEN 0 ELSE m.scale
            IN  m.field \notin DOMAIN over /\ Representable(v, m)
                  => 2 * err \in -eps .. eps

\* A request to a virtual asset does what it answers: the writes of
\* execute_actions and safe_state land in the runtime a later read finds, all
\* of them, and a preload reads back what it stored, unless a preload or
\* another writer of the same asset came in between.
VirtualAnswersHold ==
    \A th \in Thread :
        pc[th] = "done" /\ ~mixed[th] /\ ans[th].status = "ok" =>
            /\ IsWrite(req[th]) /\ ans[th].virtual =>
                 Image(req[th].asset) = Overlay(started[th], req[th].prog)
            /\ req[th].op = "preload" => ReadsBack(req[th], ans[th].snapshot)

\* A lock that _run_with_recovery takes is given back: no path through the
\* connect, retry and error handling keeps it.
LockIsFreed ==
    \A c \in Conn : holder[c] # NoThread ~> holder[c] = NoThread
=============================================================================
