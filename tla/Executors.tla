----------------------------- MODULE Executors -----------------------------
(***************************************************************************)
(* The executors of the OT Interface: the registry of                      *)
(* pcag/apps/ot_interface/executor_manager.py and the three plugins of     *)
(* pcag/plugins/executor behind IExecutor (pcag/core/ports/executor.py).   *)
(*                                                                         *)
(* COMMIT, ABORT and E-STOP handlers call get_executor and then execute or *)
(* safe_state from concurrent worker threads.  Neither the registry nor a  *)
(* plugin has a lock, so one instance serves several calls at a time.      *)
(***************************************************************************)
EXTENDS ModbusCodec

CONSTANTS
    Thread, NoThread,
    Asset,
    Executor,        \* keys of "executors" in executor_mappings.yaml
    NoExecutor,      \* an asset that asset_map does not list
    ExecutorOf,      \* asset_map
    ActionMappings, SafeActions, ActionSequences,   \* per asset, as in PlcAdapter
    Faults           \* bound: the faults that happen in an instance

ASSUME ExecutorAssumption ==
    /\ NoThread \notin Thread
    /\ NoExecutor \notin Executor
    /\ ExecutorOf \in [Asset -> Executor \cup {NoExecutor}]
    /\ Faults \subseteq {"config", "connect", "io", "timeout"}

\* Requests and mapping files carry lists.
ASSUME ListAssumption ==
    \A a \in Asset :
        /\ IsSeq(SafeActions[a]) /\ \A s \in ActionSequences[a] : IsSeq(s)
        /\ \A t \in DOMAIN ActionMappings[a] : IsSeq(ActionMappings[a][t])

VARIABLES
    typeOf,     \* the cached configuration: the type of every executor
    production, \* PCAG_ENV = production
    registry,   \* ExecutorManager._instances: an instance, 0 when none
    instances,  \* instances[e]: its objects, [ready, connected, lastError]
    pc,
    call,       \* [op, asset, actions] of the call a thread makes
    mine,       \* the instance a thread was handed or is creating
    todo,       \* actions not finished yet
    low,        \* low-level writes of the current action not sent yet
    result,     \* what the call returned: "true", "false" or "raised"
    reason,     \* whose error the handler reads from last_error afterwards
    acked,      \* history: writes of this call the device acknowledged
    raced,      \* history: executors two threads created at the same time
    shared      \* history: another call ran on the thread's instance meanwhile

envVars  == <<typeOf, production>>
poolVars == <<registry, instances, raced>>
callVars == <<call, mine, todo, low, result, reason, acked, shared>>
vars == <<envVars, poolVars, pc, callVars>>

NoCall == [op |-> "none", asset |-> NoExecutor, actions |-> <<>>]
Calls ==
    UNION {{[op |-> "execute", asset |-> a, actions |-> s] : s \in ActionSequences[a]}
             \cup {[op |-> "safe_state", asset |-> a, actions |-> SafeActions[a]]} : a \in Asset}

Types == {"plc_adapter", "modbus", "mock", "other"}

Init ==
    /\ typeOf \in [Executor -> Types]
    /\ production \in BOOLEAN
    /\ registry = [e \in Executor |-> 0]
    /\ instances = [e \in Executor |-> <<>>]
    /\ raced = {}
    /\ pc = [th \in Thread |-> "idle"]
    /\ call = [th \in Thread |-> NoCall]
    /\ mine = [th \in Thread |-> 0]
    /\ todo = [th \in Thread |-> <<>>]
    /\ low = [th \in Thread |-> <<>>]
    /\ result = [th \in Thread |-> "none"]
    /\ reason = [th \in Thread |-> NoThread]
    /\ acked = [th \in Thread |-> <<>>]
    /\ shared = [th \in Thread |-> FALSE]

Goto(th, p) == pc' = [pc EXCEPT ![th] = p]
Name(th) == ExecutorOf[call[th].asset]
Type(th) == typeOf[Name(th)]
SetError(th, e) == instances' = [instances EXCEPT ![Name(th)][mine[th]].lastError = e]

\* The call returns; a handler that got False then reads last_error.
Finish(th, r) ==
    /\ Goto(th, IF r = "false" THEN "reason" ELSE "done")
    /\ result' = [result EXCEPT ![th] = r]
    /\ todo' = [todo EXCEPT ![th] = <<>>]
    /\ low' = [low EXCEPT ![th] = <<>>]
    /\ UNCHANGED <<call, mine, reason, acked, shared>>

-----------------------------------------------------------------------------
(***************************************************************************)
(* ExecutorManager.get_executor: look up, create, initialize, publish.     *)
(***************************************************************************)
InUse(th) == pc[th] \in {"ensure", "connect", "next", "write", "reason"}

\* The thread starts to work on instance i of e: it and the others there overlap.
Share(th, e, i) ==
    LET others == {o \in Thread \ {th} : InUse(o) /\ Name(o) = e /\ mine[o] = i}
    IN  shared' = [o \in Thread |->
            IF o = th THEN others # {} ELSE shared[o] \/ o \in others]

\* The first step reads only the configuration and the registry.
GetExecutor(th) ==
    /\ pc[th] = "idle"
    /\ \E c \in Calls :
        LET e == ExecutorOf[c.asset] IN
        /\ call' = [call EXCEPT ![th] = c]
        /\ todo' = [todo EXCEPT ![th] = c.actions]
        /\ CASE e = NoExecutor ->
                  /\ Goto(th, "done") /\ result' = [result EXCEPT ![th] = "raised"]
                  /\ UNCHANGED <<mine, shared>>
             [] e # NoExecutor /\ registry[e] # 0 ->
                  /\ Goto(th, "ensure") /\ mine' = [mine EXCEPT ![th] = registry[e]]
                  /\ Share(th, e, registry[e])
                  /\ UNCHANGED result
             [] OTHER ->
                  /\ Goto(th, "create")
                  /\ UNCHANGED <<mine, shared, result>>
    /\ UNCHANGED <<poolVars, low, reason, acked>>

NewInstance == [ready |-> FALSE, connected |-> FALSE, lastError |-> NoThread]
Freed == NewInstance

\* Where the next object goes: the place of one that was freed, or the end.
Place(e) ==
    LET used == {mine[o] : o \in {x \in Thread : pc[x] = "initialize" /\ Name(x) = e}}
        free == {i \in DOMAIN instances[e] : instances[e][i] = Freed /\ i \notin used}
                   \cup {Len(instances[e]) + 1}
    IN  CHOOSE i \in free : TRUE

\* Somebody else has created this executor, or is about to.
Racing(th) ==
    \/ registry[Name(th)] # 0
    \/ \E o \in Thread \ {th} : pc[o] \in {"initialize", "publish"} /\ Name(o) = Name(th)

\* Mutant: the instance is in the registry before it is initialized.
Create_PublishesEarly(th) ==
    /\ pc[th] = "create"
    /\ \/ /\ Type(th) = "other" \/ (Type(th) = "mock" /\ production)
          /\ Finish(th, "raised")
          /\ UNCHANGED poolVars
       \/ /\ Type(th) \in {"plc_adapter", "modbus"} \/ (Type(th) = "mock" /\ ~production)
          /\ instances' = [instances EXCEPT ![Name(th)] =
                [i \in DOMAIN @ \cup {Place(Name(th))} |->
                    IF i = Place(Name(th)) THEN NewInstance ELSE @[i]]]
          /\ mine' = [mine EXCEPT ![th] = Place(Name(th))]
          /\ raced' = IF Racing(th) THEN raced \cup {Name(th)} ELSE raced
          /\ Goto(th, "initialize")
          /\ registry' = [registry EXCEPT ![Name(th)] = Place(Name(th))]
          /\ UNCHANGED <<call, todo, low, result, reason, acked, shared>>

\* executor = PLCAdapterExecutor() ...; a mock is refused in production.
Create(th) ==
    /\ pc[th] = "create"
    /\ \/ /\ Type(th) = "other" \/ (Type(th) = "mock" /\ production)
          /\ Finish(th, "raised")
          /\ UNCHANGED poolVars
       \/ /\ Type(th) \in {"plc_adapter", "modbus"} \/ (Type(th) = "mock" /\ ~production)
          /\ instances' = [instances EXCEPT ![Name(th)] =
                [i \in DOMAIN @ \cup {Place(Name(th))} |->
                    IF i = Place(Name(th)) THEN NewInstance ELSE @[i]]]
          /\ mine' = [mine EXCEPT ![th] = Place(Name(th))]
          /\ raced' = IF Racing(th) THEN raced \cup {Name(th)} ELSE raced
          /\ Goto(th, "initialize")
          /\ UNCHANGED <<registry, call, todo, low, result, reason, acked, shared>>

\* executor.initialize(econfig): the Modbus plugin connects and keeps quiet
\* when that fails; the PLC adapter client raises without its URL.
Initialize(th) ==
    /\ pc[th] = "initialize"
    /\ \/ \E up \in BOOLEAN :
            /\ ~up => Type(th) # "modbus" \/ "connect" \in Faults
            /\ instances' = [instances EXCEPT ![Name(th)][mine[th]] =
                   [ready |-> TRUE, connected |-> up /\ Type(th) = "modbus",
                    lastError |-> NoThread]]
            /\ Goto(th, "publish")
            /\ UNCHANGED callVars
       \/ /\ Type(th) = "plc_adapter" /\ "config" \in Faults
          /\ instances' = [instances EXCEPT ![Name(th)][mine[th]] = Freed]
          /\ Finish(th, "raised")
    /\ UNCHANGED <<registry, raced>>

Publish(th) ==
    /\ pc[th] = "publish"
    /\ registry' = [registry EXCEPT ![Name(th)] = mine[th]]
    /\ Share(th, Name(th), mine[th])
    /\ Goto(th, "ensure")
    /\ UNCHANGED <<instances, raced, call, mine, todo, low, result, reason, acked>>

-----------------------------------------------------------------------------
(***************************************************************************)
(* MockExecutor and PLCAdapterExecutor: one step each.  What the adapter   *)
(* promises for one request is AtomicPlc.                                  *)
(***************************************************************************)
MockCall(th) ==
    /\ pc[th] = "ensure" /\ Type(th) = "mock"
    /\ SetError(th, NoThread)
    /\ Finish(th, "true")
    /\ UNCHANGED <<registry, raced>>

RemoteProgram(th) ==
    LET a == call[th].asset IN Program(call[th].actions, ActionMappings[a])

RemoteCall(th) ==
    LET prog == RemoteProgram(th)
        good == /\ call[th].op = "execute" \/ call[th].actions # <<>>
                /\ \A i \in DOMAIN prog : prog[i] # Raise /\ FitsWords(prog[i])
    IN  /\ pc[th] = "ensure" /\ Type(th) = "plc_adapter"
        /\ \/ /\ good
              /\ SetError(th, NoThread)
              /\ Goto(th, "done")
              /\ result' = [result EXCEPT ![th] = "true"]
              /\ acked' = [acked EXCEPT ![th] = prog]
              /\ todo' = [todo EXCEPT ![th] = <<>>]
              /\ UNCHANGED <<call, mine, low, reason, shared>>
           \/ /\ ~good \/ "io" \in Faults
              /\ SetError(th, th)
              /\ Finish(th, "false")
           \/ /\ "timeout" \in Faults
              /\ SetError(th, NoThread)
              /\ Finish(th, "raised")
        /\ UNCHANGED <<registry, raced>>

-----------------------------------------------------------------------------
(***************************************************************************)
(* ModbusExecutor                                                          *)
(***************************************************************************)
\* safe_state without configured actions raises; otherwise both entry points
\* run execute, which clears last_error and makes sure there is a connection.
Ensure(th) ==
    /\ pc[th] = "ensure" /\ Type(th) = "modbus"
    /\ \/ /\ call[th].op = "safe_state" /\ call[th].actions = <<>>
          /\ SetError(th, th)
          /\ Finish(th, "raised")
       \/ /\ call[th].op = "execute" \/ call[th].actions # <<>>
          /\ SetError(th, NoThread)
          /\ Goto(th, IF instances[Name(th)][mine[th]].connected THEN "next" ELSE "connect")
          /\ UNCHANGED callVars
    /\ UNCHANGED <<registry, raced>>

Connect(th) ==
    /\ pc[th] = "connect"
    /\ \/ /\ instances' = [instances EXCEPT ![Name(th)][mine[th]].connected = TRUE,
                                            ![Name(th)][mine[th]].lastError = NoThread]
          /\ Goto(th, "next")
          /\ UNCHANGED callVars
       \/ /\ "connect" \in Faults
          /\ instances' = [instances EXCEPT ![Name(th)][mine[th]].connected = FALSE,
                                            ![Name(th)][mine[th]].lastError = th]
          /\ Finish(th, "false")
    /\ UNCHANGED <<registry, raced>>

\* The head of the loop over action_sequence.
NextAction(th) ==
    LET a    == call[th].asset
        lows == NormalizeAction(Head(todo[th]), ActionMappings[a])
    IN  /\ pc[th] = "next"
        /\ \/ /\ todo[th] = <<>>
              /\ Finish(th, "true")
              /\ UNCHANGED instances
           \/ /\ todo[th] # <<>> /\ lows = <<Raise>>
              /\ SetError(th, th)
              /\ Finish(th, "false")
           \/ /\ todo[th] # <<>> /\ lows # <<Raise>>
              /\ low' = [low EXCEPT ![th] = lows]
              /\ Goto(th, "write")
              /\ UNCHANGED <<instances, call, mine, todo, result, reason, acked, shared>>
        /\ UNCHANGED <<registry, raced>>

\* The current action is finished: go on with the next one.
ActionDone(th) ==
    /\ todo' = [todo EXCEPT ![th] = Tail(@)]
    /\ low' = [low EXCEPT ![th] = <<>>]
    /\ Goto(th, "next")

WriteSucceeds(th) ==
    LET w == Head(low[th]) IN
    /\ pc[th] = "write" /\ FitsWords(w)
    /\ acked' = [acked EXCEPT ![th] = Append(@, w)]
    /\ SetError(th, NoThread)
    /\ \/ /\ Len(low[th]) > 1
          /\ low' = [low EXCEPT ![th] = Tail(@)]
          /\ UNCHANGED <<pc, todo>>
       \/ /\ Len(low[th]) = 1
          /\ ActionDone(th)
    /\ UNCHANGED <<registry, raced, call, mine, result, reason, shared>>

\* Mutant: the loop does not break at a failed write.
WriteFails_GoesOn(th) ==
    LET w == Head(low[th]) IN
    /\ pc[th] = "write"
    /\ ~FitsWords(w) \/ "io" \in Faults
    /\ SetError(th, th)
    /\ ActionDone(th)
    /\ UNCHANGED <<registry, raced, call, mine, result, reason, acked, shared>>

\* _execute_single_action returns False.  For a translated action the loop
\* breaks; for an action that came in low-level form nothing looks at it.
WriteFails(th) ==
    LET w == Head(low[th]) IN
    /\ pc[th] = "write"
    /\ ~FitsWords(w) \/ "io" \in Faults
    /\ SetError(th, th)
    /\ \/ /\ ~IsLowLevel(Head(todo[th]))
          /\ Finish(th, "false")
       \/ /\ IsLowLevel(Head(todo[th]))
          /\ ActionDone(th)
          /\ UNCHANGED <<call, mine, result, reason, acked, shared>>
    /\ UNCHANGED <<registry, raced>>

-----------------------------------------------------------------------------
\* failure_reason = getattr(executor, "last_error", None)
ReadReason(th) ==
    /\ pc[th] = "reason"
    /\ reason' = [reason EXCEPT ![th] = instances[Name(th)][mine[th]].lastError]
    /\ Goto(th, "done")
    /\ UNCHANGED <<poolVars, call, mine, todo, low, result, acked, shared>>

\* Nobody reads last_error before the next call clears it: forget it once the
\* object is idle.
Return(th) ==
    /\ pc[th] = "done"
    /\ Goto(th, "idle")
    /\ call' = [call EXCEPT ![th] = NoCall]
    /\ mine' = [mine EXCEPT ![th] = 0]
    /\ todo' = [todo EXCEPT ![th] = <<>>]
    /\ result' = [result EXCEPT ![th] = "none"]
    /\ reason' = [reason EXCEPT ![th] = NoThread]
    /\ acked' = [acked EXCEPT ![th] = <<>>]
    /\ shared' = [shared EXCEPT ![th] = FALSE]
    /\ \/ /\ mine[th] # 0 /\ ~\E o \in Thread \ {th} : InUse(o) /\ Name(o) = Name(th)
          /\ SetError(th, NoThread)
       \/ /\ mine[th] = 0 \/ \E o \in Thread \ {th} : InUse(o) /\ Name(o) = Name(th)
          /\ UNCHANGED instances
    /\ UNCHANGED <<registry, raced, low>>

\* ExecutorManager.reset() when the service stops, with no request running;
\* the service then starts again and loads its configuration anew.
Reset ==
    /\ \A th \in Thread : pc[th] = "idle"
    /\ registry' = [e \in Executor |-> 0]
    /\ instances' = [e \in Executor |-> <<>>]
    /\ raced' = {}
    /\ typeOf' \in [Executor -> Types]
    /\ UNCHANGED <<production, pc, callVars>>

Step(th) ==
    \/ Create(th) \/ Initialize(th) \/ Publish(th)
    \/ MockCall(th) \/ RemoteCall(th)
    \/ Ensure(th) \/ Connect(th) \/ NextAction(th) \/ WriteSucceeds(th) \/ WriteFails(th)
    \/ ReadReason(th)

Next ==
    \/ Reset
    \/ \E th \in Thread :
        /\ GetExecutor(th) \/ Step(th) \/ Return(th)
        /\ UNCHANGED envVars

Spec == Init /\ [][Next]_vars

-----------------------------------------------------------------------------
(***************************************************************************)
(* Properties                                                              *)
(***************************************************************************)
\* The registry and the threads only know objects that exist; get_executor
\* hands out only instances whose initialize has returned, also to a thread
\* that finds one while another thread is still creating its own; and an
\* executor has a second live instance, one that reset() will never shut down,
\* only when two threads created it at the same time.
InstancesAccounted ==
    /\ \A e \in Executor : registry[e] \in 0 .. Len(instances[e])
    /\ \A th \in Thread : InUse(th) =>
          /\ mine[th] \in DOMAIN instances[Name(th)]
          /\ instances[Name(th)][mine[th]].ready
    /\ \A e \in Executor : \A i \in DOMAIN instances[e] :
          instances[e][i].ready /\ registry[e] # i =>
              \/ e \in raced
              \/ \E th \in Thread : pc[th] = "publish" /\ Name(th) = e /\ mine[th] = i

Translated(th) == \A i \in DOMAIN call[th].actions : ~IsLowLevel(call[th].actions[i])
Physical(th) == Name(th) # NoExecutor /\ Type(th) # "mock"

\* What a call reports is what it did.  For ModbusExecutor.execute with
\* high-level actions, and PLCAdapterExecutor with any, the writes the device
\* acknowledged are a prefix of the translated list, and True is returned only
\* when they are the whole list; the reason a handler gives for a failed call
\* is that call's own error, unless another call ran on the same executor
\* object meanwhile: last_error is one field for all of them.
OutcomeIsReported ==
    \A th \in Thread :
        /\ pc[th] \notin {"idle", "create"} /\ Physical(th)
             /\ (Translated(th) \/ Type(th) = "plc_adapter") =>
              LET prog == RemoteProgram(th) IN
              /\ IsPrefix(acked[th], prog)
              /\ result[th] = "true" => acked[th] = prog
        /\ pc[th] = "done" /\ result[th] = "false" /\ ~shared[th] => reason[th] = th
=============================================================================
