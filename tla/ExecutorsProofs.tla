-------------------------- MODULE ExecutorsProofs --------------------------
(***************************************************************************)
(* Theorems about the executor registry, which has no lock: which objects  *)
(* a thread can be handed, when an object is lost, and what a handler is   *)
(* told, for any number of threads, assets, executors and actions.         *)
(*                                                                         *)
(* The argument: an object is not ready until its creator has initialized  *)
(* it, so a free place for a new object is one that nobody was handed; and *)
(* two threads that work on one object have both noted the other.  For     *)
(* what a call reports: the acknowledged writes are those of the actions   *)
(* that are finished and of a first part of the current one, by induction  *)
(* over the action sequence (DataInduction).                               *)
(***************************************************************************)
EXTENDS Executors, DataInduction

InstanceType == [ready : BOOLEAN, connected : BOOLEAN, lastError : Thread \cup {NoThread}]
Work == {"ensure", "connect", "next", "write", "reason"}
Building == {"initialize", "publish"}
Places == Work \cup Building \cup {"idle", "create", "done"}

TypesOK ==
    /\ registry \in [Executor -> Nat]
    /\ instances \in [Executor -> Seq(InstanceType)]
    /\ pc \in [Thread -> Places]
    /\ call \in [Thread -> Calls \cup {NoCall}]
    /\ mine \in [Thread -> Nat]
    /\ result \in [Thread -> {"none", "true", "false", "raised"}]
    /\ reason \in [Thread -> Thread \cup {NoThread}]
    /\ shared \in [Thread -> BOOLEAN]

Object(th) == instances[Name(th)][mine[th]]

\* A thread holds an object that exists; it is ready exactly from the end of
\* initialize on; and a failure it is about to report is its own.
Known(th) ==
    /\ pc[th] # "idle" => call[th].asset \in Asset
    /\ pc[th] \in {"idle", "create"} => mine[th] = 0
    /\ pc[th] = "create" => Name(th) \in Executor
    /\ pc[th] \in Work \cup Building \/ (pc[th] = "done" /\ mine[th] # 0) =>
          Name(th) \in Executor /\ mine[th] \in DOMAIN instances[Name(th)]
    /\ pc[th] = "initialize" => ~Object(th).ready
    /\ pc[th] \in Work \cup {"publish"} => Object(th).ready
    /\ pc[th] \notin {"reason", "done"} => result[th] # "false"
    /\ pc[th] = "reason" /\ ~shared[th] => Object(th).lastError = th
    /\ pc[th] = "done" /\ result[th] = "false" /\ ~shared[th] => reason[th] = th

\* The registry holds ready objects; a ready one outside it is being published
\* or was lost in a race.
Pool(e) ==
    /\ registry[e] \in 0 .. Len(instances[e])
    /\ registry[e] # 0 => instances[e][registry[e]].ready
    /\ \A i \in DOMAIN instances[e] :
          instances[e][i].ready /\ registry[e] # i =>
              \/ e \in raced
              \/ \E th \in Thread : pc[th] = "publish" /\ Name(th) = e /\ mine[th] = i

\* A creator that is not alone is on record.
Late(th) == pc[th] \in Building => registry[Name(th)] = 0 \/ Name(th) \in raced

\* Two creators of one executor raced; two objects under construction are two
\* objects; and two calls on one object have both noted it.
Apart(th, o) ==
    /\ pc[th] \in Building /\ pc[o] \in Building /\ Name(th) = Name(o) => Name(th) \in raced
    /\ pc[th] = "initialize" /\ pc[o] = "initialize" /\ Name(th) = Name(o) => mine[th] # mine[o]
    /\ pc[th] \in Work /\ pc[o] \in Work /\ Name(th) = Name(o) /\ mine[th] = mine[o] => shared[th]

IInv ==
    /\ TypesOK
    /\ \A e \in Executor : Pool(e)
    /\ \A th \in Thread : Known(th) /\ Late(th)
    /\ \A th, o \in Thread : th # o => Apart(th, o)

-----------------------------------------------------------------------------
(***************************************************************************)
(* One object changes.                                                     *)
(***************************************************************************)
\* Object i of executor e becomes r, and nothing else changes in the pool.
Becomes(e, i, r) ==
    /\ instances' \in [Executor -> Seq(InstanceType)]
    /\ \A d \in Executor : Len(instances'[d]) = Len(instances[d])
                           /\ DOMAIN instances'[d] = DOMAIN instances[d]
    /\ \A d \in Executor : \A j \in DOMAIN instances[d] :
          instances'[d][j] = IF d = e /\ j = i THEN r ELSE instances[d][j]

\* Replacing one object of the pool has that effect.
LEMMA Replaced ==
  ASSUME TypesOK, NEW e \in Executor, NEW i \in DOMAIN instances[e], NEW r \in InstanceType,
         instances' = [instances EXCEPT ![e] = [instances[e] EXCEPT ![i] = r]]
  PROVE  Becomes(e, i, r)
<1>1. instances[e] \in Seq(InstanceType) /\ DOMAIN instances[e] = 1 .. Len(instances[e])
  BY LenProperties DEF TypesOK
<1>2. /\ [instances[e] EXCEPT ![i] = r] \in Seq(InstanceType)
      /\ Len([instances[e] EXCEPT ![i] = r]) = Len(instances[e])
      /\ \A j \in 1 .. Len(instances[e]) :
            [instances[e] EXCEPT ![i] = r][j] = IF j = i THEN r ELSE instances[e][j]
  BY <1>1, ExceptSeq
<1>3. DOMAIN [instances[e] EXCEPT ![i] = r] = DOMAIN instances[e] OBVIOUS
<1> DEFINE s == [instances[e] EXCEPT ![i] = r]
<1> HIDE DEF s
<1>4. instances' = [instances EXCEPT ![e] = s] BY DEF s
<1>5. /\ s \in Seq(InstanceType) /\ Len(s) = Len(instances[e]) /\ DOMAIN s = DOMAIN instances[e]
      /\ \A j \in DOMAIN instances[e] : s[j] = IF j = i THEN r ELSE instances[e][j]
  BY <1>1, <1>2, <1>3 DEF s
<1> QED BY <1>4, <1>5 DEF TypesOK, Becomes

\* The assignments of the methods to the fields of their object.
LEMMA ObjectType ==
  ASSUME TypesOK, NEW th \in Thread, Name(th) \in Executor,
         mine[th] \in DOMAIN instances[Name(th)]
  PROVE  Object(th) \in InstanceType
<1>1. instances[Name(th)] \in Seq(InstanceType) BY DEF TypesOK
<1>2. mine[th] \in 1 .. Len(instances[Name(th)]) BY <1>1, LenProperties
<1> QED BY <1>1, <1>2, ElementOfSeq DEF Object

\* set_error and clear_error change last_error of one object and nothing else.
LEMMA ErrorSet ==
  ASSUME TypesOK, NEW th \in Thread, Name(th) \in Executor,
         mine[th] \in DOMAIN instances[Name(th)], NEW x \in Thread \cup {NoThread},
         SetError(th, x)
  PROVE  /\ [Object(th) EXCEPT !.lastError = x] \in InstanceType
         /\ Becomes(Name(th), mine[th], [Object(th) EXCEPT !.lastError = x])
<1>1. [Object(th) EXCEPT !.lastError = x] \in InstanceType BY ObjectType DEF InstanceType
<1>2. instances' = [instances EXCEPT ![Name(th)] = [instances[Name(th)] EXCEPT ![mine[th]] =
                      [Object(th) EXCEPT !.lastError = x]]]
  BY DEF SetError, TypesOK, Object
<1> QED BY <1>1, <1>2, Replaced

-----------------------------------------------------------------------------
(***************************************************************************)
(* Steps of a call on the object it was handed.                            *)
(***************************************************************************)
\* The call in th goes on, or ends with what it did: False comes with the
\* thread's own error in last_error.
Works(th) ==
    \E r \in InstanceType, p \in {"connect", "next", "write", "reason", "done"} :
        /\ Becomes(Name(th), mine[th], r) /\ r.ready = Object(th).ready
        /\ pc' = [pc EXCEPT ![th] = p]
        /\ UNCHANGED <<registry, raced, call, mine, reason, shared>>
        /\ \/ p = "reason" /\ r.lastError = th /\ result' = [result EXCEPT ![th] = "false"]
           \/ p = "done" /\ \E v \in {"true", "raised"} : result' = [result EXCEPT ![th] = v]
           \/ p \in {"connect", "next", "write"} /\ result' = result

\* Every step inside execute or safe_state is one of the work steps, on the caller's own object.
LEMMA WorkEffect ==
  ASSUME IInv, NEW th \in Thread,
         \/ MockCall(th) \/ RemoteCall(th) \/ Ensure(th) \/ Connect(th) \/ NextAction(th)
         \/ WriteSucceeds(th) \/ WriteFails(th)
  PROVE  Works(th) /\ pc[th] \in Work \ {"reason"}
<1>0. TypesOK /\ Known(th) BY DEF IInv
<1>1. pc[th] \in Work \ {"reason"}
  BY DEF MockCall, RemoteCall, Ensure, Connect, NextAction, WriteSucceeds, WriteFails, Work
<1>2. Name(th) \in Executor /\ mine[th] \in DOMAIN instances[Name(th)]
  BY <1>0, <1>1 DEF Known
<1>o. Object(th) \in InstanceType BY <1>0, <1>2, ObjectType
<1>e. ASSUME NEW x \in Thread \cup {NoThread}, SetError(th, x)
      PROVE  \E r \in InstanceType : /\ Becomes(Name(th), mine[th], r)
                                     /\ r.ready = Object(th).ready /\ r.lastError = x
  <2>1. Becomes(Name(th), mine[th], [Object(th) EXCEPT !.lastError = x])
    BY <1>0, <1>2, <1>e, ErrorSet
  <2> DEFINE r == [Object(th) EXCEPT !.lastError = x]
  <2>2. r \in InstanceType /\ r.ready = Object(th).ready /\ r.lastError = x
    BY <1>o, <1>e DEF InstanceType
  <2> HIDE DEF r
  <2>3. Becomes(Name(th), mine[th], r) BY <2>1 DEF r
  <2> QED BY <2>2, <2>3
<1>n. UNCHANGED instances => Becomes(Name(th), mine[th], Object(th))
  BY <1>0 DEF TypesOK, Becomes, Object
<1>3. CASE MockCall(th)
  <2>1. PICK r \in InstanceType : Becomes(Name(th), mine[th], r) /\ r.ready = Object(th).ready
    BY <1>3, <1>e DEF MockCall
  <2> QED BY <1>1, <1>3, <2>1 DEF MockCall, Finish, Goto, Works
<1>4. CASE RemoteCall(th)
  <2>1. CASE SetError(th, th) /\ Finish(th, "false")
    <3>1. PICK r \in InstanceType : /\ Becomes(Name(th), mine[th], r)
                                    /\ r.ready = Object(th).ready /\ r.lastError = th
      BY <2>1, <1>e
    <3> QED BY <1>1, <1>4, <2>1, <3>1 DEF RemoteCall, Finish, Goto, Works
  <2>2. CASE SetError(th, NoThread) /\ Goto(th, "done")
             /\ (\E v \in {"true", "raised"} : result' = [result EXCEPT ![th] = v])
             /\ UNCHANGED <<call, mine, reason, shared>>
    <3>1. PICK r \in InstanceType : Becomes(Name(th), mine[th], r) /\ r.ready = Object(th).ready
      BY <2>2, <1>e
    <3> QED BY <1>1, <1>4, <2>2, <3>1 DEF RemoteCall, Goto, Works
  <2> QED BY <1>4, <2>1, <2>2 DEF RemoteCall, Finish
<1>5. CASE Ensure(th)
  <2>1. \E x \in Thread \cup {NoThread} : SetError(th, x) BY <1>5 DEF Ensure
  <2>2. PICK r \in InstanceType : Becomes(Name(th), mine[th], r) /\ r.ready = Object(th).ready
    BY <2>1, <1>e
  <2> QED BY <1>1, <1>5, <2>2 DEF Ensure, Finish, Goto, Works, callVars
<1>6. CASE Connect(th)
  <2> DEFINE e == Name(th)
             i == mine[th]
             up   == [Object(th) EXCEPT !.connected = TRUE, !.lastError = NoThread]
             down == [Object(th) EXCEPT !.connected = FALSE, !.lastError = th]
  <2>1. /\ up \in InstanceType /\ up.ready = Object(th).ready
        /\ down \in InstanceType /\ down.ready = Object(th).ready /\ down.lastError = th
    BY <1>o DEF InstanceType
  <2>2. e \in Executor /\ i \in DOMAIN instances[e] /\ Object(th) = instances[e][i]
    BY <1>2 DEF Object
  <2>3. CASE /\ instances' = [instances EXCEPT ![e][i].connected = TRUE,
                                               ![e][i].lastError = NoThread]
             /\ Goto(th, "next") /\ UNCHANGED callVars
    <3> HIDE DEF e, i
    <3>1. instances' = [instances EXCEPT ![e] = [instances[e] EXCEPT ![i] = up]]
      BY <1>0, <2>2, <2>3 DEF TypesOK
    <3> HIDE DEF up
    <3>2. Becomes(e, i, up) BY <1>0, <2>1, <2>2, <3>1, Replaced
    <3> QED BY <1>1, <1>6, <2>1, <2>3, <3>2 DEF Connect, Goto, Works, callVars, e, i
  <2>4. CASE /\ instances' = [instances EXCEPT ![e][i].connected = FALSE,
                                               ![e][i].lastError = th]
             /\ Finish(th, "false")
    <3> HIDE DEF e, i
    <3>1. instances' = [instances EXCEPT ![e] = [instances[e] EXCEPT ![i] = down]]
      BY <1>0, <2>2, <2>4 DEF TypesOK
    <3> HIDE DEF down
    <3>2. Becomes(e, i, down) BY <1>0, <2>1, <2>2, <3>1, Replaced
    <3> QED BY <1>1, <1>6, <2>1, <2>4, <3>2 DEF Connect, Finish, Goto, Works, e, i
  <2> QED BY <1>6, <2>3, <2>4 DEF Connect
<1>7. CASE NextAction(th)
  <2>1. CASE SetError(th, th) /\ Finish(th, "false")
    <3>1. PICK r \in InstanceType : /\ Becomes(Name(th), mine[th], r)
                                    /\ r.ready = Object(th).ready /\ r.lastError = th
      BY <2>1, <1>e
    <3> QED BY <1>1, <1>7, <2>1, <3>1 DEF NextAction, Finish, Goto, Works
  <2>2. CASE UNCHANGED instances /\ Finish(th, "true")
    BY <1>1, <1>7, <1>n, <1>o, <2>2 DEF NextAction, Finish, Goto, Works
  <2>3. CASE UNCHANGED <<instances, call, mine, result, reason, shared>> /\ Goto(th, "write")
    BY <1>1, <1>7, <1>n, <1>o, <2>3 DEF NextAction, Goto, Works
  <2> QED BY <1>7, <2>1, <2>2, <2>3 DEF NextAction
<1>8. CASE WriteSucceeds(th)
  <2>1. PICK r \in InstanceType : Becomes(Name(th), mine[th], r) /\ r.ready = Object(th).ready
    BY <1>8, <1>e DEF WriteSucceeds
  <2>2. \E p \in {"next", "write"} : pc' = [pc EXCEPT ![th] = p]
    <3>1. pc[th] = "write" /\ (pc' = pc \/ pc' = [pc EXCEPT ![th] = "next"])
      BY <1>8 DEF WriteSucceeds, ActionDone, Goto
    <3>2. pc = [pc EXCEPT ![th] = "write"] BY <1>0, <3>1 DEF TypesOK
    <3> QED BY <3>1, <3>2
  <2> QED BY <1>1, <1>8, <2>1, <2>2 DEF WriteSucceeds, Works
<1>9. CASE WriteFails(th)
  <2>1. PICK r \in InstanceType : /\ Becomes(Name(th), mine[th], r)
                                  /\ r.ready = Object(th).ready /\ r.lastError = th
    BY <1>9, <1>e DEF WriteFails
  <2> QED BY <1>1, <1>9, <2>1 DEF WriteFails, Finish, ActionDone, Goto, Works
<1> QED BY <1>1, <1>3, <1>4, <1>5, <1>6, <1>7, <1>8, <1>9

\* The other threads and the registry are not disturbed by it.
LEMMA WorkKeeps ==
  ASSUME IInv, NEW th \in Thread, Works(th), pc[th] \in Work \ {"reason"}
  PROVE  IInv'
<1>0. TypesOK /\ Known(th) BY DEF IInv
<1>1. PICK r \in InstanceType, p \in {"connect", "next", "write", "reason", "done"} :
        /\ Becomes(Name(th), mine[th], r) /\ r.ready = Object(th).ready
        /\ pc' = [pc EXCEPT ![th] = p]
        /\ UNCHANGED <<registry, raced, call, mine, reason, shared>>
        /\ \/ p = "reason" /\ r.lastError = th /\ result' = [result EXCEPT ![th] = "false"]
           \/ p = "done" /\ \E v \in {"true", "raised"} : result' = [result EXCEPT ![th] = v]
           \/ p \in {"connect", "next", "write"} /\ result' = result
  BY DEF Works
<1>2. TypesOK'
  <2>1. instances' \in [Executor -> Seq(InstanceType)] BY <1>1 DEF Becomes
  <2>2. p \in Places BY <1>1 DEF Places, Work
  <2> QED BY <1>0, <1>1, <2>1, <2>2 DEF TypesOK
<1>3. \A o \in Thread : Name(o)' = Name(o) BY <1>1 DEF Name
<1>4. /\ \A e \in Executor : /\ Len(instances'[e]) = Len(instances[e])
                             /\ DOMAIN instances'[e] = DOMAIN instances[e]
                             /\ \A i \in DOMAIN instances[e] :
                                   instances'[e][i].ready = instances[e][i].ready
      /\ \A o \in Thread \ {th} : pc'[o] = pc[o] /\ result'[o] = result[o]
      /\ pc'[th] = p
  BY <1>0, <1>1 DEF TypesOK, Becomes, Object
<1>5. ASSUME NEW e \in Executor PROVE Pool(e)'
  <2>0. Pool(e) BY DEF IInv
  <2>1. registry[e] # 0 => registry[e] \in DOMAIN instances[e]
    BY <2>0, <1>0, LenProperties DEF Pool, TypesOK
  <2>2. \A o \in Thread : pc[o] = "publish" => o # th BY DEF Work
  <2> QED BY <2>0, <2>1, <2>2, <1>1, <1>3, <1>4 DEF Pool
<1>6. Known(th)'
  <2>1. Name(th) \in Executor /\ mine[th] \in DOMAIN instances[Name(th)] /\ Object(th).ready
    BY <1>0 DEF Known
  <2>2. Object(th)' = r BY <1>1, <1>3, <2>1 DEF Becomes, Object
  <2>3. result[th] # "false" BY <1>0 DEF Known, Work
  <2>4. p = "done" => result'[th] # "false" BY <1>0, <1>1 DEF TypesOK
  <2>5. p \in {"connect", "next", "write"} => result'[th] # "false" BY <1>1, <2>3
  <2> QED BY <1>0, <1>1, <1>3, <1>4, <2>1, <2>2, <2>4, <2>5 DEF Known, Work, Building
<1>7. ASSUME NEW o \in Thread \ {th} PROVE Known(o)'
  <2>0. Known(o) BY DEF IInv
  <2>1. pc[o] \in Work \cup Building =>
          /\ Object(o)'.ready = Object(o).ready
          /\ Name(o) # Name(th) \/ mine[o] # mine[th] => Object(o)' = Object(o)
    BY <2>0, <1>1, <1>3, <1>4 DEF Known, Object, Becomes
  <2>2. pc[o] = "reason" /\ ~shared[o] => Name(o) # Name(th) \/ mine[o] # mine[th]
    BY DEF IInv, Apart, Work
  <2> QED BY <2>0, <2>1, <2>2, <1>1, <1>3, <1>4 DEF Known, Work, Building
<1>8. ASSUME NEW o \in Thread PROVE Late(o)'
  <2>0. Late(o) BY DEF IInv
  <2>1. pc'[o] \in Building => pc[o] \in Building BY <1>4 DEF Building
  <2> QED BY <2>0, <2>1, <1>1, <1>3 DEF Late
<1>9. ASSUME NEW o \in Thread, NEW u \in Thread, o # u PROVE Apart(o, u)'
  <2>0. Apart(o, u) BY <1>9 DEF IInv
  <2>1. \A v \in Thread : /\ pc'[v] \in Building => pc[v] \in Building
                          /\ pc'[v] = "initialize" => pc[v] = "initialize"
                          /\ pc'[v] \in Work => pc[v] \in Work
    BY <1>4 DEF Building, Work
  <2> QED BY <2>0, <2>1, <1>1, <1>3 DEF Apart
<1>10. \A o \in Thread : Known(o)' BY <1>6, <1>7
<1> QED BY <1>2, <1>5, <1>8, <1>9, <1>10 DEF IInv

-----------------------------------------------------------------------------
(***************************************************************************)
(* get_executor                                                            *)
(***************************************************************************)
\* The asset of a request.
LEMMA CallAsset == ASSUME NEW c \in Calls PROVE c.asset \in Asset
BY DEF Calls

\* A thread takes up object i of executor e: it and the others there know.
LEMMA JoinApart ==
  ASSUME IInv, NEW th \in Thread, NEW e, NEW i, Share(th, e, i),
         Name(th)' = e, mine'[th] = i, pc'[th] = "ensure", raced' = raced,
         \A o \in Thread \ {th} : pc'[o] = pc[o] /\ Name(o)' = Name(o) /\ mine'[o] = mine[o]
  PROVE  /\ shared' \in [Thread -> BOOLEAN]
         /\ \A o \in Thread \ {th} : shared[o] => shared'[o]
         /\ \A o, u \in Thread : o # u => Apart(o, u)'
<1> DEFINE others == {o \in Thread \ {th} : pc[o] \in Work /\ Name(o) = e /\ mine[o] = i}
<1>0. TypesOK BY DEF IInv
<1>1. shared' = [o \in Thread |-> IF o = th THEN others # {} ELSE shared[o] \/ o \in others]
  BY DEF Share, InUse, Work
<1>2. shared' \in [Thread -> BOOLEAN] /\ \A o \in Thread \ {th} : shared[o] => shared'[o]
  BY <1>0, <1>1 DEF TypesOK
<1>3. ASSUME NEW o \in Thread, NEW u \in Thread, o # u PROVE Apart(o, u)'
  <2>0. Apart(o, u) BY <1>3 DEF IInv
  <2>1. CASE o # th /\ u # th
    BY <2>0, <2>1, <1>2 DEF Apart
  <2>2. CASE o = th
    <3>1. pc'[u] \in Work /\ Name(u)' = e /\ mine'[u] = i => u \in others BY <1>3, <2>2
    <3>2. pc'[u] \in Work /\ Name(u)' = e /\ mine'[u] = i => shared'[th] BY <3>1, <1>1
    <3> QED BY <2>2, <3>2 DEF Apart, Building
  <2>3. CASE u = th
    <3>1. pc'[o] \in Work /\ Name(o)' = e /\ mine'[o] = i => o \in others BY <1>3, <2>3
    <3>2. pc'[o] \in Work /\ Name(o)' = e /\ mine'[o] = i => shared'[o] BY <3>1, <1>1, <1>3, <2>3
    <3> QED BY <2>3, <3>2 DEF Apart, Building
  <2> QED BY <2>1, <2>2, <2>3
<1> QED BY <1>2, <1>3

\* The look-up of get_executor.
LEMMA GetExecutorKeeps ==
  ASSUME IInv, NEW th \in Thread, GetExecutor(th)
  PROVE  IInv'
<1>0. TypesOK /\ Known(th) BY DEF IInv
<1>1. PICK c \in Calls :
        LET e == ExecutorOf[c.asset] IN
        /\ call' = [call EXCEPT ![th] = c]
        /\ CASE e = NoExecutor ->
                  /\ Goto(th, "done") /\ result' = [result EXCEPT ![th] = "raised"]
                  /\ UNCHANGED <<mine, shared>>
             [] e # NoExecutor /\ registry[e] # 0 ->
                  /\ Goto(th, "ensure") /\ mine' = [mine EXCEPT ![th] = registry[e]]
                  /\ Share(th, e, registry[e])
                  /\ UNCHANGED result
             [] OTHER ->
                  /\ Goto(th, "create")
                  /\ UNCHANGED <<mine, shared, result>>
  BY DEF GetExecutor
<1> DEFINE e == ExecutorOf[c.asset]
<1>2. /\ pc[th] = "idle" /\ mine[th] = 0 /\ result[th] # "false"
      /\ UNCHANGED <<registry, instances, raced, reason>>
  BY <1>0 DEF GetExecutor, Known, poolVars
<1>3. c.asset \in Asset /\ (e # NoExecutor => e \in Executor)
  BY CallAsset, ExecutorAssumption
<1>4. call' = [call EXCEPT ![th] = c] BY <1>1
<1>5. Name(th)' = e /\ call'[th].asset = c.asset
      /\ \A o \in Thread \ {th} : Name(o)' = Name(o) /\ call'[o] = call[o]
  BY <1>0, <1>4 DEF TypesOK, Name
<1>6. call' \in [Thread -> Calls \cup {NoCall}] BY <1>0, <1>4 DEF TypesOK
<1> HIDE DEF e
\* No pool changes hands before the thread is in Work.
<1>p. ASSUME NEW p \in {"ensure", "create", "done"}, pc' = [pc EXCEPT ![th] = p],
             \A o \in Thread \ {th} : mine'[o] = mine[o]
      PROVE  \A d \in Executor : Pool(d)'
  <2> SUFFICES ASSUME NEW d \in Executor PROVE Pool(d)'
    OBVIOUS
  <2>0. Pool(d) BY DEF IInv
  <2>1. \A o \in Thread : pc[o] = "publish" => o # th /\ pc'[o] = "publish" /\ Name(o)' = Name(o)
                                               /\ mine'[o] = mine[o]
    BY <1>0, <1>2, <1>5, <1>p DEF TypesOK
  <2> QED BY <2>0, <2>1, <1>2 DEF Pool
<1>o. ASSUME NEW o \in Thread \ {th}, pc'[o] = pc[o], mine'[o] = mine[o], result'[o] = result[o],
             shared[o] => shared'[o]
      PROVE  Known(o)' /\ Late(o)'
  <2>0. Known(o) /\ Late(o) BY DEF IInv
  <2>1. Object(o)' = Object(o) BY <1>2, <1>5, <1>o DEF Object
  <2> QED BY <2>0, <2>1, <1>2, <1>5, <1>o DEF Known, Late
<1>a. ASSUME NEW p \in {"create", "done"}, pc' = [pc EXCEPT ![th] = p], UNCHANGED <<mine, shared>>
      PROVE  \A o, u \in Thread : o # u => Apart(o, u)'
  <2>1. \A o \in Thread : (pc'[o] \in Building => o # th) /\ (pc'[o] \in Work => o # th)
    BY <1>0, <1>a DEF TypesOK, Building, Work
  <2>2. \A o \in Thread \ {th} : pc'[o] = pc[o] BY <1>0, <1>a DEF TypesOK
  <2>3. "initialize" \in Building BY DEF Building
  <2> QED BY <2>1, <2>2, <2>3, <1>2, <1>5, <1>a DEF IInv, Apart
<1>7. CASE e = NoExecutor
  <2>1. pc' = [pc EXCEPT ![th] = "done"] /\ result' = [result EXCEPT ![th] = "raised"]
        /\ UNCHANGED <<mine, shared>>
    BY <1>1, <1>7 DEF e, Goto
  <2>2. TypesOK' BY <1>0, <1>2, <1>6, <2>1 DEF TypesOK, Places
  <2>3. Known(th)' /\ Late(th)'
    BY <1>0, <1>2, <1>3, <1>5, <2>1 DEF TypesOK, Known, Late, Work, Building
  <2>4. \A o \in Thread \ {th} : Known(o)' /\ Late(o)'
    BY <1>0, <1>o, <2>1 DEF TypesOK
  <2> QED BY <1>p, <1>a, <2>1, <2>2, <2>3, <2>4 DEF IInv
<1>8. CASE e # NoExecutor /\ registry[e] # 0
  <2>1. pc' = [pc EXCEPT ![th] = "ensure"] /\ mine' = [mine EXCEPT ![th] = registry[e]]
        /\ Share(th, e, registry[e]) /\ result' = result
    BY <1>1, <1>8 DEF e, Goto
  <2>2. /\ pc'[th] = "ensure" /\ mine'[th] = registry[e]
        /\ \A o \in Thread \ {th} : pc'[o] = pc[o] /\ mine'[o] = mine[o]
    BY <1>0, <2>1 DEF TypesOK
  <2>3. /\ shared' \in [Thread -> BOOLEAN]
        /\ \A o \in Thread \ {th} : shared[o] => shared'[o]
        /\ \A o, u \in Thread : o # u => Apart(o, u)'
    BY <1>2, <1>5, <2>1, <2>2, JoinApart
  <2>4. TypesOK'
    <3>1. registry[e] \in Nat BY <1>0, <1>3, <1>8 DEF TypesOK
    <3> QED BY <1>0, <1>2, <1>6, <2>1, <2>3, <3>1 DEF TypesOK, Places, Work
  <2>5. Known(th)' /\ Late(th)'
    <3>1. Pool(e) BY <1>3, <1>8 DEF IInv
    <3>2. registry[e] \in DOMAIN instances[e] /\ instances[e][registry[e]].ready
      BY <1>0, <1>3, <1>8, <3>1, LenProperties DEF Pool, TypesOK
    <3> QED BY <1>2, <1>3, <1>5, <1>8, <2>1, <2>2, <3>2
            DEF Known, Late, Work, Building, Object
  <2>6. \A o \in Thread \ {th} : Known(o)' /\ Late(o)'
    BY <1>o, <2>1, <2>2, <2>3
  <2> QED BY <1>p, <2>1, <2>2, <2>3, <2>4, <2>5, <2>6 DEF IInv
<1>9. CASE e # NoExecutor /\ registry[e] = 0
  <2>1. pc' = [pc EXCEPT ![th] = "create"] /\ UNCHANGED <<mine, shared, result>>
    BY <1>1, <1>9 DEF e, Goto
  <2>2. TypesOK' BY <1>0, <1>2, <1>6, <2>1 DEF TypesOK, Places
  <2>3. Known(th)' /\ Late(th)'
    BY <1>0, <1>2, <1>3, <1>5, <1>9, <2>1 DEF TypesOK, Known, Late, Work, Building
  <2>4. \A o \in Thread \ {th} : Known(o)' /\ Late(o)'
    BY <1>0, <1>o, <2>1 DEF TypesOK
  <2> QED BY <1>p, <1>a, <2>1, <2>2, <2>3, <2>4 DEF IInv
<1> QED BY <1>7, <1>8, <1>9

\* A place of a sequence is filled, or one is added at its end.
LEMMA Filled ==
  ASSUME NEW S, NEW s \in Seq(S), NEW p \in 1 .. Len(s) + 1, NEW r \in S, NEW t,
         t = [i \in DOMAIN s \cup {p} |-> IF i = p THEN r ELSE s[i]]
  PROVE  /\ t \in Seq(S) /\ DOMAIN t = DOMAIN s \cup {p}
         /\ Len(t) \in Nat /\ Len(s) \in Nat /\ Len(s) <= Len(t)
         /\ t[p] = r /\ \A i \in DOMAIN s : i # p => t[i] = s[i]
<1>1. Len(s) \in Nat /\ DOMAIN s = 1 .. Len(s) /\ \A i \in DOMAIN s : s[i] \in S
  BY LenProperties, ElementOfSeq
<1>2. PICK n \in Nat : n >= Len(s) /\ DOMAIN s \cup {p} = 1 .. n
  <2>1. CASE p = Len(s) + 1
    <3>1. Len(s) + 1 \in Nat /\ DOMAIN s \cup {p} = 1 .. (Len(s) + 1) BY <1>1, <2>1
    <3> QED BY <3>1, <1>1
  <2>2. CASE p # Len(s) + 1
    <3>1. DOMAIN s \cup {p} = 1 .. Len(s) BY <1>1, <2>2
    <3> QED BY <3>1, <1>1
  <2> QED BY <2>1, <2>2
<1>3. t \in [1 .. n -> S] BY <1>1, <1>2
<1>4. t \in Seq(S) BY <1>3, SeqDef
<1>5. Len(t) \in Nat /\ DOMAIN t = 1 .. Len(t) BY <1>4, LenProperties
<1>6. 1 .. Len(t) = 1 .. n BY <1>3, <1>5
<1>7. n <= Len(t)
  <2>1. CASE n = 0 BY <2>1, <1>5
  <2>2. CASE n # 0
    <3>1. n \in 1 .. n BY <2>2
    <3> QED BY <3>1, <1>5, <1>6
  <2> QED BY <2>1, <2>2
<1>8. t[p] = r /\ \A i \in DOMAIN s : i # p => t[i] = s[i] OBVIOUS
<1> QED BY <1>1, <1>2, <1>3, <1>4, <1>5, <1>7, <1>8

\* The place for a new object is nobody's.
LEMMA PlaceIsFree ==
  ASSUME IInv, NEW e \in Executor
  PROVE  /\ Place(e) \in 1 .. Len(instances[e]) + 1
         /\ Place(e) \in DOMAIN instances[e] => ~instances[e][Place(e)].ready
         /\ \A o \in Thread : pc[o] = "initialize" /\ Name(o) = e => mine[o] # Place(e)
<1> DEFINE used == {mine[o] : o \in {x \in Thread : pc[x] = "initialize" /\ Name(x) = e}}
           free == {i \in DOMAIN instances[e] : instances[e][i] = Freed /\ i \notin used}
                      \cup {Len(instances[e]) + 1}
<1>1. /\ Len(instances[e]) \in Nat /\ DOMAIN instances[e] = 1 .. Len(instances[e])
  BY LenProperties DEF IInv, TypesOK
<1>2. Place(e) = CHOOSE i \in free : TRUE BY DEF Place
<1>3. Place(e) \in free BY <1>2
<1>4. \A o \in Thread : pc[o] = "initialize" /\ Name(o) = e =>
         mine[o] \in used /\ mine[o] \in DOMAIN instances[e]
  BY DEF IInv, Known, Building
<1>5. Len(instances[e]) + 1 \notin DOMAIN instances[e] BY <1>1
<1>6. Place(e) \in 1 .. Len(instances[e]) + 1 BY <1>1, <1>3
<1>7. Place(e) \in DOMAIN instances[e] => instances[e][Place(e)] = Freed /\ Place(e) \notin used
  BY <1>3, <1>5
<1>8. Freed.ready = FALSE BY DEF Freed, NewInstance
<1> HIDE DEF used, free
<1> QED BY <1>4, <1>6, <1>7, <1>8

\* The instance is created.
LEMMA CreateKeeps ==
  ASSUME IInv, NEW th \in Thread, Create(th)
  PROVE  IInv'
<1>0. TypesOK /\ Known(th) BY DEF IInv
<1>1. /\ pc[th] = "create" /\ mine[th] = 0 /\ Name(th) \in Executor /\ result[th] # "false"
      /\ call[th].asset \in Asset
  BY <1>0 DEF Create, Known
<1>2. call' = call /\ reason' = reason /\ shared' = shared /\ registry' = registry
      /\ \A o \in Thread : Name(o)' = Name(o)
  BY DEF Create, Finish, Name, poolVars
<1>3. CASE Finish(th, "raised") /\ UNCHANGED poolVars
  <2>1. pc' = [pc EXCEPT ![th] = "done"] /\ result' = [result EXCEPT ![th] = "raised"]
        /\ mine' = mine /\ instances' = instances /\ raced' = raced
    BY <1>3 DEF Finish, Goto, poolVars
  <2>2. TypesOK' BY <1>0, <1>2, <2>1 DEF TypesOK, Places
  <2>3. /\ pc'[th] = "done" /\ result'[th] = "raised"
        /\ \A o \in Thread \ {th} : pc'[o] = pc[o] /\ result'[o] = result[o]
    BY <1>0, <2>1 DEF TypesOK
  <2>4. Known(th)' /\ Late(th)' BY <1>1, <1>2, <2>1, <2>3 DEF Known, Late, Work, Building
  <2>5. ASSUME NEW o \in Thread \ {th} PROVE Known(o)' /\ Late(o)'
    <3>1. Object(o)' = Object(o) BY <1>2, <2>1 DEF Object
    <3> QED BY <1>2, <2>1, <2>3, <3>1 DEF IInv, Known, Late
  <2>6. ASSUME NEW d \in Executor PROVE Pool(d)'
    <3>1. \A o \in Thread : pc[o] = "publish" => pc'[o] = "publish" BY <1>1, <2>3
    <3> QED BY <1>2, <2>1, <3>1 DEF IInv, Pool
  <2>7. ASSUME NEW o \in Thread, NEW u \in Thread, o # u PROVE Apart(o, u)'
    <3>0. Apart(o, u) BY <2>7 DEF IInv
    <3>1. \A v \in Thread : (pc'[v] \in Building \/ pc'[v] \in Work \/ pc'[v] = "initialize")
                            => pc'[v] = pc[v]
      BY <2>3 DEF Building, Work
    <3> QED BY <1>2, <2>1, <3>0, <3>1 DEF Apart
  <2> QED BY <2>2, <2>4, <2>5, <2>6, <2>7 DEF IInv
<1>4. CASE /\ instances' = [instances EXCEPT ![Name(th)] =
                [i \in DOMAIN @ \cup {Place(Name(th))} |->
                    IF i = Place(Name(th)) THEN NewInstance ELSE @[i]]]
           /\ mine' = [mine EXCEPT ![th] = Place(Name(th))]
           /\ raced' = (IF Racing(th) THEN raced \cup {Name(th)} ELSE raced)
           /\ Goto(th, "initialize")
           /\ result' = result
  <2> DEFINE e == Name(th)
             p == Place(e)
             s == [i \in DOMAIN instances[e] \cup {p} |->
                     IF i = p THEN NewInstance ELSE instances[e][i]]
  <2>1. instances' = [instances EXCEPT ![e] = s] BY <1>4
  <2>2. /\ p \in 1 .. Len(instances[e]) + 1
        /\ p \in DOMAIN instances[e] => ~instances[e][p].ready
        /\ \A o \in Thread : pc[o] = "initialize" /\ Name(o) = e => mine[o] # p
    BY <1>1, PlaceIsFree
  <2>n. NewInstance \in InstanceType /\ ~NewInstance.ready BY DEF NewInstance, InstanceType
  <2>3. /\ s \in Seq(InstanceType) /\ DOMAIN s = DOMAIN instances[e] \cup {p}
        /\ Len(s) \in Nat /\ Len(instances[e]) \in Nat /\ Len(instances[e]) <= Len(s)
        /\ s[p] = NewInstance /\ \A i \in DOMAIN instances[e] : i # p => s[i] = instances[e][i]
    <3>1. instances[e] \in Seq(InstanceType) BY <1>0, <1>1 DEF TypesOK
    <3> DEFINE q == instances[e]
    <3>2. s = [i \in DOMAIN q \cup {p} |-> IF i = p THEN NewInstance ELSE q[i]] OBVIOUS
    <3>3. q \in Seq(InstanceType) /\ p \in 1 .. Len(q) + 1 BY <2>2, <3>1
    <3> HIDE DEF s, p, q
    <3>4. /\ s \in Seq(InstanceType) /\ DOMAIN s = DOMAIN q \cup {p}
          /\ Len(s) \in Nat /\ Len(q) \in Nat /\ Len(q) <= Len(s)
          /\ s[p] = NewInstance /\ \A i \in DOMAIN q : i # p => s[i] = q[i]
      BY <2>n, <3>2, <3>3, Filled
    <3> QED BY <3>4 DEF q
  <2>4. /\ pc'[th] = "initialize" /\ mine'[th] = p
        /\ \A o \in Thread \ {th} : pc'[o] = pc[o] /\ mine'[o] = mine[o]
    BY <1>0, <1>4 DEF TypesOK, Goto
  <2>r. /\ raced \subseteq raced'
        /\ Racing(th) => e \in raced'
    BY <1>4
  <2>5. instances'[e] = s /\ (\A d \in Executor \ {e} : instances'[d] = instances[d])
        /\ e \in Executor
    BY <1>0, <1>1, <2>1 DEF TypesOK
  <2>p. p \in Nat BY <2>2, <2>3
  <2>6. TypesOK'
    <3>1. instances' \in [Executor -> Seq(InstanceType)] BY <1>0, <2>1, <2>3 DEF TypesOK
    <3>2. "initialize" \in Places BY DEF Places, Building
    <3> QED BY <1>0, <1>2, <1>4, <2>p, <3>1, <3>2 DEF TypesOK, Goto
  <2> HIDE DEF s, p, e
  <2>e. e = Name(th) /\ e = Name(th)' BY <1>2 DEF e
  \* Every ready object stays what it is.
  <2>7. /\ \A d \in Executor : DOMAIN instances[d] \subseteq DOMAIN instances'[d]
        /\ \A d \in Executor : \A i \in DOMAIN instances[d] :
              d # e \/ i # p => instances'[d][i] = instances[d][i]
    BY <2>3, <2>5
  <2>8. Known(th)'
    <3>1. Object(th)' = NewInstance BY <2>3, <2>4, <2>5, <2>e DEF Object
    <3>2. mine'[th] \in DOMAIN instances'[e] BY <2>3, <2>4, <2>5
    <3> QED BY <1>1, <1>2, <1>4, <2>4, <2>5, <2>e, <2>n, <3>1, <3>2
            DEF Known, Work, Building
  <2>9. ASSUME NEW o \in Thread \ {th} PROVE Known(o)'
    <3>0. Known(o) BY DEF IInv
    <3>1. pc[o] \in Work \cup Building => Name(o) # e \/ mine[o] # p
      BY <3>0, <2>2 DEF Known, Building, Object
    <3>2. pc[o] \in Work \cup Building => Object(o)' = Object(o)
      BY <3>0, <3>1, <1>2, <2>4, <2>7 DEF Known, Object
    <3> QED BY <3>0, <3>2, <1>2, <1>4, <2>4, <2>7 DEF Known, Work, Building
  <2>10. ASSUME NEW d \in Executor PROVE Pool(d)'
    <3>0. Pool(d) BY DEF IInv
    <3>1. registry[d] # 0 => registry[d] \in DOMAIN instances[d]
      BY <3>0, <1>0, LenProperties DEF Pool, TypesOK
    <3>2. registry[d] # 0 => instances'[d][registry[d]] = instances[d][registry[d]]
      BY <3>0, <3>1, <2>2, <2>7 DEF Pool
    <3>3. registry'[d] \in 0 .. Len(instances'[d])
      <4>1. CASE d = e
        <5>1. registry[d] \in 0 .. Len(instances[d]) BY <3>0 DEF Pool
        <5>2. Len(instances'[d]) = Len(s) BY <4>1, <2>5
        <5> QED BY <4>1, <5>1, <5>2, <1>2, <2>3
      <4>2. CASE d # e
        <5>1. instances'[d] = instances[d] BY <4>2, <2>5
        <5> QED BY <3>0, <5>1, <1>2 DEF Pool
      <4> QED BY <4>1, <4>2
    <3>4. ASSUME NEW i \in DOMAIN instances'[d], instances'[d][i].ready, registry[d] # i
          PROVE  \/ d \in raced'
                 \/ \E o \in Thread : pc'[o] = "publish" /\ Name(o)' = d /\ mine'[o] = i
      <4>1. d # e \/ i # p BY <3>4, <2>3, <2>5, <2>n
      <4>2. i \in DOMAIN instances[d] /\ instances'[d][i] = instances[d][i]
        BY <4>1, <2>3, <2>5
      <4>3. \A o \in Thread : pc[o] = "publish" => o # th BY <1>1
      <4> QED BY <3>0, <3>4, <4>2, <4>3, <1>2, <2>4, <2>r DEF Pool
    <3> QED BY <3>0, <3>2, <3>3, <3>4, <1>2 DEF Pool
  <2>11. ASSUME NEW o \in Thread PROVE Late(o)'
    <3>0. Late(o) BY DEF IInv
    <3>1. CASE o = th BY <3>1, <1>2, <2>r, <2>e DEF Late, Racing
    <3>2. CASE o # th BY <3>0, <3>2, <1>2, <2>4, <2>r DEF Late
    <3> QED BY <3>1, <3>2
  <2>12. ASSUME NEW o \in Thread, NEW u \in Thread, o # u PROVE Apart(o, u)'
    <3>0. Apart(o, u) BY <2>12 DEF IInv
    <3>1. CASE o # th /\ u # th BY <3>0, <3>1, <1>2, <2>4, <2>r DEF Apart
    <3>2. CASE o = th
      <4>1. pc[u] \in Building /\ Name(u) = e => e \in raced'
        BY <3>2, <2>12, <2>r, <2>e DEF Racing, Building
      <4> QED BY <3>2, <4>1, <2>12, <1>2, <2>2, <2>4, <2>e DEF Apart, Building, Work
    <3>3. CASE u = th
      <4>1. pc[o] \in Building /\ Name(o) = e => e \in raced'
        BY <3>3, <2>12, <2>r, <2>e DEF Racing, Building
      <4> QED BY <3>3, <4>1, <2>12, <1>2, <2>2, <2>4, <2>e DEF Apart, Building, Work
    <3> QED BY <3>1, <3>2, <3>3
  <2>13. \A o \in Thread : Known(o)' BY <2>8, <2>9
  <2> QED BY <2>6, <2>10, <2>11, <2>12, <2>13 DEF IInv
<1> QED BY <1>3, <1>4 DEF Create

\* initialize() of a new instance.
LEMMA InitializeKeeps ==
  ASSUME IInv, NEW th \in Thread, Initialize(th)
  PROVE  IInv'
<1>0. TypesOK /\ Known(th) BY DEF IInv
<1>1. /\ pc[th] = "initialize" /\ Name(th) \in Executor /\ mine[th] \in DOMAIN instances[Name(th)]
      /\ ~Object(th).ready /\ result[th] # "false" /\ call[th].asset \in Asset
  BY <1>0 DEF Initialize, Known, Building
<1>2. UNCHANGED <<registry, raced, call, mine, reason, shared>>
      /\ \A o \in Thread : Name(o)' = Name(o)
  BY DEF Initialize, Finish, Name, callVars
<1>3. \E r \in InstanceType :
         /\ Becomes(Name(th), mine[th], r)
         /\ \/ r.ready /\ pc' = [pc EXCEPT ![th] = "publish"] /\ result' = result
            \/ /\ ~r.ready /\ pc' = [pc EXCEPT ![th] = "done"]
               /\ result' = [result EXCEPT ![th] = "raised"]
  <2>1. ASSUME NEW r \in InstanceType, instances' = [instances EXCEPT ![Name(th)][mine[th]] = r]
        PROVE  Becomes(Name(th), mine[th], r)
    BY <2>1, <1>0, <1>1, Replaced
  <2>2. ASSUME NEW up \in BOOLEAN,
               instances' = [instances EXCEPT ![Name(th)][mine[th]] =
                   [ready |-> TRUE, connected |-> up /\ Type(th) = "modbus",
                    lastError |-> NoThread]],
               Goto(th, "publish"), UNCHANGED callVars
        PROVE  \E r \in InstanceType :
                 /\ Becomes(Name(th), mine[th], r)
                 /\ r.ready /\ pc' = [pc EXCEPT ![th] = "publish"] /\ result' = result
    <3> DEFINE r == [ready |-> TRUE, connected |-> up /\ Type(th) = "modbus",
                     lastError |-> NoThread]
    <3>1. r \in InstanceType /\ r.ready BY DEF InstanceType
    <3>2. instances' = [instances EXCEPT ![Name(th)][mine[th]] = r] BY <2>2
    <3> HIDE DEF r
    <3> QED BY <2>1, <2>2, <3>1, <3>2 DEF Goto, callVars
  <2>3. CASE instances' = [instances EXCEPT ![Name(th)][mine[th]] = Freed] /\ Finish(th, "raised")
    <3>1. Freed \in InstanceType /\ ~Freed.ready BY DEF Freed, NewInstance, InstanceType
    <3> QED BY <2>1, <2>3, <3>1 DEF Finish, Goto
  <2> QED BY <2>2, <2>3 DEF Initialize
<1>4. PICK r \in InstanceType :
         /\ Becomes(Name(th), mine[th], r)
         /\ \/ r.ready /\ pc' = [pc EXCEPT ![th] = "publish"] /\ result' = result
            \/ /\ ~r.ready /\ pc' = [pc EXCEPT ![th] = "done"]
               /\ result' = [result EXCEPT ![th] = "raised"]
  BY <1>3
<1>5. /\ \A o \in Thread \ {th} : pc'[o] = pc[o] /\ result'[o] = result[o]
      /\ \/ r.ready /\ pc'[th] = "publish" /\ result'[th] = result[th]
         \/ ~r.ready /\ pc'[th] = "done" /\ result'[th] = "raised"
  BY <1>0, <1>4 DEF TypesOK
<1>6. TypesOK'
  <2>1. instances' \in [Executor -> Seq(InstanceType)] BY <1>4 DEF Becomes
  <2> QED BY <1>0, <1>2, <1>4, <2>1 DEF TypesOK, Places, Building
<1>7. Known(th)' /\ Late(th)'
  <2>1. Object(th)' = r BY <1>1, <1>2, <1>4 DEF Becomes, Object
  <2>2. Late(th) /\ (mine[th] \in DOMAIN instances'[Name(th)]) BY <1>1, <1>4 DEF IInv, Becomes
  <2> QED BY <1>1, <1>2, <1>5, <2>1, <2>2 DEF Known, Late, Work, Building
<1>8. ASSUME NEW o \in Thread \ {th} PROVE Known(o)' /\ Late(o)'
  <2>0. Known(o) /\ Late(o) /\ Apart(th, o) BY DEF IInv
  <2>1. pc[o] \in Work \cup Building => Name(o) # Name(th) \/ mine[o] # mine[th]
    BY <2>0, <1>1 DEF Known, Apart, Object, Building
  <2>2. pc[o] \in Work \cup Building => Object(o)' = Object(o)
    BY <2>0, <2>1, <1>2, <1>4 DEF Becomes, Object, Known
  <2>3. \A d \in Executor : DOMAIN instances'[d] = DOMAIN instances[d] BY <1>4 DEF Becomes
  <2> QED BY <2>0, <2>2, <2>3, <1>2, <1>5 DEF Known, Late, Work, Building
<1>9. ASSUME NEW d \in Executor PROVE Pool(d)'
  <2>0. Pool(d) BY DEF IInv
  <2>1. registry[d] # 0 => registry[d] \in DOMAIN instances[d]
    BY <2>0, <1>0, LenProperties DEF Pool, TypesOK
  <2>2. Len(instances'[d]) = Len(instances[d]) /\ DOMAIN instances'[d] = DOMAIN instances[d]
    BY <1>4 DEF Becomes
  <2>3. \A i \in DOMAIN instances[d] : ~(d = Name(th) /\ i = mine[th])
                                       => instances'[d][i] = instances[d][i]
    BY <1>4 DEF Becomes
  <2>4. registry[d] # 0 => ~(d = Name(th) /\ registry[d] = mine[th])
    BY <2>0, <1>1 DEF Pool, Object
  <2>5. ASSUME NEW i \in DOMAIN instances[d], instances'[d][i].ready, registry[d] # i
        PROVE  \/ d \in raced
               \/ \E o \in Thread : pc'[o] = "publish" /\ Name(o)' = d /\ mine'[o] = i
    <3>1. CASE d = Name(th) /\ i = mine[th]
      <4>1. instances'[d][i] = r BY <3>1, <1>4 DEF Becomes
      <4> QED BY <3>1, <4>1, <2>5, <1>2, <1>5
    <3>2. CASE ~(d = Name(th) /\ i = mine[th])
      <4>1. \A o \in Thread : pc[o] = "publish" => o # th BY <1>1
      <4> QED BY <3>2, <4>1, <2>0, <2>3, <2>5, <1>2, <1>5 DEF Pool
    <3> QED BY <3>1, <3>2
  <2> QED BY <2>0, <2>1, <2>2, <2>3, <2>4, <2>5, <1>2 DEF Pool
<1>10. ASSUME NEW o \in Thread, NEW u \in Thread, o # u PROVE Apart(o, u)'
  <2>0. Apart(o, u) BY <1>10 DEF IInv
  <2>1. \A v \in Thread : /\ pc'[v] \in Building => pc[v] \in Building
                          /\ pc'[v] = "initialize" => pc[v] = "initialize"
                          /\ pc'[v] \in Work => pc[v] \in Work
    BY <1>1, <1>5 DEF Building, Work
  <2> QED BY <2>0, <2>1, <1>2 DEF Apart
<1>11. \A o \in Thread : Known(o)' /\ Late(o)' BY <1>7, <1>8
<1> QED BY <1>6, <1>9, <1>10, <1>11 DEF IInv

\* The new instance is stored in the registry.
LEMMA PublishKeeps ==
  ASSUME IInv, NEW th \in Thread, Publish(th)
  PROVE  IInv'
<1>0. TypesOK /\ Known(th) /\ Late(th) BY DEF IInv
<1> DEFINE e == Name(th)
           i == mine[th]
<1>1. /\ pc[th] = "publish" /\ e \in Executor /\ i \in DOMAIN instances[e]
      /\ Object(th).ready /\ result[th] # "false" /\ call[th].asset \in Asset
  BY <1>0 DEF Publish, Known, Building
<1>2. /\ UNCHANGED <<instances, raced, call, mine, result, reason>>
      /\ registry' = [registry EXCEPT ![e] = i] /\ Share(th, e, i)
      /\ pc' = [pc EXCEPT ![th] = "ensure"] /\ \A o \in Thread : Name(o)' = Name(o)
  BY DEF Publish, Goto, Name
<1>3. pc'[th] = "ensure" /\ \A o \in Thread \ {th} : pc'[o] = pc[o]
  BY <1>0, <1>2 DEF TypesOK
<1>4. /\ shared' \in [Thread -> BOOLEAN]
      /\ \A o \in Thread \ {th} : shared[o] => shared'[o]
      /\ \A o, u \in Thread : o # u => Apart(o, u)'
  BY <1>2, <1>3, JoinApart
<1>5. i \in 1 .. Len(instances[e]) /\ i \in Nat
  BY <1>0, <1>1, LenProperties DEF TypesOK
<1>r. registry'[e] = i /\ \A d \in Executor \ {e} : registry'[d] = registry[d]
  BY <1>0, <1>1, <1>2 DEF TypesOK
<1>6. TypesOK' BY <1>0, <1>2, <1>4, <1>5 DEF TypesOK, Places, Work
<1>o. \A o \in Thread : Object(o)' = Object(o) BY <1>2 DEF Object
<1>7. Known(th)' /\ Late(th)'
  BY <1>1, <1>2, <1>3, <1>o DEF Known, Late, Work, Building
<1>8. ASSUME NEW o \in Thread \ {th} PROVE Known(o)' /\ Late(o)'
  <2>0. Known(o) /\ Late(o) /\ Apart(o, th) BY DEF IInv
  <2>1. Known(o)' BY <2>0, <1>2, <1>3, <1>4, <1>o DEF Known
  <2>2. pc[o] \in Building /\ Name(o) = e => e \in raced
    BY <2>0, <1>1 DEF Apart, Building
  <2>3. pc[o] \in Building => Name(o) \in Executor BY <2>0 DEF Known
  <2>4. Late(o)' BY <2>0, <2>2, <2>3, <1>2, <1>3, <1>r DEF Late
  <2> QED BY <2>1, <2>4
<1>9. ASSUME NEW d \in Executor PROVE Pool(d)'
  <2>0. Pool(d) BY DEF IInv
  <2>1. CASE d # e
    <3>1. \A o \in Thread : pc[o] = "publish" /\ Name(o) = d => o # th BY <2>1
    <3> QED BY <2>0, <2>1, <3>1, <1>2, <1>3, <1>r DEF Pool
  <2>2. CASE d = e
    <3>1. registry'[d] \in 0 .. Len(instances'[d]) BY <2>2, <1>2, <1>5, <1>r, <1>0, LenProperties DEF TypesOK
    <3>2. instances'[d][registry'[d]].ready BY <2>2, <1>1, <1>2, <1>r DEF Object
    <3>3. ASSUME NEW j \in DOMAIN instances[d], instances[d][j].ready, j # i
          PROVE  \/ d \in raced
                 \/ \E o \in Thread : pc'[o] = "publish" /\ Name(o)' = d /\ mine'[o] = j
      <4>1. CASE registry[d] = j
        BY <4>1, <3>3, <2>2, <1>0, <1>1, LenProperties DEF Late, Building, TypesOK
      <4>2. CASE registry[d] # j
        <5>1. \A o \in Thread : mine[o] = j => o # th BY <3>3
        <5> QED BY <4>2, <5>1, <3>3, <2>0, <1>2, <1>3 DEF Pool
      <4> QED BY <4>1, <4>2
    <3> QED BY <3>1, <3>2, <3>3, <2>2, <1>2, <1>r DEF Pool
  <2> QED BY <2>1, <2>2
<1>10. \A o \in Thread : Known(o)' /\ Late(o)' BY <1>7, <1>8
<1> QED BY <1>4, <1>6, <1>9, <1>10 DEF IInv

-----------------------------------------------------------------------------
(***************************************************************************)
(* The handler after the call, and reset().                                *)
(***************************************************************************)
\* A thread leaves its object: no other thread can tell.
LEMMA LeaveKeeps ==
  ASSUME IInv, NEW th \in Thread, NEW p \in {"done", "idle"}, pc' = [pc EXCEPT ![th] = p],
         pc[th] \in {"reason", "done"}, TypesOK', Known(th)',
         UNCHANGED <<registry, raced>>,
         \A o \in Thread \ {th} : /\ call'[o] = call[o] /\ mine'[o] = mine[o]
                                  /\ result'[o] = result[o] /\ reason'[o] = reason[o]
                                  /\ shared'[o] = shared[o],
         \A d \in Executor : /\ Len(instances'[d]) = Len(instances[d])
                             /\ DOMAIN instances'[d] = DOMAIN instances[d]
                             /\ \A i \in DOMAIN instances[d] :
                                   instances'[d][i].ready = instances[d][i].ready,
         \A o \in Thread \ {th} : pc[o] \in Work => Object(o)' = Object(o)
  PROVE  IInv'
<1>0. TypesOK BY DEF IInv
<1>1. pc'[th] = p /\ \A o \in Thread \ {th} : pc'[o] = pc[o] /\ Name(o)' = Name(o)
  BY <1>0 DEF TypesOK, Name
<1>2. ASSUME NEW o \in Thread \ {th} PROVE Known(o)' /\ Late(o)'
  <2>0. Known(o) /\ Late(o) BY DEF IInv
  <2>1. pc[o] \in Work \cup Building => Object(o)'.ready = Object(o).ready
    BY <2>0, <1>1 DEF Known, Object
  <2> QED BY <2>0, <2>1, <1>1 DEF Known, Late, Work, Building
<1>3. Late(th)' BY <1>1 DEF Late, Building
<1>4. ASSUME NEW d \in Executor PROVE Pool(d)'
  <2>0. Pool(d) BY DEF IInv
  <2>1. registry[d] # 0 => registry[d] \in DOMAIN instances[d]
    BY <2>0, <1>0, LenProperties DEF Pool, TypesOK
  <2>2. \A o \in Thread : pc[o] = "publish" => o # th OBVIOUS
  <2> QED BY <2>0, <2>1, <2>2, <1>1 DEF Pool
<1>5. ASSUME NEW o \in Thread, NEW u \in Thread, o # u PROVE Apart(o, u)'
  <2>0. Apart(o, u) BY <1>5 DEF IInv
  <2>1. \A v \in Thread : (pc'[v] \in Building \/ pc'[v] \in Work \/ pc'[v] = "initialize")
                          => v # th
    BY <1>1 DEF Building, Work
  <2> QED BY <2>0, <2>1, <1>1 DEF Apart
<1>6. \A o \in Thread : Known(o)' /\ Late(o)' BY <1>2, <1>3
<1> QED BY <1>4, <1>5, <1>6 DEF IInv

\* The handler reads last_error.
LEMMA ReadReasonKeeps ==
  ASSUME IInv, NEW th \in Thread, ReadReason(th)
  PROVE  IInv'
<1>0. TypesOK /\ Known(th) BY DEF IInv
<1>1. /\ pc[th] = "reason" /\ pc' = [pc EXCEPT ![th] = "done"]
      /\ reason' = [reason EXCEPT ![th] = Object(th).lastError]
      /\ UNCHANGED <<registry, instances, raced, call, mine, result, shared>>
  BY DEF ReadReason, Goto, Object, poolVars
<1>2. /\ Name(th) \in Executor /\ mine[th] \in DOMAIN instances[Name(th)]
      /\ call[th].asset \in Asset /\ (~shared[th] => Object(th).lastError = th)
  BY <1>0, <1>1 DEF Known, Work
<1>3. Object(th).lastError \in Thread \cup {NoThread}
  BY <1>0, <1>2, ObjectType DEF InstanceType
<1>4. TypesOK' BY <1>0, <1>1, <1>3 DEF TypesOK, Places
<1>5. pc'[th] = "done" /\ reason'[th] = Object(th).lastError
      /\ \A o \in Thread : Name(o)' = Name(o) /\ Object(o)' = Object(o)
  BY <1>0, <1>1 DEF TypesOK, Name, Object
<1>6. Known(th)' BY <1>1, <1>2, <1>5 DEF Known, Work, Building
<1>7. \A o \in Thread \ {th} : reason'[o] = reason[o] BY <1>0, <1>1 DEF TypesOK
<1> QED BY <1>1, <1>4, <1>5, <1>6, <1>7, LeaveKeeps

\* The handler answers and forgets its object.
LEMMA ReturnKeeps ==
  ASSUME IInv, NEW th \in Thread, Return(th)
  PROVE  IInv'
<1>0. TypesOK /\ Known(th) BY DEF IInv
<1>1. /\ pc[th] = "done" /\ pc' = [pc EXCEPT ![th] = "idle"]
      /\ call' = [call EXCEPT ![th] = NoCall] /\ mine' = [mine EXCEPT ![th] = 0]
      /\ result' = [result EXCEPT ![th] = "none"] /\ reason' = [reason EXCEPT ![th] = NoThread]
      /\ shared' = [shared EXCEPT ![th] = FALSE] /\ UNCHANGED <<registry, raced>>
  BY DEF Return, Goto
<1>2. /\ pc'[th] = "idle" /\ mine'[th] = 0 /\ result'[th] = "none"
      /\ \A o \in Thread \ {th} : /\ call'[o] = call[o] /\ mine'[o] = mine[o]
                                  /\ result'[o] = result[o] /\ reason'[o] = reason[o]
                                  /\ shared'[o] = shared[o] /\ Name(o)' = Name(o)
  BY <1>0, <1>1 DEF TypesOK, Name
<1>3. Known(th)' BY <1>2 DEF Known, Work, Building
<1>4. CASE UNCHANGED instances
  <2>1. TypesOK' BY <1>0, <1>1, <1>4 DEF TypesOK, Places
  <2>2. \A o \in Thread \ {th} : Object(o)' = Object(o) BY <1>2, <1>4 DEF Object
  <2> QED BY <1>1, <1>2, <1>3, <1>4, <2>1, <2>2, LeaveKeeps
<1>5. CASE /\ mine[th] # 0 /\ ~\E o \in Thread \ {th} : InUse(o) /\ Name(o) = Name(th)
           /\ SetError(th, NoThread)
  <2>1. Name(th) \in Executor /\ mine[th] \in DOMAIN instances[Name(th)]
    BY <1>0, <1>1, <1>5 DEF Known
  <2> DEFINE r == [Object(th) EXCEPT !.lastError = NoThread]
  <2>2. r \in InstanceType /\ Becomes(Name(th), mine[th], r)
    BY <1>0, <1>5, <2>1, ErrorSet
  <2>3. r.ready = Object(th).ready BY <1>0, <2>1, ObjectType DEF InstanceType
  <2> HIDE DEF r
  <2>4. TypesOK' BY <1>0, <1>1, <2>2 DEF TypesOK, Places, Becomes
  <2>5. \A d \in Executor : /\ Len(instances'[d]) = Len(instances[d])
                            /\ DOMAIN instances'[d] = DOMAIN instances[d]
                            /\ \A i \in DOMAIN instances[d] :
                                  instances'[d][i].ready = instances[d][i].ready
    BY <2>2, <2>3 DEF Becomes, Object
  <2>6. ASSUME NEW o \in Thread \ {th}, pc[o] \in Work PROVE Object(o)' = Object(o)
    <3>1. Name(o) # Name(th) BY <1>5, <2>6 DEF InUse, Work
    <3>2. Name(o) \in Executor /\ mine[o] \in DOMAIN instances[Name(o)]
      BY <2>6 DEF IInv, Known
    <3> QED BY <3>1, <3>2, <1>2, <2>2 DEF Becomes, Object
  <2> QED BY <1>1, <1>2, <1>3, <2>4, <2>5, <2>6, LeaveKeeps
<1> QED BY <1>4, <1>5 DEF Return

\* The service restarts.
LEMMA ResetKeeps ==
  ASSUME IInv, Reset
  PROVE  IInv'
<1>0. TypesOK BY DEF IInv
<1>1. /\ \A th \in Thread : pc[th] = "idle" /\ mine[th] = 0 /\ result[th] # "false"
      /\ registry' = [e \in Executor |-> 0] /\ instances' = [e \in Executor |-> <<>>]
      /\ UNCHANGED <<pc, call, mine, result, reason, shared>>
  BY DEF Reset, callVars, IInv, Known
<1>2. TypesOK' BY <1>0, <1>1, EmptySeq DEF TypesOK
<1>3. \A e \in Executor : Pool(e)' BY <1>1, EmptySeq DEF Pool
<1>4. \A th \in Thread : Known(th)' /\ Late(th)' BY <1>1 DEF Known, Late, Work, Building
<1>5. \A th, o \in Thread : Apart(th, o)' BY <1>1 DEF Apart, Work, Building
<1> QED BY <1>2, <1>3, <1>4, <1>5 DEF IInv

-----------------------------------------------------------------------------
\* Nothing is created yet.
LEMMA IInvInit == Init => IInv
<1> SUFFICES ASSUME Init PROVE IInv
  OBVIOUS
<1>2. TypesOK BY EmptySeq DEF Init, TypesOK, Places
<1>3. \A e \in Executor : Pool(e) BY EmptySeq DEF Init, Pool
<1>4. \A th \in Thread : Known(th) /\ Late(th) BY DEF Init, Known, Late, Work, Building
<1>5. \A th, o \in Thread : Apart(th, o) BY DEF Init, Apart, Work, Building
<1> QED BY <1>2, <1>3, <1>4, <1>5 DEF IInv

\* The inductive step, action by action.
LEMMA IInvStep == IInv /\ [Next]_vars => IInv'
<1> SUFFICES ASSUME IInv, [Next]_vars PROVE IInv'
  OBVIOUS
<1>1. ASSUME NEW th \in Thread, Step(th) PROVE IInv'
  BY <1>1, CreateKeeps, InitializeKeeps, PublishKeeps, WorkEffect, WorkKeeps, ReadReasonKeeps
  DEF Step
<1>2. CASE UNCHANGED vars
  <2>1. UNCHANGED <<registry, instances, raced, pc, call, mine, result, reason, shared>>
    BY <1>2 DEF vars, poolVars, callVars
  <2>2. \A th \in Thread : Name(th)' = Name(th) /\ Object(th)' = Object(th)
    BY <2>1 DEF Name, Object
  <2> QED BY <2>1, <2>2 DEF IInv, TypesOK, Pool, Known, Late, Apart
<1> QED BY <1>1, <1>2, ResetKeeps, GetExecutorKeeps, ReturnKeeps DEF Next

\* The registry, the threads and the objects stay in their ranges, and no two
\* threads disagree about an object, in every behaviour.
THEOREM ExecutorsInvariant == Spec => []IInv
BY IInvInit, IInvStep, PTL DEF Spec

\* get_executor hands out only objects that exist and are initialized, and an
\* object is lost to reset() only in a race (executor_manager.py 38-131).
THEOREM InstancesAccountedHolds == Spec => []InstancesAccounted
<1>1. IInv => InstancesAccounted
  <2> SUFFICES ASSUME IInv PROVE InstancesAccounted
    OBVIOUS
  <2>1. \A e \in Executor : Pool(e) BY DEF IInv
  <2>2. \A th \in Thread : InUse(th) => /\ mine[th] \in DOMAIN instances[Name(th)]
                                        /\ instances[Name(th)][mine[th]].ready
    BY DEF IInv, Known, InUse, Work, Object
  <2> QED BY <2>1, <2>2 DEF InstancesAccounted, Pool
<1> QED BY <1>1, ExecutorsInvariant, PTL

\* The second half of OutcomeIsReported: the error a handler reports for a
\* failed call is that call's own, unless another call ran on the same object
\* (ot_interface/routes.py reads last_error after execute has returned).
ReasonIsOwn ==
    \A th \in Thread :
        pc[th] = "done" /\ result[th] = "false" /\ ~shared[th] => reason[th] = th

\* A handler never reports another call's error for its own, without a second
\* call on the object, although last_error is one field without a lock.
\* (ot_interface/routes.py 163-198)
THEOREM ReasonIsOwnHolds == Spec => []ReasonIsOwn
<1>1. IInv => ReasonIsOwn BY DEF IInv, Known, ReasonIsOwn
<1> QED BY <1>1, ExecutorsInvariant, PTL

-----------------------------------------------------------------------------
(***************************************************************************)
(* What a call reports is what it did: the loop of ModbusExecutor.execute  *)
(* over the actions of a call, and over the low-level writes of an action. *)
(***************************************************************************)
\* The writes of every action of a call.
Norm(c) == [i \in DOMAIN c.actions |-> NormalizeAction(c.actions[i], ActionMappings[c.asset])]
Writes(c) == UNION {ToSet(Norm(c)[i]) : i \in DOMAIN c.actions}
Prog(c) == Program(c.actions, ActionMappings[c.asset])
High(c) == \A i \in DOMAIN c.actions : ~IsLowLevel(c.actions[i])

\* The first k actions are finished; of the next one, the first j writes.
Finished(c, t, a, k) ==
    /\ k \in 0 .. Len(c.actions)
    /\ t = SubSeq(c.actions, k + 1, Len(c.actions))
    /\ a = Joined(Norm(c), k)
Inside(c, t, l, a, k, j) ==
    /\ k \in 0 .. Len(c.actions) - 1
    /\ t = SubSeq(c.actions, k + 1, Len(c.actions))
    /\ j \in 0 .. Len(Norm(c)[k + 1]) - 1
    /\ l = SubSeq(Norm(c)[k + 1], j + 1, Len(Norm(c)[k + 1]))
    /\ a = Joined(Norm(c), k) \o SubSeq(Norm(c)[k + 1], 1, j)

AtNext(c, t, a) == \E k \in 0 .. Len(c.actions) : Finished(c, t, a, k)
AtWrite(c, t, l, a) ==
    \E k \in 0 .. Len(c.actions) - 1 :
        \E j \in 0 .. Len(Norm(c)[k + 1]) - 1 : Inside(c, t, l, a, k, j)

\* An answer that tells the truth about the acknowledged writes.
Honest(c, a, r) == IsPrefix(a, Prog(c)) /\ (r = "true" => a = Prog(c))

\* The actions of a call, and their writes, are lists; every action writes.
LEMMA NormType ==
  ASSUME NEW c \in Calls
  PROVE  /\ c.actions \in Seq(ToSet(c.actions)) /\ DOMAIN c.actions = 1 .. Len(c.actions)
         /\ Norm(c) \in Seq(Seq(Writes(c))) /\ Len(Norm(c)) = Len(c.actions)
         /\ Prog(c) = FlattenSeq(Norm(c))
         /\ \A i \in 1 .. Len(c.actions) :
               /\ Norm(c)[i] = NormalizeAction(c.actions[i], ActionMappings[c.asset])
               /\ Norm(c)[i] \in Seq(Writes(c)) /\ Len(Norm(c)[i]) > 0
<1> DEFINE s == c.actions
           m == ActionMappings[c.asset]
<1>1. PICK a \in Asset : c.asset = a /\ (c.actions \in ActionSequences[a] \/ c.actions = SafeActions[a])
  BY DEF Calls
<1>2. IsSeq(s) /\ s \in Seq(ToSet(s)) /\ DOMAIN s = 1 .. Len(s) /\ Len(s) \in Nat
  BY <1>1, ListAssumption DEF IsSeq
<1>3. \A t \in DOMAIN m : IsSeq(m[t])
  BY <1>1, ListAssumption
<1>4. ASSUME NEW x PROVE \E n \in Nat \ {0} : /\ DOMAIN NormalizeAction(x, m) = 1 .. n
                                             /\ NormalizeAction(x, m) = [i \in 1 .. n |-> NormalizeAction(x, m)[i]]
  <2> HIDE DEF m
  <2>1. CASE IsLowLevel(x)
    <3>1. NormalizeAction(x, m) = <<x>> BY <2>1 DEF NormalizeAction
    <3> QED BY <3>1
  <2> DEFINE maps == IF x.type \in DOMAIN m THEN m[x.type] ELSE <<>>
             raises == maps = <<>> \/ \E e \in ToSet(maps) : e.param \notin DOMAIN x.params
             W(i) == [reg |-> maps[i].reg,
                      vals |-> <<TruncDiv(x.params[maps[i].param] * maps[i].scale, One * One)>>]
  <2>2. CASE ~IsLowLevel(x) /\ raises
    <3>1. NormalizeAction(x, m) = <<Raise>> BY <2>2 DEF NormalizeAction, Translate
    <3> QED BY <3>1
  <2>3. CASE ~IsLowLevel(x) /\ ~raises
    <3>1. NormalizeAction(x, m) = [i \in DOMAIN maps |-> W(i)]
      BY <2>3 DEF NormalizeAction, Translate
    <3>2. maps # <<>> /\ IsSeq(maps) BY <2>3, <1>3
    <3>3. Len(maps) \in Nat \ {0} /\ DOMAIN maps = 1 .. Len(maps)
      <4> HIDE DEF maps
      <4> QED BY <3>2 DEF IsSeq
    <3> HIDE DEF maps, W
    <3> QED BY <3>1, <3>3
  <2> QED BY <2>1, <2>2, <2>3
<1>5. ASSUME NEW i \in 1 .. Len(s)
      PROVE  /\ Norm(c)[i] = NormalizeAction(s[i], m)
             /\ Norm(c)[i] \in Seq(Writes(c)) /\ Len(Norm(c)[i]) > 0
  <2>1. Norm(c)[i] = NormalizeAction(s[i], m) BY <1>2 DEF Norm
  <2>2. PICK n \in Nat \ {0} : /\ DOMAIN Norm(c)[i] = 1 .. n
                               /\ Norm(c)[i] = [l \in 1 .. n |-> Norm(c)[i][l]]
    BY <1>4, <2>1
  <2>3. \A l \in 1 .. n : Norm(c)[i][l] \in Writes(c)
    BY <1>2, <2>2 DEF Writes, ToSet
  <2> DEFINE w == Norm(c)[i]
  <2> HIDE DEF w
  <2>4. w = [l \in 1 .. n |-> w[l]] /\ \A l \in 1 .. n : w[l] \in Writes(c)
    BY <2>2, <2>3 DEF w
  <2>5. w \in Seq(Writes(c)) /\ Len(w) = n
    <3>1. [l \in 1 .. n |-> w[l]] \in Seq(Writes(c)) BY <2>4
    <3> QED BY <2>4, <3>1
  <2> QED BY <2>1, <2>5 DEF w
<1>6. Norm(c) \in Seq(Seq(Writes(c))) /\ Len(Norm(c)) = Len(s)
  <2>1. PICK n \in Nat : n = Len(s)
    BY <1>2
  <2>2. Norm(c) = [i \in 1 .. n |-> Norm(c)[i]]
    BY <1>2, <2>1 DEF Norm
  <2>3. \A i \in 1 .. n : Norm(c)[i] \in Seq(Writes(c))
    BY <1>5, <2>1
  <2> DEFINE w == Norm(c)
  <2> HIDE DEF w
  <2>4. w = [i \in 1 .. n |-> w[i]] /\ \A i \in 1 .. n : w[i] \in Seq(Writes(c))
    BY <2>2, <2>3 DEF w
  <2>5. w \in Seq(Seq(Writes(c))) /\ Len(w) = n
    <3>1. [i \in 1 .. n |-> w[i]] \in Seq(Seq(Writes(c))) BY <2>4
    <3>2. Len([i \in 1 .. n |-> w[i]]) = n BY <2>1
    <3>3. w \in Seq(Seq(Writes(c))) BY <2>4, <3>1
    <3>4. Len(w) = n BY <2>4, <3>2
    <3> QED BY <3>3, <3>4
  <2> QED BY <2>1, <2>5 DEF w
<1>7. Prog(c) = FlattenSeq(Norm(c)) BY DEF Prog, Program, Norm
<1> QED BY <1>2, <1>5, <1>6, <1>7

\* Before an action, and inside it, the acknowledged writes are a prefix of
\* what all the actions of the call give; after the last one they are all.
LEMMA PrefixSoFar ==
  ASSUME NEW c \in Calls, NEW t, NEW a
  PROVE  /\ AtNext(c, t, a) => IsPrefix(a, Prog(c))
         /\ AtNext(c, t, a) /\ t = <<>> => a = Prog(c)
         /\ \A l : AtWrite(c, t, l, a) => IsPrefix(a, Prog(c))
<1> DEFINE n == Len(c.actions)
           N == Norm(c)
           S == Writes(c)
<1>1. N \in Seq(Seq(S)) /\ Len(N) = n /\ n \in Nat /\ Prog(c) = FlattenSeq(N)
  BY NormType
<1>2. \A k \in 1 .. n : N[k] \in Seq(S)
  BY NormType
<1>3. c.actions \in Seq(ToSet(c.actions))
  BY NormType
<1> HIDE DEF n, N, S
<1>4. ASSUME NEW k \in 0 .. n PROVE Joined(N, k) \in Seq(S) /\ IsPrefix(Joined(N, k), Prog(c))
  <2>1. Joined(N, k) \in Seq(S) BY <1>1, JoinedStep
  <2>2. PICK rest \in Seq(S) : FlattenSeq(N) = Joined(N, k) \o rest BY <1>1, JoinedPrefix
  <2>3. IsPrefix(Joined(N, k), Joined(N, k) \o rest) BY <2>1, GoesOn
  <2> QED BY <2>1, <2>2, <2>3, <1>1
<1>5. ASSUME AtNext(c, t, a) PROVE IsPrefix(a, Prog(c)) /\ (t = <<>> => a = Prog(c))
  <2>1. PICK k \in 0 .. n : Finished(c, t, a, k) BY <1>5 DEF AtNext, n
  <2>2. a = Joined(N, k) /\ t = SubSeq(c.actions, k + 1, n) BY <2>1 DEF Finished, n, N
  <2>3. t = <<>> => k = n
    <3>1. k \in 0 .. Len(c.actions) /\ t = SubSeq(c.actions, k + 1, Len(c.actions))
      BY <2>1 DEF Finished
    <3> QED BY <3>1, <1>3, ListCutLast DEF n
  <2>4. Joined(N, n) = Prog(c) BY <1>1, JoinedStep
  <2> QED BY <2>2, <2>3, <2>4, <1>4
<1>6. ASSUME NEW l, AtWrite(c, t, l, a) PROVE IsPrefix(a, Prog(c))
  <2>1. PICK k \in 0 .. n - 1 : \E j \in 0 .. Len(N[k + 1]) - 1 : Inside(c, t, l, a, k, j)
    BY <1>6 DEF AtWrite, n, N
  <2>2. PICK j \in 0 .. Len(N[k + 1]) - 1 : Inside(c, t, l, a, k, j) BY <2>1
  <2>3. a = Joined(N, k) \o SubSeq(N[k + 1], 1, j) BY <2>2 DEF Inside, N
  <2>4. k \in 0 .. n /\ k + 1 \in 0 .. n /\ k + 1 \in 1 .. n BY <1>1
  <2>5. PICK w \in Seq(S) : w = N[k + 1] BY <2>4, <1>2
  <2> DEFINE v == SubSeq(w, 1, j)
             u == SubSeq(w, j + 1, Len(w))
  <2>6. j \in 0 .. Len(w) BY <2>5
  <2>7. v \in Seq(S) /\ u \in Seq(S) /\ w = v \o u
    BY <2>6, ListCut
  <2> HIDE DEF v, u
  <2>8. PICK rest \in Seq(S) : FlattenSeq(N) = Joined(N, k + 1) \o rest
    BY <2>4, <1>1, JoinedPrefix
  <2>9. PICK b \in Seq(S) : b = Joined(N, k) BY <2>4, <1>4
  <2>10. Joined(N, k + 1) = b \o w BY <2>5, <2>9, <1>1, JoinedStep
  <2>11. Prog(c) = (b \o (v \o u)) \o rest BY <2>7, <2>8, <2>10, <1>1
  <2>12. a = b \o v BY <2>3, <2>5, <2>9 DEF v
  <2>13. IsPrefix(b \o v, (b \o (v \o u)) \o rest) BY <2>7, <2>8, <2>9, GoesOnInside
  <2> QED BY <2>11, <2>12, <2>13
<1> QED BY <1>5, <1>6

\* The head of the loop: the next action is translated.
LEMMA ActionStarts ==
  ASSUME NEW c \in Calls, NEW t, NEW a, AtNext(c, t, a), t # <<>>
  PROVE  AtWrite(c, t, NormalizeAction(Head(t), ActionMappings[c.asset]), a)
<1> DEFINE n == Len(c.actions)
           N == Norm(c)
           S == Writes(c)
<1>1. N \in Seq(Seq(S)) /\ Len(N) = n /\ n \in Nat
  BY NormType
<1>3. c.actions \in Seq(ToSet(c.actions))
  BY NormType
<1>4. PICK k \in 0 .. n : Finished(c, t, a, k) BY DEF AtNext
<1>5. t = SubSeq(c.actions, k + 1, n) /\ a = Joined(N, k) BY <1>4 DEF Finished
<1>6. k \in 0 .. n - 1 /\ k + 1 \in 1 .. n
  <2>1. k = n => SubSeq(c.actions, k + 1, n) = <<>>
    <3>1. SubSeq(c.actions, n + 1, n) = <<>> BY <1>1, <1>3
    <3> QED BY <3>1
  <2>2. k # n BY <2>1, <1>5
  <2> QED BY <2>2, <1>1
<1>7. Head(t) = c.actions[k + 1] BY <1>3, <1>5, <1>6, ListCutNext
<1>8. PICK w \in Seq(S) : w = N[k + 1] /\ w = NormalizeAction(c.actions[k + 1], ActionMappings[c.asset]) /\ Len(w) > 0
  BY <1>6, NormType
<1>9. SubSeq(w, 0 + 1, Len(w)) = w /\ SubSeq(w, 1, 0) = <<>> /\ 0 \in 0 .. Len(w) - 1
  BY <1>8
<1>10. Joined(N, k) \o <<>> = Joined(N, k)
  <2>1. Joined(N, k) \in Seq(S) BY <1>1, JoinedStep
  <2> QED BY <2>1
<1>11. Inside(c, t, w, a, k, 0)
  BY <1>5, <1>6, <1>8, <1>9, <1>10 DEF Inside
<1> QED BY <1>6, <1>7, <1>8, <1>9, <1>11 DEF AtWrite

\* An acknowledged write: the next one of the action, or the action is done.
LEMMA WriteLands ==
  ASSUME NEW c \in Calls, NEW t, NEW l, NEW a, AtWrite(c, t, l, a)
  PROVE  /\ Len(l) > 1 => AtWrite(c, t, Tail(l), Append(a, Head(l)))
         /\ Len(l) = 1 => AtNext(c, Tail(t), Append(a, Head(l)))
         /\ Head(t) \in ToSet(c.actions)
<1> DEFINE n == Len(c.actions)
           N == Norm(c)
           S == Writes(c)
<1>1. N \in Seq(Seq(S)) /\ Len(N) = n /\ n \in Nat
  BY NormType
<1>2. \A k \in 1 .. n : N[k] \in Seq(S)
  BY NormType
<1>3. c.actions \in Seq(ToSet(c.actions))
  BY NormType
<1>4. PICK k \in 0 .. n - 1 : \E j \in 0 .. Len(N[k + 1]) - 1 : Inside(c, t, l, a, k, j)
  BY DEF AtWrite
<1>5. PICK j \in 0 .. Len(N[k + 1]) - 1 : Inside(c, t, l, a, k, j) BY <1>4
<1>6. PICK w \in Seq(S) : w = N[k + 1] BY <1>1, <1>2
<1>7. PICK b \in Seq(S) : b = Joined(N, k) BY <1>1, JoinedStep
<1>8. t = SubSeq(c.actions, k + 1, n) /\ l = SubSeq(w, j + 1, Len(w)) /\ a = b \o SubSeq(w, 1, j)
  BY <1>5, <1>6, <1>7 DEF Inside
<1>9. j \in 0 .. Len(w) - 1 BY <1>6
<1>10. Head(l) = w[j + 1] /\ Tail(l) = SubSeq(w, (j + 1) + 1, Len(w))
  BY <1>8, <1>9, ListCutNext
<1>11. Append(a, w[j + 1]) = b \o SubSeq(w, 1, j + 1)
  BY <1>7, <1>8, <1>9, AppendNext
<1>12. /\ Len(l) = 1 => j + 1 = Len(w) /\ SubSeq(w, 1, j + 1) = w
       /\ Len(l) > 1 => j + 1 \in 0 .. Len(w) - 1
  <2>1. j \in 0 .. Len(w) BY <1>9
  <2> QED BY <2>1, <1>8, ListCutLast
<1>13. ASSUME Len(l) > 1 PROVE AtWrite(c, t, Tail(l), Append(a, Head(l)))
  <2>1. Inside(c, t, Tail(l), Append(a, Head(l)), k, j + 1)
    BY <1>6, <1>7, <1>8, <1>10, <1>11, <1>12, <1>13 DEF Inside
  <2> QED BY <2>1, <1>6, <1>12, <1>13 DEF AtWrite
<1>14. ASSUME Len(l) = 1 PROVE AtNext(c, Tail(t), Append(a, Head(l)))
  <2>1. Append(a, Head(l)) = Joined(N, k + 1)
    <3>1. Joined(N, k + 1) = Joined(N, k) \o N[k + 1] BY <1>1, JoinedStep
    <3> QED BY <3>1, <1>6, <1>7, <1>10, <1>11, <1>12, <1>14
  <2>2. k \in 0 .. Len(c.actions) - 1 /\ k + 1 \in 0 .. Len(c.actions) BY <1>4, <1>1
  <2>3. Tail(t) = SubSeq(c.actions, (k + 1) + 1, Len(c.actions))
    BY <1>3, <1>8, <2>2, ListCutNext
  <2>4. Finished(c, Tail(t), Append(a, Head(l)), k + 1)
    BY <2>1, <2>2, <2>3 DEF Finished
  <2> QED BY <2>2, <2>4 DEF AtNext
<1>15. Head(t) \in ToSet(c.actions)
  <2>1. Head(t) = c.actions[k + 1]
    <3>1. k \in 0 .. Len(c.actions) - 1 BY <1>4
    <3> QED BY <1>3, <3>1, <1>8, ListCutNext
  <2>2. k + 1 \in DOMAIN c.actions BY <1>1, <1>4, NormType
  <2> QED BY <2>1, <2>2 DEF ToSet
<1> QED BY <1>13, <1>14, <1>15

\* The loop begins with all actions still to do.
LEMMA Begins ==
  ASSUME NEW c \in Calls
  PROVE  AtNext(c, c.actions, <<>>) /\ IsPrefix(<<>>, Prog(c)) /\ IsPrefix(Prog(c), Prog(c))
<1>1. /\ c.actions \in Seq(ToSet(c.actions)) /\ Norm(c) \in Seq(Seq(Writes(c)))
      /\ Prog(c) = FlattenSeq(Norm(c))
  BY NormType
<1>2. SubSeq(c.actions, 0 + 1, Len(c.actions)) = c.actions /\ 0 \in 0 .. Len(c.actions)
  BY <1>1
<1>3. Joined(Norm(c), 0) = <<>> BY <1>1, JoinedStep
<1>4. Finished(c, c.actions, <<>>, 0) BY <1>2, <1>3 DEF Finished
<1>5. AtNext(c, c.actions, <<>>) BY <1>2, <1>4 DEF AtNext
<1>6. Len(Prog(c)) \in Nat
  <2>1. Prog(c) \in Seq(Writes(c)) BY <1>1, FlattenType
  <2> QED BY <2>1, LenProperties
<1>7. IsPrefix(Prog(c), Prog(c)) BY <1>6 DEF IsPrefix
<1> QED BY <1>5, <1>7, PrefixSoFar

-----------------------------------------------------------------------------
\* The places of a call that has not sent anything.
Fresh == {"create", "initialize", "publish", "ensure", "connect"}

\* The calls whose outcome OutcomeIsReported speaks of.
Checked(c, y) == ExecutorOf[c.asset] # NoExecutor /\ y # "mock" /\ (High(c) \/ y = "plc_adapter")

\* A call c to an executor of type y, at p, with actions t and writes l to do,
\* writes a acknowledged and r returned.
Follows(c, y, p, t, l, a, r) ==
    /\ p = "idle" => a = <<>>
    /\ p # "idle" => c \in Calls
    /\ p \in Fresh => a = <<>> /\ t = c.actions
    /\ p \notin {"reason", "done"} => r = "none"
    /\ p \in {"connect", "next", "write"} => y = "modbus"
    /\ p = "next" /\ High(c) => AtNext(c, t, a)
    /\ p = "write" /\ High(c) => AtWrite(c, t, l, a)
    /\ p \in {"reason", "done"} /\ Checked(c, y) => Honest(c, a, r)

Progress(th) == Follows(call[th], Type(th), pc[th], todo[th], low[th], acked[th], result[th])
Rows == DOMAIN todo = Thread /\ DOMAIN low = Thread /\ DOMAIN acked = Thread
BInv == Rows /\ \A th \in Thread : Progress(th)

\* Thread th comes to a new state; the others stay where they are.
Moves(th, c, p, t, l, a, r) ==
    /\ typeOf' = typeOf /\ Rows'
    /\ /\ call'[th] = c /\ pc'[th] = p /\ todo'[th] = t
       /\ low'[th] = l /\ acked'[th] = a /\ result'[th] = r
    /\ \A o \in Thread \ {th} :
          /\ call'[o] = call[o] /\ pc'[o] = pc[o] /\ todo'[o] = todo[o]
          /\ low'[o] = low[o] /\ acked'[o] = acked[o] /\ result'[o] = result[o]

\* A step of one thread keeps the invariant when it does so for that thread.
LEMMA MovesKeeps ==
  ASSUME BInv, NEW th \in Thread, NEW c, NEW p, NEW t, NEW l, NEW a, NEW r,
         Moves(th, c, p, t, l, a, r), Follows(c, Type(th)', p, t, l, a, r)
  PROVE  BInv'
<1>1. Progress(th)' BY DEF Moves, Progress
<1>2. ASSUME NEW o \in Thread \ {th} PROVE Progress(o)'
  <2>1. Progress(o) BY DEF BInv
  <2>2. Type(o)' = Type(o) BY DEF Moves, Type, Name
  <2>3. /\ call'[o] = call[o] /\ pc'[o] = pc[o] /\ todo'[o] = todo[o]
        /\ low'[o] = low[o] /\ acked'[o] = acked[o] /\ result'[o] = result[o]
    BY DEF Moves
  <2> QED BY <2>1, <2>2, <2>3 DEF Progress
<1> QED BY <1>1, <1>2 DEF BInv, Moves

\* The thread's call, and so the type of its executor, stays the same.
LEMMA SameCall ==
  ASSUME NEW th \in Thread, NEW c, NEW p, NEW t, NEW l, NEW a, NEW r,
         Moves(th, call[th], p, t, l, a, r)
  PROVE  Type(th)' = Type(th)
BY DEF Moves, Type, Name

\* The end of a call that has sent nothing, or whose outcome nobody checks.
LEMMA EndsFresh ==
  ASSUME NEW c \in Calls, NEW y, NEW p \in {"reason", "done"}, NEW t, NEW l, NEW r, r # "true"
  PROVE  Follows(c, y, p, t, l, <<>>, r)
BY Begins DEF Follows, Fresh, Honest

\* Finish ends the call in its thread.
LEMMA FinishMoves ==
  ASSUME TypesOK, Rows, NEW th \in Thread, NEW r \in {"true", "false", "raised"}, Finish(th, r),
         typeOf' = typeOf
  PROVE  Moves(th, call[th], IF r = "false" THEN "reason" ELSE "done", <<>>, <<>>, acked[th], r)
BY DEF Finish, Goto, TypesOK, Rows, Moves

\* A step that only moves the call on.
LEMMA GotoMoves ==
  ASSUME TypesOK, Rows, NEW th \in Thread, NEW p, Goto(th, p),
         UNCHANGED <<typeOf, call, todo, low, acked, result>>
  PROVE  Moves(th, call[th], p, todo[th], low[th], acked[th], result[th])
BY DEF Goto, TypesOK, Rows, Moves

\* get_executor up to the hand-over: nothing has been sent.
LEMMA HandOverFollows ==
  ASSUME TypesOK, BInv, NEW th \in Thread, typeOf' = typeOf,
         GetExecutor(th) \/ Create(th) \/ Initialize(th) \/ Publish(th)
  PROVE  BInv'
<1>0. Progress(th) /\ Rows BY DEF BInv
<1>1. CASE GetExecutor(th)
  <2>1. PICK c \in Calls : /\ pc[th] = "idle" /\ call' = [call EXCEPT ![th] = c]
                           /\ todo' = [todo EXCEPT ![th] = c.actions]
                           /\ UNCHANGED <<low, acked>>
                           /\ \/ /\ ExecutorOf[c.asset] = NoExecutor /\ Goto(th, "done")
                                 /\ result' = [result EXCEPT ![th] = "raised"]
                              \/ Goto(th, "ensure") /\ UNCHANGED result
                              \/ Goto(th, "create") /\ UNCHANGED result
    BY <1>1 DEF GetExecutor
  <2>2. acked[th] = <<>> /\ result[th] = "none" BY <1>0, <2>1 DEF Progress, Follows
  <2>3. CASE ExecutorOf[c.asset] = NoExecutor /\ Goto(th, "done")
             /\ result' = [result EXCEPT ![th] = "raised"]
    <3>1. Moves(th, c, "done", c.actions, low[th], <<>>, "raised")
      BY <1>0, <2>1, <2>2, <2>3 DEF Moves, Goto, TypesOK, Rows
    <3>2. Follows(c, Type(th)', "done", c.actions, low[th], <<>>, "raised") BY EndsFresh
    <3> QED BY <3>1, <3>2, MovesKeeps
  <2>4. ASSUME NEW p \in {"ensure", "create"}, Goto(th, p), UNCHANGED result PROVE BInv'
    <3>1. Moves(th, c, p, c.actions, low[th], <<>>, "none")
      BY <1>0, <2>1, <2>2, <2>4 DEF Moves, Goto, TypesOK, Rows
    <3>2. Follows(c, Type(th)', p, c.actions, low[th], <<>>, "none") BY DEF Follows, Fresh
    <3> QED BY <3>1, <3>2, MovesKeeps
  <2> QED BY <2>1, <2>3, <2>4
<1>2. CASE Create(th) \/ Initialize(th) \/ Publish(th)
  <2>1. pc[th] \in {"create", "initialize", "publish"}
    BY <1>2 DEF Create, Initialize, Publish
  <2>2. call[th] \in Calls /\ acked[th] = <<>> /\ todo[th] = call[th].actions /\ result[th] = "none"
    BY <1>0, <2>1 DEF Progress, Follows, Fresh
  <2>3. \/ Finish(th, "raised")
        \/ \E p \in {"initialize", "publish", "ensure"} :
              Goto(th, p) /\ UNCHANGED <<call, todo, low, acked, result>>
    BY <1>2 DEF Create, Initialize, Publish, callVars
  <2>4. CASE Finish(th, "raised")
    <3>1. Moves(th, call[th], "done", <<>>, <<>>, <<>>, "raised") BY <1>0, <2>2, <2>4, FinishMoves
    <3>2. Follows(call[th], Type(th)', "done", <<>>, <<>>, <<>>, "raised") BY <2>2, EndsFresh
    <3> QED BY <3>1, <3>2, MovesKeeps
  <2>5. ASSUME NEW p \in {"initialize", "publish", "ensure"}, Goto(th, p),
               UNCHANGED <<call, todo, low, acked, result>>
        PROVE  BInv'
    <3>1. Moves(th, call[th], p, todo[th], low[th], acked[th], result[th])
      BY <1>0, <2>5, GotoMoves
    <3>2. Follows(call[th], Type(th)', p, todo[th], low[th], acked[th], result[th])
      BY <2>2 DEF Follows, Fresh
    <3> QED BY <3>1, <3>2, MovesKeeps
  <2> QED BY <2>3, <2>4, <2>5
<1> QED BY <1>1, <1>2

\* MockExecutor answers without a device; PLCAdapterExecutor reports what the
\* adapter did with the whole request.
LEMMA OneStepFollows ==
  ASSUME TypesOK, BInv, NEW th \in Thread, typeOf' = typeOf, MockCall(th) \/ RemoteCall(th)
  PROVE  BInv'
<1>0. Progress(th) /\ Rows BY DEF BInv
<1>1. pc[th] = "ensure" BY DEF MockCall, RemoteCall
<1>2. call[th] \in Calls /\ acked[th] = <<>> /\ result[th] = "none"
  BY <1>0, <1>1 DEF Progress, Follows, Fresh
<1>3. CASE MockCall(th)
  <2>1. Type(th) = "mock" /\ Finish(th, "true") BY <1>3 DEF MockCall
  <2>2. Moves(th, call[th], "done", <<>>, <<>>, <<>>, "true") BY <1>0, <1>2, <2>1, FinishMoves
  <2>3. Type(th)' = "mock" BY <2>1, <2>2, SameCall
  <2>4. Follows(call[th], Type(th)', "done", <<>>, <<>>, <<>>, "true")
    BY <1>2, <2>3 DEF Follows, Fresh, Checked
  <2> QED BY <2>2, <2>4, MovesKeeps
<1>4. CASE RemoteCall(th)
  <2>1. \/ /\ Goto(th, "done") /\ result' = [result EXCEPT ![th] = "true"]
           /\ acked' = [acked EXCEPT ![th] = RemoteProgram(th)]
           /\ todo' = [todo EXCEPT ![th] = <<>>]
           /\ UNCHANGED <<call, low>>
        \/ Finish(th, "false")
        \/ Finish(th, "raised")
    BY <1>4 DEF RemoteCall
  <2>2. CASE /\ Goto(th, "done") /\ result' = [result EXCEPT ![th] = "true"]
             /\ acked' = [acked EXCEPT ![th] = RemoteProgram(th)]
             /\ todo' = [todo EXCEPT ![th] = <<>>]
             /\ UNCHANGED <<call, low>>
    <3>1. RemoteProgram(th) = Prog(call[th]) BY DEF RemoteProgram, Prog
    <3> DEFINE w == Prog(call[th])
    <3> HIDE DEF w
    <3>2. Moves(th, call[th], "done", <<>>, low[th], w, "true")
      BY <1>0, <2>2, <3>1 DEF Moves, Goto, TypesOK, Rows, w
    <3>3. Follows(call[th], Type(th)', "done", <<>>, low[th], w, "true")
      BY <1>2, Begins DEF Follows, Fresh, Honest, w
    <3> QED BY <3>2, <3>3, MovesKeeps
  <2>3. ASSUME NEW r \in {"false", "raised"}, Finish(th, r) PROVE BInv'
    <3> DEFINE p == IF r = "false" THEN "reason" ELSE "done"
    <3>1. Moves(th, call[th], p, <<>>, <<>>, <<>>, r) BY <1>0, <1>2, <2>3, FinishMoves
    <3>2. p \in {"reason", "done"} /\ r # "true" OBVIOUS
    <3> HIDE DEF p
    <3>3. Follows(call[th], Type(th)', p, <<>>, <<>>, <<>>, r) BY <1>2, <3>2, EndsFresh
    <3> QED BY <3>1, <3>3, MovesKeeps
  <2> QED BY <2>1, <2>2, <2>3
<1> QED BY <1>3, <1>4

\* ModbusExecutor before its loop: safe_state without actions raises, and a
\* call without a connection fails; nothing is sent either way.
LEMMA ConnectFollows ==
  ASSUME TypesOK, BInv, NEW th \in Thread, typeOf' = typeOf, Ensure(th) \/ Connect(th)
  PROVE  BInv'
<1>0. Progress(th) /\ Rows BY DEF BInv
<1>1. pc[th] \in {"ensure", "connect"} BY DEF Ensure, Connect
<1>2. /\ call[th] \in Calls /\ acked[th] = <<>> /\ result[th] = "none" /\ todo[th] = call[th].actions
      /\ Type(th) = "modbus"
  BY <1>0, <1>1 DEF Progress, Follows, Fresh, Ensure, Connect
<1>3. \/ \E r \in {"false", "raised"} : Finish(th, r)
      \/ \E p \in {"next", "connect"} : Goto(th, p) /\ UNCHANGED <<call, todo, low, acked, result>>
  BY DEF Ensure, Connect, callVars
<1>4. ASSUME NEW r \in {"false", "raised"}, Finish(th, r) PROVE BInv'
  <2> DEFINE p == IF r = "false" THEN "reason" ELSE "done"
  <2>1. Moves(th, call[th], p, <<>>, <<>>, <<>>, r) BY <1>0, <1>2, <1>4, FinishMoves
  <2>2. p \in {"reason", "done"} /\ r # "true" OBVIOUS
  <2> HIDE DEF p
  <2>3. Follows(call[th], Type(th)', p, <<>>, <<>>, <<>>, r) BY <1>2, <2>2, EndsFresh
  <2> QED BY <2>1, <2>3, MovesKeeps
<1>5. ASSUME NEW p \in {"next", "connect"}, Goto(th, p), UNCHANGED <<call, todo, low, acked, result>>
      PROVE  BInv'
  <2>1. Moves(th, call[th], p, todo[th], low[th], acked[th], result[th]) BY <1>0, <1>5, GotoMoves
  <2>2. Type(th)' = "modbus" BY <1>2, <2>1, SameCall
  <2>3. Follows(call[th], Type(th)', p, todo[th], low[th], acked[th], result[th])
    BY <1>2, <2>2, Begins DEF Follows, Fresh
  <2> QED BY <2>1, <2>3, MovesKeeps
<1> QED BY <1>3, <1>4, <1>5

\* The loop of ModbusExecutor.execute: an action is translated, its writes are
\* sent one by one, and the first that fails ends a translated call.
LEMMA LoopFollows ==
  ASSUME TypesOK, BInv, NEW th \in Thread, typeOf' = typeOf,
         NextAction(th) \/ WriteSucceeds(th) \/ WriteFails(th)
  PROVE  BInv'
<1> DEFINE c == call[th]
<1>0. Progress(th) /\ Rows BY DEF BInv
<1>1. pc[th] \in {"next", "write"} BY DEF NextAction, WriteSucceeds, WriteFails
<1>2. /\ c \in Calls /\ result[th] = "none" /\ Type(th) = "modbus"
      /\ pc[th] = "next" /\ High(c) => AtNext(c, todo[th], acked[th])
      /\ pc[th] = "write" /\ High(c) => AtWrite(c, todo[th], low[th], acked[th])
  BY <1>0, <1>1 DEF Progress, Follows
<1>3. ASSUME NEW p, NEW t, NEW l, NEW a, NEW r, Moves(th, call[th], p, t, l, a, r),
             p \in {"next", "write"} => r = "none",
             p = "next" /\ High(c) => AtNext(c, t, a),
             p = "write" /\ High(c) => AtWrite(c, t, l, a),
             p \in {"reason", "done"} /\ High(c) => Honest(c, a, r),
             p \in {"next", "write", "reason", "done"}
      PROVE  BInv'
  <2>1. Type(th)' = "modbus" BY <1>2, <1>3, SameCall
  <2>2. Follows(call[th], Type(th)', p, t, l, a, r) BY <1>2, <1>3, <2>1 DEF Follows, Fresh, Checked
  <2> QED BY <1>3, <2>2, MovesKeeps
<1>4. CASE NextAction(th)
  <2> DEFINE lows == NormalizeAction(Head(todo[th]), ActionMappings[call[th].asset])
  <2>1. /\ pc[th] = "next"
        /\ \/ todo[th] = <<>> /\ Finish(th, "true")
           \/ Finish(th, "false")
           \/ /\ todo[th] # <<>> /\ low' = [low EXCEPT ![th] = lows]
              /\ Goto(th, "write") /\ UNCHANGED <<call, todo, acked, result>>
    BY <1>4 DEF NextAction
  <2>2. CASE todo[th] = <<>> /\ Finish(th, "true")
    <3>1. Moves(th, call[th], "done", <<>>, <<>>, acked[th], "true") BY <1>0, <2>2, FinishMoves
    <3>2. High(c) => Honest(c, acked[th], "true") BY <1>2, <2>1, <2>2, PrefixSoFar DEF Honest
    <3> QED BY <1>3, <3>1, <3>2
  <2>3. CASE Finish(th, "false")
    <3>1. Moves(th, call[th], "reason", <<>>, <<>>, acked[th], "false") BY <1>0, <2>3, FinishMoves
    <3>2. High(c) => Honest(c, acked[th], "false") BY <1>2, <2>1, PrefixSoFar DEF Honest
    <3> QED BY <1>3, <3>1, <3>2
  <2>4. CASE /\ todo[th] # <<>> /\ low' = [low EXCEPT ![th] = lows]
             /\ Goto(th, "write") /\ UNCHANGED <<call, todo, acked, result>>
    <3>1. Moves(th, call[th], "write", todo[th], lows, acked[th], "none")
      <4> HIDE DEF lows
      <4> QED BY <1>0, <1>2, <2>4 DEF Moves, Goto, TypesOK, Rows
    <3>2. High(c) => AtWrite(c, todo[th], lows, acked[th]) BY <1>2, <2>1, <2>4, ActionStarts
    <3> HIDE DEF lows, c
    <3> QED BY <1>3, <3>1, <3>2
  <2> QED BY <2>1, <2>2, <2>3, <2>4
<1>5. CASE WriteSucceeds(th)
  <2> DEFINE a == Append(acked[th], Head(low[th]))
  <2>1. /\ pc[th] = "write" /\ acked' = [acked EXCEPT ![th] = a]
        /\ \/ Len(low[th]) > 1 /\ low' = [low EXCEPT ![th] = Tail(low[th])] /\ UNCHANGED <<pc, todo>>
           \/ /\ Len(low[th]) = 1 /\ todo' = [todo EXCEPT ![th] = Tail(todo[th])]
              /\ low' = [low EXCEPT ![th] = <<>>] /\ Goto(th, "next")
        /\ UNCHANGED <<call, result>>
    BY <1>5 DEF WriteSucceeds, ActionDone
  <2>2. High(c) => /\ Len(low[th]) > 1 => AtWrite(c, todo[th], Tail(low[th]), a)
                   /\ Len(low[th]) = 1 => AtNext(c, Tail(todo[th]), a)
    BY <1>2, <2>1, WriteLands
  <2> HIDE DEF a, c
  <2>3. CASE Len(low[th]) > 1 /\ low' = [low EXCEPT ![th] = Tail(low[th])] /\ UNCHANGED <<pc, todo>>
    <3>1. Moves(th, call[th], "write", todo[th], Tail(low[th]), a, "none")
      BY <1>0, <1>2, <2>1, <2>3 DEF Moves, TypesOK, Rows
    <3> QED BY <1>3, <2>2, <2>3, <3>1
  <2>4. CASE /\ Len(low[th]) = 1 /\ todo' = [todo EXCEPT ![th] = Tail(todo[th])]
             /\ low' = [low EXCEPT ![th] = <<>>] /\ Goto(th, "next")
    <3>1. Moves(th, call[th], "next", Tail(todo[th]), <<>>, a, "none")
      BY <1>0, <1>2, <2>1, <2>4 DEF Moves, Goto, TypesOK, Rows
    <3> QED BY <1>3, <2>2, <2>4, <3>1
  <2> QED BY <2>1, <2>3, <2>4
<1>6. CASE WriteFails(th)
  <2>1. /\ pc[th] = "write"
        /\ \/ Finish(th, "false")
           \/ /\ IsLowLevel(Head(todo[th])) /\ todo' = [todo EXCEPT ![th] = Tail(todo[th])]
              /\ low' = [low EXCEPT ![th] = <<>>] /\ Goto(th, "next")
              /\ UNCHANGED <<call, acked, result>>
    BY <1>6 DEF WriteFails, ActionDone
  <2>2. CASE Finish(th, "false")
    <3>1. Moves(th, call[th], "reason", <<>>, <<>>, acked[th], "false") BY <1>0, <2>2, FinishMoves
    <3>2. High(c) => Honest(c, acked[th], "false") BY <1>2, <2>1, PrefixSoFar DEF Honest
    <3> HIDE DEF c
    <3> QED BY <1>3, <3>1, <3>2
  <2>3. CASE /\ IsLowLevel(Head(todo[th])) /\ todo' = [todo EXCEPT ![th] = Tail(todo[th])]
             /\ low' = [low EXCEPT ![th] = <<>>] /\ Goto(th, "next")
             /\ UNCHANGED <<call, acked, result>>
    <3>1. ~High(c)
      <4> SUFFICES ASSUME High(c) PROVE FALSE
        OBVIOUS
      <4>1. Head(todo[th]) \in ToSet(c.actions) BY <1>2, <2>1, WriteLands
      <4> QED BY <4>1, <2>3 DEF High, ToSet
    <3>2. Moves(th, call[th], "next", Tail(todo[th]), <<>>, acked[th], "none")
      BY <1>0, <1>2, <2>3 DEF Moves, Goto, TypesOK, Rows
    <3> HIDE DEF c
    <3> QED BY <1>3, <3>1, <3>2
  <2> QED BY <2>1, <2>2, <2>3
<1> QED BY <1>4, <1>5, <1>6

\* After the call: last_error is read, and the thread takes the next request.
LEMMA AnswerFollows ==
  ASSUME TypesOK, BInv, NEW th \in Thread, typeOf' = typeOf, ReadReason(th) \/ Return(th)
  PROVE  BInv'
<1>0. Progress(th) /\ Rows BY DEF BInv
<1>1. CASE ReadReason(th)
  <2>1. pc[th] = "reason" /\ Goto(th, "done") /\ UNCHANGED <<call, todo, low, acked, result>>
    BY <1>1 DEF ReadReason
  <2>2. Moves(th, call[th], "done", todo[th], low[th], acked[th], result[th])
    BY <1>0, <2>1, GotoMoves
  <2>3. Type(th)' = Type(th) BY <2>2, SameCall
  <2>4. Follows(call[th], Type(th), "reason", todo[th], low[th], acked[th], result[th])
    BY <1>0, <2>1 DEF Progress
  <2>5. Follows(call[th], Type(th)', "done", todo[th], low[th], acked[th], result[th])
    BY <2>3, <2>4 DEF Follows, Fresh
  <2> QED BY <2>2, <2>5, MovesKeeps
<1>2. CASE Return(th)
  <2>1. /\ Goto(th, "idle") /\ call' = [call EXCEPT ![th] = NoCall]
        /\ todo' = [todo EXCEPT ![th] = <<>>] /\ result' = [result EXCEPT ![th] = "none"]
        /\ acked' = [acked EXCEPT ![th] = <<>>] /\ UNCHANGED low
    BY <1>2 DEF Return
  <2>2. Moves(th, NoCall, "idle", <<>>, low[th], <<>>, "none")
    BY <1>0, <2>1 DEF Moves, Goto, TypesOK, Rows
  <2>3. Follows(NoCall, Type(th)', "idle", <<>>, low[th], <<>>, "none") BY DEF Follows, Fresh
  <2> QED BY <2>2, <2>3, MovesKeeps
<1> QED BY <1>1, <1>2

-----------------------------------------------------------------------------
\* No call is made at the start.
LEMMA BInvInit == Init => BInv
BY DEF Init, BInv, Rows, Progress, Follows, Fresh

\* The loop invariant is kept by every step.
LEMMA BInvStep == IInv /\ BInv /\ [Next]_vars => BInv'
<1> SUFFICES ASSUME IInv, BInv, [Next]_vars PROVE BInv'
  OBVIOUS
<1>0. TypesOK BY DEF IInv
<1>1. ASSUME NEW th \in Thread, GetExecutor(th) \/ Step(th) \/ Return(th), UNCHANGED envVars
      PROVE  BInv'
  <2>1. typeOf' = typeOf BY <1>1 DEF envVars
  <2> QED BY <1>0, <1>1, <2>1, HandOverFollows, OneStepFollows, ConnectFollows, LoopFollows,
             AnswerFollows DEF Step
<1>2. CASE Reset
  <2>1. /\ \A th \in Thread : pc[th] = "idle"
        /\ UNCHANGED <<pc, call, todo, low, acked, result>>
    BY <1>2 DEF Reset, callVars
  <2>2. ASSUME NEW th \in Thread PROVE Progress(th)'
    <3>1. Progress(th) /\ pc[th] = "idle" BY <2>1 DEF BInv
    <3> QED BY <2>1, <3>1 DEF Progress, Follows, Fresh
  <2> QED BY <2>1, <2>2 DEF BInv, Rows
<1>3. CASE UNCHANGED vars
  <2>1. UNCHANGED <<typeOf, pc, call, todo, low, acked, result>>
    BY <1>3 DEF vars, callVars, envVars
  <2>2. ASSUME NEW th \in Thread PROVE Progress(th)'
    <3>1. Type(th)' = Type(th) BY <2>1 DEF Type, Name
    <3> QED BY <2>1, <3>1 DEF BInv, Progress
  <2> QED BY <2>1, <2>2 DEF BInv, Rows
<1> QED BY <1>1, <1>2, <1>3 DEF Next

\* What a call reports is what it did: the writes the device acknowledged are a
\* prefix of what the request asks for, all of it when the answer is True, and
\* the reason given for a failure is that call's own unless another call ran on
\* the same object (modbus_executor.py 121-198, plc_adapter_executor.py 41-90).
THEOREM OutcomeIsReportedHolds == Spec => []OutcomeIsReported
<1>1. IInv /\ BInv => OutcomeIsReported
  <2> SUFFICES ASSUME IInv, BInv, NEW th \in Thread
               PROVE  /\ pc[th] \notin {"idle", "create"} /\ Physical(th)
                           /\ (Translated(th) \/ Type(th) = "plc_adapter") =>
                            LET prog == RemoteProgram(th) IN
                            /\ IsPrefix(acked[th], prog)
                            /\ result[th] = "true" => acked[th] = prog
                      /\ pc[th] = "done" /\ result[th] = "false" /\ ~shared[th] => reason[th] = th
    BY DEF OutcomeIsReported
  <2>1. pc[th] = "done" /\ result[th] = "false" /\ ~shared[th] => reason[th] = th
    BY DEF IInv, Known
  <2>2. Follows(call[th], Type(th), pc[th], todo[th], low[th], acked[th], result[th])
    BY DEF BInv, Progress
  <2>3. ASSUME pc[th] \notin {"idle", "create"}, Physical(th),
               Translated(th) \/ Type(th) = "plc_adapter"
        PROVE  Honest(call[th], acked[th], result[th])
    <3>1. call[th] \in Calls /\ Checked(call[th], Type(th))
      BY <2>2, <2>3 DEF Follows, Physical, Translated, Checked, High, Name
    <3>2. pc[th] \in Places BY DEF IInv, TypesOK
    <3>3. CASE pc[th] \in Fresh
      BY <2>2, <3>1, <3>3, Begins DEF Follows, Fresh, Honest
    <3>4. CASE pc[th] \in {"next", "write"}
      BY <2>2, <3>1, <3>4, PrefixSoFar DEF Follows, Fresh, Honest, Checked
    <3>5. CASE pc[th] \in {"reason", "done"}
      BY <2>2, <3>1, <3>5 DEF Follows
    <3> QED BY <2>3, <3>2, <3>3, <3>4, <3>5 DEF Places, Work, Building, Fresh
  <2>4. RemoteProgram(th) = Prog(call[th]) BY DEF RemoteProgram, Prog
  <2> QED BY <2>1, <2>3, <2>4 DEF Honest
<1> QED BY <1>1, IInvInit, IInvStep, BInvInit, BInvStep, PTL DEF Spec
=============================================================================
