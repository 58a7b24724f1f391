-------------------------- MODULE IsaacProxyProofs --------------------------
(***************************************************************************)
(* Theorems about IsaacProxy: a caller only ever gets the worker's reply   *)
(* to its own request, computed in the world it asked for, and once a      *)
(* reply has been abandoned no caller gets a result any more.              *)
(***************************************************************************)
EXTENDS IsaacProxy, TLAPS

-----------------------------------------------------------------------------
(***************************************************************************)
(* The inductive invariant.                                                *)
(***************************************************************************)
\* The caller that waits for a reply, and no other, holds _rpc_lock.
Holder == \A c \in Caller : pc[c] = "get" <=> lock = c

\* What a caller has at each place of a round trip.
Places ==
    \A c \in Caller :
        /\ pc[c] = "idle" => request[c] = None
        /\ pc[c] \in {"acquire", "get"} => request[c] # None
        /\ pc[c] # "done" => answer[c] = NoAnswer

\* An answer that was computed is the reply to the caller's request, from a
\* world that serves it.
Serves(in, job) ==
    in # Cleared =>
        /\ job.want.rt # None => in = job.want
        /\ job.want.scene # None => in.scene = job.want.scene

Answered ==
    \A c \in Caller : answer[c].status = "result" =>
        /\ request[c] # None
        /\ got[c] = request[c].id
        /\ Serves(answer[c].in, request[c])

\* Only a read of the state asks for no world.
WantOfKind(job) == job.kind = "state" => job.want = Nothing

\* Every job id on its way was handed out, and callers have different ones.
Fresh ==
    /\ \A i \in 1..Len(reqQ) : reqQ[i].id < jobs /\ WantOfKind(reqQ[i])
    /\ busy # None => busy.id < jobs /\ WantOfKind(busy)
    /\ \A i \in 1..Len(resQ) : resQ[i].id < jobs
    /\ \A c \in Caller : request[c] # None => request[c].id < jobs /\ WantOfKind(request[c])
    /\ \A c, d \in Caller :
          request[c] # None /\ request[d] # None /\ request[c].id = request[d].id => c = d

\* A request that was not put yet has left no trace in the queues.
NotYetPut ==
    \A c \in Caller : pc[c] = "acquire" =>
        /\ \A i \in 1..Len(reqQ) : reqQ[i].id # request[c].id
        /\ busy # None => busy.id # request[c].id
        /\ \A i \in 1..Len(resQ) : resQ[i].id # request[c].id

\* What carries the id of a caller's request is that request, or a reply
\* computed in a world that serves it.
Carries ==
    \A c \in Caller : request[c] # None =>
        /\ \A i \in 1..Len(reqQ) : reqQ[i].id = request[c].id => reqQ[i] = request[c]
        /\ busy # None /\ busy.id = request[c].id => busy = request[c]
        /\ \A i \in 1..Len(resQ) : resQ[i].id = request[c].id /\ resQ[i].ok =>
              Serves(resQ[i].in, request[c])

\* The request of the caller that waits is the youngest one on its way: the
\* queues are first in, first out, and the lock keeps later ones away.
Youngest ==
    \A c \in Caller : pc[c] = "get" =>
        /\ \A i \in 1..Len(reqQ) : reqQ[i].id = request[c].id => i = Len(reqQ)
        /\ busy # None /\ busy.id = request[c].id => reqQ = <<>>
        /\ \A i \in 1..Len(resQ) : resQ[i].id = request[c].id =>
              i = Len(resQ) /\ reqQ = <<>> /\ busy = None

\* The worker's record of what is loaded is right, or the world was cleared.
Recorded == world \in {Cleared, current}

IInv ==
    /\ TypeOK /\ Holder /\ Places /\ Answered /\ Fresh
    /\ NotYetPut /\ Carries /\ Youngest /\ Recorded

\* The types of what the queues hold, element by element.
LEMMA ElementTypes ==
  ASSUME TypeOK
  PROVE  /\ \A i \in 1..Len(reqQ) : reqQ[i] \in Job /\ reqQ[i].id \in Nat
         /\ \A i \in 1..Len(resQ) : resQ[i] \in Message /\ resQ[i].id \in Nat
         /\ busy # None => busy \in Job /\ busy.id \in Nat
         /\ \A c \in Caller : request[c] # None => request[c] \in Job /\ request[c].id \in Nat
         /\ jobs \in Nat /\ Len(reqQ) \in Nat /\ Len(resQ) \in Nat
<1>1. \A j \in Job : j.id \in Nat BY DEF Job
<1>2. \A m \in Message : m.id \in Nat BY DEF Message
<1>3. \A i \in 1..Len(reqQ) : reqQ[i] \in Job BY DEF TypeOK
<1>4. \A i \in 1..Len(resQ) : resQ[i] \in Message BY DEF TypeOK
<1> QED BY <1>1, <1>2, <1>3, <1>4 DEF TypeOK

\* In the initial state no proxy runs and nothing is on its way.
LEMMA IInvInit == Init => IInv
<1> SUFFICES ASSUME Init PROVE IInv
  OBVIOUS
<1> USE DEF Init
<1>1. Nothing \in Want /\ NoAnswer \in Answer /\ NoAnswer.status # "result"
  BY DEF Want, Nothing, NoAnswer, Answer, Worlds
<1>2. TypeOK
  <2>1. reqQ \in Seq(Job) /\ resQ \in Seq(Message) OBVIOUS
  <2>2. answer \in [Caller -> Answer] BY <1>1
  <2> QED BY <1>1, <2>1, <2>2 DEF TypeOK, Worlds
<1>3. Holder /\ Places BY ConstantAssumption DEF Holder, Places
<1>4. Answered BY <1>1 DEF Answered
<1>5. Fresh /\ NotYetPut /\ Carries /\ Youngest
  BY DEF Fresh, NotYetPut, Carries, Youngest
<1>6. Recorded BY DEF Recorded
<1> QED BY <1>2, <1>3, <1>4, <1>5, <1>6 DEF IInv

-----------------------------------------------------------------------------
(***************************************************************************)
(* The steps of the process around the calls.                              *)
(***************************************************************************)
\* The queues are emptied or left alone, and no caller is touched.
LEMMA LifeCycleStep ==
  ASSUME IInv, Initialize \/ Shutdown \/ WorkerDies
  PROVE  IInv'
<1> USE DEF IInv
<1>0. UNCHANGED callVars /\ busy' = None
        /\ (UNCHANGED <<reqQ, resQ>> \/ (reqQ' = <<>> /\ resQ' = <<>>))
  BY DEF Initialize, Shutdown, WorkerDies, queueVars
<1>1. TypeOK'
  <2>1. Nothing \in Want BY DEF Want, Nothing
  <2>2. reqQ' \in Seq(Job) /\ resQ' \in Seq(Message) 
    <3>1. reqQ \in Seq(Job) /\ resQ \in Seq(Message) BY DEF TypeOK
    <3>2. <<>> \in Seq(Job) /\ <<>> \in Seq(Message) OBVIOUS
    <3> QED BY <1>0, <3>1, <3>2
  <2>3. initialized' \in BOOLEAN /\ alive' \in BOOLEAN
    BY DEF TypeOK, Initialize, Shutdown, WorkerDies
  <2>4. current' \in Want /\ world' \in Worlds
    BY <2>1 DEF TypeOK, Initialize, Shutdown, WorkerDies, Worlds
  <2> QED BY <1>0, <2>2, <2>3, <2>4 DEF TypeOK, callVars
<1>2. (Holder /\ Places /\ Answered)'
  BY <1>0 DEF Holder, Places, Answered, callVars
<1>3. Fresh'
  BY <1>0 DEF Fresh, callVars
<1>4. (NotYetPut /\ Carries)'
  BY <1>0 DEF NotYetPut, Carries, callVars
<1>5. Youngest'
  BY <1>0 DEF Youngest, callVars
<1>6. Recorded'
  BY DEF Recorded, Initialize, Shutdown, WorkerDies
<1> QED BY <1>1, <1>2, <1>3, <1>4, <1>5, <1>6

-----------------------------------------------------------------------------
(***************************************************************************)
(* The steps of a caller.                                                  *)
(***************************************************************************)
\* The new job id is none of those on their way.
LEMMA CallStep ==
  ASSUME IInv, NEW c \in Caller, NEW kind \in Kind, NEW want \in Want,
         kind = "state" => want = Nothing, Call(c, kind, want)
  PROVE  IInv'
<1> USE DEF IInv
<1> DEFINE j == [id |-> jobs, kind |-> kind, want |-> want]
<1>0. UNCHANGED <<initialized, reqQ, resQ, alive, busy, current, world, lock, got>> /\ pc[c] = "idle"
  BY DEF Call, queueVars, workerVars
<1>1. CASE ~IsInitialized
  <2>1. /\ pc' = [pc EXCEPT ![c] = "done"]
        /\ answer' = [answer EXCEPT ![c] = Refused]
        /\ UNCHANGED <<request, jobs>>
    BY <1>1 DEF Call
  <2>2. Refused \in Answer /\ Refused.status # "result"
    BY DEF Refused, Answer, Worlds, Want, Nothing
  <2>3. TypeOK' BY <1>0, <2>1, <2>2 DEF TypeOK
  <2>4. Holder' BY <1>0, <2>1 DEF Holder, TypeOK
  <2>5. Places' BY <1>0, <2>1 DEF Places, TypeOK
  <2>6. Answered' BY <1>0, <2>1, <2>2 DEF Answered, TypeOK
  <2>7. Fresh' BY <1>0, <2>1 DEF Fresh
  <2>8. NotYetPut' BY <1>0, <2>1 DEF NotYetPut, TypeOK
  <2>9. (Carries /\ Recorded)' BY <1>0, <2>1 DEF Carries, Recorded
  <2>10. Youngest' BY <1>0, <2>1 DEF Youngest, TypeOK
  <2> QED BY <2>3, <2>4, <2>5, <2>6, <2>7, <2>8, <2>9, <2>10
<1>2. CASE IsInitialized
  <2>1. /\ jobs' = jobs + 1
        /\ request' = [request EXCEPT ![c] = j]
        /\ pc' = [pc EXCEPT ![c] = "acquire"]
        /\ UNCHANGED answer
    BY <1>2 DEF Call
  <2>2. j \in Job /\ j # None /\ j.id = jobs /\ WantOfKind(j)
    BY ConstantAssumption DEF Job, TypeOK, WantOfKind
  <2>e. /\ \A i \in 1..Len(reqQ) : reqQ[i].id # jobs
        /\ \A i \in 1..Len(resQ) : resQ[i].id # jobs
        /\ busy # None => busy.id # jobs
        /\ \A d \in Caller : request[d] # None => request[d].id # jobs
    BY ElementTypes DEF Fresh
  <2> HIDE DEF j
  <2>3. TypeOK' BY <1>0, <2>1, <2>2 DEF TypeOK
  <2>4. Holder' BY <1>0, <2>1 DEF Holder, TypeOK
  <2>5. Places' BY <1>0, <2>1, <2>2 DEF Places, TypeOK
  <2>6. Answered'
    <3>1. answer[c].status # "result" BY <1>0 DEF Places, NoAnswer
    <3> QED BY <3>1, <1>0, <2>1 DEF Answered, TypeOK
  <2>7. Fresh'
    <3>1. request'[c] = j /\ \A d \in Caller \ {c} : request'[d] = request[d]
      BY <2>1 DEF TypeOK
    <3>2. (\A i \in 1..Len(reqQ) : reqQ[i].id < jobs /\ WantOfKind(reqQ[i]))'
      BY <1>0, <2>1, ElementTypes DEF Fresh
    <3>3. (busy # None => busy.id < jobs /\ WantOfKind(busy))'
      BY <1>0, <2>1, ElementTypes DEF Fresh
    <3>4. (\A i \in 1..Len(resQ) : resQ[i].id < jobs)'
      BY <1>0, <2>1, ElementTypes DEF Fresh
    <3>5. \A d \in Caller : request'[d] # None => request'[d].id < jobs' /\ WantOfKind(request'[d])
      BY <3>1, <2>1, <2>2, ElementTypes DEF Fresh
    <3>6. \A d, b \in Caller :
            request'[d] # None /\ request'[b] # None /\ request'[d].id = request'[b].id => d = b
      BY <3>1, <2>2, <2>e DEF Fresh
    <3> QED BY <3>2, <3>3, <3>4, <3>5, <3>6 DEF Fresh, WantOfKind
  <2>8. NotYetPut' BY <1>0, <2>1, <2>2, <2>e DEF NotYetPut, Fresh, TypeOK
  <2>9. Carries'
    <3> SUFFICES ASSUME NEW d \in Caller, request'[d] # None
                 PROVE  /\ \A i \in 1..Len(reqQ) : reqQ[i].id = request'[d].id => reqQ[i] = request'[d]
                        /\ busy # None /\ busy.id = request'[d].id => busy = request'[d]
                        /\ \A i \in 1..Len(resQ) : resQ[i].id = request'[d].id /\ resQ[i].ok =>
                              Serves(resQ[i].in, request'[d])
      BY <1>0 DEF Carries, Serves
    <3>1. CASE d = c
      BY <3>1, <2>1, <2>2, <2>e DEF Fresh, TypeOK
    <3>2. CASE d # c
      BY <3>2, <2>1 DEF Carries, TypeOK
    <3> QED BY <3>1, <3>2
  <2>10. Recorded' BY <1>0 DEF Recorded
  <2>11. Youngest' BY <1>0, <2>1 DEF Youngest, TypeOK
  <2> QED BY <2>3, <2>4, <2>5, <2>6, <2>7, <2>8, <2>9, <2>10, <2>11
<1> QED BY <1>1, <1>2

\* The lock is free, so nobody waits for a reply, and the caller's request
\* becomes the youngest.
LEMMA PutStep ==
  ASSUME IInv, NEW c \in Caller, Put(c)
  PROVE  IInv'
<1> USE DEF IInv
<1>0. /\ UNCHANGED <<initialized, resQ, alive, busy, current, world, request, got, answer, jobs>>
      /\ pc[c] = "acquire" /\ lock = None /\ lock' = c
      /\ reqQ' = Append(reqQ, request[c])
      /\ pc' = [pc EXCEPT ![c] = "get"]
  BY DEF Put, workerVars
<1>j. request[c] # None /\ request[c] \in Job
  BY <1>0, ElementTypes DEF Places
<1>q. /\ reqQ' \in Seq(Job)
      /\ Len(reqQ') = Len(reqQ) + 1
      /\ reqQ'[Len(reqQ) + 1] = request[c]
      /\ \A i \in 1..Len(reqQ) : reqQ'[i] = reqQ[i]
      /\ \A i \in 1..Len(reqQ') : i \in 1..Len(reqQ) \/ i = Len(reqQ) + 1
  <2>1. reqQ \in Seq(Job) BY DEF TypeOK
  <2> QED BY <1>0, <1>j, <2>1
<1>g. \A d \in Caller : pc'[d] = "get" => d = c
  BY <1>0, ConstantAssumption DEF Holder, TypeOK
<1>1. TypeOK' BY <1>0, <1>q DEF TypeOK
<1>2. Holder' BY <1>0, <1>g DEF TypeOK, Holder
<1>3. Places' BY <1>0 DEF Places, TypeOK
<1>4. (Answered /\ Recorded)' BY <1>0 DEF Answered, Recorded
<1>5. Fresh' BY <1>0, <1>q, <1>j DEF Fresh
<1>6. NotYetPut'
  <2> SUFFICES ASSUME NEW d \in Caller, pc'[d] = "acquire"
               PROVE  /\ \A i \in 1..Len(reqQ') : reqQ'[i].id # request[d].id
                      /\ busy # None => busy.id # request[d].id
                      /\ \A i \in 1..Len(resQ) : resQ[i].id # request[d].id
    BY <1>0 DEF NotYetPut
  <2>1. d # c /\ pc[d] = "acquire" BY <1>0 DEF TypeOK
  <2>2. request[d].id # request[c].id BY <2>1, <1>j DEF Fresh, Places
  <2> QED BY <2>1, <2>2, <1>q DEF NotYetPut
<1>7. Carries' BY <1>0, <1>q, <1>j DEF Carries, Fresh
<1>8. Youngest'
  <2> SUFFICES /\ \A i \in 1..Len(reqQ') : reqQ'[i].id = request[c].id => i = Len(reqQ')
               /\ busy # None => busy.id # request[c].id
               /\ \A i \in 1..Len(resQ) : resQ[i].id # request[c].id
    BY <1>0, <1>g DEF Youngest
  <2> QED BY <1>0, <1>q DEF NotYetPut
<1> QED BY <1>1, <1>2, <1>3, <1>4, <1>5, <1>6, <1>7, <1>8

\* The message taken is the caller's own only if the ids agree, and then it
\* was computed in a world that serves the request.
LEMMA ReceiveStep ==
  ASSUME IInv, NEW c \in Caller, Receive(c)
  PROVE  IInv'
<1> USE DEF IInv
<1> DEFINE m == Head(resQ)
           a == IF m.id = request[c].id /\ m.ok THEN [status |-> "result", in |-> m.in] ELSE Refused
<1>0. /\ UNCHANGED <<initialized, reqQ, alive, busy, current, world, request, jobs>>
      /\ pc[c] = "get" /\ resQ # <<>> /\ lock' = None
      /\ resQ' = Tail(resQ)
      /\ got' = [got EXCEPT ![c] = m.id]
      /\ answer' = [answer EXCEPT ![c] = a]
      /\ pc' = [pc EXCEPT ![c] = "done"]
  BY DEF Receive, workerVars
<1>q. /\ resQ' \in Seq(Message)
      /\ Len(resQ') = Len(resQ) - 1 /\ Len(resQ) \in Nat
      /\ \A i \in 1..Len(resQ') : i + 1 \in 1..Len(resQ) /\ resQ'[i] = resQ[i + 1]
      /\ 1 \in 1..Len(resQ) /\ m = resQ[1] /\ m \in Message
  <2>1. resQ \in Seq(Message) BY DEF TypeOK
  <2> QED BY <1>0, <2>1
<1>j. request[c] # None BY <1>0 DEF Places
<1>m. m.id \in Nat /\ m.in \in Worlds BY <1>q DEF Message
<1>a. a \in Answer /\ (a.status = "result" => m.id = request[c].id /\ m.ok /\ a.in = m.in)
  <2>1. Refused \in Answer /\ Refused.status # "result"
    BY DEF Refused, Answer, Worlds, Want, Nothing
  <2>2. CASE m.id = request[c].id /\ m.ok
    BY <2>2, <1>m DEF Answer
  <2> QED BY <2>1, <2>2
<1>s. a.status = "result" => Serves(a.in, request[c])
  BY <1>a, <1>q, <1>j DEF Carries
<1>g. \A d \in Caller : pc[d] = "get" => d = c
  BY <1>0 DEF Holder
<1> HIDE DEF m, a
<1>1. TypeOK' BY <1>0, <1>q, <1>m, <1>a DEF TypeOK
<1>2. Holder' BY <1>0, <1>g, ConstantAssumption DEF TypeOK, Holder
<1>3. Places' BY <1>0 DEF Places, TypeOK
<1>4. Answered'
  <2> SUFFICES ASSUME NEW d \in Caller, answer'[d].status = "result"
               PROVE  request[d] # None /\ got'[d] = request[d].id /\ Serves(answer'[d].in, request[d])
    BY <1>0 DEF Answered, Serves
  <2>1. CASE d = c
    BY <2>1, <1>0, <1>a, <1>s, <1>j DEF TypeOK
  <2>2. CASE d # c
    BY <2>2, <1>0 DEF TypeOK, Answered
  <2> QED BY <2>1, <2>2
<1>5. Fresh' BY <1>0, <1>q DEF Fresh
<1>6. NotYetPut' BY <1>0, <1>q DEF NotYetPut, TypeOK
<1>7. Carries' BY <1>0, <1>q DEF Carries
<1>8. Youngest' BY <1>0, <1>g DEF Youngest, TypeOK
<1>9. Recorded' BY <1>0 DEF Recorded
<1> QED BY <1>1, <1>2, <1>3, <1>4, <1>5, <1>6, <1>7, <1>8, <1>9

\* A time-out leaves the request on its way, and nobody waits for it any more.
LEMMA TimeoutStep ==
  ASSUME IInv, NEW c \in Caller, Timeout(c)
  PROVE  IInv'
<1> USE DEF IInv
<1>0. /\ UNCHANGED <<initialized, reqQ, resQ, alive, busy, current, world, request, got, jobs>>
      /\ pc[c] = "get" /\ lock' = None
      /\ answer' = [answer EXCEPT ![c] = Refused]
      /\ pc' = [pc EXCEPT ![c] = "done"]
  BY DEF Timeout, workerVars, queueVars
<1>a. Refused \in Answer /\ Refused.status # "result"
  BY DEF Refused, Answer, Worlds, Want, Nothing
<1>g. \A d \in Caller : pc[d] = "get" => d = c
  BY <1>0 DEF Holder
<1>1. TypeOK' BY <1>0, <1>a DEF TypeOK
<1>2. Holder' BY <1>0, <1>g, ConstantAssumption DEF TypeOK, Holder
<1>3. Places' BY <1>0 DEF Places, TypeOK
<1>4. Answered' BY <1>0, <1>a DEF Answered, TypeOK
<1>5. (Fresh /\ Carries /\ Recorded)' BY <1>0 DEF Fresh, Carries, Recorded
<1>6. (NotYetPut /\ Youngest)' BY <1>0 DEF NotYetPut, Youngest, TypeOK
<1> QED BY <1>1, <1>2, <1>3, <1>4, <1>5, <1>6

\* The thread returns: its request is forgotten.
LEMMA ReturnStep ==
  ASSUME IInv, NEW c \in Caller, Return(c)
  PROVE  IInv'
<1> USE DEF IInv
<1>0. /\ UNCHANGED <<initialized, reqQ, resQ, alive, busy, current, world, lock, jobs>>
      /\ pc[c] = "done"
      /\ pc' = [pc EXCEPT ![c] = "idle"]
      /\ request' = [request EXCEPT ![c] = None]
      /\ got' = [got EXCEPT ![c] = None]
      /\ answer' = [answer EXCEPT ![c] = NoAnswer]
  BY DEF Return, workerVars, queueVars
<1>a. NoAnswer \in Answer /\ NoAnswer.status # "result"
  BY DEF NoAnswer, Answer, Worlds, Want, Nothing
<1>r. request'[c] = None /\ \A d \in Caller \ {c} : request'[d] = request[d]
  BY <1>0 DEF TypeOK
<1>1. TypeOK' BY <1>0, <1>a DEF TypeOK
<1>2. Holder' BY <1>0 DEF TypeOK, Holder
<1>3. Places' BY <1>0, <1>r DEF Places, TypeOK
<1>4. Answered' BY <1>0, <1>a, <1>r DEF Answered, TypeOK
<1>5. Fresh' BY <1>0, <1>r DEF Fresh
<1>6. Carries' BY <1>0, <1>r DEF Carries
<1>7. (NotYetPut /\ Youngest)' BY SMTT(30), <1>0, <1>r DEF NotYetPut, Youngest, TypeOK
<1>8. Recorded' BY <1>0 DEF Recorded
<1> QED BY <1>1, <1>2, <1>3, <1>4, <1>5, <1>6, <1>7, <1>8

-----------------------------------------------------------------------------
(***************************************************************************)
(* The steps of the worker.                                                *)
(***************************************************************************)
\* The oldest request becomes the one being worked on.
LEMMA WorkerTakeStep ==
  ASSUME IInv, WorkerTake
  PROVE  IInv'
<1> USE DEF IInv
<1>0. /\ UNCHANGED <<initialized, resQ, alive, current, world, lock, pc, request, got, answer, jobs>>
      /\ busy = None /\ reqQ # <<>>
      /\ busy' = Head(reqQ) /\ reqQ' = Tail(reqQ)
  BY DEF WorkerTake, callVars
<1>q. /\ reqQ' \in Seq(Job)
      /\ Len(reqQ') = Len(reqQ) - 1 /\ Len(reqQ) \in Nat
      /\ \A i \in 1..Len(reqQ') : i + 1 \in 1..Len(reqQ) /\ reqQ'[i] = reqQ[i + 1]
      /\ 1 \in 1..Len(reqQ) /\ busy' = reqQ[1] /\ busy' \in Job
      /\ Len(reqQ) = 1 => reqQ' = <<>>
  <2>1. reqQ \in Seq(Job) BY DEF TypeOK
  <2> QED BY <1>0, <2>1
<1>1. TypeOK' BY <1>0, <1>q DEF TypeOK
<1>2. (Holder /\ Places /\ Answered /\ Recorded)'
  BY <1>0 DEF Holder, Places, Answered, Recorded
<1>3. Fresh' BY <1>0, <1>q DEF Fresh
<1>4. NotYetPut' BY <1>0, <1>q DEF NotYetPut
<1>5. Carries' BY <1>0, <1>q DEF Carries
<1>6. Youngest'
  <2> SUFFICES ASSUME NEW c \in Caller, pc[c] = "get"
               PROVE  /\ \A i \in 1..Len(reqQ') : reqQ'[i].id = request[c].id => i = Len(reqQ')
                      /\ busy'.id = request[c].id => reqQ' = <<>>
                      /\ \A i \in 1..Len(resQ) : resQ[i].id # request[c].id
    BY <1>0 DEF Youngest
  <2>1. \A i \in 1..Len(reqQ) : reqQ[i].id = request[c].id => i = Len(reqQ)
    BY DEF Youngest
  <2>2. \A i \in 1..Len(resQ) : resQ[i].id # request[c].id
    BY <1>0 DEF Youngest
  <2> QED BY <2>1, <2>2, <1>q
<1> QED BY <1>1, <1>2, <1>3, <1>4, <1>5, <1>6

\* A reply is put behind the others, and takes the place of the request.
LEMMA PutResultStep ==
  ASSUME IInv, busy # None, NEW ok \in BOOLEAN, NEW in \in Worlds, PutResult(ok, in),
         ok => Serves(in, busy), current' \in Want, world' \in {Cleared, current'}
  PROVE  IInv'
<1> USE DEF IInv
<1> DEFINE m == [id |-> busy.id, ok |-> ok, in |-> in]
<1>0. /\ UNCHANGED <<initialized, reqQ, alive, lock, pc, request, got, answer, jobs>>
      /\ busy' = None
      /\ resQ' = Append(resQ, m)
  BY DEF PutResult, callVars
<1>b. busy \in Job /\ busy.id \in Nat BY ElementTypes
<1>m. m \in Message /\ m.id = busy.id /\ m.ok = ok /\ m.in = in
  BY <1>b DEF Message
<1> HIDE DEF m
<1>q. /\ resQ' \in Seq(Message)
      /\ Len(resQ') = Len(resQ) + 1
      /\ resQ'[Len(resQ) + 1] = m
      /\ \A i \in 1..Len(resQ) : resQ'[i] = resQ[i]
      /\ \A i \in 1..Len(resQ') : i \in 1..Len(resQ) \/ i = Len(resQ) + 1
  <2>1. resQ \in Seq(Message) BY DEF TypeOK
  <2> QED BY <1>0, <1>m, <2>1
<1>1. TypeOK' BY <1>0, <1>q DEF TypeOK, Worlds
<1>2. (Holder /\ Places /\ Answered /\ Recorded)'
  BY <1>0 DEF Holder, Places, Answered, Recorded
<1>3. Fresh' BY <1>0, <1>q, <1>m DEF Fresh
<1>4. NotYetPut' BY <1>0, <1>q, <1>m DEF NotYetPut
<1>5. Carries'
  <2> SUFFICES ASSUME NEW c \in Caller, request[c] # None
               PROVE  /\ \A i \in 1..Len(reqQ) : reqQ[i].id = request[c].id => reqQ[i] = request[c]
                      /\ \A i \in 1..Len(resQ') : resQ'[i].id = request[c].id /\ resQ'[i].ok =>
                            Serves(resQ'[i].in, request[c])
    BY <1>0 DEF Carries, Serves
  <2>1. busy.id = request[c].id => busy = request[c] BY DEF Carries
  <2>2. m.id = request[c].id /\ m.ok => Serves(m.in, request[c]) BY <2>1, <1>m
  <2> QED BY <2>2, <1>q DEF Carries
<1>6. Youngest'
  <2> SUFFICES ASSUME NEW c \in Caller, pc[c] = "get"
               PROVE  /\ \A i \in 1..Len(reqQ) : reqQ[i].id = request[c].id => i = Len(reqQ)
                      /\ \A i \in 1..Len(resQ') : resQ'[i].id = request[c].id =>
                            i = Len(resQ') /\ reqQ = <<>>
    BY <1>0 DEF Youngest
  <2>1. \A i \in 1..Len(resQ) : resQ[i].id # request[c].id
    BY DEF Youngest
  <2>2. m.id = request[c].id => reqQ = <<>> BY <1>m DEF Youngest
  <2> QED BY <2>1, <2>2, <1>q DEF Youngest
<1> QED BY <1>1, <1>2, <1>3, <1>4, <1>5, <1>6

\* A world that was just loaded for the job serves it; so does the recorded
\* one when the job needs no load.
LEMMA WorkerStep ==
  ASSUME IInv, WorkerLoads \/ WorkerLoadFails \/ WorkerAnswers
  PROVE  IInv'
<1> USE DEF IInv
<1>1. busy # None BY DEF WorkerLoads, WorkerLoadFails, WorkerAnswers
<1>2. busy \in Job /\ busy.want \in Want /\ busy.kind \in Kind /\ WantOfKind(busy)
  <2>1. busy \in Job BY <1>1, ElementTypes
  <2> QED BY <1>1, <2>1 DEF Job, Fresh
<1>3. CASE WorkerLoads
  <2>1. PICK ok \in BOOLEAN : PutResult(ok, busy.want) BY <1>3 DEF WorkerLoads
  <2>2. Serves(busy.want, busy) BY DEF Serves
  <2>3. current' = busy.want /\ world' = busy.want BY <1>3 DEF WorkerLoads
  <2> QED BY <1>1, <1>2, <2>1, <2>2, <2>3, PutResultStep DEF Worlds
<1>4. CASE WorkerLoadFails
  <2>1. PutResult(FALSE, Cleared) BY <1>4 DEF WorkerLoadFails
  <2>2. current' = current /\ world' = Cleared BY <1>4 DEF WorkerLoadFails
  <2> QED BY <1>1, <2>1, <2>2, PutResultStep DEF TypeOK, Worlds
<1>5. CASE WorkerAnswers
  <2>1. PICK ok \in BOOLEAN : PutResult(ok, world) BY <1>5 DEF WorkerAnswers
  <2>2. UNCHANGED <<current, world>> /\ ~NeedsLoad(busy) BY <1>5 DEF WorkerAnswers
  <2>3. Serves(world, busy)
    <3>1. CASE busy.kind = "state"
      BY <3>1, <1>2 DEF WantOfKind, Nothing, Serves
    <3>2. CASE busy.kind # "state"
      BY <3>2, <2>2, <1>2 DEF NeedsLoad, Kind, Serves, Recorded
    <3> QED BY <3>1, <3>2
  <2> QED BY <1>1, <2>1, <2>2, <2>3, PutResultStep DEF TypeOK, Recorded
<1> QED BY <1>3, <1>4, <1>5

-----------------------------------------------------------------------------
(***************************************************************************)
(* The theorems.                                                           *)
(***************************************************************************)
\* Every step of the proxy and the worker keeps the invariant.
LEMMA IInvStep == IInv /\ [Next]_vars => IInv'
<1> SUFFICES ASSUME IInv, [Next]_vars PROVE IInv'
  OBVIOUS
<1>1. CASE Initialize \/ Shutdown \/ WorkerDies
  BY <1>1, LifeCycleStep
<1>2. ASSUME NEW c \in Caller, NEW w \in Want, Call(c, "validate", w) PROVE IInv'
  BY <1>2, CallStep DEF Kind
<1>3. ASSUME NEW c \in Caller, NEW r \in Runtime, Call(c, "preload", [rt |-> r, scene |-> SceneOf[r]])
      PROVE  IInv'
  <2>1. [rt |-> r, scene |-> SceneOf[r]] \in Want BY DEF Want
  <2> QED BY <1>3, <2>1, CallStep DEF Kind
<1>4. ASSUME NEW c \in Caller, Call(c, "state", Nothing) PROVE IInv'
  <2>1. Nothing \in Want BY DEF Want, Nothing
  <2> QED BY <1>4, <2>1, CallStep DEF Kind
<1>5. ASSUME NEW c \in Caller, Put(c) \/ Receive(c) \/ Timeout(c) \/ Return(c) PROVE IInv'
  BY <1>5, PutStep, ReceiveStep, TimeoutStep, ReturnStep
<1>6. CASE WorkerTake \/ WorkerLoads \/ WorkerLoadFails \/ WorkerAnswers
  BY <1>6, WorkerTakeStep, WorkerStep
<1>7. CASE UNCHANGED vars
  BY <1>7 DEF vars, queueVars, workerVars, callVars, IInv, TypeOK, Holder, Places, Answered,
              Fresh, NotYetPut, Carries, Youngest, Recorded, WantOfKind, Serves
<1> QED BY <1>1, <1>2, <1>3, <1>4, <1>5, <1>6, <1>7 DEF Next

\* The invariant holds throughout: the lock, the ids and the order of what is
\* on its way between proxy and worker always agree.
THEOREM IsaacInvariant == Spec => []IInv
BY IInvInit, IInvStep, PTL DEF Spec

\* Every variable of the proxy and of the worker stays in its range.
THEOREM IsaacTypeCorrect == Spec => []TypeOK
<1>1. IInv => TypeOK BY DEF IInv
<1> QED BY <1>1, IsaacInvariant, PTL

\* A caller gets a result only from the reply that carries its own job id,
\* whatever late replies are in the queue (isaac_proxy.py 107, 132, 154).
THEOREM OwnResults == Spec => []ResultIsOwn
<1>1. IInv => ResultIsOwn BY DEF IInv, Answered, ResultIsOwn
<1> QED BY <1>1, IsaacInvariant, PTL

\* A result was computed in the world that was asked for, or in one that a
\* failed load had cleared (isaac_worker.py 81-105).
THEOREM RequestedWorld == Spec => []ComputedInRequestedWorld
<1>1. IInv => ComputedInRequestedWorld BY DEF IInv, Answered, Serves, ComputedInRequestedWorld
<1> QED BY <1>1, IsaacInvariant, PTL

\* Only a Receive of the caller's own reply, the one thing on its way, gives
\* a result.
LEMMA ResultOnlyByReceive ==
  ASSUME IInv, Next, NEW c \in Caller,
         answer'[c].status = "result", answer[c].status # "result"
  PROVE  ~Abandoned
<1>0. TypeOK /\ Holder /\ Youngest /\ Refused.status # "result" /\ NoAnswer.status # "result"
  BY DEF IInv, Refused, NoAnswer
<1>1. ASSUME UNCHANGED answer PROVE FALSE BY <1>1
<1>2. ASSUME NEW d \in Caller,
             answer' = [answer EXCEPT ![d] = Refused] \/ answer' = [answer EXCEPT ![d] = NoAnswer]
      PROVE  FALSE
  BY <1>2, <1>0 DEF TypeOK
<1>3. PICK d \in Caller : Receive(d)
  <2>1. ASSUME NEW d \in Caller, NEW k, NEW w, Call(d, k, w) PROVE FALSE
    BY <2>1, <1>1, <1>2 DEF Call
  <2>2. ASSUME NEW d \in Caller, Put(d) \/ Timeout(d) \/ Return(d) PROVE FALSE
    BY <2>2, <1>1, <1>2 DEF Put, Timeout, Return
  <2>3. CASE Initialize \/ Shutdown \/ WorkerDies \/ WorkerTake
    BY <2>3, <1>1 DEF Initialize, Shutdown, WorkerDies, WorkerTake, callVars
  <2>4. CASE WorkerLoads \/ WorkerLoadFails \/ WorkerAnswers
    BY <2>4, <1>1 DEF WorkerLoads, WorkerLoadFails, WorkerAnswers, PutResult, callVars
  <2> QED BY <2>1, <2>2, <2>3, <2>4 DEF Next
<1>4. d = c /\ Head(resQ).id = request[c].id /\ pc[c] = "get" /\ resQ # <<>>
  BY <1>3, <1>0 DEF Receive, TypeOK
<1>5. Len(resQ) \in Nat /\ 1 \in 1..Len(resQ) /\ resQ[1] = Head(resQ)
  <2>1. resQ \in Seq(Message) BY <1>0 DEF TypeOK
  <2> QED BY <1>4, <2>1
<1>6. Len(resQ) = 1 /\ reqQ = <<>> /\ busy = None
  BY <1>0, <1>4, <1>5 DEF Youngest
<1>7. lock # None
  BY <1>0, <1>4, ConstantAssumption DEF Holder
<1> QED BY <1>6, <1>7 DEF Abandoned

\* Once a reply was abandoned by a time-out, no later call gets a result
\* until the process restarts (isaac_proxy.py 188-190): the queues are first
\* in, first out, so what a caller takes is never its own reply again.
THEOREM AbandonedRefuses == Spec => AbandonedRefusesAll
<1>1. IInv /\ [Next]_vars => [Abandoned => \A c \in Caller :
          answer'[c].status = "result" => answer[c].status = "result"]_vars
  BY ResultOnlyByReceive
<1> QED BY <1>1, IsaacInvariant, PTL DEF Spec, AbandonedRefusesAll

=============================================================================
