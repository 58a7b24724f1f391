----------------------------- MODULE AtomicPlc -----------------------------
(***************************************************************************)
(* What the PLC adapter promises its callers about a physical device: the  *)
(* writes of a request take effect in one step.  A successful execution    *)
(* leaves exactly what its action list says, whatever was retried on the   *)
(* way; a failed one leaves what at most two runs from the top of the      *)
(* list, cut off anywhere, can have written; and a request answered by a   *)
(* virtual asset leaves every device alone.                                *)
(*                                                                         *)
(* A snapshot is not the device at one moment: each field is what the      *)
(* device held at some moment while its caller waited.  Only the fields    *)
(* in registers the device does not change by itself are all of one        *)
(* moment.                                                                 *)
(***************************************************************************)
EXTENDS ModbusCodec

CONSTANTS
    Thread,     \* callers
    Conn,       \* device connections
    Measured,   \* registers the device changes by itself
    NoRequest,  \* the caller waits for nothing
    NoAnswer    \* the caller has no answer yet

VARIABLES
    plc,        \* plc[c]: what requests have left in the registers behind c
    live,       \* live[c]: what the Measured ones hold now; nothing below
                \* says when it changes
    sensed,     \* sensed[th]: the words sent so far, mapping by mapping
    request,    \* request[th]: [conn, prog, maps] or NoRequest
    answer      \* answer[th]: [status, virtual, snapshot] or NoAnswer

avars == <<plc, request, answer, sensed>>

Init ==
    /\ \A c \in Conn : \A r \in DOMAIN plc[c] : plc[c][r] = 0
    /\ request = [th \in Thread |-> NoRequest]
    /\ answer = [th \in Thread |-> NoAnswer]
    /\ sensed = [th \in Thread |-> <<>>]

Waiting(th) == request[th] # NoRequest /\ answer[th] = NoAnswer
Answers(th) == Waiting(th) /\ request'[th] = request[th] /\ answer'[th] # NoAnswer

\* What a run of the list may have done when it fails: it stops at the latest
\* at an action that cannot be translated.
Runs(prog) ==
    {SubSeq(prog, 1, n) : n \in {m \in 0 .. Len(prog) : \A k \in 1 .. m : prog[k] # Raise}}

\* The registers two runs of the list from its start can leave behind.
CutShort(old, prog, new) ==
    \E p, q \in Runs(prog) : new = Overlay(Overlay(old, p), q)

\* A request for what is not configured is answered at once.
Submit(th) ==
    /\ request[th] = NoRequest
    /\ request'[th] # NoRequest
    /\ answer'[th] = NoAnswer \/ answer'[th].status \in {"http_404", "http_500"}
    /\ plc' = plc

\* The device sends the words of the next mapping.
Sense(th) ==
    LET c    == request[th].conn
        maps == request[th].maps
        n    == Len(sensed[th])
    IN  /\ Waiting(th)
        /\ n < Len(maps)
        /\ sensed'[th] = Append(sensed[th], DeviceWords(plc[c], live[c], maps[n + 1]))
        /\ UNCHANGED <<plc, request, answer>>

\* A read that starts over uses nothing it was sent before.
StartOver(th) ==
    /\ Waiting(th)
    /\ UNCHANGED <<plc, request, answer>>

Done(th) ==
    LET c    == request[th].conn
        maps == request[th].maps
    IN
    /\ Answers(th)
    /\ answer'[th].status = "ok" /\ ~answer'[th].virtual
    /\ plc'[c] = Overlay(plc[c], request[th].prog)
    /\ Len(sensed[th]) = Len(maps)
    /\ answer'[th].snapshot = Decoded(sensed[th], maps)
    /\ \A f \in Fields(maps) :
        Avoids(maps[MappingOf(maps, f)], Measured)
          => answer'[th].snapshot[f] = Snapshot(plc[c], maps)[f]
    /\ \A d \in Conn \ {c} : plc'[d] = plc[d]

Failed(th) ==
    LET c == request[th].conn IN
    /\ Answers(th)
    /\ answer'[th].status # "ok" /\ ~answer'[th].virtual
    /\ CutShort(plc[c], request[th].prog, plc'[c])
    /\ \A d \in Conn \ {c} : plc'[d] = plc[d]

Virtual(th) ==
    /\ Answers(th)
    /\ answer'[th].virtual
    /\ plc' = plc

Collect(th) ==
    /\ answer[th] # NoAnswer
    /\ request'[th] = NoRequest /\ answer'[th] = NoAnswer
    /\ plc' = plc

\* The adapter process dies: nobody is answered, and on every connection
\* one of the requests may have been cut short.
Crash ==
    /\ request' = [th \in Thread |-> NoRequest]
    /\ answer' = [th \in Thread |-> NoAnswer]
    /\ sensed' = [th \in Thread |-> <<>>]
    /\ \A c \in Conn :
        \/ plc'[c] = plc[c]
        \/ \E th \in Thread : /\ Waiting(th) /\ request[th].conn = c
                              /\ CutShort(plc[c], request[th].prog, plc'[c])

Others(th) ==
    \A o \in Thread \ {th} :
        request'[o] = request[o] /\ answer'[o] = answer[o] /\ sensed'[o] = sensed[o]

Next ==
    \/ Crash
    \/ \E th \in Thread :
        /\ Others(th)
        /\ \/ Sense(th)
           \/ /\ sensed'[th] = <<>>
              /\ \/ Submit(th) \/ Collect(th) \/ StartOver(th)
                 \/ Done(th) \/ Failed(th) \/ Virtual(th)

Spec == Init /\ [][Next]_avars
=============================================================================
