------------------------------ MODULE AtlasWorker ------------------------------
(***************************************************************************)
(* SovereignAtlasWorkerService (src/src/services/): requests posted to a   *)
(* web worker, each guarded by a 50 ms timer that answers it inline, so    *)
(* that an answer and a timeout race on every request.  The worker itself  *)
(* is src/src/workers/sovereignAtlasSpatialWorker.ts.                      *)
(*                                                                         *)
(* The five request methods of the service run one protocol on different   *)
(* payloads: a request is its number here.  The browser delivers messages  *)
(* in order and fires timers of one delay in the order they were set.      *)
(***************************************************************************)
EXTENDS Integers, Sequences

CONSTANT MaxRequests \* bound: the calls made

ASSUME MaxRequestsAssumption == MaxRequests \in Nat

VARIABLES
    worker,          \* "running", "failed" (it answers no more) or "none"
    reqIdCounter,    \* the last request id given out
    pendingRequests, \* ids of the entries of the map
    timers,          \* ids whose timer is armed
    inbox, outbox,   \* messages to and from the worker
    promise,         \* promise[n]: the answer to the n-th call
    hud              \* the call whose answer the component shows

atlasVars == <<worker, reqIdCounter, pendingRequests, timers, inbox, outbox, promise, hud>>

Promises == INSTANCE OrderedPromises

Waiting == Promises!Waiting
Answer(from, n) == Promises!Answer(from, n)

AtlasTypeOK ==
    /\ worker \in {"running", "failed", "none"}
    /\ reqIdCounter \in Nat
    /\ pendingRequests \subseteq 1..reqIdCounter
    /\ timers \subseteq 1..reqIdCounter
    /\ inbox \in Seq(Nat)
    /\ outbox \in Seq([id : Nat, success : BOOLEAN])
    /\ promise \in Seq([from : Promises!Sources \cup {"nobody"}, of : Nat])
    /\ hud \in Nat

(* initWorker: without Worker support there is no worker at all. *)
AtlasInit ==
    /\ worker \in {"running", "none"}
    /\ reqIdCounter = 0
    /\ pendingRequests = {}
    /\ timers = {}
    /\ inbox = <<>>
    /\ outbox = <<>>
    /\ promise = <<>>
    /\ hud = 0

-----------------------------------------------------------------------------
(* resolve or reject of call n.  A promise keeps its first answer, and the *)
(* .then of the component runs for a resolved one only.                    *)
Settles(n, from, of) ==
    IF promise[n] = Waiting
    THEN /\ promise' = [promise EXCEPT ![n] = Answer(from, of)]
         /\ hud' = IF from = "error" THEN hud ELSE n
    ELSE UNCHANGED <<promise, hud>>

(* A request while there is a worker.  The n-th call has the n-th id:      *)
(* a service that has lost its worker never gets another.                  *)
Request ==
    /\ worker # "none"
    /\ Len(promise) < MaxRequests
    /\ LET id == reqIdCounter + 1
       IN  /\ reqIdCounter' = id
           /\ pendingRequests' = pendingRequests \cup {id}
           /\ timers' = timers \cup {id}
           /\ inbox' = Append(inbox, id)
    /\ promise' = Append(promise, Waiting)
    /\ UNCHANGED <<worker, outbox, hud>>

(* A request without a worker is computed at once. *)
RequestInline ==
    /\ worker = "none"
    /\ Len(promise) < MaxRequests
    /\ promise' = Append(promise, Answer("inline", Len(promise) + 1))
    /\ hud' = Len(promise) + 1
    /\ UNCHANGED <<worker, reqIdCounter, pendingRequests, timers, inbox, outbox>>

(* The worker's onmessage: a computation that throws is answered too. *)
WorkerComputes(success) ==
    /\ worker = "running"
    /\ inbox # <<>>
    /\ inbox' = Tail(inbox)
    /\ outbox' = Append(outbox, [id |-> Head(inbox), success |-> success])
    /\ UNCHANGED <<worker, reqIdCounter, pendingRequests, timers, promise, hud>>

(* Mutant: onerror gives the requests up that it will not see answered. *)
WorkerFailsSilent ==
    /\ worker = "running"
    /\ worker' = "failed"
    /\ pendingRequests' = {}
    /\ timers' = {}
    /\ UNCHANGED <<reqIdCounter, inbox, outbox, promise, hud>>

(* The worker's script fails: onerror logs it and changes nothing. *)
WorkerFails ==
    /\ worker = "running"
    /\ worker' = "failed"
    /\ UNCHANGED <<reqIdCounter, pendingRequests, timers, inbox, outbox, promise, hud>>

(* Mutant: the answer goes to the oldest request, whatever its id. *)
OnMessageUnmatched ==
    /\ outbox # <<>>
    /\ outbox' = Tail(outbox)
    /\ IF pendingRequests # {}
       THEN \E n \in pendingRequests :
                /\ \A m \in pendingRequests : n <= m
                /\ timers' = timers \ {n}
                /\ pendingRequests' = pendingRequests \ {n}
                /\ Settles(n, IF Head(outbox).success THEN "worker" ELSE "error", Head(outbox).id)
       ELSE UNCHANGED <<pendingRequests, timers, promise, hud>>
    /\ UNCHANGED <<worker, reqIdCounter, inbox>>

(* Mutant: a late answer, of a call that timed out, is shown as well. *)
OnMessageLate ==
    /\ outbox # <<>>
    /\ outbox' = Tail(outbox)
    /\ LET id == Head(outbox).id
       IN  /\ timers' = timers \ {id}
           /\ pendingRequests' = pendingRequests \ {id}
           /\ promise' = [promise EXCEPT ![id] = Answer("worker", id)]
           /\ hud' = id
    /\ UNCHANGED <<worker, reqIdCounter, inbox>>

(* The service's onmessage: a late answer finds no entry in the map. *)
OnMessage ==
    /\ outbox # <<>>
    /\ outbox' = Tail(outbox)
    /\ LET id == Head(outbox).id
       IN  IF id \in pendingRequests
           THEN /\ timers' = timers \ {id}
                /\ pendingRequests' = pendingRequests \ {id}
                /\ Settles(id, IF Head(outbox).success THEN "worker" ELSE "error", id)
           ELSE UNCHANGED <<pendingRequests, timers, promise, hud>>
    /\ UNCHANGED <<worker, reqIdCounter, inbox>>

(* Mutant: the timer leaves the entry in the map. *)
TimerFiresLeaky ==
    \E id \in timers :
        /\ \A m \in timers : id <= m
        /\ timers' = timers \ {id}
        /\ Settles(id, "inline", id)
        /\ UNCHANGED <<worker, reqIdCounter, pendingRequests, inbox, outbox>>

(* The 50 ms timer: the request is computed inline. *)
TimerFires ==
    \E id \in timers :
        /\ \A m \in timers : id <= m
        /\ timers' = timers \ {id}
        /\ pendingRequests' = pendingRequests \ {id}
        /\ Settles(id, "inline", id)
        /\ UNCHANGED <<worker, reqIdCounter, inbox, outbox>>

(* terminate: the timers stay armed and answer what was pending. *)
Terminate ==
    /\ worker # "none"
    /\ worker' = "none"
    /\ pendingRequests' = {}
    /\ inbox' = <<>>
    /\ outbox' = <<>>
    /\ UNCHANGED <<reqIdCounter, timers, promise, hud>>

AtlasNext ==
    \/ Request \/ RequestInline
    \/ \E success \in BOOLEAN : WorkerComputes(success)
    \/ WorkerFails \/ OnMessage \/ TimerFires \/ Terminate

AtlasSpec == AtlasInit /\ [][AtlasNext]_atlasVars

-----------------------------------------------------------------------------
(* Properties. *)

WaitingCalls == {n \in DOMAIN promise : promise[n] = Waiting}

(* A call that waits has its timer, whatever became of its entry in the    *)
(* map or of the worker, and a timer is left over by no settled call (the  *)
(* request methods, onmessage and terminate).                              *)
TimersGuardCalls ==
    /\ timers = WaitingCalls
    /\ worker # "none" => pendingRequests = timers

(* No request overtakes another: the messages in transit carry the last    *)
(* ids given out, in order, and reach back to the oldest request pending   *)
(* (postMessage in the request methods, the worker's onmessage).           *)
Oldest == reqIdCounter - (Len(outbox) + Len(inbox)) + 1

TransitInOrder ==
    /\ \A i \in DOMAIN outbox : outbox[i].id = Oldest + i - 1
    /\ \A i \in DOMAIN inbox : inbox[i] = Oldest + Len(outbox) + i - 1
    /\ worker = "none" => outbox = <<>> /\ inbox = <<>> /\ pendingRequests = {}
    /\ \A n \in pendingRequests : Oldest <= n

(* The call shown is older than every waiting one.                         *)
ShownIsOlder ==
    /\ Len(promise) >= reqIdCounter
    /\ hud <= Len(promise)
    /\ worker # "none" =>
          /\ Len(promise) = reqIdCounter
          /\ \A n \in WaitingCalls : hud < n

AtlasInv == AtlasTypeOK /\ TimersGuardCalls /\ TransitInOrder /\ ShownIsOlder

(* HologramGrid and GravitationalHologramContainer show the answer that    *)
(* arrived last: while the worker is not terminated it is never that of an *)
(* older pointer position than the one already shown.                      *)
HudNeverGoesBack == [][worker # "none" => hud' >= hud]_atlasVars

(* Every call is answered once, with its own result, and the waiting calls *)
(* in order (the pairing of answers and requests by id).                   *)
ImplementsOrderedPromises == Promises!Spec

(* Every call is answered, though the worker may have failed or may answer *)
(* late, since the browser fires every timer that is not cleared: when the *)
(* calls, which MaxRequests bounds, have been made, none waits for ever    *)
(* ("timeout safeguards", header of the service).                          *)
EveryCallSettles == (WaitingCalls # {}) ~> (WaitingCalls = {})
=============================================================================
