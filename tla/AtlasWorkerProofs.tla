--------------------------- MODULE AtlasWorkerProofs ---------------------------
(***************************************************************************)
(* Proofs about AtlasWorker: AtlasInv is inductive as it stands, and gives *)
(* the order in which the answers are shown and the implementation of      *)
(* OrderedPromises.  Each action has its lemma; the lemmas share the facts *)
(* about answering one request (SettlesOldest).                            *)
(***************************************************************************)
EXTENDS AtlasWorker, SequenceTheorems, TLAPS

Answers == [from : Promises!Sources \cup {"nobody"}, of : Nat]

(* The definitions AtlasTypeOK and the parts of AtlasInv are built from. *)
LEMMA AnswerTypes ==
    /\ Waiting \in Answers
    /\ \A from \in Promises!Sources, n \in Nat :
          Answer(from, n) \in Answers /\ Answer(from, n) # Waiting
BY DEF Answers, Waiting, Answer, Promises!Waiting, Promises!Answer, Promises!Sources

(* Answering a waiting call: the call stops waiting, no other does, and it *)
(* is shown unless it was rejected.                                        *)
LEMMA SettlesWaiting ==
    ASSUME AtlasTypeOK, NEW n \in WaitingCalls, NEW from \in Promises!Sources,
           Settles(n, from, n)
    PROVE  /\ promise' = [promise EXCEPT ![n] = Answer(from, n)]
           /\ hud' \in {hud, n}
           /\ promise' \in Seq(Answers)
           /\ Len(promise') = Len(promise)
           /\ WaitingCalls' = WaitingCalls \ {n}
<1>1. n \in DOMAIN promise /\ promise[n] = Waiting
  BY DEF WaitingCalls
<1>2. promise \in Seq(Answers)
  BY DEF AtlasTypeOK, Answers
<1>3. Answer(from, n) \in Answers /\ Answer(from, n) # Waiting
  BY <1>1, <1>2, AnswerTypes
<1>4. promise' = [promise EXCEPT ![n] = Answer(from, n)] /\ hud' \in {hud, n}
  BY <1>1 DEF Settles
<1>5. promise' \in Seq(Answers) /\ Len(promise') = Len(promise)
  BY <1>1, <1>2, <1>3, <1>4
<1>6. DOMAIN promise' = DOMAIN promise
  BY <1>4
<1>7. \A m \in DOMAIN promise : promise'[m] = IF m = n THEN Answer(from, n) ELSE promise[m]
  BY <1>1, <1>4
<1>8. WaitingCalls' = WaitingCalls \ {n}
  BY <1>3, <1>6, <1>7 DEF WaitingCalls, Waiting, Promises!Waiting
<1> QED
  BY <1>4, <1>5, <1>8

LEMMA InitInv == AtlasInit => AtlasInv
<1> SUFFICES ASSUME AtlasInit PROVE AtlasInv
  OBVIOUS
<1> USE DEF AtlasInit
<1>1. WaitingCalls = {}
  BY DEF WaitingCalls
<1>2. AtlasTypeOK
  BY DEF AtlasTypeOK
<1>3. TimersGuardCalls
  BY <1>1 DEF TimersGuardCalls
<1>4. TransitInOrder
  BY DEF TransitInOrder, Oldest
<1>5. ShownIsOlder
  BY <1>1 DEF ShownIsOlder
<1> QED
  BY <1>2, <1>3, <1>4, <1>5 DEF AtlasInv

-----------------------------------------------------------------------------
(* One lemma per action. *)

LEMMA RequestKeeps == AtlasInv /\ Request => AtlasInv'
<1> SUFFICES ASSUME AtlasInv, Request PROVE AtlasInv'
  OBVIOUS
<1> DEFINE id == reqIdCounter + 1
<1> USE DEF AtlasInv
<1>1. /\ worker # "none" /\ worker' = worker
      /\ reqIdCounter' = id /\ pendingRequests' = pendingRequests \cup {id}
      /\ timers' = timers \cup {id} /\ inbox' = Append(inbox, id)
      /\ promise' = Append(promise, Waiting) /\ outbox' = outbox /\ hud' = hud
  BY DEF Request
<1>2. promise \in Seq(Answers) /\ reqIdCounter \in Nat /\ Len(promise) = reqIdCounter
  BY <1>1 DEF AtlasTypeOK, Answers, ShownIsOlder
<1>3. promise' \in Seq(Answers) /\ Len(promise') = id /\ promise'[id] = Waiting
      /\ \A n \in 1..Len(promise) : promise'[n] = promise[n]
  BY <1>1, <1>2, AnswerTypes
<1>4. WaitingCalls' = WaitingCalls \cup {id}
  BY <1>2, <1>3 DEF WaitingCalls, Waiting, Promises!Waiting
<1>5. AtlasTypeOK'
  BY <1>1, <1>2, <1>3 DEF AtlasTypeOK, Answers
<1>6. TimersGuardCalls'
  BY <1>1, <1>4 DEF TimersGuardCalls
<1>7. TransitInOrder'
  <2>1. inbox \in Seq(Nat) /\ outbox \in Seq([id : Nat, success : BOOLEAN])
    BY DEF AtlasTypeOK
  <2>2. Len(inbox') = Len(inbox) + 1 /\ Oldest' = Oldest
    BY <1>1, <1>2, <2>1 DEF Oldest
  <2>3. \A i \in DOMAIN inbox' : inbox'[i] = Oldest + Len(outbox) + i - 1
    BY <1>1, <1>2, <2>1, <2>2 DEF TransitInOrder, Oldest
  <2>4. \A n \in pendingRequests' : Oldest <= n
    BY <1>1, <1>2, <2>1 DEF TransitInOrder, Oldest
  <2> QED
    BY <1>1, <2>2, <2>3, <2>4 DEF TransitInOrder
<1>8. ShownIsOlder'
  BY <1>1, <1>2, <1>3, <1>4 DEF ShownIsOlder, AtlasTypeOK
<1> QED
  BY <1>5, <1>6, <1>7, <1>8

(* A service without a worker has nothing in transit or pending; the calls *)
(* that still wait are left to their timers.                               *)
LEMMA RequestInlineKeeps == AtlasInv /\ RequestInline => AtlasInv'
<1> SUFFICES ASSUME AtlasInv, RequestInline PROVE AtlasInv'
  OBVIOUS
<1> DEFINE n == Len(promise) + 1
<1> USE DEF AtlasInv
<1>1. /\ worker = "none"
      /\ promise' = Append(promise, Answer("inline", n)) /\ hud' = n
      /\ UNCHANGED <<worker, reqIdCounter, pendingRequests, timers, inbox, outbox>>
  BY DEF RequestInline
<1>2. promise \in Seq(Answers) /\ n \in Nat /\ "inline" \in Promises!Sources
  BY DEF AtlasTypeOK, Answers, Promises!Sources
<1>3. Answer("inline", n) \in Answers /\ Answer("inline", n) # Waiting
  BY <1>2, AnswerTypes
<1>4. promise' \in Seq(Answers) /\ Len(promise') = n /\ promise'[n] # Waiting
      /\ \A m \in 1..Len(promise) : promise'[m] = promise[m]
  BY <1>1, <1>2, <1>3
<1>5. WaitingCalls' = WaitingCalls
  BY <1>2, <1>4 DEF WaitingCalls, Waiting, Promises!Waiting
<1>6. AtlasTypeOK'
  BY <1>1, <1>2, <1>4 DEF AtlasTypeOK, Answers
<1>7. TimersGuardCalls'
  BY <1>1, <1>5 DEF TimersGuardCalls
<1>8. TransitInOrder'
  BY <1>1 DEF TransitInOrder, Oldest
<1>9. ShownIsOlder'
  BY <1>1, <1>2, <1>4 DEF ShownIsOlder, AtlasTypeOK
<1> QED
  BY <1>6, <1>7, <1>8, <1>9

LEMMA WorkerComputesKeeps ==
    ASSUME AtlasInv, NEW success \in BOOLEAN, WorkerComputes(success)
    PROVE  AtlasInv'
<1> USE DEF AtlasInv
<1> DEFINE m == [id |-> Head(inbox), success |-> success]
<1>1. /\ worker = "running" /\ inbox # <<>>
      /\ inbox' = Tail(inbox) /\ outbox' = Append(outbox, m)
      /\ UNCHANGED <<worker, reqIdCounter, pendingRequests, timers, promise, hud>>
  BY DEF WorkerComputes
<1>2. inbox \in Seq(Nat) /\ outbox \in Seq([id : Nat, success : BOOLEAN])
      /\ reqIdCounter \in Nat
  BY DEF AtlasTypeOK
<1>3. Head(inbox) = inbox[1] /\ Head(inbox) \in Nat /\ 1 \in DOMAIN inbox
  BY <1>1, <1>2
<1>4. WaitingCalls' = WaitingCalls
  BY <1>1 DEF WaitingCalls
<1>5. inbox' \in Seq(Nat) /\ outbox' \in Seq([id : Nat, success : BOOLEAN])
      /\ Len(inbox') = Len(inbox) - 1 /\ Len(outbox') = Len(outbox) + 1
  BY <1>1, <1>2, <1>3
<1>6. /\ Len(inbox) \in Nat /\ Len(outbox) \in Nat /\ Len(inbox') = Len(inbox) - 1
      /\ Len(outbox') = Len(outbox) + 1
      /\ DOMAIN inbox = 1..Len(inbox) /\ DOMAIN outbox = 1..Len(outbox)
      /\ DOMAIN inbox' = 1..Len(inbox') /\ DOMAIN outbox' = 1..Len(outbox')
  BY <1>2, <1>5
<1>7. /\ \A i \in 1..Len(inbox') : inbox'[i] = inbox[i + 1]
      /\ \A i \in 1..Len(outbox) : outbox'[i].id = outbox[i].id
      /\ outbox'[Len(outbox) + 1].id = Head(inbox)
  BY <1>1, <1>2, <1>3
<1>8. AtlasTypeOK'
  BY <1>1, <1>5 DEF AtlasTypeOK
<1>9. TimersGuardCalls'
  BY <1>1, <1>4 DEF TimersGuardCalls
<1>10. TransitInOrder'
  <2>1. Oldest' = Oldest /\ Oldest \in Int
    BY <1>1, <1>2, <1>5 DEF Oldest
  <2>2. Head(inbox) = Oldest + Len(outbox)
    BY <1>2, <1>3, <2>1 DEF TransitInOrder
  <2>3. \A i \in DOMAIN outbox' : outbox'[i].id = Oldest + i - 1
    <3> SUFFICES ASSUME NEW i \in 1..(Len(outbox) + 1) PROVE outbox'[i].id = Oldest + i - 1
      BY <1>6
    <3>1. CASE i \in 1..Len(outbox)
      BY <1>6, <1>7, <2>1, <3>1 DEF TransitInOrder
    <3>2. CASE i = Len(outbox) + 1
      BY <1>6, <1>7, <2>1, <2>2, <3>2
    <3> QED
      BY <1>6, <3>1, <3>2
  <2>4. \A i \in DOMAIN inbox' : inbox'[i] = Oldest + Len(outbox') + i - 1
    <3> SUFFICES ASSUME NEW i \in 1..Len(inbox')
                 PROVE  inbox'[i] = Oldest + Len(outbox') + i - 1
      BY <1>6
    <3>1. inbox'[i] = inbox[i + 1] /\ i + 1 \in DOMAIN inbox
      BY <1>6, <1>7
    <3>2. inbox[i + 1] = Oldest + Len(outbox) + (i + 1) - 1
      BY <3>1 DEF TransitInOrder
    <3> QED
      BY <1>6, <2>1, <3>1, <3>2
  <2> QED
    BY <1>1, <2>1, <2>3, <2>4 DEF TransitInOrder
<1>11. ShownIsOlder'
  BY <1>1, <1>4 DEF ShownIsOlder
<1> QED
  BY <1>8, <1>9, <1>10, <1>11

LEMMA WorkerFailsKeeps == AtlasInv /\ WorkerFails => AtlasInv'
<1> SUFFICES ASSUME AtlasInv, WorkerFails PROVE AtlasInv'
  OBVIOUS
<1>1. WaitingCalls' = WaitingCalls
  BY DEF WorkerFails, WaitingCalls
<1> QED
  BY <1>1 DEF WorkerFails, AtlasInv, AtlasTypeOK, TimersGuardCalls, TransitInOrder, Oldest, ShownIsOlder

LEMMA TerminateKeeps == AtlasInv /\ Terminate => AtlasInv'
<1> SUFFICES ASSUME AtlasInv, Terminate PROVE AtlasInv'
  OBVIOUS
<1>1. WaitingCalls' = WaitingCalls
  BY DEF Terminate, WaitingCalls
<1>2. AtlasTypeOK'
  BY DEF Terminate, AtlasInv, AtlasTypeOK
<1>3. TimersGuardCalls' /\ ShownIsOlder'
  BY <1>1 DEF Terminate, AtlasInv, AtlasTypeOK, TimersGuardCalls, ShownIsOlder
<1>4. TransitInOrder'
  BY DEF Terminate, TransitInOrder
<1> QED
  BY <1>2, <1>3, <1>4 DEF AtlasInv

-----------------------------------------------------------------------------
(* The two ways a waiting call is answered both take the oldest one. *)

(* The oldest waiting call, with the timer and the entry that guard it. *)
IsOldest(n) == n \in WaitingCalls /\ \A k \in WaitingCalls : n <= k

(* What answering call n changes, apart from the channels. *)
Answered(n, from) ==
    /\ timers' = timers \ {n}
    /\ pendingRequests' = pendingRequests \ {n}
    /\ Settles(n, from, n)
    /\ UNCHANGED <<worker, reqIdCounter, inbox>>

LEMMA AnsweredKeeps ==
    ASSUME AtlasInv, NEW n, IsOldest(n), NEW from \in Promises!Sources, Answered(n, from)
    PROVE  /\ TimersGuardCalls'
           /\ ShownIsOlder'
           /\ promise' \in Seq(Answers) /\ hud' \in Nat
           /\ worker # "none" => hud' >= hud
<1> USE DEF AtlasInv
<1>1. n \in WaitingCalls /\ \A k \in WaitingCalls : n <= k
  BY DEF IsOldest
<1>2. /\ hud' \in {hud, n} /\ promise' \in Seq(Answers) /\ Len(promise') = Len(promise)
      /\ WaitingCalls' = WaitingCalls \ {n}
  BY <1>1, SettlesWaiting DEF Answered
<1>3. n \in 1..reqIdCounter /\ WaitingCalls \subseteq 1..reqIdCounter /\ reqIdCounter \in Nat
  BY <1>1 DEF AtlasTypeOK, TimersGuardCalls
<1>4. TimersGuardCalls'
  BY <1>2 DEF TimersGuardCalls, Answered
<1>5. \A k \in WaitingCalls' : n < k
  BY <1>1, <1>2, <1>3
<1>6. ShownIsOlder'
  BY <1>2, <1>3, <1>5 DEF ShownIsOlder, Answered, AtlasTypeOK
<1>7. hud' \in Nat /\ (worker # "none" => hud' >= hud)
  BY <1>1, <1>2, <1>3 DEF ShownIsOlder, AtlasTypeOK
<1> QED
  BY <1>2, <1>4, <1>6, <1>7

(* The answer at the head of the channel is that of the oldest request: an *)
(* entry in the map is never overtaken.                                    *)
LEMMA HeadIsOldest ==
    ASSUME AtlasInv, outbox # <<>>, Head(outbox).id \in pendingRequests
    PROVE  IsOldest(Head(outbox).id) /\ worker # "none"
<1> USE DEF AtlasInv
<1>1. outbox \in Seq([id : Nat, success : BOOLEAN])
  BY DEF AtlasTypeOK
<1>2. Head(outbox).id = Oldest
  <2>1. 1 \in DOMAIN outbox /\ Head(outbox) = outbox[1]
    BY <1>1
  <2>2. Oldest \in Int
    BY <1>1 DEF AtlasTypeOK, Oldest
  <2> QED
    BY <2>1, <2>2 DEF TransitInOrder
<1>3. worker # "none"
  BY DEF TransitInOrder
<1>4. pendingRequests = WaitingCalls
  BY <1>3 DEF TimersGuardCalls
<1> QED
  BY <1>2, <1>3, <1>4 DEF IsOldest, TransitInOrder

LEMMA TransitAdvances ==
    ASSUME AtlasInv, outbox # <<>>, outbox' = Tail(outbox),
           UNCHANGED <<worker, reqIdCounter, inbox>>,
           pendingRequests' = pendingRequests \ {Head(outbox).id}
    PROVE  TransitInOrder' /\ outbox' \in Seq([id : Nat, success : BOOLEAN])
<1> USE DEF AtlasInv
<1>1. outbox \in Seq([id : Nat, success : BOOLEAN]) /\ inbox \in Seq(Nat)
      /\ reqIdCounter \in Nat /\ pendingRequests \subseteq 1..reqIdCounter
  BY DEF AtlasTypeOK
<1>2. /\ outbox' \in Seq([id : Nat, success : BOOLEAN]) /\ Len(outbox') = Len(outbox) - 1
      /\ \A i \in 1..Len(outbox') : outbox'[i] = outbox[i + 1]
      /\ 1 \in DOMAIN outbox /\ Head(outbox) = outbox[1]
  BY <1>1
<1>3. Oldest' = Oldest + 1 /\ Oldest \in Int
  BY <1>1, <1>2 DEF Oldest
<1>4. Head(outbox).id = Oldest
  BY <1>2, <1>3 DEF TransitInOrder
<1>5. \A i \in DOMAIN outbox' : outbox'[i].id = Oldest' + i - 1
  BY <1>1, <1>2, <1>3 DEF TransitInOrder
<1>6. \A i \in DOMAIN inbox' : inbox'[i] = Oldest' + Len(outbox') + i - 1
  BY <1>1, <1>2, <1>3 DEF TransitInOrder
<1>7. \A k \in pendingRequests' : Oldest' <= k
  BY <1>1, <1>3, <1>4 DEF TransitInOrder
<1>8. worker' # "none"
  BY DEF TransitInOrder
<1> QED
  BY <1>2, <1>5, <1>6, <1>7, <1>8 DEF TransitInOrder

(* What an answer from the worker does: it settles the oldest call or      *)
(* nothing.                                                                *)
LEMMA OnMessageCases ==
    ASSUME AtlasInv, OnMessage
    PROVE  \/ \E from \in Promises!Sources :
                IsOldest(Head(outbox).id) /\ Answered(Head(outbox).id, from)
           \/ /\ Head(outbox).id \notin pendingRequests
              /\ UNCHANGED <<worker, reqIdCounter, pendingRequests, timers, inbox, promise, hud>>
<1> DEFINE from == IF Head(outbox).success THEN "worker" ELSE "error"
<1>1. from \in Promises!Sources
  BY DEF Promises!Sources
<1>2. CASE Head(outbox).id \in pendingRequests
  <2>1. IsOldest(Head(outbox).id)
    BY <1>2, HeadIsOldest DEF OnMessage
  <2>2. Answered(Head(outbox).id, from)
    BY <1>2 DEF OnMessage, Answered
  <2> QED
    BY <1>1, <2>1, <2>2
<1>3. CASE Head(outbox).id \notin pendingRequests
  BY <1>3 DEF OnMessage
<1> QED
  BY <1>2, <1>3

LEMMA OnMessageKeeps == AtlasInv /\ OnMessage => AtlasInv'
<1> SUFFICES ASSUME AtlasInv, OnMessage PROVE AtlasInv'
  OBVIOUS
<1>1. /\ outbox # <<>> /\ outbox' = Tail(outbox)
      /\ UNCHANGED <<worker, reqIdCounter, inbox>>
  BY DEF OnMessage
<1>2. CASE \E from \in Promises!Sources :
              IsOldest(Head(outbox).id) /\ Answered(Head(outbox).id, from)
  <2>1. PICK from \in Promises!Sources :
            IsOldest(Head(outbox).id) /\ Answered(Head(outbox).id, from)
    BY <1>2
  <2>2. TimersGuardCalls' /\ ShownIsOlder' /\ promise' \in Seq(Answers) /\ hud' \in Nat
    BY <2>1, AnsweredKeeps
  <2>3. TransitInOrder' /\ outbox' \in Seq([id : Nat, success : BOOLEAN])
    BY <1>1, <2>1, TransitAdvances DEF Answered
  <2>4. AtlasTypeOK'
    BY <1>1, <2>1, <2>2, <2>3 DEF AtlasInv, AtlasTypeOK, Answered, Answers
  <2> QED
    BY <2>2, <2>3, <2>4 DEF AtlasInv
<1>3. CASE /\ Head(outbox).id \notin pendingRequests
           /\ UNCHANGED <<worker, reqIdCounter, pendingRequests, timers, inbox, promise, hud>>
  <2>1. WaitingCalls' = WaitingCalls
    BY <1>3 DEF WaitingCalls
  <2>2. TransitInOrder' /\ outbox' \in Seq([id : Nat, success : BOOLEAN])
    BY <1>1, <1>3, TransitAdvances
  <2>3. AtlasTypeOK'
    BY <1>3, <2>2 DEF AtlasInv, AtlasTypeOK
  <2> QED
    BY <1>3, <2>1, <2>2, <2>3 DEF AtlasInv, TimersGuardCalls, ShownIsOlder
<1> QED
  BY <1>2, <1>3, OnMessageCases

(* A timer that fires is that of the oldest waiting call. *)
LEMMA TimerFiresCases ==
    ASSUME AtlasInv, TimerFires
    PROVE  \E n \in WaitingCalls :
              IsOldest(n) /\ Answered(n, "inline") /\ outbox' = outbox
BY DEF AtlasInv, TimersGuardCalls, TimerFires, IsOldest, Answered

LEMMA TimerFiresKeeps == AtlasInv /\ TimerFires => AtlasInv'
<1> SUFFICES ASSUME AtlasInv, TimerFires PROVE AtlasInv'
  OBVIOUS
<1>1. PICK n \in WaitingCalls : IsOldest(n) /\ Answered(n, "inline") /\ outbox' = outbox
  BY TimerFiresCases
<1>2. "inline" \in Promises!Sources
  BY DEF Promises!Sources
<1>3. TimersGuardCalls' /\ ShownIsOlder' /\ promise' \in Seq(Answers) /\ hud' \in Nat
  BY <1>1, <1>2, AnsweredKeeps
<1>4. TransitInOrder'
  BY <1>1 DEF AtlasInv, TransitInOrder, Oldest, Answered
<1>5. AtlasTypeOK'
  BY <1>1, <1>3 DEF AtlasInv, AtlasTypeOK, Answered, Answers
<1> QED
  BY <1>3, <1>4, <1>5 DEF AtlasInv

-----------------------------------------------------------------------------
(* The theorems. *)

LEMMA StepInv == AtlasInv /\ [AtlasNext]_atlasVars => AtlasInv'
<1> SUFFICES ASSUME AtlasInv, [AtlasNext]_atlasVars PROVE AtlasInv'
  OBVIOUS
<1>1. CASE UNCHANGED atlasVars
  <2>1. WaitingCalls' = WaitingCalls
    BY <1>1 DEF atlasVars, WaitingCalls
  <2> QED
    BY <1>1, <2>1 DEF atlasVars, AtlasInv, AtlasTypeOK, TimersGuardCalls, TransitInOrder, Oldest, ShownIsOlder
<1>2. CASE AtlasNext
  BY <1>2, RequestKeeps, RequestInlineKeeps, WorkerComputesKeeps, WorkerFailsKeeps,
     OnMessageKeeps, TimerFiresKeeps, TerminateKeeps DEF AtlasNext
<1> QED
  BY <1>1, <1>2

(* However answers, timeouts, failures and termination interleave, every   *)
(* waiting call is guarded by its timer, answers come in the order of the  *)
(* requests, and no answer is shown before an older call has its own       *)
(* (SovereignAtlasWorkerService: request methods, onmessage, terminate).   *)
THEOREM AtlasCorrect == AtlasSpec => []AtlasInv
<1>1. AtlasInit => AtlasInv
  BY InitInv
<1>2. AtlasInv /\ [AtlasNext]_atlasVars => AtlasInv'
  BY StepInv
<1> QED
  BY <1>1, <1>2, PTL DEF AtlasSpec

LEMMA HudStep == AtlasInv /\ [AtlasNext]_atlasVars => [worker # "none" => hud' >= hud]_atlasVars
<1> SUFFICES ASSUME AtlasInv, AtlasNext, worker # "none" PROVE hud' >= hud
  BY DEF atlasVars
<1> USE DEF AtlasInv
<1>1. hud \in Nat
  BY DEF AtlasTypeOK
<1>2. CASE OnMessage
  BY <1>1, <1>2, OnMessageCases, AnsweredKeeps
<1>3. CASE TimerFires
  <2>1. "inline" \in Promises!Sources
    BY DEF Promises!Sources
  <2> QED
    BY <1>3, <2>1, TimerFiresCases, AnsweredKeeps
<1>4. CASE UNCHANGED hud
  BY <1>1, <1>4
<1> QED
  BY <1>2, <1>3, <1>4 DEF AtlasNext, Request, RequestInline, WorkerComputes, WorkerFails, Terminate

(* The position shown by HologramGrid and GravitationalHologramContainer   *)
(* never goes back to an older pointer event while the service has its     *)
(* worker (their .then handlers, which compare nothing themselves).        *)
THEOREM ShownInOrder == AtlasSpec => HudNeverGoesBack
BY AtlasCorrect, HudStep, PTL DEF AtlasSpec, HudNeverGoesBack

-----------------------------------------------------------------------------
(* Refinement: each step of the service is one of OrderedPromises or       *)
(* leaves the promises alone.                                              *)

LEMMA SettleStep ==
    ASSUME AtlasInv, NEW n, IsOldest(n), NEW from \in Promises!Sources, Answered(n, from)
    PROVE  Promises!Settle
<1>1. n \in DOMAIN promise /\ promise[n] = Waiting
  BY DEF IsOldest, WaitingCalls
<1>2. promise' = [promise EXCEPT ![n] = Answer(from, n)]
  BY <1>1, SettlesWaiting DEF AtlasInv, IsOldest, Answered
<1>3. \A m \in DOMAIN promise : m < n => promise[m] # Waiting
  <2>1. SUFFICES ASSUME NEW m \in DOMAIN promise, m < n, promise[m] = Waiting PROVE FALSE
    OBVIOUS
  <2>2. m \in WaitingCalls
    BY <2>1 DEF WaitingCalls
  <2>3. n <= m
    BY <2>2 DEF IsOldest
  <2>4. m \in Nat /\ n \in Nat
    BY <1>1 DEF AtlasInv, AtlasTypeOK
  <2> QED
    BY <2>1, <2>3, <2>4
<1> QED
  BY <1>1, <1>2, <1>3 DEF Promises!Settle, Waiting, Answer

LEMMA PromisesStep == AtlasInv /\ [AtlasNext]_atlasVars => [Promises!Next]_promise
<1> SUFFICES ASSUME AtlasInv, [AtlasNext]_atlasVars PROVE [Promises!Next]_promise
  OBVIOUS
<1>1. CASE Request
  BY <1>1 DEF Request, Promises!Next, Promises!Call, Waiting
<1>2. CASE RequestInline
  BY <1>2 DEF RequestInline, Promises!Next, Promises!CallInline, Answer
<1>3. CASE OnMessage
  BY <1>3, OnMessageCases, SettleStep DEF Promises!Next
<1>4. CASE TimerFires
  <2>1. "inline" \in Promises!Sources
    BY DEF Promises!Sources
  <2> QED
    BY <1>4, <2>1, TimerFiresCases, SettleStep DEF Promises!Next
<1>5. CASE UNCHANGED promise
  BY <1>5
<1> QED
  BY <1>1, <1>2, <1>3, <1>4, <1>5 DEF AtlasNext, atlasVars, WorkerComputes, WorkerFails, Terminate

(* Every call is answered at most once, with the result of its own         *)
(* arguments and in order (the map of pending requests keyed by id).       *)
THEOREM ImplementsOrder == AtlasSpec => ImplementsOrderedPromises
<1>1. AtlasInit => Promises!Init
  BY DEF AtlasInit, Promises!Init
<1>2. AtlasInv /\ [AtlasNext]_atlasVars => [Promises!Next]_promise
  BY PromisesStep
<1> QED
  BY <1>1, <1>2, AtlasCorrect, PTL DEF AtlasSpec, ImplementsOrderedPromises, Promises!Spec
=============================================================================
