-------------------------- MODULE AuditFlushProofs --------------------------
(***************************************************************************)
(* Proofs about AuditFlush: its type invariant, that events are retained   *)
(* until the server has handled them, and that it implements               *)
(* AuditRetention, for any number of tabs and events; and that, with one   *)
(* tab, what was confirmed never returns to the queue.                     *)
(***************************************************************************)
EXTENDS AuditFlush, TLAPS

(* The part of RetentionInv that is about the events. *)
EventInv ==
    /\ OnlyAccepted
    /\ IdleIsEmpty
    /\ AnsweredIsReceived
    /\ CoversOwed
    /\ RetainedUntilReceived

USE MaxRetryAssumption, MaxOpensAssumption

-----------------------------------------------------------------------------
(* Every variable keeps its type. *)
LEMMA TypeStep == TypeOK /\ [Next]_vars => TypeOK'
<1> SUFFICES ASSUME TypeOK, [Next]_vars PROVE TypeOK'
  OBVIOUS
<1> USE DEF TypeOK, Flight, Phase, Idle, store, timers, network, history
<1>1. ASSUME NEW t \in Tab, TabStep(t) PROVE TypeOK'
  <2>1. CASE ServerRecords(t)  BY <2>1 DEF ServerRecords
  <2>2. CASE ServerRefuses(t)  BY <2>2 DEF ServerRefuses
  <2>3. CASE FlushSucceeds(t)
    <3>1. flight[t].batch \subseteq Event /\ 0 \in 0..MaxRetry
      OBVIOUS
    <3>2. flight' \in [Tab -> Flight]
      BY <2>3 DEF FlushSucceeds
    <3>3. queue' \subseteq Event
      BY <2>3 DEF FlushSucceeds
    <3>4. attempt' \in [Tab -> 0..MaxRetry]
      BY <2>3, <3>1 DEF FlushSucceeds
    <3>5. backoff' \in [Tab -> BOOLEAN]
      BY <2>3 DEF FlushSucceeds
    <3>6. acked' \subseteq Event
      BY <2>3, <3>1 DEF FlushSucceeds
    <3>7. QED
      BY <2>3, <3>2, <3>3, <3>4, <3>5, <3>6 DEF FlushSucceeds
  <2>4. CASE FlushFails(t)
    <3>1. flight[t].batch \subseteq Event
      OBVIOUS
    <3>2. wire' \subseteq SUBSET Event /\ flight' \in [Tab -> Flight]
      BY <2>4, <3>1 DEF FlushFails, Abandoned
    <3>3. queue' \subseteq Event
      BY <2>4, <3>1 DEF FlushFails
    <3>4. attempt' \in [Tab -> 0..MaxRetry]
      <4>1. attempt[t] \in 0..MaxRetry
        OBVIOUS
      <4>2. CASE attempt[t] >= MaxRetry
        BY <2>4, <4>2 DEF FlushFails, ScheduleRetry
      <4>3. CASE ~(attempt[t] >= MaxRetry)
        <5>1. attempt[t] + 1 \in 0..MaxRetry
          BY <4>1, <4>3
        <5>2. attempt' = attempt \/ attempt' = [attempt EXCEPT ![t] = attempt[t] + 1]
          BY <2>4, <4>3 DEF FlushFails, ScheduleRetry
        <5>3. QED
          BY <5>1, <5>2
      <4>4. QED
        BY <4>2, <4>3
    <3>5. backoff' \in [Tab -> BOOLEAN]
      <4>1. \/ backoff' = backoff
            \/ backoff' = [backoff EXCEPT ![t] = FALSE]
            \/ backoff' = [backoff EXCEPT ![t] = TRUE]
        BY <2>4, ZenonT(30) DEF FlushFails, ScheduleRetry
      <4>2. QED
        BY <4>1
    <3>6. QED
      BY <2>4, <3>2, <3>3, <3>4, <3>5 DEF FlushFails
  <2>5. CASE KickFires(t)      BY <2>5 DEF KickFires, FlushQueue
  <2>6. CASE BackoffFires(t)   BY <2>6 DEF BackoffFires, FlushQueue
  <2>7. CASE AutoSyncTick(t)   BY <2>7 DEF AutoSyncTick, FlushQueue
  <2>8. CASE OnlineEvent(t)    BY <2>8 DEF OnlineEvent, FlushQueue
  <2>9. CASE SyncNow(t)        BY <2>9 DEF SyncNow, FlushQueue
  <2>10. CASE RetryNow(t)      BY <2>10 DEF RetryNow, FlushQueue
  <2>11. CASE ClearQueue(t)    BY <2>11 DEF ClearQueue
  <2>12. CASE OpenTab(t)       BY <2>12 DEF OpenTab
  <2>13. CASE CloseTab(t)      BY <2>13 DEF CloseTab, Abandoned
  <2>14. CASE \E e \in Event : EnqueueEvent(t, e)
    BY <2>14 DEF EnqueueEvent
  <2>15. CASE \E enabled \in BOOLEAN : SetAutoSync(t, enabled)
    BY <2>15 DEF SetAutoSync
  <2>16. QED
    BY <1>1, <2>1, <2>2, <2>3, <2>4, <2>5, <2>6, <2>7, <2>8, <2>9, <2>10,
       <2>11, <2>12, <2>13, <2>14, <2>15 DEF TabStep
<1>2. ASSUME NEW b \in wire, LateArrival(b) PROVE TypeOK'
  BY <1>2 DEF LateArrival
<1>3. CASE GoOffline      BY <1>3 DEF GoOffline
<1>4. CASE GoOnline       BY <1>4 DEF GoOnline
<1>5. CASE ServerChanges  BY <1>5 DEF ServerChanges
<1>6. CASE UNCHANGED vars BY <1>6 DEF vars
<1>7. QED
  BY <1>1, <1>2, <1>3, <1>4, <1>5, <1>6 DEF Next

(* Type correctness of the tabs, the queue and the requests. *)
THEOREM TypeCorrect == Spec => []TypeOK
<1>1. Init => TypeOK
  BY DEF Init, TypeOK, Flight, Phase, Idle
<1>2. QED
  BY <1>1, TypeStep, PTL DEF Spec

-----------------------------------------------------------------------------
(* The events: a step that starts at most one flush, with the whole queue, *)
(* and a step that touches no event and no flight, keep EventInv.          *)
eventVars == <<queue, wire, received, accepted, exposed, cleared>>

LEMMA FlushQueueKeeps ==
    ASSUME TypeOK, EventInv, NEW t \in Tab, NEW force \in BOOLEAN,
           FlushQueue(t, force), UNCHANGED eventVars
    PROVE  EventInv'
<1>1. Owed' = Owed /\ Owed \subseteq queue
  BY DEF EventInv, RetainedUntilReceived, Owed, eventVars
<1>2. \A x \in Tab : \/ flight'[x] = flight[x]
                     \/ flight'[x] = [phase |-> "sent", batch |-> queue]
  BY DEF FlushQueue, TypeOK
<1>3. OnlyAccepted'
  BY <1>2 DEF EventInv, OnlyAccepted, eventVars
<1>4. IdleIsEmpty' /\ AnsweredIsReceived'
  BY <1>2 DEF EventInv, IdleIsEmpty, AnsweredIsReceived, eventVars
<1>5. CoversOwed'
  BY <1>1, <1>2 DEF EventInv, CoversOwed, IsFlushing, eventVars
<1>6. RetainedUntilReceived'
  BY DEF EventInv, RetainedUntilReceived, eventVars
<1>7. QED
  BY <1>3, <1>4, <1>5, <1>6 DEF EventInv

LEMMA QuietKeeps ==
    ASSUME EventInv, UNCHANGED eventVars, UNCHANGED flight
    PROVE  EventInv'
BY DEF EventInv, eventVars, OnlyAccepted, IdleIsEmpty, AnsweredIsReceived,
       CoversOwed, Owed, IsFlushing, RetainedUntilReceived

LEMMA EventStep ==
    ASSUME TypeOK, EventInv, [Next]_vars
    PROVE  EventInv'
<1> USE DEF store, timers, network, history, eventVars
<1>0. Owed \subseteq queue
  BY DEF EventInv, RetainedUntilReceived, Owed
<1>1. ASSUME NEW t \in Tab, TabStep(t) PROVE EventInv'
  <2>1. CASE ServerRecords(t)
    <3>1. flight' = [flight EXCEPT ![t].phase = "ok"]
          /\ received' = received \cup flight[t].batch
          /\ UNCHANGED <<queue, wire, accepted, exposed, cleared>>
      BY <2>1 DEF ServerRecords
    <3>2. \A x \in Tab : /\ flight'[x].batch = flight[x].batch
                         /\ x # t => flight'[x] = flight[x]
      BY <3>1 DEF TypeOK, Flight
    <3>3. flight'[t].phase = "ok" /\ flight[t].phase = "sent"
      BY <2>1, <3>1 DEF TypeOK, Flight, ServerRecords
    <3>4. Owed' \subseteq Owed
      BY <3>1 DEF Owed
    <3>5. OnlyAccepted' /\ RetainedUntilReceived'
      BY <3>1, <3>2 DEF EventInv, OnlyAccepted, RetainedUntilReceived
    <3>6. IdleIsEmpty' /\ AnsweredIsReceived'
      BY <3>1, <3>2, <3>3 DEF EventInv, IdleIsEmpty, AnsweredIsReceived
    <3>7. CoversOwed'
      BY <3>2, <3>3, <3>4 DEF EventInv, CoversOwed, IsFlushing
    <3>8. QED
      BY <3>5, <3>6, <3>7 DEF EventInv
  <2>2. CASE ServerRefuses(t)
    <3>1. flight' = [flight EXCEPT ![t].phase = "bad"] /\ UNCHANGED eventVars
      BY <2>2 DEF ServerRefuses
    <3>2. \A x \in Tab : /\ flight'[x].batch = flight[x].batch
                         /\ x # t => flight'[x] = flight[x]
      BY <3>1 DEF TypeOK, Flight
    <3>3. flight'[t].phase = "bad" /\ flight[t].phase = "sent"
      BY <2>2, <3>1 DEF TypeOK, Flight, ServerRefuses
    <3>4. OnlyAccepted' /\ RetainedUntilReceived' /\ Owed' = Owed
      BY <3>1, <3>2 DEF EventInv, OnlyAccepted, RetainedUntilReceived, Owed
    <3>5. IdleIsEmpty' /\ AnsweredIsReceived'
      BY <3>1, <3>2, <3>3 DEF EventInv, IdleIsEmpty, AnsweredIsReceived
    <3>6. CoversOwed'
      BY <3>2, <3>3, <3>4 DEF EventInv, CoversOwed, IsFlushing
    <3>7. QED
      BY <3>4, <3>5, <3>6 DEF EventInv
  <2>3. CASE FlushSucceeds(t)
    <3>1. \A x \in Tab : flight'[x] = IF x = t THEN Idle ELSE flight[x]
      BY <2>3 DEF FlushSucceeds, TypeOK
    <3>2. UNCHANGED <<wire, received, accepted, exposed, cleared>> /\ Owed' = Owed
      BY <2>3 DEF FlushSucceeds, Owed
    <3>3. queue' = queue \/ (queue' = {} /\ Owed = {})
      <4>1. flight[t].batch \subseteq received /\ IsFlushing(t)
        BY <2>3 DEF FlushSucceeds, EventInv, AnsweredIsReceived, IsFlushing
      <4>2. CASE flight[t].batch = {}
        BY <2>3, <4>2 DEF FlushSucceeds
      <4>3. CASE flight[t].batch # {}
        BY <2>3, <4>1, <4>3 DEF FlushSucceeds, EventInv, CoversOwed, Owed
      <4>4. QED
        BY <4>2, <4>3
    <3>4. OnlyAccepted'
      BY <3>1, <3>2, <3>3 DEF EventInv, OnlyAccepted, Idle
    <3>5. IdleIsEmpty' /\ AnsweredIsReceived'
      BY <3>1, <3>2 DEF EventInv, IdleIsEmpty, AnsweredIsReceived, Idle
    <3>6. CoversOwed'
      BY <3>1, <3>2 DEF EventInv, CoversOwed, IsFlushing, Idle
    <3>7. RetainedUntilReceived'
      BY <1>0, <3>2, <3>3 DEF RetainedUntilReceived, Owed
    <3>8. QED
      BY <3>4, <3>5, <3>6, <3>7 DEF EventInv
  <2>4. CASE FlushFails(t)
    <3>1. \A x \in Tab : flight'[x] = IF x = t THEN Idle ELSE flight[x]
      BY <2>4 DEF FlushFails, TypeOK
    <3>2. UNCHANGED <<received, accepted, exposed, cleared>> /\ Owed' = Owed
      BY <2>4 DEF FlushFails, Owed
    <3>3. queue' = queue \/ (queue' = flight[t].batch /\ Owed \subseteq flight[t].batch)
      BY <2>4 DEF FlushFails, EventInv, CoversOwed, IsFlushing
    <3>4. wire' \subseteq wire \cup {flight[t].batch}
      BY <2>4 DEF FlushFails, Abandoned
    <3>5. OnlyAccepted'
      BY <3>1, <3>2, <3>3, <3>4 DEF EventInv, OnlyAccepted, Idle
    <3>6. IdleIsEmpty' /\ AnsweredIsReceived'
      BY <3>1, <3>2 DEF EventInv, IdleIsEmpty, AnsweredIsReceived, Idle
    <3>7. CoversOwed'
      BY <3>1, <3>2 DEF EventInv, CoversOwed, IsFlushing, Idle
    <3>8. RetainedUntilReceived'
      BY <1>0, <3>2, <3>3 DEF RetainedUntilReceived, Owed
    <3>9. QED
      BY <3>5, <3>6, <3>7, <3>8 DEF EventInv
  <2>5. CASE KickFires(t)     BY <2>5, FlushQueueKeeps DEF KickFires
  <2>6. CASE BackoffFires(t)  BY <2>6, FlushQueueKeeps DEF BackoffFires
  <2>7. CASE AutoSyncTick(t)  BY <2>7, FlushQueueKeeps DEF AutoSyncTick
  <2>8. CASE OnlineEvent(t)   BY <2>8, FlushQueueKeeps DEF OnlineEvent
  <2>9. CASE SyncNow(t)       BY <2>9, FlushQueueKeeps DEF SyncNow
  <2>10. CASE RetryNow(t)     BY <2>10, FlushQueueKeeps DEF RetryNow
  <2>11. CASE ClearQueue(t)
    <3>1. queue' = {} /\ cleared' = cleared \cup queue
          /\ UNCHANGED <<flight, wire, received, accepted, exposed>>
      BY <2>11 DEF ClearQueue
    <3>2. Owed' = {}
      BY <1>0, <3>1 DEF Owed
    <3>3. QED
      BY <3>1, <3>2 DEF EventInv, OnlyAccepted, IdleIsEmpty, AnsweredIsReceived,
                        CoversOwed, IsFlushing, RetainedUntilReceived, Owed
  <2>12. CASE OpenTab(t)      BY <2>12, QuietKeeps DEF OpenTab
  <2>13. CASE CloseTab(t)
    <3>1. \A x \in Tab : flight'[x] = IF x = t THEN Idle ELSE flight[x]
      BY <2>13 DEF CloseTab, TypeOK
    <3>2. UNCHANGED <<queue, received, accepted, exposed, cleared>> /\ Owed' = Owed
      BY <2>13 DEF CloseTab, Owed
    <3>3. wire' \subseteq wire \cup {flight[t].batch}
      BY <2>13 DEF CloseTab, Abandoned
    <3>4. OnlyAccepted' /\ RetainedUntilReceived'
      BY <3>1, <3>2, <3>3 DEF EventInv, OnlyAccepted, Idle, RetainedUntilReceived
    <3>5. IdleIsEmpty' /\ AnsweredIsReceived' /\ CoversOwed'
      BY <3>1, <3>2 DEF EventInv, IdleIsEmpty, AnsweredIsReceived, CoversOwed,
                        IsFlushing, Idle
    <3>6. QED
      BY <3>4, <3>5 DEF EventInv
  <2>14. ASSUME NEW e \in Event, EnqueueEvent(t, e) PROVE EventInv'
    <3>1. /\ queue' = queue \cup {e} /\ accepted' = accepted \cup {e}
          /\ UNCHANGED <<flight, wire, received, cleared>>
      BY <2>14 DEF EnqueueEvent
    <3>2. Owed' \subseteq Owed \cup {e}
      BY <2>14 DEF EnqueueEvent, Owed
    <3>3. FlushInFlight => Owed' \subseteq Owed
      BY <2>14 DEF EnqueueEvent, Owed
    <3>4. CoversOwed'
      BY <3>1, <3>3 DEF EventInv, CoversOwed, IsFlushing, FlushInFlight
    <3>5. RetainedUntilReceived'
      BY <1>0, <3>1, <3>2 DEF RetainedUntilReceived, Owed
    <3>6. OnlyAccepted' /\ IdleIsEmpty' /\ AnsweredIsReceived'
      BY <3>1 DEF EventInv, OnlyAccepted, IdleIsEmpty, AnsweredIsReceived
    <3>7. QED
      BY <3>4, <3>5, <3>6 DEF EventInv
  <2>15. CASE \E enabled \in BOOLEAN : SetAutoSync(t, enabled)
    BY <2>15, QuietKeeps DEF SetAutoSync
  <2>16. QED
    BY <1>1, <2>1, <2>2, <2>3, <2>4, <2>5, <2>6, <2>7, <2>8, <2>9, <2>10,
       <2>11, <2>12, <2>13, <2>14, <2>15 DEF TabStep
<1>2. ASSUME NEW b \in wire, LateArrival(b) PROVE EventInv'
  <2>1. /\ received' = received \cup b /\ wire' = wire \ {b}
        /\ UNCHANGED <<queue, flight, accepted, exposed, cleared>>
    BY <1>2 DEF LateArrival
  <2>2. b \subseteq accepted /\ Owed' \subseteq Owed
    BY <2>1 DEF EventInv, OnlyAccepted, Owed
  <2>3. QED
    BY <2>1, <2>2 DEF EventInv, OnlyAccepted, IdleIsEmpty, AnsweredIsReceived,
                      CoversOwed, IsFlushing, RetainedUntilReceived
<1>3. CASE GoOffline      BY <1>3, QuietKeeps DEF GoOffline
<1>4. CASE GoOnline       BY <1>4, QuietKeeps DEF GoOnline
<1>5. CASE ServerChanges  BY <1>5, QuietKeeps DEF ServerChanges
<1>6. CASE UNCHANGED vars BY <1>6, QuietKeeps DEF vars
<1>7. QED
  BY <1>1, <1>2, <1>3, <1>4, <1>5, <1>6 DEF Next

(* The retention invariant, the inductive strengthening of what follows.   *)
THEOREM RetentionCorrect == Spec => []RetentionInv
<1>1. Init => TypeOK /\ EventInv
  BY DEF Init, TypeOK, Flight, Phase, Idle, EventInv, OnlyAccepted, IdleIsEmpty,
         AnsweredIsReceived, CoversOwed, IsFlushing, RetainedUntilReceived
<1>2. TypeOK /\ EventInv /\ [Next]_vars => (TypeOK /\ EventInv)'
  BY TypeStep, EventStep
<1>3. TypeOK /\ EventInv => RetentionInv
  BY DEF EventInv, RetentionInv
<1>4. QED
  BY <1>1, <1>2, <1>3, PTL DEF Spec

(* An event enqueued while no flush is in flight stays in the queue until  *)
(* the server has handled it or the user clears the queue.                 *)
THEOREM Retained == Spec => []RetainedUntilReceived
<1>1. RetentionInv => RetainedUntilReceived
  BY DEF RetentionInv
<1>2. QED
  BY <1>1, RetentionCorrect, PTL

-----------------------------------------------------------------------------
(* Refinement: every step of the service is a step of AuditRetention or    *)
(* leaves its variables alone.                                             *)
LEMMA RefinementStep ==
    ASSUME RetentionInv, [Next]_vars
    PROVE  [Promise!Next]_(Promise!vars)
<1> USE DEF store, timers, network, history, Promise!vars
<1>0. Promise!Owed = Owed
  BY DEF Owed, Promise!Owed
<1>1. ASSUME NEW t \in Tab, TabStep(t) PROVE [Promise!Next]_(Promise!vars)
  <2>1. CASE ServerRecords(t)
    <3>1. Promise!Record(flight[t].batch)
      BY <2>1 DEF ServerRecords, Promise!Record
    <3>2. flight[t].batch \in SUBSET accepted
      BY DEF RetentionInv, OnlyAccepted
    <3>3. QED
      BY <3>1, <3>2 DEF Promise!Next
  <2>2. CASE ServerRefuses(t)  BY <2>2 DEF ServerRefuses
  <2>3. CASE FlushSucceeds(t)
    <3>1. CASE flight[t].batch = {}
      BY <2>3, <3>1 DEF FlushSucceeds
    <3>2. CASE flight[t].batch # {}
      <4>1. Owed \subseteq flight[t].batch /\ flight[t].batch \subseteq received
        BY <2>3, <3>2 DEF FlushSucceeds, RetentionInv, CoversOwed, AnsweredIsReceived,
                          IsFlushing
      <4>2. Promise!Replace({})
        BY <1>0, <2>3, <3>2, <4>1 DEF FlushSucceeds, Owed, Promise!Replace
      <4>3. QED
        BY <4>2 DEF Promise!Next
    <3>3. QED
      BY <3>1, <3>2
  <2>4. CASE FlushFails(t)
    <3>1. CASE flight[t].batch = {}
      BY <2>4, <3>1 DEF FlushFails
    <3>2. CASE flight[t].batch # {}
      <4>1. Owed \subseteq flight[t].batch /\ flight[t].batch \in SUBSET accepted
        BY <2>4, <3>2 DEF FlushFails, RetentionInv, CoversOwed, OnlyAccepted, IsFlushing
      <4>2. Promise!Replace(flight[t].batch)
        BY <1>0, <2>4, <3>2, <4>1 DEF FlushFails, Promise!Replace
      <4>3. QED
        BY <4>1, <4>2 DEF Promise!Next
    <3>3. QED
      BY <3>1, <3>2
  <2>5. CASE KickFires(t)     BY <2>5 DEF KickFires
  <2>6. CASE BackoffFires(t)  BY <2>6 DEF BackoffFires
  <2>7. CASE AutoSyncTick(t)  BY <2>7 DEF AutoSyncTick
  <2>8. CASE OnlineEvent(t)   BY <2>8 DEF OnlineEvent
  <2>9. CASE SyncNow(t)       BY <2>9 DEF SyncNow
  <2>10. CASE RetryNow(t)     BY <2>10 DEF RetryNow
  <2>11. CASE ClearQueue(t)
    <3>1. Promise!Discard
      BY <2>11 DEF ClearQueue, Promise!Discard
    <3>2. QED
      BY <3>1 DEF Promise!Next
  <2>12. CASE OpenTab(t)      BY <2>12 DEF OpenTab
  <2>13. CASE CloseTab(t)     BY <2>13 DEF CloseTab
  <2>14. ASSUME NEW e \in Event, EnqueueEvent(t, e) PROVE Promise!Next
    <3>1. Promise!Accept(e)
      BY <2>14 DEF EnqueueEvent, Promise!Accept
    <3>2. QED
      BY <3>1 DEF Promise!Next
  <2>15. CASE \E enabled \in BOOLEAN : SetAutoSync(t, enabled)
    BY <2>15 DEF SetAutoSync
  <2>16. QED
    BY <1>1, <2>1, <2>2, <2>3, <2>4, <2>5, <2>6, <2>7, <2>8, <2>9, <2>10,
       <2>11, <2>12, <2>13, <2>14, <2>15 DEF TabStep
<1>2. ASSUME NEW b \in wire, LateArrival(b) PROVE Promise!Next
  <2>1. Promise!Record(b) /\ b \in SUBSET accepted
    BY <1>2 DEF LateArrival, Promise!Record, RetentionInv, OnlyAccepted
  <2>2. QED
    BY <2>1 DEF Promise!Next
<1>3. CASE GoOffline      BY <1>3 DEF GoOffline
<1>4. CASE GoOnline       BY <1>4 DEF GoOnline
<1>5. CASE ServerChanges  BY <1>5 DEF ServerChanges
<1>6. CASE UNCHANGED vars BY <1>6 DEF vars
<1>7. QED
  BY <1>1, <1>2, <1>3, <1>4, <1>5, <1>6 DEF Next

(* The synchronisation service keeps the promise of AuditRetention.        *)
THEOREM Implements == Spec => ImplementsRetention
<1>1. Init => Promise!Init
  BY DEF Init, Promise!Init
<1>2. RetentionInv /\ [Next]_vars => [Promise!Next]_(Promise!vars)
  BY RefinementStep
<1>3. QED
  BY <1>1, <1>2, RetentionCorrect, PTL DEF Spec, ImplementsRetention, Promise!Spec

-----------------------------------------------------------------------------
(* One tab.  What is confirmed is in no batch either, so that the write    *)
(* back of a failed flush cannot bring it back; with a second tab, whose   *)
(* batch is older than the confirmation, it can.                           *)
ConfirmedGone ==
    /\ acked \subseteq accepted
    /\ acked \cap queue = {}
    /\ \A t \in Tab : acked \cap flight[t].batch = {}

OneTab == \A s, t \in Tab : s = t

LEMMA FlushKeepsConfirmed ==
    ASSUME TypeOK, ConfirmedGone, NEW t \in Tab, NEW force \in BOOLEAN,
           FlushQueue(t, force), UNCHANGED <<queue, accepted, acked>>
    PROVE  ConfirmedGone'
<1>1. \A x \in Tab : \/ flight'[x] = flight[x]
                     \/ flight'[x] = [phase |-> "sent", batch |-> queue]
  BY DEF FlushQueue, TypeOK
<1> QED
  BY <1>1 DEF ConfirmedGone

LEMMA ConfirmedStep ==
    ASSUME OneTab, TypeOK, EventInv, ConfirmedGone, [Next]_vars
    PROVE  ConfirmedGone'
<1> USE DEF store, timers, network, history
<1>1. ASSUME UNCHANGED <<queue, accepted, acked>>, UNCHANGED flight
      PROVE  ConfirmedGone'
  BY <1>1 DEF ConfirmedGone
<1>2. ASSUME NEW t \in Tab, TabStep(t) PROVE ConfirmedGone'
  <2>0. \A x \in Tab : x = t
    BY DEF OneTab
  <2>1. CASE ServerRecords(t) \/ ServerRefuses(t)
    <3>1. flight'[t].batch = flight[t].batch /\ UNCHANGED <<queue, accepted, acked>>
      BY <2>1 DEF ServerRecords, ServerRefuses, TypeOK, Flight
    <3> QED
      BY <2>0, <3>1 DEF ConfirmedGone
  <2>2. CASE FlushSucceeds(t)
    <3>1. flight'[t] = Idle
      BY <2>2 DEF FlushSucceeds, TypeOK
    <3>2. \/ UNCHANGED <<queue, acked>>
          \/ queue' = {} /\ acked' = acked \cup flight[t].batch
      BY <2>2 DEF FlushSucceeds
    <3>3. flight[t].batch \subseteq accepted /\ accepted' = accepted
      BY <2>2 DEF FlushSucceeds, EventInv, OnlyAccepted
    <3> QED
      BY <2>0, <3>1, <3>2, <3>3 DEF ConfirmedGone, Idle
  <2>3. CASE FlushFails(t)
    <3>1. flight'[t] = Idle /\ UNCHANGED <<accepted, acked>>
      BY <2>3 DEF FlushFails, TypeOK
    <3>2. queue' = queue \/ queue' = flight[t].batch
      BY <2>3 DEF FlushFails
    <3> QED
      BY <2>0, <3>1, <3>2 DEF ConfirmedGone, Idle
  <2>4. CASE KickFires(t)     BY <2>4, FlushKeepsConfirmed DEF KickFires
  <2>5. CASE BackoffFires(t)  BY <2>5, FlushKeepsConfirmed DEF BackoffFires
  <2>6. CASE AutoSyncTick(t)  BY <2>6, FlushKeepsConfirmed DEF AutoSyncTick
  <2>7. CASE OnlineEvent(t)   BY <2>7, FlushKeepsConfirmed DEF OnlineEvent
  <2>8. CASE SyncNow(t)       BY <2>8, FlushKeepsConfirmed DEF SyncNow
  <2>9. CASE RetryNow(t)      BY <2>9, FlushKeepsConfirmed DEF RetryNow
  <2>10. CASE ClearQueue(t)   BY <2>10 DEF ClearQueue, ConfirmedGone
  <2>11. CASE OpenTab(t)      BY <1>1, <2>11 DEF OpenTab
  <2>12. CASE CloseTab(t)
    <3>1. flight'[t] = Idle /\ UNCHANGED <<queue, accepted, acked>>
      BY <2>12 DEF CloseTab, TypeOK
    <3> QED
      BY <2>0, <3>1 DEF ConfirmedGone, Idle
  <2>13. ASSUME NEW e \in Event, EnqueueEvent(t, e) PROVE ConfirmedGone'
    <3>1. /\ e \notin accepted /\ queue' = queue \cup {e} /\ accepted' = accepted \cup {e}
          /\ UNCHANGED <<flight, acked>>
      BY <2>13 DEF EnqueueEvent
    <3> QED
      BY <3>1 DEF ConfirmedGone
  <2>14. ASSUME NEW enabled \in BOOLEAN, SetAutoSync(t, enabled) PROVE ConfirmedGone'
    BY <1>1, <2>14 DEF SetAutoSync
  <2> QED
    BY <1>2, <2>1, <2>2, <2>3, <2>4, <2>5, <2>6, <2>7, <2>8, <2>9, <2>10,
       <2>11, <2>12, <2>13, <2>14 DEF TabStep
<1>3. ASSUME NEW b \in wire, LateArrival(b) PROVE ConfirmedGone'
  BY <1>1, <1>3 DEF LateArrival
<1>4. CASE GoOffline      BY <1>1, <1>4 DEF GoOffline
<1>5. CASE GoOnline       BY <1>1, <1>5 DEF GoOnline
<1>6. CASE ServerChanges  BY <1>1, <1>6 DEF ServerChanges
<1>7. CASE UNCHANGED vars BY <1>1, <1>7 DEF vars
<1> QED
  BY <1>2, <1>3, <1>4, <1>5, <1>6, <1>7 DEF Next

(* With one tab, an event whose flush was confirmed never comes back to    *)
(* the queue and so is never sent again (flushQueue's write back of the    *)
(* batch it read before its await).                                        *)
THEOREM ConfirmedStaysGone ==
    ASSUME OneTab
    PROVE  Spec => []ConfirmedNotRequeued
<1>1. Init => TypeOK /\ EventInv /\ ConfirmedGone
  <2>1. Init => TypeOK
    BY DEF Init, TypeOK, Flight, Phase, Idle
  <2>2. Init => EventInv
    BY DEF Init, Idle, EventInv, OnlyAccepted, IdleIsEmpty, AnsweredIsReceived,
           CoversOwed, IsFlushing, RetainedUntilReceived
  <2>3. Init => ConfirmedGone
    BY DEF Init, ConfirmedGone
  <2> QED
    BY <2>1, <2>2, <2>3
<1>2. TypeOK /\ EventInv /\ ConfirmedGone /\ [Next]_vars
      => (TypeOK /\ EventInv /\ ConfirmedGone)'
  BY TypeStep, EventStep, ConfirmedStep
<1>3. ConfirmedGone => ConfirmedNotRequeued
  BY DEF ConfirmedGone, ConfirmedNotRequeued
<1> QED
  BY <1>1, <1>2, <1>3, PTL DEF Spec
=============================================================================
