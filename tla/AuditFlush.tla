----------------------------- MODULE AuditFlush -----------------------------
(***************************************************************************)
(* The offline audit synchronisation of the browser application            *)
(* (src/src/services/offlineAuditSyncService.ts): every open tab runs its  *)
(* own copy of the service over one localStorage queue, and pushes the     *)
(* whole queue to POST /api/v1/audit/sync (src/server.ts).                 *)
(*                                                                         *)
(* No service worker takes part: nothing in the repository registers       *)
(* public/service-worker.js, so navigator.serviceWorker.ready never        *)
(* settles and registerBackgroundSync does nothing.                        *)
(*                                                                         *)
(* JavaScript runs one callback at a time, so each synchronous stretch of  *)
(* the service is one action; flushQueue is split at its only await, the   *)
(* fetch.  Reading and writing localStorage inside one stretch is atomic.  *)
(***************************************************************************)
EXTENDS Naturals, FiniteSets

CONSTANTS
    Tab,        \* browser tabs
    Event,      \* audit events
    MaxRetry,   \* MAX_RETRY_ATTEMPTS of the exponential backoff
    MaxOpens,   \* bound: how many times a tab is opened in a behaviour
    Disturbance \* bound: what the environment does besides opening tabs,
                \* a subset of {"offline", "slow", "prefs", "close"}

ASSUME MaxRetryAssumption == MaxRetry \in Nat \ {0}
ASSUME MaxOpensAssumption == MaxOpens \in Nat
ASSUME DisturbanceAssumption == Disturbance \subseteq {"offline", "slow", "prefs", "close"}

VARIABLES
    queue,      \* localStorage: the pending audit events
    autoSync,   \* localStorage: the Auto-Sync preference
    open,       \* tabs that run the service
    flight,     \* flight[t]: the flush tab t awaits (isFlushing and the fetch)
    attempt,    \* attempt[t]: currentRetryAttempt
    backoff,    \* backoff[t]: retryTimeoutTimer is armed
    kick,       \* kick[t]: pending one-shot flush timers (enqueue and start-up)
    ticker,     \* ticker[t]: the five minute autoSyncTimer runs
    onlineEvt,  \* onlineEvt[t]: a window "online" event is to be dispatched
    online,     \* navigator.onLine
    reachable,  \* the server answers with 2xx before SYNC_FETCH_TIMEOUT_MS
    wire,       \* batches of abandoned requests the server may still handle
    received,   \* events the server has handled
    accepted,   \* history: events passed to enqueueEvent
    exposed,    \* history: events enqueued while a flush was in flight
    cleared,    \* history: events in the queue when the user cleared it
    acked,      \* history: events of flushes that ended in success
    opens       \* history: how often a tab was opened, at most MaxOpens

store   == <<queue, autoSync>>
timers  == <<attempt, backoff, kick, ticker, onlineEvt>>
network == <<online, reachable, wire, received>>
history == <<accepted, exposed, cleared, acked, opens>>
vars    == <<store, open, flight, timers, network, history>>

-----------------------------------------------------------------------------
(* A request carries the whole queue.  A forced flush of an empty queue is *)
(* a ping of the server: a flight with an empty batch.                     *)
Phase  == {"idle", "sent", "ok", "bad"}
Flight == [phase : Phase, batch : SUBSET Event]
Idle   == [phase |-> "idle", batch |-> {}]

IsFlushing(t) == flight[t].phase # "idle"

(* Some tab awaits the outcome of a flush of a non-empty queue. *)
FlushInFlight == \E t \in Tab : IsFlushing(t) /\ flight[t].batch # {}

TypeOK ==
    /\ queue \subseteq Event
    /\ autoSync \in BOOLEAN
    /\ open \subseteq Tab
    /\ flight \in [Tab -> Flight]
    /\ attempt \in [Tab -> 0..MaxRetry]
    /\ backoff \in [Tab -> BOOLEAN]
    /\ kick \in [Tab -> Nat]
    /\ ticker \in [Tab -> BOOLEAN]
    /\ onlineEvt \in [Tab -> BOOLEAN]
    /\ online \in BOOLEAN
    /\ reachable \in BOOLEAN
    /\ wire \subseteq SUBSET Event
    /\ received \subseteq Event
    /\ accepted \subseteq Event
    /\ exposed \subseteq Event
    /\ cleared \subseteq Event
    /\ acked \subseteq Event
    /\ opens \in 0..MaxOpens

Init ==
    /\ queue = {}
    /\ autoSync = TRUE
    /\ open = {}
    /\ flight = [t \in Tab |-> Idle]
    /\ attempt = [t \in Tab |-> 0]
    /\ backoff = [t \in Tab |-> FALSE]
    /\ kick = [t \in Tab |-> 0]
    /\ ticker = [t \in Tab |-> FALSE]
    /\ onlineEvt = [t \in Tab |-> FALSE]
    /\ online = TRUE
    /\ reachable = TRUE
    /\ wire = {}
    /\ received = {}
    /\ accepted = {}
    /\ exposed = {}
    /\ cleared = {}
    /\ acked = {}
    /\ opens = 0

-----------------------------------------------------------------------------
(* flushQueue(force), up to its await: it returns at once while a flush is *)
(* running, when offline, and on an empty queue unless forced.             *)
FlushQueue(t, force) ==
    LET starts == ~IsFlushing(t) /\ online /\ (queue # {} \/ force)
    IN  flight' = IF starts
                  THEN [flight EXCEPT ![t] = [phase |-> "sent", batch |-> queue]]
                  ELSE flight

(* The server handles the request of tab t and answers 200. *)
ServerRecords(t) ==
    /\ flight[t].phase = "sent"
    /\ online /\ reachable
    /\ received' = received \cup flight[t].batch
    /\ flight' = [flight EXCEPT ![t].phase = "ok"]
    /\ UNCHANGED <<store, open, timers, online, reachable, wire, history>>

(* An error status (payload limit, proxy, error handler): nothing is kept. *)
ServerRefuses(t) ==
    /\ flight[t].phase = "sent"
    /\ online /\ ~reachable
    /\ flight' = [flight EXCEPT ![t].phase = "bad"]
    /\ UNCHANGED <<store, open, timers, network, history>>

(* A request whose client gave up reaches the server after all. *)
LateArrival(b) ==
    /\ b \in wire
    /\ received' = received \cup b
    /\ wire' = wire \ {b}
    /\ UNCHANGED <<store, open, flight, timers, online, reachable, history>>

(* Mutant: the status of the response is not looked at. *)
FlushSucceedsUnchecked(t) ==
    /\ flight[t].phase \in {"ok", "bad"}
    /\ flight' = [flight EXCEPT ![t] = Idle]
    /\ queue' = {}
    /\ UNCHANGED <<autoSync, open, timers, network, history>>

(* Mutant: the queue is left in localStorage after the confirmation. *)
FlushSucceedsKeepsQueue(t) ==
    /\ flight[t].phase = "ok"
    /\ flight' = [flight EXCEPT ![t] = Idle]
    /\ acked' = acked \cup flight[t].batch
    /\ UNCHANGED <<store, open, timers, network, accepted, exposed, cleared, opens>>

(* The flush of tab t was answered with 2xx.  A ping changes nothing else; *)
(* a real flush empties the queue, whatever it holds by now, and resets    *)
(* the backoff.                                                            *)
FlushSucceeds(t) ==
    /\ flight[t].phase = "ok"
    /\ flight' = [flight EXCEPT ![t] = Idle]
    /\ IF flight[t].batch = {}
       THEN UNCHANGED <<queue, attempt, backoff, acked>>
       ELSE /\ queue' = {}
            /\ attempt' = [attempt EXCEPT ![t] = 0]
            /\ backoff' = [backoff EXCEPT ![t] = FALSE]
            /\ acked' = acked \cup flight[t].batch
    /\ UNCHANGED <<autoSync, open, kick, ticker, onlineEvt, network,
                   accepted, exposed, cleared, opens>>

(* scheduleExponentialBackoffRetry: re-arm the timer until the attempts    *)
(* are used up.                                                            *)
ScheduleRetry(t) ==
    IF attempt[t] >= MaxRetry
    THEN /\ backoff' = [backoff EXCEPT ![t] = FALSE]
         /\ UNCHANGED attempt
    ELSE /\ backoff' = [backoff EXCEPT ![t] = TRUE]
         /\ attempt' = [attempt EXCEPT ![t] = @ + 1]

(* The batches on the wire once tab t gives up its request. *)
Abandoned(t) ==
    IF flight[t].phase = "sent" /\ flight[t].batch # {}
    THEN wire \cup {flight[t].batch}
    ELSE wire

(* Mutant: the error path clears the queue too. *)
FlushFailsDropsBatch(t) ==
    /\ flight[t].phase \in {"sent", "ok", "bad"} /\ ~(online /\ reachable)
    /\ flight' = [flight EXCEPT ![t] = Idle]
    /\ wire' = Abandoned(t)
    /\ queue' = {}
    /\ UNCHANGED <<autoSync, open, timers, online, reachable, received, history>>

(* Mutant: an error status is raised outside the try block, so isFlushing  *)
(* is never reset.                                                         *)
FlushFailsOnlyOnNetwork(t) ==
    /\ flight[t].phase \in {"sent", "ok"} /\ ~(online /\ reachable)
    /\ flight' = [flight EXCEPT ![t] = Idle]
    /\ wire' = Abandoned(t)
    /\ IF flight[t].batch = {}
       THEN UNCHANGED <<queue, attempt, backoff>>
       ELSE /\ queue' = flight[t].batch
            /\ ScheduleRetry(t)
    /\ UNCHANGED <<autoSync, open, kick, ticker, onlineEvt, online, reachable,
                   received, history>>

(* The fetch threw: an error status, a network failure or the abort after  *)
(* SYNC_FETCH_TIMEOUT_MS.  The queue is overwritten with the batch that    *)
(* was read before the await.                                              *)
FlushFails(t) ==
    /\ \/ flight[t].phase = "bad"
       \/ flight[t].phase \in {"sent", "ok"} /\ ~(online /\ reachable)
    /\ flight' = [flight EXCEPT ![t] = Idle]
    /\ wire' = Abandoned(t)
    /\ IF flight[t].batch = {}
       THEN UNCHANGED <<queue, attempt, backoff>>
       ELSE /\ queue' = flight[t].batch
            /\ ScheduleRetry(t)
    /\ UNCHANGED <<autoSync, open, kick, ticker, onlineEvt, online, reachable,
                   received, history>>

-----------------------------------------------------------------------------
(* The callers of flushQueue. *)

(* The one-shot timer of enqueueEvent (1.5 s) or of the constructor. *)
KickFires(t) ==
    /\ kick[t] > 0
    /\ kick' = [kick EXCEPT ![t] = @ - 1]
    /\ FlushQueue(t, FALSE)
    /\ UNCHANGED <<store, open, attempt, backoff, ticker, onlineEvt, network, history>>

(* The backoff timer: it is not re-armed when it fires while offline. *)
BackoffFires(t) ==
    /\ backoff[t]
    /\ backoff' = [backoff EXCEPT ![t] = FALSE]
    /\ FlushQueue(t, FALSE)
    /\ UNCHANGED <<store, open, attempt, kick, ticker, onlineEvt, network, history>>

AutoSyncTick(t) ==
    /\ ticker[t]
    /\ FlushQueue(t, FALSE)
    /\ UNCHANGED <<store, open, timers, network, history>>

OnlineEvent(t) ==
    /\ onlineEvt[t]
    /\ onlineEvt' = [onlineEvt EXCEPT ![t] = FALSE]
    /\ FlushQueue(t, FALSE)
    /\ UNCHANGED <<store, open, attempt, backoff, kick, ticker, network, history>>

(* The "sync now" buttons: flushQueue(true). *)
SyncNow(t) ==
    /\ t \in open
    /\ FlushQueue(t, TRUE)
    /\ UNCHANGED <<store, open, timers, network, history>>

(* retryNow: reset the backoff, then a forced flush. *)
RetryNow(t) ==
    /\ t \in open
    /\ attempt' = [attempt EXCEPT ![t] = 0]
    /\ backoff' = [backoff EXCEPT ![t] = FALSE]
    /\ FlushQueue(t, TRUE)
    /\ UNCHANGED <<store, open, kick, ticker, onlineEvt, network, history>>

-----------------------------------------------------------------------------
(* Mutant: the new event replaces the stored queue. *)
EnqueueEventOverwrites(t, e) ==
    /\ t \in open
    /\ e \notin accepted
    /\ queue' = {e}
    /\ accepted' = accepted \cup {e}
    /\ UNCHANGED <<autoSync, open, flight, timers, network, exposed, cleared, acked, opens>>

(* enqueueEvent: store the event, and arm a one-shot flush when online,    *)
(* auto-sync is on and this tab is not flushing.                           *)
EnqueueEvent(t, e) ==
    /\ t \in open
    /\ e \notin accepted
    /\ queue' = queue \cup {e}
    /\ kick' = IF online /\ autoSync /\ ~IsFlushing(t)
               THEN [kick EXCEPT ![t] = @ + 1]
               ELSE kick
    /\ accepted' = accepted \cup {e}
    /\ exposed' = IF FlushInFlight THEN exposed \cup {e} ELSE exposed
    /\ UNCHANGED <<autoSync, open, flight, attempt, backoff, ticker, onlineEvt,
                   network, cleared, acked, opens>>

ClearQueue(t) ==
    /\ t \in open
    /\ queue' = {}
    /\ cleared' = cleared \cup queue
    /\ UNCHANGED <<autoSync, open, flight, timers, network, accepted, exposed, acked, opens>>

(* The preference is shared by the tabs, the interval timer is not. *)
SetAutoSync(t, enabled) ==
    /\ "prefs" \in Disturbance
    /\ t \in open
    /\ autoSync' = enabled
    /\ ticker' = [ticker EXCEPT ![t] = enabled]
    /\ UNCHANGED <<queue, open, flight, attempt, backoff, kick, onlineEvt, network, history>>

(* The constructor of the service in a new tab. *)
OpenTab(t) ==
    /\ t \notin open
    /\ opens < MaxOpens
    /\ opens' = opens + 1
    /\ open' = open \cup {t}
    /\ ticker' = [ticker EXCEPT ![t] = autoSync]
    /\ kick' = [kick EXCEPT ![t] = IF autoSync /\ online /\ queue # {} THEN 1 ELSE 0]
    /\ UNCHANGED <<store, flight, attempt, backoff, onlineEvt, network,
                   accepted, exposed, cleared, acked>>

(* A tab is closed, reloaded or crashes: its memory is gone, its request   *)
(* may still reach the server.                                             *)
CloseTab(t) ==
    /\ "close" \in Disturbance
    /\ t \in open
    /\ open' = open \ {t}
    /\ flight' = [flight EXCEPT ![t] = Idle]
    /\ wire' = Abandoned(t)
    /\ attempt' = [attempt EXCEPT ![t] = 0]
    /\ backoff' = [backoff EXCEPT ![t] = FALSE]
    /\ kick' = [kick EXCEPT ![t] = 0]
    /\ ticker' = [ticker EXCEPT ![t] = FALSE]
    /\ onlineEvt' = [onlineEvt EXCEPT ![t] = FALSE]
    /\ UNCHANGED <<store, online, reachable, received, history>>

GoOffline ==
    /\ "offline" \in Disturbance
    /\ online
    /\ online' = FALSE
    /\ UNCHANGED <<store, open, flight, timers, reachable, wire, received, history>>

GoOnline ==
    /\ ~online
    /\ online' = TRUE
    /\ onlineEvt' = [t \in Tab |-> t \in open]
    /\ UNCHANGED <<store, open, flight, attempt, backoff, kick, ticker,
                   reachable, wire, received, history>>

ServerChanges ==
    /\ "slow" \in Disturbance
    /\ reachable' = ~reachable
    /\ UNCHANGED <<store, open, flight, timers, online, wire, received, history>>

-----------------------------------------------------------------------------
TabStep(t) ==
    \/ ServerRecords(t) \/ ServerRefuses(t) \/ FlushSucceeds(t) \/ FlushFails(t)
    \/ KickFires(t) \/ BackoffFires(t) \/ AutoSyncTick(t) \/ OnlineEvent(t)
    \/ SyncNow(t) \/ RetryNow(t) \/ ClearQueue(t) \/ OpenTab(t) \/ CloseTab(t)
    \/ \E e \in Event : EnqueueEvent(t, e)
    \/ \E enabled \in BOOLEAN : SetAutoSync(t, enabled)

Next ==
    \/ \E t \in Tab : TabStep(t)
    \/ \E b \in wire : LateArrival(b)
    \/ GoOffline \/ GoOnline \/ ServerChanges

Spec == Init /\ [][Next]_vars

(* A request that can be answered is, an answered or failed fetch resumes  *)
(* its tab, and a running interval timer keeps firing.                     *)
Fairness ==
    \A t \in Tab :
        /\ WF_vars(ServerRecords(t))
        /\ WF_vars(FlushSucceeds(t))
        /\ WF_vars(FlushFails(t))
        /\ WF_vars(AutoSyncTick(t))

FairSpec == Spec /\ Fairness

-----------------------------------------------------------------------------
(* Properties. *)

(* An event that was enqueued while no flush was in flight in any tab      *)
(* stays in the queue until the server has handled it or the user cleared  *)
(* the queue: neither a failed, late or abandoned flush, nor a flush of    *)
(* another tab, nor a closed tab can lose it (flushQueue and saveQueue).   *)
RetainedUntilReceived ==
    ((accepted \ exposed) \ cleared) \ received \subseteq queue

(* What makes RetainedUntilReceived inductive: every flush in flight has   *)
(* read all the covered events, and an answer 200 means they were handled. *)
Owed == ((accepted \ exposed) \ cleared) \ received

CoversOwed ==
    \A t \in Tab : IsFlushing(t) /\ flight[t].batch # {} => Owed \subseteq flight[t].batch

AnsweredIsReceived ==
    \A t \in Tab : flight[t].phase = "ok" => flight[t].batch \subseteq received

OnlyAccepted ==
    /\ queue \subseteq accepted
    /\ received \subseteq accepted
    /\ \A t \in Tab : flight[t].batch \subseteq accepted
    /\ \A b \in wire : b \subseteq accepted

(* An idle tab has no batch. *)
IdleIsEmpty == \A t \in Tab : flight[t].phase = "idle" => flight[t].batch = {}

RetentionInv ==
    /\ TypeOK
    /\ OnlyAccepted
    /\ IdleIsEmpty
    /\ AnsweredIsReceived
    /\ CoversOwed
    /\ RetainedUntilReceived

(* With a single tab, an event whose flush was confirmed never comes back  *)
(* to the queue and so is never sent again.  (With several tabs it does:   *)
(* a failed flush of another tab writes its own batch back.)               *)
ConfirmedNotRequeued == acked \cap queue = {}

(* The claim of the service's header comment (offlineAuditSyncService.ts,  *)
(* lines 2-6: "ensuring zero data loss for forensic audit logs"): whatever *)
(* was enqueued and not cleared is at the server, in the queue, or in a    *)
(* batch that a flush will write back.                                     *)
ZeroDataLoss ==
    (accepted \ cleared) \ received
        \subseteq queue \cup UNION {flight[t].batch : t \in Tab}

(* Once connectivity is back for good and one tab keeps its auto-sync      *)
(* timer, every covered event reaches the server or is cleared, even when  *)
(* the retries of the backoff are used up.                                 *)
EventuallyReceived ==
    (\E t \in Tab : <>[](ticker[t] /\ online /\ reachable))
        => \A e \in Event : e \in Owed ~> e \in received \cup cleared

(* The promise the service implements. *)
Promise == INSTANCE AuditRetention
    WITH exempt <- exposed \cup cleared, recorded <- received, retained <- queue

ImplementsRetention == Promise!Spec
=============================================================================
