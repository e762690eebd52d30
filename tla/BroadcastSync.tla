---------------------------- MODULE BroadcastSync ----------------------------
(***************************************************************************)
(* The synchronisation of the open tabs over a BroadcastChannel            *)
(* (src/src/services/broadcastSyncService.ts) with its client, the App     *)
(* component (src/src/App.tsx): system events and the three lock flags     *)
(* (frozen, forensic audit, monochrome), which App also keeps in           *)
(* localStorage and reads when a tab mounts.                               *)
(*                                                                         *)
(* Audit snapshots take the path of system events and are not shown apart. *)
(* Pings, pongs and heartbeats only feed the presence display: the lock    *)
(* state that a pong carries is read by nobody.                            *)
(*                                                                         *)
(* The channel delivers the messages of one tab to another in order, and   *)
(* only to tabs whose channel is open when they are posted.                *)
(***************************************************************************)
EXTENDS Naturals, Sequences, FiniteSets, SequencesExt

CONSTANTS
    Tab,        \* browser tabs
    Event,      \* system events
    Flag,       \* lock flags
    MaxToggles, \* bound: how often a flag is toggled
    MaxOpens    \* bound: how often a tab is opened

ASSUME NamesAssumption == "nobody" \notin Tab /\ "none" \notin Flag
ASSUME BoundsAssumption == MaxToggles \in Nat /\ MaxOpens \in Nat

VARIABLES
    phase,           \* phase[t]: how far the start-up of tab t has come
    stored,          \* localStorage: the flags
    flags,           \* flags[t]: the flags in App's state
    lastLockState,   \* lastLockState[t]: the last lock payload, if any
    systemEvents,    \* systemEvents[t]: the event list of App, oldest first
    pendingEvents,   \* pendingEvents[t]: events kept for a later handler
    pendingMessages, \* pendingMessages[t]: messages kept for the channel
    wire,            \* wire[s][t]: messages of tab s on their way to tab t
    emitter,         \* history: who emitted an event
    shown,           \* history: shown[t]: events that reached the list of t
    due,             \* history: due[t]: events posted while t had its channel
    toggledBy,       \* history: toggledBy[f]: tabs that toggled flag f
    missed,          \* history: missed[f]: tabs starting up when f was toggled
    toggles, opens   \* history: how often a flag was toggled, a tab opened

service == <<lastLockState, pendingEvents, pendingMessages>>
app     == <<stored, flags, systemEvents>>
history == <<emitter, shown, due, toggledBy, missed, toggles, opens>>
vars    == <<phase, service, app, wire, history>>

NoLock == [flag |-> "none", value |-> FALSE]
Lock   == [flag : Flag, value : BOOLEAN]

EventMsg(e) == [type |-> "event", event |-> e]
LockMsg(l)  == [type |-> "lock", lock |-> l]
Message     == [type : {"event"}, event : Event] \cup [type : {"lock"}, lock : Lock]

Connected(t)  == phase[t] \in {"initialized", "subscribed"}
Subscribed(t) == phase[t] = "subscribed"

TypeOK ==
    /\ phase \in [Tab -> {"closed", "mounted", "initialized", "subscribed"}]
    /\ stored \in [Flag -> BOOLEAN]
    /\ flags \in [Tab -> [Flag -> BOOLEAN]]
    /\ lastLockState \in [Tab -> Lock \cup {NoLock}]
    /\ systemEvents \in [Tab -> Seq(Event)]
    /\ pendingEvents \in [Tab -> Seq(Event)]
    /\ pendingMessages \in [Tab -> Seq(Message)]
    /\ wire \in [Tab -> [Tab -> Seq(Message)]]
    /\ emitter \in [Event -> Tab \cup {"nobody"}]
    /\ shown \in [Tab -> SUBSET Event]
    /\ due \in [Tab -> SUBSET Event]
    /\ toggledBy \in [Flag -> SUBSET Tab]
    /\ missed \in [Flag -> SUBSET Tab]
    /\ toggles \in 0..MaxToggles
    /\ opens \in 0..MaxOpens

Init ==
    /\ phase = [t \in Tab |-> "closed"]
    /\ stored = [f \in Flag |-> FALSE]
    /\ flags = [t \in Tab |-> [f \in Flag |-> FALSE]]
    /\ lastLockState = [t \in Tab |-> NoLock]
    /\ systemEvents = [t \in Tab |-> <<>>]
    /\ pendingEvents = [t \in Tab |-> <<>>]
    /\ pendingMessages = [t \in Tab |-> <<>>]
    /\ wire = [s \in Tab |-> [t \in Tab |-> <<>>]]
    /\ emitter = [e \in Event |-> "nobody"]
    /\ shown = [t \in Tab |-> {}]
    /\ due = [t \in Tab |-> {}]
    /\ toggledBy = [f \in Flag |-> {}]
    /\ missed = [f \in Flag |-> {}]
    /\ toggles = 0
    /\ opens = 0

-----------------------------------------------------------------------------
(* Delivery of a sequence of messages of tab s to every other open channel *)
(* and the events each of them is then due.                                *)
Listeners(s) == {t \in Tab \ {s} : Connected(t)}

EventsIn(msgs) == {msgs[i].event : i \in {j \in DOMAIN msgs : msgs[j].type = "event"}}

Posted(s, msgs) ==
    /\ wire' = [wire EXCEPT ![s] =
                   [t \in Tab |-> IF t \in Listeners(s) THEN @[t] \o msgs ELSE @[t]]]
    /\ due' = [t \in Tab |-> IF t \in Listeners(s) THEN due[t] \cup EventsIn(msgs) ELSE due[t]]

(* postMessage: without a channel the message waits for init. *)
PostMessage(s, m) ==
    IF Connected(s)
    THEN Posted(s, <<m>>) /\ UNCHANGED pendingMessages
    ELSE /\ pendingMessages' = [pendingMessages EXCEPT ![s] = Append(@, m)]
         /\ UNCHANGED <<wire, due>>

(* Mutant: the reducer keeps no watch for known events. *)
SyncRemoteEventsUnchecked(list, es) == list \o es

(* The reducer on SYNC_REMOTE_EVENT for the events es in turn: an event    *)
(* already listed is skipped.                                              *)
SyncRemoteEvents(list, es) ==
    LET after[i \in 0..Len(es)] ==
            IF i = 0 THEN list
            ELSE IF Contains(after[i - 1], es[i]) THEN after[i - 1]
            ELSE Append(after[i - 1], es[i])
    IN  after[Len(es)]

(* App's lock handler. *)
WithLock(fs, l) == IF l = NoLock THEN fs ELSE [fs EXCEPT ![l.flag] = l.value]

-----------------------------------------------------------------------------
(* Start-up: App mounts with the flags of localStorage; init opens the     *)
(* channel and posts what was kept; then App attaches its handlers, which  *)
(* get the kept events and the last lock payload.                          *)
OpenTab(t) ==
    /\ phase[t] = "closed"
    /\ opens < MaxOpens
    /\ opens' = opens + 1
    /\ phase' = [phase EXCEPT ![t] = "mounted"]
    /\ flags' = [flags EXCEPT ![t] = stored]
    /\ UNCHANGED <<stored, systemEvents, service, wire, emitter, shown, due,
                   toggledBy, missed, toggles>>

(* Mutant: what was kept for the channel is forgotten. *)
InitChannelForgets(t) ==
    /\ phase[t] = "mounted"
    /\ phase' = [phase EXCEPT ![t] = "initialized"]
    /\ pendingMessages' = [pendingMessages EXCEPT ![t] = <<>>]
    /\ due' = [u \in Tab |-> IF u \in Listeners(t)
                             THEN due[u] \cup EventsIn(pendingMessages[t]) ELSE due[u]]
    /\ UNCHANGED <<lastLockState, pendingEvents, app, wire, emitter, shown,
                   toggledBy, missed, toggles, opens>>

InitChannel(t) ==
    /\ phase[t] = "mounted"
    /\ phase' = [phase EXCEPT ![t] = "initialized"]
    /\ Posted(t, pendingMessages[t])
    /\ pendingMessages' = [pendingMessages EXCEPT ![t] = <<>>]
    /\ UNCHANGED <<lastLockState, pendingEvents, app, emitter, shown,
                   toggledBy, missed, toggles, opens>>

(* Mutant: the handlers get no replay. *)
SubscribeWithoutReplay(t) ==
    /\ phase[t] = "initialized"
    /\ phase' = [phase EXCEPT ![t] = "subscribed"]
    /\ pendingEvents' = [pendingEvents EXCEPT ![t] = <<>>]
    /\ UNCHANGED <<lastLockState, pendingMessages, app, wire, history>>

Subscribe(t) ==
    /\ phase[t] = "initialized"
    /\ phase' = [phase EXCEPT ![t] = "subscribed"]
    /\ systemEvents' = [systemEvents EXCEPT ![t] = SyncRemoteEvents(@, pendingEvents[t])]
    /\ shown' = [shown EXCEPT ![t] = @ \cup ToSet(pendingEvents[t])]
    /\ pendingEvents' = [pendingEvents EXCEPT ![t] = <<>>]
    /\ flags' = [flags EXCEPT ![t] = WithLock(@, lastLockState[t])]
    /\ UNCHANGED <<stored, lastLockState, pendingMessages, wire, emitter, due,
                   toggledBy, missed, toggles, opens>>

(* The tab is closed or reloaded; what it posted is still delivered. *)
CloseTab(t) ==
    /\ phase[t] # "closed"
    /\ phase' = [phase EXCEPT ![t] = "closed"]
    /\ lastLockState' = [lastLockState EXCEPT ![t] = NoLock]
    /\ systemEvents' = [systemEvents EXCEPT ![t] = <<>>]
    /\ pendingEvents' = [pendingEvents EXCEPT ![t] = <<>>]
    /\ pendingMessages' = [pendingMessages EXCEPT ![t] = <<>>]
    /\ wire' = [s \in Tab |-> [wire[s] EXCEPT ![t] = <<>>]]
    /\ shown' = [shown EXCEPT ![t] = {}]
    /\ due' = [due EXCEPT ![t] = {}]
    /\ missed' = [f \in Flag |-> missed[f] \ {t}]
    /\ UNCHANGED <<stored, flags, emitter, toggledBy, toggles, opens>>

-----------------------------------------------------------------------------
(* EMIT_SYSTEM_EVENT: list the event, keep it for a later handler of this  *)
(* tab, post it to the others.                                             *)
EmitSystemEvent(t, e) ==
    /\ phase[t] # "closed"
    /\ emitter[e] = "nobody"
    /\ emitter' = [emitter EXCEPT ![e] = t]
    /\ systemEvents' = [systemEvents EXCEPT ![t] = Append(@, e)]
    /\ shown' = [shown EXCEPT ![t] = @ \cup {e}]
    /\ pendingEvents' = IF Subscribed(t) THEN pendingEvents
                        ELSE [pendingEvents EXCEPT ![t] = Append(@, e)]
    /\ PostMessage(t, EventMsg(e))
    /\ UNCHANGED <<phase, stored, flags, lastLockState, toggledBy, missed, toggles, opens>>

ClearSystemEvents(t) ==
    /\ systemEvents[t] # <<>>
    /\ systemEvents' = [systemEvents EXCEPT ![t] = <<>>]
    /\ UNCHANGED <<phase, stored, flags, service, wire, history>>

(* Mutant: the flag is posted as it was before the toggle. *)
ToggleStale(t, f) ==
    /\ Connected(t)
    /\ toggles < MaxToggles
    /\ LET next == ~flags[t][f]
           l == [flag |-> f, value |-> flags[t][f]]
       IN  /\ flags' = [flags EXCEPT ![t][f] = next]
           /\ stored' = [stored EXCEPT ![f] = next]
           /\ lastLockState' = [lastLockState EXCEPT ![t] = l]
           /\ PostMessage(t, LockMsg(l))
    /\ toggles' = toggles + 1
    /\ toggledBy' = [toggledBy EXCEPT ![f] = @ \cup {t}]
    /\ missed' = [missed EXCEPT ![f] = 
                     @ \cup {u \in Tab \ {t} : phase[u] \in {"mounted", "initialized"}}]
    /\ UNCHANGED <<phase, systemEvents, pendingEvents, emitter, shown, opens>>

(* The toggles of App: state, localStorage and broadcast in one update.    *)
(* React runs the start-up effects before it handles a click.              *)
Toggle(t, f) ==
    /\ Connected(t)
    /\ toggles < MaxToggles
    /\ LET next == ~flags[t][f]
           l == [flag |-> f, value |-> next]
       IN  /\ flags' = [flags EXCEPT ![t][f] = next]
           /\ stored' = [stored EXCEPT ![f] = next]
           /\ lastLockState' = [lastLockState EXCEPT ![t] = l]
           /\ PostMessage(t, LockMsg(l))
    /\ toggles' = toggles + 1
    /\ toggledBy' = [toggledBy EXCEPT ![f] = @ \cup {t}]
    /\ missed' = [missed EXCEPT ![f] =
                     @ \cup {u \in Tab \ {t} : phase[u] \in {"mounted", "initialized"}}]
    /\ UNCHANGED <<phase, systemEvents, pendingEvents, emitter, shown, opens>>

(* handleMessage for an event and for a lock payload. *)
HandleEvent(t, e) ==
    /\ IF Subscribed(t)
       THEN /\ systemEvents' = [systemEvents EXCEPT ![t] = SyncRemoteEvents(@, <<e>>)]
            /\ shown' = [shown EXCEPT ![t] = @ \cup {e}]
            /\ UNCHANGED pendingEvents
       ELSE /\ pendingEvents' = [pendingEvents EXCEPT ![t] = Append(@, e)]
            /\ UNCHANGED <<systemEvents, shown>>
    /\ UNCHANGED <<flags, lastLockState>>

HandleLock(t, l) ==
    /\ lastLockState' = [lastLockState EXCEPT ![t] = l]
    /\ flags' = IF Subscribed(t) THEN [flags EXCEPT ![t] = WithLock(@, l)] ELSE flags
    /\ UNCHANGED <<systemEvents, shown, pendingEvents>>

HandleMessage(s, t) ==
    /\ wire[s][t] # <<>>
    /\ wire' = [wire EXCEPT ![s][t] = Tail(@)]
    /\ LET m == Head(wire[s][t])
       IN  \/ m.type = "event" /\ HandleEvent(t, m.event)
           \/ m.type = "lock" /\ HandleLock(t, m.lock)
    /\ UNCHANGED <<phase, stored, pendingMessages, emitter, due, toggledBy,
                   missed, toggles, opens>>

-----------------------------------------------------------------------------
Next ==
    \/ \E t \in Tab :
          \/ OpenTab(t) \/ InitChannel(t) \/ Subscribe(t) \/ CloseTab(t)
          \/ ClearSystemEvents(t)
          \/ \E e \in Event : EmitSystemEvent(t, e)
          \/ \E f \in Flag : Toggle(t, f)
    \/ \E s, t \in Tab : HandleMessage(s, t)

Spec == Init /\ [][Next]_vars

(* Start-up runs on, and what was posted is delivered. *)
Fairness ==
    /\ \A t \in Tab : WF_vars(InitChannel(t)) /\ WF_vars(Subscribe(t))
    /\ \A s, t \in Tab : WF_vars(HandleMessage(s, t))

FairSpec == Spec /\ Fairness

-----------------------------------------------------------------------------
(* Properties. *)

InTransit(t) == UNION {EventsIn(wire[s][t]) : s \in Tab}

(* No event is lost on its way to a tab whose channel was open when it was *)
(* posted: it is in transit, kept for the handlers, or has been listed     *)
(* (postMessage, handleMessage, onSystemEvent).                            *)
EventsConserved ==
    \A t \in Tab : due[t] \subseteq InTransit(t) \cup ToSet(pendingEvents[t]) \cup shown[t]

(* An event is listed once, although a tab that emits before its handlers  *)
(* are attached replays its own events to itself.                          *)
NoDuplicateEvents == \A t \in Tab : IsInjective(systemEvents[t])

BroadcastInv == TypeOK /\ EventsConserved

(* Some lock payload of flag f is on its way to tab t. *)
LocksInTransit(f, t) ==
    \E s \in Tab : \E i \in DOMAIN wire[s][t] :
        wire[s][t][i].type = "lock" /\ wire[s][t][i].lock.flag = f

(* A flag that one tab toggles is the same in every tab that was not       *)
(* starting up meanwhile, as soon as nothing about it is in transit: the   *)
(* tab has it from localStorage or from the channel.                       *)
LocksAgree ==
    \A t \in Tab, f \in Flag :
        /\ Subscribed(t)
        /\ Cardinality(toggledBy[f]) <= 1
        /\ t \notin missed[f]
        /\ ~LocksInTransit(f, t)
        => flags[t][f] = stored[f]

(* A tab that stays open lists every event it is due.                      *)
EventuallyShown ==
    \A t \in Tab, e \in Event :
        e \in due[t] ~> e \in shown[t] \/ phase[t] = "closed"

(* The header of the service (broadcastSyncService.ts, lines 2-4): it      *)
(* synchronises "global lock states across all open tabs, preventing state *)
(* fragmentation".  With every tab subscribed and nothing in transit, all  *)
(* tabs have the same flags.                                               *)
NoFragmentation ==
    (/\ \A t \in Tab : Subscribed(t)
     /\ \A s, t \in Tab : wire[s][t] = <<>>)
    => \A s, t \in Tab : flags[s] = flags[t]
=============================================================================
