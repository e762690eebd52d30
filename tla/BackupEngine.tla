----------------------------- MODULE BackupEngine -----------------------------
(***************************************************************************)
(* The hourly snapshot of automatedBackupService.ts (src/src/services/) in *)
(* each tab of one browser, and the two switches over it: the pause button *)
(* of SystemEventsSidebar.tsx, and the freeze of App.tsx, which stops and  *)
(* starts the engine of its own tab and sends a flag to the others.  The   *)
(* channel between the tabs is BroadcastSync's; here it only keeps order.  *)
(***************************************************************************)
EXTENDS Integers, Sequences

CONSTANTS
    Tabs,
    LongCycle, ShortCycle, \* the two cadences, in ticks (3600 and 60)
    MaxBackups,            \* bound: snapshots of one page load
    MaxLocks               \* bound: lock messages under way to a tab

ASSUME CycleAssumption ==
    /\ ShortCycle \in Nat \ {0}
    /\ LongCycle \in Nat
    /\ ShortCycle <= LongCycle
    /\ MaxBackups \in Nat
    /\ MaxLocks \in Nat

VARIABLES
    engine,  \* per tab: isRunning, the countdown and its cycle, snapshots taken
    frozen,  \* per tab: isSystemActivityFrozen
    paused,  \* per tab: the pause button was pressed and not undone (for the properties)
    stored,  \* localStorage 'zyrquen_system_frozen', shared
    locks    \* per tab: lock messages on their way to it

backupVars == <<engine, frozen, paused, stored, locks>>

BackupTypeOK ==
    /\ engine \in [Tabs -> [isRunning : BOOLEAN, timeRemaining : 1..LongCycle,
                            cycleDuration : {LongCycle, ShortCycle},
                            totalBackups : 0..MaxBackups]]
    /\ frozen \in [Tabs -> BOOLEAN]
    /\ paused \in [Tabs -> BOOLEAN]
    /\ stored \in BOOLEAN
    /\ locks \in [Tabs -> Seq(BOOLEAN)]

Loaded == [isRunning |-> TRUE, timeRemaining |-> LongCycle, cycleDuration |-> LongCycle,
           totalBackups |-> 0]

BackupInit ==
    /\ engine = [t \in Tabs |-> Loaded]
    /\ frozen = [t \in Tabs |-> FALSE]
    /\ paused = [t \in Tabs |-> FALSE]
    /\ stored = FALSE
    /\ locks = [t \in Tabs |-> <<>>]

-----------------------------------------------------------------------------
(* executeSnapshot *)
WithSnapshot(e) ==
    [e EXCEPT !.totalBackups = @ + 1, !.timeRemaining = e.cycleDuration]

CountedDown(e) ==
    IF e.timeRemaining <= 1 THEN WithSnapshot(e)
    ELSE [e EXCEPT !.timeRemaining = @ - 1]

(* One turn of the engine's interval, which never stops. *)
Tick(t) ==
    /\ engine[t].isRunning
    /\ engine[t].totalBackups < MaxBackups
    /\ engine' = [engine EXCEPT ![t] = CountedDown(@)]
    /\ UNCHANGED <<frozen, paused, stored, locks>>

(* triggerManualSnapshot runs whether or not the engine does. *)
ManualSnapshot(t) ==
    /\ engine[t].totalBackups < MaxBackups
    /\ engine' = [engine EXCEPT ![t] = WithSnapshot(@)]
    /\ UNCHANGED <<frozen, paused, stored, locks>>

(* Mutant: a change of cadence starts the countdown anew. *)
Restarted(remaining, cycle) == cycle

(* setCycleDuration, from the cadence switch. *)
Shortened(remaining, cycle) == IF remaining > cycle THEN cycle ELSE remaining

WithCycle(e, cycle) ==
    [e EXCEPT !.cycleDuration = cycle, !.timeRemaining = Shortened(@, cycle)]

ToggleCadence(t) ==
    /\ engine' = [engine EXCEPT ![t] =
           WithCycle(@, IF @.cycleDuration = LongCycle THEN ShortCycle ELSE LongCycle)]
    /\ UNCHANGED <<frozen, paused, stored, locks>>

togglePause(t) ==
    /\ engine' = [engine EXCEPT ![t].isRunning = ~@]
    /\ paused' = [paused EXCEPT ![t] = engine[t].isRunning]
    /\ UNCHANGED <<frozen, stored, locks>>

(* handleToggleFreezeSystemActivity: stop or start here, a flag elsewhere. *)
ToggleFreeze(t) ==
    LET next == ~frozen[t]
    IN  /\ \A u \in Tabs : Len(locks[u]) < MaxLocks
        /\ frozen' = [frozen EXCEPT ![t] = next]
        /\ stored' = next
        /\ locks' = [u \in Tabs |-> IF u = t THEN locks[u] ELSE Append(locks[u], next)]
        /\ engine' = [engine EXCEPT ![t].isRunning = ~next]
        /\ paused' = [paused EXCEPT ![t] = FALSE]

(* onLockState: the flag only. *)
ReceiveLock(t) ==
    /\ locks[t] # <<>>
    /\ frozen' = [frozen EXCEPT ![t] = Head(locks[t])]
    /\ locks' = [locks EXCEPT ![t] = Tail(@)]
    /\ UNCHANGED <<engine, paused, stored>>

(* A page load: the engine starts running, the flag comes from storage,    *)
(* messages to the page that is gone are gone.                             *)
ReloadTab(t) ==
    /\ engine' = [engine EXCEPT ![t] = Loaded]
    /\ frozen' = [frozen EXCEPT ![t] = stored]
    /\ paused' = [paused EXCEPT ![t] = FALSE]
    /\ locks' = [locks EXCEPT ![t] = <<>>]
    /\ UNCHANGED stored

BackupNext ==
    \E t \in Tabs :
        \/ Tick(t)
        \/ ManualSnapshot(t)
        \/ ToggleCadence(t)
        \/ togglePause(t)
        \/ ToggleFreeze(t)
        \/ ReceiveLock(t)
        \/ ReloadTab(t)

BackupSpec == BackupInit /\ [][BackupNext]_backupVars

-----------------------------------------------------------------------------
(* While the engine of a tab runs, the next snapshot is taken, however     *)
(* often the cadence is switched and the countdown shortened meanwhile:    *)
(* unless the engine is stopped or the page reloaded first (the interval   *)
(* and setCycleDuration of automatedBackupService.ts).                     *)
BackupsContinue ==
    \A t \in Tabs : \A n \in 0..(MaxBackups - 1) :
        engine[t].isRunning /\ engine[t].totalBackups = n
            ~> ~engine[t].isRunning \/ engine[t].totalBackups # n \/ engine[t] = Loaded

(* A tab whose activity is not frozen, and whose pause button nobody       *)
(* pressed, takes backups: 'background backup engine ... resumed'          *)
(* (handleToggleFreezeSystemActivity of App.tsx).                          *)
ResumedBacksUp ==
    \A t \in Tabs : ~frozen[t] /\ ~paused[t] => engine[t].isRunning
=============================================================================
