--------------------------- MODULE CopilotAutonomy ---------------------------
(***************************************************************************)
(* The autonomy layer of copilotAssistantService.ts (src/src/services/):   *)
(* its mirror of the height comparison, its suggestions, and the           *)
(* auto-pilot, which every 3.5 s starts a reconciliation when it finds a   *)
(* drift and puts the store back to its baseline.  It composes the height  *)
(* service (GithubSync) and the store (CustodianStore), which the panels   *)
(* and consoles go on using at the same time.                              *)
(***************************************************************************)
EXTENDS GithubSync, CustodianStore

ASSUME CallersAssumption == Callers = {"panel", "monitor", "sweep"}

VARIABLE copilot \* mirror of the drift, the two suggestions about it, auto-pilot

copilotVars == <<sync, awaiting, registry, store, scan, copilot>>

Suggestion == {"absent", "open", "applied"}

CopilotTypeOK ==
    /\ GithubTypeOK
    /\ StoreTypeOK
    /\ copilot \in [currentDriftCount : Nat, zeroDriftAttested : BOOLEAN,
                    driftDetected : Suggestion, zeroDriftLocked : Suggestion,
                    autoPilotActive : BOOLEAN]

CopilotInit ==
    /\ GithubInit
    /\ StoreInit
    /\ copilot = [currentDriftCount |-> 0, zeroDriftAttested |-> TRUE,
                  driftDetected |-> "absent", zeroDriftLocked |-> "open",
                  autoPilotActive |-> TRUE]

-----------------------------------------------------------------------------
(* The subscription: every notification of the height service updates the  *)
(* mirror, opens the warning once and exchanges it for the all-clear.      *)
Mirrored(drift) ==
    [copilot EXCEPT
        !.currentDriftCount = drift,
        !.zeroDriftAttested = drift = 0,
        !.driftDetected = IF drift = 0 THEN "absent" ELSE IF @ = "absent" THEN "open" ELSE @,
        !.zeroDriftLocked = IF drift = 0 THEN (IF @ = "absent" THEN "open" ELSE @)
                            ELSE IF copilot.driftDetected = "absent" THEN "absent" ELSE @]

Notifies == copilot' = Mirrored(sync'.driftCount)

RemoteAdvances ==
    /\ simulateDrift
    /\ Notifies
    /\ UNCHANGED storeVars

(* What runAutoTune16StageSweep does after its await: in the same task,    *)
(* since no timer runs between a promise and those that wait for it.       *)
Swept(cp) ==
    [cp EXCEPT !.autoPilotActive = TRUE,
               !.zeroDriftAttested = TRUE,
               !.currentDriftCount = 0,
               !.driftDetected = IF @ = "absent" THEN @ ELSE "applied",
               !.zeroDriftLocked = IF @ = "absent" THEN @ ELSE "applied"]

(* Mutant: the sweep reports the drift as gone when it starts. *)
RequestResyncEarly(caller) ==
    /\ Len(awaiting) < MaxAwaiting
    /\ StartResync(caller)
    /\ copilot' = IF caller = "sweep" THEN Swept(copilot) ELSE Mirrored(sync'.driftCount)
    /\ UNCHANGED storeVars

(* A panel, the chat or the warning's button; a sweep. *)
RequestResync(caller) ==
    /\ Len(awaiting) < MaxAwaiting
    /\ StartResync(caller)
    /\ Notifies
    /\ UNCHANGED storeVars

Healed(st) == WithProofs(Baseline(st), TotalSlots)

ResyncEnds ==
    /\ FinishResync
    /\ IF Head(awaiting) = "sweep"
       THEN /\ copilot' = Swept(Mirrored(sync'.driftCount))
            /\ store' = Healed(store)
       ELSE Notifies /\ UNCHANGED store
    /\ UNCHANGED <<registry, scan>>

(* Mutant: the auto-pilot tolerates the drift of one commit. *)
MustResyncLater == sync.driftCount > Delta

(* The interval.  A tick's own reconciliation, of 850 ms, is over before   *)
(* the next tick.  The store's test compares the drift label with '0.0%',  *)
(* which is none of its labels, so that every tick resets the store.       *)
MustResync == sync.driftCount # 0 \/ sync.local # sync.remote
MustHeal == store.drift # "0.0%" \/ store.quarantined \/ store.proofs < TotalSlots

MonitorTick ==
    /\ \A i \in 1..Len(awaiting) : awaiting[i] # "monitor"
    /\ copilot.autoPilotActive
    /\ IF MustResync THEN StartResync("monitor") /\ Notifies
                     ELSE UNCHANGED <<sync, awaiting, copilot>>
    /\ store' = IF MustHeal THEN Healed(store) ELSE store
    /\ UNCHANGED <<registry, scan>>

(* The warning's own button is RequestResync: by the time its await ends   *)
(* the warning is gone.  The all-clear is applied at once.                 *)
ApplyZeroDriftLocked ==
    /\ copilot.zeroDriftLocked = "open"
    /\ copilot' = [copilot EXCEPT !.zeroDriftLocked = "applied"]
    /\ UNCHANGED <<githubVars, storeVars>>

DismissSuggestion ==
    /\ \/ copilot' = [copilot EXCEPT !.driftDetected = "absent"]
       \/ copilot' = [copilot EXCEPT !.zeroDriftLocked = "absent"]
    /\ UNCHANGED <<githubVars, storeVars>>

ToggleAutoPilot ==
    /\ copilot' = [copilot EXCEPT !.autoPilotActive = ~@]
    /\ UNCHANGED <<githubVars, storeVars>>

UseConsole == ConsoleNext /\ UNCHANGED <<githubVars, copilot>>

CopilotNext ==
    \/ RemoteAdvances
    \/ \E caller \in {"panel", "sweep"} : RequestResync(caller)
    \/ ResyncEnds
    \/ MonitorTick
    \/ ApplyZeroDriftLocked
    \/ DismissSuggestion
    \/ ToggleAutoPilot
    \/ UseConsole

(* Timers fire. *)
CopilotFairness ==
    /\ WF_copilotVars(ResyncEnds)
    /\ WF_copilotVars(MonitorTick)

CopilotSpec == CopilotInit /\ [][CopilotNext]_copilotVars /\ CopilotFairness

-----------------------------------------------------------------------------
(* The copilot attests zero drift exactly when the height service has      *)
(* none, its warning is open only while there is one, and the all-clear    *)
(* only while there is none, through any overlap of reconciliations,       *)
(* sweeps, dismissals and new drifts (the subscription and                 *)
(* runAutoTune16StageSweep of copilotAssistantService.ts).                 *)
CopilotInv ==
    /\ copilot.currentDriftCount = sync.driftCount
    /\ copilot.zeroDriftAttested <=> sync.local = sync.remote
    /\ copilot.driftDetected # "absent" => sync.driftCount # 0
    /\ copilot.zeroDriftLocked # "absent" => sync.driftCount = 0

(* While the auto-pilot is on, a drift or a quarantine is repaired, unless *)
(* the auto-pilot is paused first: however many reconciliations overlap,   *)
(* and whoever keeps injecting drifts or quarantines (the 3.5 s interval). *)
HealsEventually ==
    /\ copilot.autoPilotActive /\ sync.driftCount # 0
           ~> sync.driftCount = 0 \/ ~copilot.autoPilotActive
    /\ copilot.autoPilotActive /\ store.quarantined
           ~> ~store.quarantined \/ ~copilot.autoPilotActive
=============================================================================
