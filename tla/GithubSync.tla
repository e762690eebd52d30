------------------------------ MODULE GithubSync ------------------------------
(***************************************************************************)
(* The height comparison of githubSyncService.ts (src/src/services/): a    *)
(* local height, the height of the remote branch, and a reconciliation     *)
(* that sets its flag, waits 850 ms and then aligns the two.               *)
(*                                                                         *)
(* The panels disable their own button while isSyncing, the copilot and    *)
(* the drawer do not, so reconciliations overlap.  All wait equally long   *)
(* and the browser fires timers of one delay in the order they were set.   *)
(***************************************************************************)
EXTENDS Integers, Sequences

CONSTANTS
    Canonical,   \* the height both sides start at
    Delta,       \* blocks a simulated remote commit is ahead (every caller passes 2)
    Callers,     \* what asked for a reconciliation
    MaxHeight,   \* bound: no drift is injected above it
    MaxAwaiting  \* bound: reconciliations waiting at one time

ASSUME HeightAssumption ==
    /\ Canonical \in Nat
    /\ Delta \in Nat \ {0}
    /\ MaxHeight \in Nat
    /\ MaxAwaiting \in Nat

VARIABLES
    sync,     \* the service's state: heights, drift, status and the flag
    awaiting  \* callers whose reconciliation awaits its delay, oldest first

githubVars == <<sync, awaiting>>

GithubTypeOK ==
    /\ sync \in [local : Nat, remote : Nat, driftCount : Nat, isSyncing : BOOLEAN,
                 status : {"SYNCED", "DRIFT_DETECTED", "RESYNCING"}]
    /\ awaiting \in Seq(Callers)

GithubInit ==
    /\ sync = [local |-> Canonical, remote |-> Canonical, driftCount |-> 0,
               isSyncing |-> FALSE, status |-> "SYNCED"]
    /\ awaiting = <<>>

-----------------------------------------------------------------------------
(* A commit appears on the remote branch; a reconciliation under way, and  *)
(* its flag, are left alone.                                               *)
simulateDrift ==
    /\ sync.local <= MaxHeight
    /\ sync' = [sync EXCEPT !.remote = sync.local + Delta,
                            !.driftCount = Delta,
                            !.status = "DRIFT_DETECTED"]
    /\ UNCHANGED awaiting

(* forceRemoteResync up to its await. *)
StartResync(caller) ==
    /\ sync' = [sync EXCEPT !.isSyncing = TRUE, !.status = "RESYNCING"]
    /\ awaiting' = Append(awaiting, caller)

Higher(m, n) == IF m > n THEN m ELSE n

(* Mutant: the aligned height is the local one, whatever arrived meanwhile. *)
FinalBlockLocal == sync.local

(* After the await: the heights are read now, not when the wait began. *)
FinalBlock == Higher(sync.local, sync.remote)

(* Mutant: the drift counter keeps what the delay found. *)
AlignedKeepsDrift(height) ==
    [local |-> height, remote |-> height, driftCount |-> sync.driftCount,
     isSyncing |-> FALSE, status |-> "SYNCED"]

Aligned(height) ==
    [local |-> height, remote |-> height, driftCount |-> 0,
     isSyncing |-> FALSE, status |-> "SYNCED"]

FinishResync ==
    /\ awaiting # <<>>
    /\ sync' = Aligned(FinalBlock)
    /\ awaiting' = Tail(awaiting)

GithubNext ==
    \/ simulateDrift
    \/ \E caller \in Callers : Len(awaiting) < MaxAwaiting /\ StartResync(caller)
    \/ FinishResync

GithubSpec == GithubInit /\ [][GithubNext]_githubVars

-----------------------------------------------------------------------------
(* What the panels show is what the heights say: the drift is the distance *)
(* of the two heights, "SYNCED" is shown only when it is 0 and             *)
(* "DRIFT_DETECTED" only when it is not, and the busy flag and the         *)
(* "RESYNCING" label never outlive the last reconciliation, whatever drift *)
(* was injected while how many of them were waiting (forceRemoteResync and *)
(* simulateDrift of githubSyncService.ts).                                 *)
DriftAgrees ==
    /\ sync.driftCount = sync.remote - sync.local
    /\ sync.status = "SYNCED" => sync.driftCount = 0
    /\ sync.status = "DRIFT_DETECTED" => sync.driftCount # 0
    /\ sync.isSyncing \/ sync.status = "RESYNCING" => awaiting # <<>>

(* A reconciliation loses no block: neither height ever goes back, also    *)
(* when the remote branch advanced during the delay or when an older       *)
(* reconciliation ends after a newer drift (githubSyncService.ts,          *)
(* forceRemoteResync).                                                     *)
HeightsKept ==
    [][sync'.local >= sync.local /\ sync'.remote >= sync.remote]_githubVars
=============================================================================
