------------------------------ MODULE HsmCluster ------------------------------
(***************************************************************************)
(* The cluster of hsmClusterService.ts (src/src/services/): a number of    *)
(* nodes taken offline by the drop simulators of the navigation, the       *)
(* banner and the gauge, and a remediation that waits 600 ms; App.tsx      *)
(* mirrors the number of active nodes and logs each change of it.  The     *)
(* banner disables its button while isRemediating, the others do not.      *)
(***************************************************************************)
EXTENDS Integers

CONSTANTS
    Drops,           \* node counts the simulators ask for
    MaxRemediations  \* bound: remediations waiting at one time

ASSUME HsmAssumption ==
    /\ Drops \subseteq Int
    /\ MaxRemediations \in Nat

VARIABLES
    cluster,      \* the service's state
    remediations, \* how many remediations await their delay
    console       \* App.tsx: its mirror of the count, and the last event it logged

hsmVars == <<cluster, remediations, console>>

TotalNodes == 10
ThresholdPct == 80
Nodes == 1..TotalNodes

HsmTypeOK ==
    /\ cluster \in [activeNodes : Nodes, quorumPercentage : 0..100, isDegraded : BOOLEAN,
                    isRemediating : BOOLEAN, online : SUBSET Nodes]
    /\ remediations \in Nat
    /\ console \in [activeHsmNodes : Nodes, lastEvent : {"none", "offline", "restored"}]

HsmInit ==
    /\ cluster = [activeNodes |-> TotalNodes, quorumPercentage |-> 100, isDegraded |-> FALSE,
                  isRemediating |-> FALSE, online |-> Nodes]
    /\ remediations = 0
    /\ console = [activeHsmNodes |-> TotalNodes, lastEvent |-> "none"]

-----------------------------------------------------------------------------
(* The subscription of App.tsx and the effect that compares the count with *)
(* the one before.                                                         *)
Mirrors(active) ==
    console' = [activeHsmNodes |-> active,
                lastEvent |-> IF active < console.activeHsmNodes THEN "offline"
                              ELSE IF active > console.activeHsmNodes THEN "restored"
                              ELSE console.lastEvent]

(* Mutant: a count above the number of nodes is taken as it is. *)
ClampedBelow(count) == IF count < 1 THEN 1 ELSE count

Clamped(count) == IF count > TotalNodes THEN TotalNodes ELSE IF count < 1 THEN 1 ELSE count

simulateDegradation(count) ==
    LET active == Clamped(count)
    IN  /\ cluster' = [cluster EXCEPT !.activeNodes = active,
                                      !.quorumPercentage = active * 10,
                                      !.isDegraded = active * 10 < ThresholdPct,
                                      !.online = 1..active]
        /\ Mirrors(active)
        /\ UNCHANGED remediations

(* remediateCluster up to its await, and after it. *)
StartRemediation ==
    /\ remediations < MaxRemediations
    /\ cluster' = [cluster EXCEPT !.isRemediating = TRUE]
    /\ remediations' = remediations + 1
    /\ UNCHANGED console

(* Mutant: the nodes are not put back online. *)
RestoredCountOnly ==
    [activeNodes |-> TotalNodes, quorumPercentage |-> 100, isDegraded |-> FALSE,
     isRemediating |-> FALSE, online |-> cluster.online]

Restored ==
    [activeNodes |-> TotalNodes, quorumPercentage |-> 100, isDegraded |-> FALSE,
     isRemediating |-> FALSE, online |-> Nodes]

FinishRemediation ==
    /\ remediations > 0
    /\ cluster' = Restored
    /\ remediations' = remediations - 1
    /\ Mirrors(TotalNodes)

HsmNext ==
    \/ \E count \in Drops : simulateDegradation(count)
    \/ StartRemediation
    \/ FinishRemediation

HsmSpec == HsmInit /\ [][HsmNext]_hsmVars

-----------------------------------------------------------------------------
(* One cluster, told in six ways that agree whatever drops arrive while    *)
(* remediations wait or overlap: the count, the percentage, the degraded   *)
(* flag, the node list, the mirror of App.tsx, and the last event logged,  *)
(* which is a restoral whenever all nodes are back; and the busy flag does *)
(* not outlive the last remediation (hsmClusterService.ts, App.tsx).       *)
ClusterInv ==
    /\ cluster.online = 1..cluster.activeNodes
    /\ cluster.quorumPercentage = 10 * cluster.activeNodes
    /\ cluster.isDegraded <=> cluster.activeNodes < 8
    /\ cluster.isRemediating => remediations > 0
    /\ console.activeHsmNodes = cluster.activeNodes
    /\ cluster.activeNodes < TotalNodes => console.lastEvent # "none"
    /\ cluster.activeNodes = TotalNodes => console.lastEvent # "offline"
=============================================================================
