---------------------------- MODULE FederationSync ----------------------------
(***************************************************************************)
(* triggerFederationSync of federationSyncManager.ts (src/src/utils/): a   *)
(* synchronisation is a chain of timers of 400, 450, 450 and 450 ms that   *)
(* all write one module-level state.  Several entry points of the views    *)
(* start one without looking at isSyncing, so that chains overlap; equal   *)
(* delays keep them in the order they were started.                        *)
(***************************************************************************)
EXTENDS Integers, Sequences

CONSTANTS
    Base,    \* packets processed before the page was loaded
    MaxRuns  \* bound: synchronisations started

ASSUME FederationAssumption == Base \in Nat /\ MaxRuns \in Nat

VARIABLES
    fed,  \* the module's state; packets and roots by the run that made them
    runs  \* runs[n]: the stage the n-th synchronisation has reached

fedVars == <<fed, runs>>

Stages == <<"INGEST", "MERKLE_TREE_HANDSHAKE", "PQC_DILITHIUM_SIGN",
            "FEDERATION_CONSENSUS", "FINAL_SEAL">>
PacketStatus == <<"INGESTING", "VERIFYING_MERKLE", "PQC_SIGNING", "PQC_SIGNING",
                  "SEALED_CONSENSUS">>
Sealed == 5

FederationTypeOK ==
    /\ fed \in [isSyncing : BOOLEAN, stage : {Stages[k] : k \in 1..Sealed} \cup {"IDLE"},
                packet : [of : Nat, status : {PacketStatus[k] : k \in 1..Sealed} \cup {"none"}],
                lastSyncedMerkleRoot : Nat, packetsProcessedCount : Nat]
    /\ runs \in Seq(1..Sealed)

FederationInit ==
    /\ fed = [isSyncing |-> FALSE, stage |-> "IDLE", packet |-> [of |-> 0, status |-> "none"],
              lastSyncedMerkleRoot |-> 0, packetsProcessedCount |-> Base]
    /\ runs = <<>>

-----------------------------------------------------------------------------
triggerFederationSync ==
    /\ Len(runs) < MaxRuns
    /\ runs' = Append(runs, 1)
    /\ fed' = [fed EXCEPT !.isSyncing = TRUE,
                          !.stage = Stages[1],
                          !.packet = [of |-> Len(runs) + 1, status |-> PacketStatus[1]]]

(* Mutant: a run that is no longer the one shown stops. *)
DueIfShown(n) ==
    /\ runs[n] < Sealed
    /\ n > 1 => runs[n - 1] > runs[n]
    /\ fed.packet.of = n

(* The n-th run's next timer may fire: the run before it is a stage ahead. *)
Due(n) ==
    /\ runs[n] < Sealed
    /\ n > 1 => runs[n - 1] > runs[n]

(* The first two timers show the run's own packet, the third only a stage. *)
StageReached(n, k) ==
    [fed EXCEPT !.stage = Stages[k],
                !.packet = IF k = 4 THEN fed.packet ELSE [of |-> n, status |-> PacketStatus[k]]]

(* Mutant: the seal takes the packet that is shown, not the run's own. *)
SealedShown(n) ==
    [isSyncing |-> FALSE,
     stage |-> Stages[Sealed],
     packet |-> [of |-> fed.packet.of, status |-> PacketStatus[Sealed]],
     lastSyncedMerkleRoot |-> fed.packet.of,
     packetsProcessedCount |-> fed.packetsProcessedCount + 1]

SealedBy(n) ==
    [isSyncing |-> FALSE,
     stage |-> Stages[Sealed],
     packet |-> [of |-> n, status |-> PacketStatus[Sealed]],
     lastSyncedMerkleRoot |-> n,
     packetsProcessedCount |-> fed.packetsProcessedCount + 1]

StageTimer(n) ==
    /\ Due(n)
    /\ runs' = [runs EXCEPT ![n] = @ + 1]
    /\ fed' = IF runs[n] + 1 = Sealed THEN SealedBy(n) ELSE StageReached(n, runs[n] + 1)

FederationNext ==
    \/ triggerFederationSync
    \/ \E n \in 1..Len(runs) : StageTimer(n)

FederationSpec == FederationInit /\ [][FederationNext]_fedVars

-----------------------------------------------------------------------------
SealedRuns == {n \in 1..Len(runs) : runs[n] = Sealed}

(* Overlapping chains seal one after the other and lose none: the count is *)
(* that of the runs sealed, the last root is the last sealed run's own,    *)
(* the sealed runs are the oldest, and once no timer is left the state     *)
(* shown is the final one of the last run.  Before that isSyncing may be   *)
(* FALSE with runs under way, but never TRUE with none                     *)
(* (triggerFederationSync of federationSyncManager.ts).                    *)
FederationInv ==
    /\ SealedRuns = 1..fed.lastSyncedMerkleRoot
    /\ fed.packetsProcessedCount = Base + fed.lastSyncedMerkleRoot
    /\ SealedRuns = 1..Len(runs) =>
           /\ ~fed.isSyncing
           /\ fed.packet.of = Len(runs)
           /\ runs # <<>> => fed.stage = "FINAL_SEAL" /\ fed.packet.status = "SEALED_CONSENSUS"

(* Every synchronisation started is sealed, overtaken or not (the chain of *)
(* timers of federationSyncManager.ts).                                    *)
EverySyncSeals ==
    \A n \in 1..MaxRuns : n \in 1..Len(runs) ~> n \in SealedRuns
=============================================================================
