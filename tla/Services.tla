------------------------------- MODULE Services -------------------------------
(***************************************************************************)
(* The independent services of the page and of its server side by side:    *)
(* the autonomy layer with the height service and the store                *)
(* (CopilotAutonomy), the custodian registry on its own (CustodianStore),  *)
(* the swarm, the cluster, the federation, the backups of each tab, the    *)
(* sessions, the recovery tickets, the tuning transaction and the atlas    *)
(* worker.                                                                 *)
(*                                                                         *)
(* Apart from the store, which the first two share, no two of them share a *)
(* variable: steps of different services commute, and a property of one is *)
(* decided by its own steps.  A behaviour here therefore chooses one       *)
(* service, its focus, and moves that one alone, so that the states to     *)
(* explore are the sum of those of the services and not their product.     *)
(***************************************************************************)
EXTENDS CopilotAutonomy, SwarmTasks, HsmCluster, FederationSync, BackupEngine,
        ServerSessions, RecoveryTickets, TuningTransaction, AtlasWorker

CONSTANT Foci \* the services looked at

VARIABLE focus

servicesVars == <<focus, copilotVars, swarmVars, hsmVars, fedVars, backupVars,
                  sessionVars, ticketVars, tuningVars, atlasVars>>

(* Whether the page has a worker matters to no other focus.                *)
ServicesInit ==
    /\ focus \in Foci
    /\ CopilotInit
    /\ SwarmInit
    /\ HsmInit
    /\ FederationInit
    /\ BackupInit
    /\ SessionInit
    /\ TicketInit
    /\ TuningInit
    /\ AtlasInit
    /\ focus # "atlas" => worker = "running"

(* What a step of the focus named leaves alone. *)
Others(name) ==
    /\ focus = name /\ UNCHANGED focus
    /\ name \notin {"autonomy", "registry"} => UNCHANGED copilotVars
    /\ name # "swarm" => UNCHANGED swarmVars
    /\ name # "cluster" => UNCHANGED hsmVars
    /\ name # "federation" => UNCHANGED fedVars
    /\ name # "backup" => UNCHANGED backupVars
    /\ name # "sessions" => UNCHANGED sessionVars
    /\ name # "tickets" => UNCHANGED ticketVars
    /\ name # "tuning" => UNCHANGED tuningVars
    /\ name # "atlas" => UNCHANGED atlasVars

AutonomyStep == focus = "autonomy" /\ CopilotNext /\ Others("autonomy")

(* The consoles and the auto-pilot change neither the registry nor what    *)
(* the store shows of it but its count.                                    *)
RegistryStep ==
    focus = "registry" /\ EvidenceNext /\ UNCHANGED <<githubVars, copilot>> /\ Others("registry")

SwarmStep == focus = "swarm" /\ SwarmNext /\ Others("swarm")
ClusterStep == focus = "cluster" /\ HsmNext /\ Others("cluster")
FederationStep == focus = "federation" /\ FederationNext /\ Others("federation")
BackupStep == focus = "backup" /\ BackupNext /\ Others("backup")
SessionStep == focus = "sessions" /\ SessionNext /\ Others("sessions")
TicketStep == focus = "tickets" /\ TicketNext /\ Others("tickets")
TuningStep == focus = "tuning" /\ TuningNext /\ Others("tuning")
AtlasStep == focus = "atlas" /\ AtlasNext /\ Others("atlas")

ServicesNext ==
    \/ AutonomyStep
    \/ RegistryStep
    \/ SwarmStep
    \/ ClusterStep
    \/ FederationStep
    \/ BackupStep
    \/ SessionStep
    \/ TicketStep
    \/ TuningStep
    \/ AtlasStep

(* Timers fire: those of a reconciliation, of the auto-pilot, of a         *)
(* federation chain, of a request to the worker, and the backup engine's   *)
(* interval.                                                               *)
ServicesFairness ==
    /\ WF_servicesVars(focus = "autonomy" /\ ResyncEnds /\ Others("autonomy"))
    /\ WF_servicesVars(focus = "autonomy" /\ MonitorTick /\ Others("autonomy"))
    /\ \A n \in 1..MaxRuns :
           WF_servicesVars(focus = "federation" /\ n <= Len(runs) /\ StageTimer(n)
                           /\ Others("federation"))
    /\ \A t \in Tabs :
           WF_servicesVars(focus = "backup" /\ Tick(t) /\ Others("backup"))
    /\ WF_servicesVars(focus = "atlas" /\ TimerFires /\ Others("atlas"))

ServicesSpec == ServicesInit /\ [][ServicesNext]_servicesVars /\ ServicesFairness

-----------------------------------------------------------------------------
(* Every variable of the services but the atlas worker stays in its type;  *)
(* AtlasInv has that worker's own.                                         *)
ServicesTypeOK ==
    /\ CopilotTypeOK
    /\ SwarmTypeOK
    /\ HsmTypeOK
    /\ FederationTypeOK
    /\ BackupTypeOK
    /\ SessionTypeOK
    /\ TicketTypeOK
    /\ TuningTypeOK
=============================================================================
