-------------------------- MODULE EvidenceLifecycle --------------------------
(***************************************************************************)
(* The life of evidence artifacts: the EvidenceStateManager with its       *)
(* ledger (src/src/components/EvidenceStateManager.ts), the components     *)
(* that move artifacts (DeterministicVerificationPipeline,                 *)
(* CryptoVerificationCenter, PolicyEngine) and the jobs they create in the *)
(* TerminalJob engine.                                                     *)
(*                                                                         *)
(* Each artifact has two jobs: the pipeline's verification, dispatched     *)
(* with executeJob, and the synchronisation record the state manager       *)
(* creates by hand when an artifact becomes VERIFIED.                      *)
(***************************************************************************)
EXTENDS Naturals, Sequences

CONSTANTS
    Caller,     \* concurrent verification handlers of the page
    Artifact,   \* registered artifacts
    MaxRetries, \* maxRetries of the verification jobs
    MaxEvents   \* bound: the length of the ledger

ASSUME MaxRetriesAssumption == MaxRetries \in Nat \ {0}

VARIABLES
    artifact,   \* artifact[a]: currentState
    ledger,     \* the audit ledger
    attested,   \* handlers whose executor has reached its last statement
    job, locks, call, effects

jobVars == <<job, locks, call, effects>>
vars == <<artifact, ledger, attested, jobVars>>

VerifyKey(a) == <<"verify", a>>
SyncKey(a)   == <<"sync", a>>

J == INSTANCE TerminalJob
    WITH RunKey      <- {VerifyKey(a) : a \in Artifact},
         EvidenceKey <- {VerifyKey(a) : a \in Artifact},
         HandKey     <- {SyncKey(a) : a \in Artifact}

(* The states the three components use. *)
TerminalArtifact == {"VERIFIED", "BLOCKED"}
ArtifactState    == TerminalArtifact \cup {"PENDING_VERIFICATION"}

TypeOK ==
    /\ J!TypeOK
    /\ artifact \in [Artifact -> ArtifactState]
    /\ ledger \in Seq([id : Artifact, previousState : ArtifactState, newState : ArtifactState])
    /\ attested \subseteq Caller

Init ==
    /\ J!Init
    /\ artifact = [a \in Artifact |-> "PENDING_VERIFICATION"]
    /\ ledger = <<>>
    /\ attested = {}

-----------------------------------------------------------------------------
(* The synchronisation job of a newly VERIFIED artifact: submitJob and     *)
(* transitionState do nothing when it is already UPLOADED.                 *)
SyncJob(a, target) ==
    IF target = "VERIFIED" /\ ~J!IsTerminal(SyncKey(a))
    THEN J!DoByHand(SyncKey(a), "UPLOADED")
    ELSE UNCHANGED jobVars

(* Mutant: the event is written after the artifact was updated. *)
TransitionStateLate(a, target) ==
    IF artifact[a] \in TerminalArtifact /\ artifact[a] = target
    THEN UNCHANGED <<artifact, ledger, jobVars>>
    ELSE /\ Len(ledger) < MaxEvents
         /\ artifact' = [artifact EXCEPT ![a] = target]
         /\ ledger' = Append(ledger,
                [id |-> a, previousState |-> artifact'[a], newState |-> target])
         /\ SyncJob(a, target)

(* EvidenceStateManager.transitionState: only a repeated terminal state is *)
(* a no-op; any other target is recorded and taken.                        *)
TransitionState(a, target) ==
    IF artifact[a] \in TerminalArtifact /\ artifact[a] = target
    THEN UNCHANGED <<artifact, ledger, jobVars>>
    ELSE /\ Len(ledger) < MaxEvents
         /\ ledger' = Append(ledger,
                [id |-> a, previousState |-> artifact[a], newState |-> target])
         /\ artifact' = [artifact EXCEPT ![a] = target]
         /\ SyncJob(a, target)

-----------------------------------------------------------------------------
(* Mutant: a second handler gets past the lock. *)
StartVerifyUnlocked(c, a) ==
    /\ J!ExecuteJobUnlocked(c, VerifyKey(a))
    /\ UNCHANGED <<artifact, ledger, attested>>

(* The deterministic pipeline: executeJob with an executor that hashes the *)
(* artifact, moves it to VERIFIED and returns.                             *)
StartVerify(c, a) ==
    /\ J!ExecuteJob(c, VerifyKey(a))
    /\ UNCHANGED <<artifact, ledger, attested>>

Attest(c, a) ==
    /\ J!Running(c, VerifyKey(a))
    /\ c \notin attested
    /\ attested' = attested \cup {c}
    /\ TransitionState(a, "VERIFIED")

(* Mutant: the job is completed without waiting for the executor. *)
VerifyReturnsEarly(c, a) ==
    /\ J!ExecutorSucceeds(c, VerifyKey(a))
    /\ attested' = attested \ {c}
    /\ UNCHANGED <<artifact, ledger>>

VerifyReturns(c, a) ==
    /\ c \in attested
    /\ J!ExecutorSucceeds(c, VerifyKey(a))
    /\ attested' = attested \ {c}
    /\ UNCHANGED <<artifact, ledger>>

(* Hashing fails, or a statement after the attestation throws. *)
VerifyThrows(c, a) ==
    /\ J!ExecutorFails(c, VerifyKey(a))
    /\ attested' = attested \ {c}
    /\ UNCHANGED <<artifact, ledger>>

(* CryptoVerificationCenter, once its digest is computed. *)
CenterVerifies(a) ==
    /\ TransitionState(a, "VERIFIED")
    /\ UNCHANGED attested

(* PolicyEngine.evaluate of a promotion: the promotion firewall always     *)
(* answers BLOCKED.                                                        *)
PromotionBlocked(a) ==
    /\ TransitionState(a, "BLOCKED")
    /\ UNCHANGED attested

Next ==
    \/ \E c \in Caller, a \in Artifact :
          \/ StartVerify(c, a) \/ Attest(c, a)
          \/ VerifyReturns(c, a) \/ VerifyThrows(c, a)
    \/ \E a \in Artifact : CenterVerifies(a) \/ PromotionBlocked(a)

Spec == Init /\ [][Next]_vars

-----------------------------------------------------------------------------
(* Properties. *)

(* The events before position i leave artifact a in state st. *)
StateBefore(a, i, st) ==
    \/ /\ \A j \in 1..(i - 1) : ledger[j].id # a
       /\ st = "PENDING_VERIFICATION"
    \/ \E j \in 1..(i - 1) :
          /\ ledger[j].id = a
          /\ ledger[j].newState = st
          /\ \A k \in (j + 1)..(i - 1) : ledger[k].id # a

(* The ledger explains every artifact: each event starts in the state the  *)
(* earlier events of its artifact led to, and the current state is where   *)
(* the last one led, whichever components interleaved on the artifact      *)
(* (EvidenceStateManager.transitionState).                                 *)
LedgerReplays ==
    /\ \A i \in DOMAIN ledger : StateBefore(ledger[i].id, i, ledger[i].previousState)
    /\ \A a \in Artifact : StateBefore(a, Len(ledger) + 1, artifact[a])

VerifiedEvent(a) ==
    \E i \in DOMAIN ledger : ledger[i].id = a /\ ledger[i].newState = "VERIFIED"

(* A VERIFIED artifact has its synchronisation job, in its terminal state, *)
(* and a finished verification job has a VERIFIED event in the ledger.     *)
JobsFollowArtifacts ==
    \A a \in Artifact :
        /\ artifact[a] = "VERIFIED" => job[SyncKey(a)].state = "UPLOADED"
        /\ job[VerifyKey(a)].state = "UPLOADED" => VerifiedEvent(a)

EvidenceInv == TypeOK /\ JobsFollowArtifacts

(* Once the pipeline's verification of an artifact has ended, with success *)
(* or for good without, no handler of the pipeline moves the artifact any  *)
(* more: a block that came later is lifted by the verification centre or   *)
(* not at all.  What stands behind it is the lock that executeJob holds    *)
(* through the awaits of its executor (TerminalStateManager.ts): a second  *)
(* handler past it would attest after the first one's job had ended.       *)
NoLateAttestation ==
    [][\A a \in Artifact :
          J!IsTerminal(VerifyKey(a)) /\ artifact'[a] # artifact[a] => attested' = attested]_vars

(* The comment on transitionState (EvidenceStateManager.ts, lines 96-100): *)
(* it "enforces terminal state immutability".                              *)
TerminalArtifactImmutable ==
    [][\A a \in Artifact : artifact[a] \in TerminalArtifact => artifact'[a] = artifact[a]]_vars
=============================================================================
