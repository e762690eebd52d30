----------------------------- MODULE TerminalJob -----------------------------
(***************************************************************************)
(* The terminal state machine of uploads and sends                         *)
(* (src/src/services/TerminalJobLifecycleManager.ts) with the two ways its *)
(* clients drive it:                                                       *)
(*   - executeJob(key, executor): the engine locks the key and awaits an   *)
(*     asynchronous executor (SiemWebhookCenter, the deterministic         *)
(*     verification pipeline): the keys RunKey;                            *)
(*   - by hand: test the state, submitJob, work, transitionState           *)
(*     (LedgerView, Room00MasterPanel, CryptographicEvidenceSandbox, the   *)
(*     export services): the keys HandKey.                                 *)
(* No component drives one key both ways.  The engine lives in the memory  *)
(* of one page; one callback runs at a time.                               *)
(***************************************************************************)
EXTENDS Naturals

CONSTANTS
    Caller,      \* concurrent event handlers of the page
    RunKey,      \* idempotency keys dispatched with executeJob
    EvidenceKey, \* those of them whose jobType is EVIDENCE_UPLOAD
    HandKey,     \* idempotency keys driven by hand
    MaxRetries   \* maxRetries of a job (3 unless the caller says otherwise)

ASSUME KeysAssumption ==
    /\ EvidenceKey \subseteq RunKey
    /\ RunKey \cap HandKey = {}
ASSUME MaxRetriesAssumption == MaxRetries \in Nat \ {0}

VARIABLES
    job,     \* job[k]: the record of key k, state "none" before submitJob
    locks,   \* activeLocks
    call,    \* call[c]: what handler c awaits
    effects  \* history: how often the work of key k was carried out

vars == <<job, locks, call, effects>>

Key == RunKey \cup HandKey

-----------------------------------------------------------------------------
Terminal == {"UPLOADED", "COMPLETED", "TERMINAL_BLOCKED", "TERMINAL_REJECTED"}
JobState == Terminal \cup {"none", "PENDING", "UPLOADING", "SENDING", "FAILED"}

(* sealed stands for isTerminal, locked and terminalTimestamp, which are   *)
(* set together.                                                           *)
Job == [state : JobState, retryCount : 0..MaxRetries, sealed : BOOLEAN]
NoJob == [state |-> "none", retryCount |-> 0, sealed |-> FALSE]

Free == [op |-> "free"]
Awaiting(op, k) == [op |-> op, key |-> k]
Call == {Free} \cup [op : {"run"}, key : RunKey] \cup [op : {"hand"}, key : HandKey]

IsTerminal(k) == job[k].state \in Terminal
Running(c, k) == call[c] = Awaiting("run", k)

TypeOK ==
    /\ job \in [Key -> Job]
    /\ locks \subseteq Key
    /\ call \in [Caller -> Call]
    /\ effects \in [Key -> Nat]

Init ==
    /\ job = [k \in Key |-> NoJob]
    /\ locks = {}
    /\ call = [c \in Caller |-> Free]
    /\ effects = [k \in Key |-> 0]

-----------------------------------------------------------------------------
(* submitJob on record j: only an unknown key gets a new record. *)
Submitted(j) == IF j.state = "none" THEN [NoJob EXCEPT !.state = "PENDING"] ELSE j

(* Mutant: the terminal check is left out. *)
TransitionedUnchecked(j, s) == [j EXCEPT !.state = s, !.sealed = s \in Terminal]

(* transitionState on record j: unknown and terminal records stay. *)
Transitioned(j, s) ==
    IF j.state \in Terminal \cup {"none"}
    THEN j
    ELSE [j EXCEPT !.state = s, !.sealed = s \in Terminal]

(* The locks after record k went from j to a terminal state s. *)
Released(ls, k, j, s) ==
    IF s \in Terminal /\ j.state \notin Terminal \cup {"none"} THEN ls \ {k} ELSE ls

(* The state executeJob uses while the executor runs, and at its end. *)
ActiveState(k) == IF k \in EvidenceKey THEN "UPLOADING" ELSE "SENDING"
DoneState(k)   == IF k \in EvidenceKey THEN "UPLOADED" ELSE "COMPLETED"

-----------------------------------------------------------------------------
(* Mutant: the lock of step 2 is not consulted. *)
ExecuteJobUnlocked(c, k) ==
    /\ call[c] = Free
    /\ ~IsTerminal(k)
    /\ job' = [job EXCEPT ![k] = Transitioned(Submitted(@), ActiveState(k))]
    /\ locks' = locks \cup {k}
    /\ call' = [call EXCEPT ![c] = Awaiting("run", k)]
    /\ UNCHANGED effects

(* executeJob up to its await.  A terminal key returns the stored record   *)
(* and a locked key is refused: neither changes anything.                  *)
ExecuteJob(c, k) ==
    /\ call[c] = Free
    /\ ~IsTerminal(k)
    /\ k \notin locks
    /\ job' = [job EXCEPT ![k] = Transitioned(Submitted(@), ActiveState(k))]
    /\ locks' = locks \cup {k}
    /\ call' = [call EXCEPT ![c] = Awaiting("run", k)]
    /\ UNCHANGED effects

(* The executor's promise is fulfilled. *)
ExecutorSucceeds(c, k) ==
    /\ Running(c, k)
    /\ job' = [job EXCEPT ![k] = Transitioned(@, DoneState(k))]
    /\ locks' = IF IsTerminal(k)'
                THEN Released(locks, k, job[k], DoneState(k))
                ELSE locks \ {k}
    /\ call' = [call EXCEPT ![c] = Free]
    /\ effects' = [effects EXCEPT ![k] = @ + 1]

(* Mutant: a failed run that may be retried keeps its lock. *)
ExecutorFailsLocked(c, k) ==
    /\ Running(c, k)
    /\ LET tried == [job[k] EXCEPT !.retryCount = @ + 1]
       IN  job' = [job EXCEPT ![k] = [tried EXCEPT !.state = "FAILED"]]
    /\ call' = [call EXCEPT ![c] = Free]
    /\ job[k].retryCount + 1 < MaxRetries
    /\ UNCHANGED <<locks, effects>>

(* The executor's promise is rejected: after MaxRetries failures the job   *)
(* is TERMINAL_REJECTED; before, its state is set to FAILED directly, not  *)
(* through transitionState.                                                *)
ExecutorFails(c, k) ==
    /\ Running(c, k)
    /\ LET tried == [job[k] EXCEPT !.retryCount = @ + 1]
           final == tried.retryCount >= MaxRetries
       IN  /\ job' = [job EXCEPT ![k] =
                         IF final
                         THEN Transitioned(tried, "TERMINAL_REJECTED")
                         ELSE [tried EXCEPT !.state = "FAILED"]]
           /\ locks' = IF IsTerminal(k)'
                       THEN Released(locks, k, tried, "TERMINAL_REJECTED")
                       ELSE locks \ {k}
    /\ call' = [call EXCEPT ![c] = Free]
    /\ UNCHANGED effects

-----------------------------------------------------------------------------
(* An upload handler up to its await: it returns when the job is already   *)
(* terminal, and does not look at what submitJob returns.                  *)
StartByHand(c, k) ==
    /\ call[c] = Free
    /\ ~IsTerminal(k)
    /\ job' = [job EXCEPT ![k] = Submitted(@)]
    /\ call' = [call EXCEPT ![c] = Awaiting("hand", k)]
    /\ UNCHANGED <<locks, effects>>

(* Its work is over: the file was read and validated (UPLOADED, and the    *)
(* seal is committed), could not be read (TERMINAL_REJECTED) or is invalid *)
(* (TERMINAL_BLOCKED).                                                     *)
FinishByHand(c, k, s) ==
    /\ call[c] = Awaiting("hand", k)
    /\ job' = [job EXCEPT ![k] = Transitioned(@, s)]
    /\ locks' = Released(locks, k, job[k], s)
    /\ call' = [call EXCEPT ![c] = Free]
    /\ effects' = IF s = "UPLOADED" THEN [effects EXCEPT ![k] = @ + 1] ELSE effects

(* A handler without an await, such as an export: submitJob, the work and  *)
(* transitionState in one stretch.                                         *)
DoByHand(k, s) ==
    /\ ~IsTerminal(k)
    /\ job' = [job EXCEPT ![k] = Transitioned(Submitted(@), s)]
    /\ locks' = Released(locks, k, Submitted(job[k]), s)
    /\ UNCHANGED <<call, effects>>

AsyncOutcome == {"UPLOADED", "TERMINAL_REJECTED", "TERMINAL_BLOCKED"}
SyncOutcome  == {"UPLOADED", "COMPLETED", "FAILED", "TERMINAL_BLOCKED"}

-----------------------------------------------------------------------------
RunStep(c, k) == ExecuteJob(c, k) \/ ExecutorSucceeds(c, k) \/ ExecutorFails(c, k)

HandStep(c, k) ==
    \/ StartByHand(c, k)
    \/ \E s \in AsyncOutcome : FinishByHand(c, k, s)

Next ==
    \/ \E c \in Caller, k \in RunKey : RunStep(c, k)
    \/ \E c \in Caller, k \in HandKey : HandStep(c, k)
    \/ \E k \in HandKey, s \in SyncOutcome : DoByHand(k, s)

Spec == Init /\ [][Next]_vars

(* Every executor and every file read settles. *)
Settle(c) ==
    \/ \E k \in RunKey : ExecutorSucceeds(c, k) \/ ExecutorFails(c, k)
    \/ \E k \in HandKey, s \in AsyncOutcome : FinishByHand(c, k, s)

FairSpec == Spec /\ \A c \in Caller : WF_vars(Settle(c))

-----------------------------------------------------------------------------
(* Properties. *)

(* A key is locked exactly while one executor runs for it: the lock is     *)
(* neither leaked by a failed or rejected run nor dropped under a running  *)
(* one (executeJob, transitionState).                                      *)
LockMatchesRun ==
    /\ \A k \in Key : k \in locks <=> \E c \in Caller : Running(c, k)
    /\ \A k \in RunKey : \A c, d \in Caller : Running(c, k) /\ Running(d, k) => c = d

(* A key under execution is not terminal, so a run never overwrites a      *)
(* terminal record, and its retries are not used up.                       *)
RunsAreActive ==
    \A c \in Caller, k \in RunKey :
        Running(c, k) => /\ job[k].state = ActiveState(k)
                         /\ job[k].retryCount < MaxRetries

(* Retries are left while a job can still be dispatched. *)
RetriesLeft == \A k \in RunKey : ~IsTerminal(k) => job[k].retryCount < MaxRetries

(* executeJob delivers the work of a key at most once, and only together   *)
(* with its final success state.                                           *)
EffectOnce ==
    \A k \in RunKey : effects[k] = IF job[k].state = DoneState(k) THEN 1 ELSE 0

(* isTerminal, locked and terminalTimestamp agree with the state. *)
SealedIffTerminal == \A k \in Key : job[k].sealed <=> IsTerminal(k)

JobInv ==
    /\ TypeOK
    /\ LockMatchesRun
    /\ RunsAreActive
    /\ RetriesLeft
    /\ EffectOnce
    /\ SealedIffTerminal

(* Invariant 1 of the service's header: a job that reached a terminal      *)
(* state never changes again, whichever handlers still run.                *)
TerminalImmutable ==
    [][\A k \in Key : IsTerminal(k) => job'[k] = job[k]]_vars

(* A locked key is released again: the lock does not survive its run.      *)
LocksReleased == \A k \in Key : k \in locks ~> k \notin locks

(* Invariants 2 and 3 of the header (TerminalJobLifecycleManager.ts, lines *)
(* 10-13): a duplicate trigger of a key does not execute duplicate side    *)
(* effects, and active uploads do not race.                                *)
NoDuplicateEffects == \A k \in Key : effects[k] <= 1
=============================================================================
