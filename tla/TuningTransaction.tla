--------------------------- MODULE TuningTransaction ---------------------------
(***************************************************************************)
(* The authoritative transaction of Phase 11 (zyrquenAdapter.ts).  One     *)
(* transaction is kept in localStorage for all pages.  A page works on     *)
(* copies of it: one of its operations console                             *)
(* (CommandCenterOperationsConsole.tsx) and, while the self-tuning module  *)
(* is open in that console, one of SelfTuningConsole.tsx.  A proposal is   *)
(* staged, approved once, executed, and its transaction finalized; the     *)
(* idempotency guard compares a copy with the stored transaction.          *)
(*                                                                         *)
(* A transaction is identified by its proposal, from which its three ids   *)
(* are made.  Its audit trail is newest first.                             *)
(***************************************************************************)
EXTENDS Naturals, Sequences, SequencesExt

CONSTANTS
    Pages,        \* tabs of the application
    TuningPages,  \* bound: those that open the self-tuning module
    Canonical11,  \* the proposal of the transaction the program starts with
    Offered,      \* proposals the AI workspace offers to stage, any number of times
    Probed,       \* the proposal that the coverage view's probe stages
    NoView,       \* a console that is not mounted
    MaxTrail,     \* bound: entries of the audit trail
    MaxLate       \* bound: late executions of one proposal

VARIABLES
    authoritativeTx,     \* the transaction in localStorage
    operations,    \* per page: copy and approval modal of the operations console
    selfTuning,      \* per page: copy and stage of the self-tuning module
    executed,   \* history: executions of each proposal
    opened,     \* history: how often each proposal's transaction took the place of
                \* another proposal's
    late,       \* history: executions of each proposal by a copy that another
                \* page's write had overtaken
    confirmed   \* history: executions through an operations console

histories == <<executed, opened, late, confirmed>>
tuningVars == <<authoritativeTx, operations, selfTuning, histories>>

Proposals == {Canonical11, Probed} \cup Offered
Entries11 == [event : {"staged", "blocked", "locked"}, proposal : Proposals]
Transactions ==
    [proposal : Proposals, finalized : BOOLEAN, mutations : Nat, trail : Seq(Entries11)]

(* The two kinds of copies. *)
Consoles == [tx : Transactions, modal : BOOLEAN, behind : BOOLEAN]
Tuners == [tx : Transactions, stage : {"idle", "approval", "final"}, behind : BOOLEAN]

ASSUME NoViewAssumption == NoView \notin Consoles \cup Tuners

Entry11(event, tx) == [event |-> event, proposal |-> tx.proposal]
Noted(event, tx) == [tx EXCEPT !.trail = <<Entry11(event, tx)>> \o @]

-----------------------------------------------------------------------------
(* The functions of the adapter, on transactions. *)

(* Mutant: the staged transaction starts an audit trail of its own. *)
StagedAlone(current, proposal) ==
    IF current.proposal = proposal /\ current.finalized
    THEN current
    ELSE Noted("staged", [current EXCEPT !.proposal = proposal, !.finalized = FALSE,
                                         !.trail = <<>>])

Staged(current, proposal) ==
    IF current.proposal = proposal /\ current.finalized
    THEN current
    ELSE Noted("staged", [current EXCEPT !.proposal = proposal, !.finalized = FALSE])

(* Mutant: the guard trusts the copy's own flag. *)
BlocksByCopy(tx, current) == tx.proposal = current.proposal /\ tx.finalized

(* The guard: tx is a page's copy, current the stored transaction. *)
Blocks(tx, current) == tx.proposal = current.proposal /\ current.finalized

Finalized(tx) ==
    LET done == [tx EXCEPT !.finalized = TRUE] IN
    IF Contains(tx.trail, Entry11("locked", tx)) THEN done ELSE Noted("locked", done)

CanonicalTransaction ==
    Noted("locked", [proposal |-> Canonical11, finalized |-> TRUE, mutations |-> 1, trail |-> <<>>])

-----------------------------------------------------------------------------
ConsoleOf(tx) == [tx |-> tx, modal |-> FALSE, behind |-> FALSE]
TunerOf(tx) ==
    [tx |-> tx, stage |-> IF tx.finalized THEN "final" ELSE "approval", behind |-> FALSE]

(* What a write by page p makes of the copies of the other pages. *)
Overtaken(views, p) ==
    [q \in Pages |-> IF q = p \/ views[q] = NoView THEN views[q]
                     ELSE [views[q] EXCEPT !.behind = TRUE]]

(* Page p writes tx and its own views become c and t.  The first conjunct  *)
(* bounds the model: nothing is written any more when a trail is full or a *)
(* proposal has had its late executions.                                   *)
Writes(p, tx, c, t) ==
    /\ Len(tx.trail) <= MaxTrail /\ \A a \in Proposals : late[a] < MaxLate
    /\ authoritativeTx' = tx
    /\ operations' = [Overtaken(operations, p) EXCEPT ![p] = c]
    /\ selfTuning' = [Overtaken(selfTuning, p) EXCEPT ![p] = t]

(* History of a staging, and of a copy that is finalized. *)
Displaces(tx) ==
    /\ opened' = IF tx.proposal = authoritativeTx.proposal THEN opened
                 ELSE [opened EXCEPT ![tx.proposal] = @ + 1]
    /\ UNCHANGED <<executed, late, confirmed>>

Executes(view, count) ==
    LET a == view.tx.proposal IN
    /\ executed' = [executed EXCEPT ![a] = @ + 1]
    /\ late' = IF view.behind THEN [late EXCEPT ![a] = @ + 1] ELSE late
    /\ confirmed' = confirmed + count
    /\ UNCHANGED opened

TuningInit ==
    /\ authoritativeTx = CanonicalTransaction
    /\ operations = [p \in Pages |-> NoView]
    /\ selfTuning = [p \in Pages |-> NoView]
    /\ executed = [a \in Proposals |-> IF a = Canonical11 THEN 1 ELSE 0]
    /\ opened = executed
    /\ late = [a \in Proposals |-> 0]
    /\ confirmed = 0

-----------------------------------------------------------------------------
(* The operations console. *)

InOperations(p) == operations[p] # NoView /\ selfTuning[p] = NoView

Mount(p) ==
    /\ operations[p] = NoView
    /\ operations' = [operations EXCEPT ![p] = ConsoleOf(authoritativeTx)]
    /\ UNCHANGED <<authoritativeTx, selfTuning, histories>>

(* Another view is shown, or the page is closed. *)
Unmount(p) ==
    /\ operations[p] # NoView
    /\ operations' = [operations EXCEPT ![p] = NoView]
    /\ selfTuning' = [selfTuning EXCEPT ![p] = NoView]
    /\ UNCHANGED <<authoritativeTx, histories>>

SelectWritePreset(p) ==
    /\ InOperations(p) /\ ~operations[p].modal
    /\ operations' = [operations EXCEPT ![p] = ConsoleOf(authoritativeTx)]
    /\ UNCHANGED <<authoritativeTx, selfTuning, histories>>

RequestApproval(p) ==
    /\ InOperations(p) /\ ~operations[p].modal
    /\ IF Blocks(operations[p].tx, authoritativeTx)
       THEN LET tx == Noted("blocked", authoritativeTx) IN Writes(p, tx, ConsoleOf(tx), NoView)
       ELSE /\ operations' = [operations EXCEPT ![p].modal = TRUE]
            /\ UNCHANGED <<authoritativeTx, selfTuning>>
    /\ UNCHANGED histories

(* The effect of a proposal routed to the console: staging, and the        *)
(* request for its approval.  The console leaves the self-tuning module.   *)
(* While a modal covers the page only a voice command arrives here, and    *)
(* its proposal has an id of its own.                                      *)
StageRequest(p, proposal) ==
    /\ operations[p] # NoView
    /\ operations[p].modal => proposal # authoritativeTx.proposal
    /\ LET tx == Staged(authoritativeTx, proposal)
           blocked == Noted("blocked", tx)
       IN /\ IF Blocks(tx, tx)
             THEN Writes(p, blocked, [ConsoleOf(blocked) EXCEPT !.modal = operations[p].modal], NoView)
             ELSE Writes(p, tx, [ConsoleOf(tx) EXCEPT !.modal = TRUE], NoView)
          /\ Displaces(tx)

CancelApproval(p) ==
    /\ operations[p] # NoView /\ operations[p].modal
    /\ operations' = [operations EXCEPT ![p].modal = FALSE]
    /\ UNCHANGED <<authoritativeTx, selfTuning, histories>>

(* The guard is not asked again here. *)
ConfirmApprovalAndExecute(p) ==
    /\ operations[p] # NoView /\ operations[p].modal
    /\ LET tx == Finalized([operations[p].tx EXCEPT !.mutations = @ + 1])
       IN Writes(p, tx, ConsoleOf(tx), selfTuning[p])
    /\ Executes(operations[p], 1)

(* The signature probe of the coverage view, which a page shows instead of *)
(* the console: it stages a proposal and is then refused.                  *)
ProbeSignatureGate(p) ==
    /\ operations[p] = NoView
    /\ LET tx == Staged(authoritativeTx, Probed)
       IN tx # authoritativeTx /\ Writes(p, tx, NoView, NoView) /\ Displaces(tx)

-----------------------------------------------------------------------------
(* The self-tuning module.  Its stages follow one another by effects, so   *)
(* that inspection leads to "approval" and an approval to the end of the   *)
(* cycle: "final", or "idle" after a rollback.                             *)

OpenTuner(p) ==
    /\ p \in TuningPages /\ InOperations(p) /\ ~operations[p].modal
    /\ selfTuning' = [selfTuning EXCEPT ![p] = TunerOf(authoritativeTx)]
    /\ UNCHANGED <<authoritativeTx, operations, histories>>

CloseTuner(p) ==
    /\ selfTuning[p] # NoView
    /\ selfTuning' = [selfTuning EXCEPT ![p] = NoView]
    /\ UNCHANGED <<authoritativeTx, operations, histories>>

(* A proposal rejected, the core guard tested, a target selected. *)
ResetTuner(p) ==
    /\ selfTuning[p] # NoView
    /\ selfTuning' = [selfTuning EXCEPT ![p].stage = "idle"]
    /\ UNCHANGED <<authoritativeTx, operations, histories>>

TunerBlocked(p) ==
    /\ Blocks(selfTuning[p].tx, authoritativeTx)
    /\ LET tx == Noted("blocked", authoritativeTx)
       IN Writes(p, tx, operations[p], [TunerOf(tx) EXCEPT !.stage = "final"])
    /\ UNCHANGED histories

RunInspectEngine(p) ==
    /\ selfTuning[p] # NoView /\ selfTuning[p].stage = "idle"
    /\ \/ TunerBlocked(p)
       \/ /\ ~Blocks(selfTuning[p].tx, authoritativeTx)
          /\ selfTuning' = [selfTuning EXCEPT ![p].stage = "approval"]
          /\ UNCHANGED <<authoritativeTx, operations, histories>>

(* The effects that follow an approval: the change is applied and tested,  *)
(* and the copy finalized, or the change is rolled back and the            *)
(* transaction stays as it was.                                            *)
RunCycle(p) ==
    \/ /\ LET tx == Finalized(selfTuning[p].tx) IN Writes(p, tx, operations[p], TunerOf(tx))
       /\ Executes(selfTuning[p], 0)
    \/ /\ selfTuning' = [selfTuning EXCEPT ![p].stage = "idle"]
       /\ UNCHANGED <<authoritativeTx, operations, histories>>

ApproveProposal(p) ==
    /\ selfTuning[p] # NoView /\ selfTuning[p].stage = "approval"
    /\ \/ TunerBlocked(p)
       \/ ~Blocks(selfTuning[p].tx, authoritativeTx) /\ RunCycle(p)

TuningNext ==
    \E p \in Pages :
        \/ Mount(p) \/ Unmount(p)
        \/ SelectWritePreset(p)
        \/ RequestApproval(p) \/ CancelApproval(p)
        \/ \E a \in Offered : StageRequest(p, a)
        \/ ConfirmApprovalAndExecute(p)
        \/ ProbeSignatureGate(p)
        \/ OpenTuner(p) \/ CloseTuner(p) \/ ResetTuner(p)
        \/ RunInspectEngine(p) \/ ApproveProposal(p)

TuningSpec == TuningInit /\ [][TuningNext]_tuningVars

-----------------------------------------------------------------------------
(* Types. *)
TuningTypeOK ==
    /\ authoritativeTx \in Transactions
    /\ operations \in [Pages -> Consoles \cup {NoView}]
    /\ selfTuning \in [Pages -> Tuners \cup {NoView}]
    /\ executed \in [Proposals -> Nat]
    /\ opened \in [Proposals -> Nat]
    /\ late \in [Proposals -> Nat]
    /\ confirmed \in Nat

(* What is about to be executed is the stored transaction, still open,     *)
(* unless another page has written since the copy was made: an open        *)
(* approval modal and a mounted self-tuning module show no older one, even *)
(* though the two consoles of a page each keep a copy and finalize it      *)
(* without regard to the other's (CommandCenterOperationsConsole.tsx:1133, *)
(* SelfTuningConsole.tsx:532).                                             *)
CopiesCurrent ==
    \A p \in Pages :
        /\ (operations[p] # NoView /\ operations[p].modal /\ ~operations[p].behind) =>
              operations[p].tx = authoritativeTx /\ ~authoritativeTx.finalized
        /\ (selfTuning[p] # NoView /\ ~selfTuning[p].behind) => selfTuning[p].tx = authoritativeTx

(* Every execution is accounted for: a proposal is executed once for each  *)
(* time it took another's place, however often it was staged and through   *)
(* whichever console it was approved, and beyond that only by a copy that  *)
(* another page has overtaken; while the stored transaction is open its    *)
(* execution is still owed, and a finalized one has been executed          *)
(* (stageNewProposalTransaction, finalizePhase11Transaction and the guards *)
(* of the two consoles).                                                   *)
ExecutionsAccounted ==
    /\ \A a \in Proposals : executed[a] <= opened[a] + late[a]
    /\ LET a == authoritativeTx.proposal IN
       IF authoritativeTx.finalized THEN executed[a] > 0 ELSE executed[a] < opened[a] + late[a]

(* No mutation is counted that no operations console made, and none is     *)
(* lost but by a late execution, which writes its copy's count.            *)
MutationsCounted ==
    /\ authoritativeTx.mutations <= 1 + confirmed
    /\ (\A a \in Proposals : late[a] = 0) => authoritativeTx.mutations = 1 + confirmed

(* The invariant of the transaction. *)
TuningInv == CopiesCurrent /\ ExecutionsAccounted /\ MutationsCounted

Continues(new, old) ==
    \E n \in 0..Len(new) : old = SubSeq(new, n + 1, Len(new))

(* The audit trail only grows: staging, blocking and finalizing keep all   *)
(* entries, but for a late execution, which brings its copy's trail back.  *)
TrailKept == [][late' # late \/ Continues(authoritativeTx'.trail, authoritativeTx.trail)]_tuningVars

(* The comments of the guard and of staging (zyrquenAdapter.ts:659-663,    *)
(* 745-749): a proposal that has been finalized is not executed again.     *)
NoDuplicateExecution == \A a \in Proposals : executed[a] <= 1
=============================================================================
