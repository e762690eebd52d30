------------------------ MODULE TuningTransactionProofs ------------------------
(***************************************************************************)
(* Theorems about TuningTransaction, for any pages and proposals and any   *)
(* bound.                                                                  *)
(***************************************************************************)
EXTENDS TuningTransaction, TLAPS

(* What makes CopiesCurrent inductive.  The self-tuning module lives       *)
(* inside a console whose modal is closed, and is overtaken only together  *)
(* with it.  The console's own copy may be older than what the module has  *)
(* since made of the same transaction, but then that one is finalized, and *)
(* the guard stops the copy.                                               *)
CopyInv(p) ==
    /\ selfTuning[p] # NoView =>
        /\ operations[p] # NoView
        /\ ~operations[p].modal
        /\ selfTuning[p].behind => operations[p].behind
        /\ ~selfTuning[p].behind => selfTuning[p].tx = authoritativeTx
    /\ (operations[p] # NoView /\ ~operations[p].behind) =>
        /\ operations[p].tx.proposal = authoritativeTx.proposal
        /\ ~authoritativeTx.finalized => operations[p].tx = authoritativeTx
        /\ operations[p].modal => ~authoritativeTx.finalized

(* What makes MutationsCounted inductive: no copy, overtaken or not,       *)
(* counts more mutations than the n that were confirmed and the first.     *)
Counts(view, n) == view # NoView => view.tx.mutations <= 1 + n

TuningIInv ==
    /\ TuningTypeOK
    /\ \A p \in Pages : CopyInv(p)
    /\ \A p \in Pages : Counts(operations[p], confirmed) /\ Counts(selfTuning[p], confirmed)
    /\ ExecutionsAccounted
    /\ MutationsCounted

(* The types of the history. *)
HistoryOK ==
    /\ executed' \in [Proposals -> Nat] /\ opened' \in [Proposals -> Nat]
    /\ late' \in [Proposals -> Nat] /\ confirmed' \in Nat

(* The part of the invariant that is about the history. *)
Accounted == ExecutionsAccounted' /\ MutationsCounted'

-----------------------------------------------------------------------------
(* The functions of the adapter. *)

(* A trail continues itself, with or without a new entry in front. *)
LEMMA TrailStays ==
    ASSUME NEW S, NEW trail \in Seq(S)
    PROVE  Continues(trail, trail)
<1>1. trail = SubSeq(trail, 0 + 1, Len(trail))
  OBVIOUS
<1> QED
  BY <1>1 DEF Continues

LEMMA TrailContinues ==
    ASSUME NEW S, NEW trail \in Seq(S), NEW e \in S
    PROVE  /\ <<e>> \o trail \in Seq(S)
           /\ Continues(<<e>> \o trail, trail)
<1>3. /\ <<e>> \o trail \in Seq(S)
      /\ Len(<<e>> \o trail) = Len(trail) + 1
      /\ \A i \in 1..Len(trail) : (<<e>> \o trail)[i + 1] = trail[i]
  OBVIOUS
<1>4. trail = SubSeq(<<e>> \o trail, 1 + 1, Len(<<e>> \o trail))
  BY <1>3
<1>5. Continues(<<e>> \o trail, trail)
  BY <1>3, <1>4 DEF Continues
<1> QED
  BY <1>3, <1>5

(* An entry changes nothing but the trail. *)
LEMMA NotedFacts ==
    ASSUME NEW tx \in Transactions, NEW event \in {"staged", "blocked", "locked"}
    PROVE  /\ Noted(event, tx) \in Transactions
           /\ Noted(event, tx).proposal = tx.proposal
           /\ Noted(event, tx).finalized = tx.finalized
           /\ Noted(event, tx).mutations = tx.mutations
           /\ Continues(Noted(event, tx).trail, tx.trail)
<1>1. Entry11(event, tx) \in Entries11
  BY DEF Entry11, Entries11, Transactions
<1>2. tx.trail \in Seq(Entries11)
  BY DEF Transactions
<1>3. /\ <<Entry11(event, tx)>> \o tx.trail \in Seq(Entries11)
      /\ Continues(<<Entry11(event, tx)>> \o tx.trail, tx.trail)
  BY <1>1, <1>2, TrailContinues
<1> QED
  BY <1>3 DEF Noted, Transactions

(* Staging makes an open transaction of the proposal, or returns the       *)
(* current one, which is then finalized.                                   *)
LEMMA StagedFacts ==
    ASSUME NEW tx \in Transactions, NEW a \in Proposals
    PROVE  /\ Staged(tx, a) \in Transactions
           /\ Staged(tx, a).proposal = a
           /\ Staged(tx, a).mutations = tx.mutations
           /\ Staged(tx, a).finalized => Staged(tx, a) = tx /\ tx.proposal = a
           /\ Staged(tx, a).finalized \in BOOLEAN
           /\ Continues(Staged(tx, a).trail, tx.trail)
<1> DEFINE open == [tx EXCEPT !.proposal = a, !.finalized = FALSE]
<1>1. CASE tx.proposal = a /\ tx.finalized
  <2>1. Continues(tx.trail, tx.trail)
    BY TrailStays DEF Transactions
  <2> QED
    BY <1>1, <2>1 DEF Staged, Transactions
<1>2. CASE ~(tx.proposal = a /\ tx.finalized)
  <2>1. open \in Transactions /\ open.proposal = a /\ open.finalized = FALSE
        /\ open.mutations = tx.mutations /\ open.trail = tx.trail
    BY DEF Transactions
  <2>2. Staged(tx, a) = Noted("staged", open)
    BY <1>2 DEF Staged
  <2> HIDE DEF open
  <2> QED
    BY <2>1, <2>2, NotedFacts DEF Transactions
<1> QED
  BY <1>1, <1>2

(* Finalizing keeps the identity and the count, whether or not the entry   *)
(* of the lock is already there.                                           *)
LEMMA FinalizedFacts ==
    ASSUME NEW tx \in Transactions
    PROVE  /\ Finalized(tx) \in Transactions
           /\ Finalized(tx).proposal = tx.proposal
           /\ Finalized(tx).finalized = TRUE
           /\ Finalized(tx).mutations = tx.mutations
           /\ Continues(Finalized(tx).trail, tx.trail)
<1> DEFINE done == [tx EXCEPT !.finalized = TRUE]
<1>1. done \in Transactions /\ done.proposal = tx.proposal /\ done.finalized = TRUE
      /\ done.mutations = tx.mutations /\ done.trail = tx.trail
  BY DEF Transactions
<1>2. Finalized(tx) = done \/ Finalized(tx) = Noted("locked", done)
  BY DEF Finalized
<1> HIDE DEF done
<1>3. CASE Finalized(tx) = done
  BY <1>1, <1>3, TrailStays DEF Transactions
<1>4. CASE Finalized(tx) = Noted("locked", done)
  BY <1>1, <1>4, NotedFacts
<1> QED
  BY <1>2, <1>3, <1>4

(* A console's confirmation counts one mutation first. *)
LEMMA CountedFacts ==
    ASSUME NEW tx \in Transactions
    PROVE  LET counted == [tx EXCEPT !.mutations = @ + 1] IN
           /\ counted \in Transactions
           /\ counted.proposal = tx.proposal
           /\ counted.mutations = tx.mutations + 1
           /\ counted.trail = tx.trail
BY DEF Transactions

(* Fresh views of a transaction. *)
LEMMA ViewFacts ==
    ASSUME NEW tx \in Transactions
    PROVE  /\ ConsoleOf(tx) \in Consoles
           /\ [ConsoleOf(tx) EXCEPT !.modal = TRUE] \in Consoles
           /\ TunerOf(tx) \in Tuners
           /\ [TunerOf(tx) EXCEPT !.stage = "final"] \in Tuners
           /\ \A b \in BOOLEAN : [ConsoleOf(tx) EXCEPT !.modal = b] \in Consoles
BY DEF ConsoleOf, TunerOf, Consoles, Tuners, Transactions

-----------------------------------------------------------------------------
(* The invariant. *)

LEMMA TuningInitially == TuningInit => TuningIInv
<1> SUFFICES ASSUME TuningInit PROVE TuningIInv
  OBVIOUS
<1> DEFINE none == [proposal |-> Canonical11, finalized |-> TRUE, mutations |-> 1, trail |-> <<>>]
<1>1. none \in Transactions /\ none.proposal = Canonical11 /\ none.finalized = TRUE
      /\ none.mutations = 1
  BY DEF Transactions, Proposals, Entries11
<1> HIDE DEF none
<1>2. /\ authoritativeTx \in Transactions
      /\ authoritativeTx.proposal = Canonical11
      /\ authoritativeTx.finalized = TRUE
      /\ authoritativeTx.mutations = 1
  BY <1>1, NotedFacts DEF TuningInit, CanonicalTransaction, none
<1>3. TuningTypeOK
  BY <1>2 DEF TuningInit, TuningTypeOK
<1>4. \A p \in Pages : CopyInv(p)
  BY DEF TuningInit, CopyInv
<1>5. \A p \in Pages : Counts(operations[p], confirmed) /\ Counts(selfTuning[p], confirmed)
  BY DEF TuningInit, Counts
<1>6. ExecutionsAccounted
  BY <1>2 DEF TuningInit, ExecutionsAccounted, Proposals
<1>7. MutationsCounted
  BY <1>2 DEF TuningInit, MutationsCounted
<1> QED
  BY <1>3, <1>4, <1>5, <1>6, <1>7 DEF TuningIInv

(* A write overtakes the copies of the other pages, about which the        *)
(* invariant then asks little.                                             *)
LEMMA WriteKeepsOthers ==
    ASSUME TuningIInv, NEW p \in Pages, NEW tx \in Transactions,
           NEW c \in Consoles \cup {NoView}, NEW t \in Tuners \cup {NoView},
           Writes(p, tx, c, t)
    PROVE  /\ authoritativeTx' = tx
           /\ operations'[p] = c
           /\ selfTuning'[p] = t
           /\ operations' \in [Pages -> Consoles \cup {NoView}]
           /\ selfTuning' \in [Pages -> Tuners \cup {NoView}]
           /\ \A q \in Pages \ {p} :
                 /\ CopyInv(q)'
                 /\ operations'[q] # NoView =>
                        operations[q] # NoView /\ operations'[q].tx = operations[q].tx
                 /\ selfTuning'[q] # NoView =>
                        selfTuning[q] # NoView /\ selfTuning'[q].tx = selfTuning[q].tx
<1>1. /\ authoritativeTx' = tx
      /\ operations'[p] = c
      /\ selfTuning'[p] = t
  BY DEF Writes, Overtaken
<1>2. ASSUME NEW q \in Pages \ {p}
      PROVE  /\ operations'[q] \in Consoles \cup {NoView}
             /\ selfTuning'[q] \in Tuners \cup {NoView}
             /\ CopyInv(q)'
             /\ operations'[q] # NoView =>
                    operations[q] # NoView /\ operations'[q].tx = operations[q].tx
             /\ selfTuning'[q] # NoView =>
                    selfTuning[q] # NoView /\ selfTuning'[q].tx = selfTuning[q].tx
  <2>1. /\ operations'[q] = IF operations[q] = NoView THEN NoView
                            ELSE [operations[q] EXCEPT !.behind = TRUE]
        /\ selfTuning'[q] = IF selfTuning[q] = NoView THEN NoView
                            ELSE [selfTuning[q] EXCEPT !.behind = TRUE]
    BY <1>2 DEF Writes, Overtaken
  <2>2. /\ operations[q] \in Consoles \cup {NoView}
        /\ selfTuning[q] \in Tuners \cup {NoView}
        /\ CopyInv(q)
    BY <1>2 DEF TuningIInv, TuningTypeOK
  <2>3. operations[q] # NoView =>
          /\ operations'[q] \in Consoles
          /\ operations'[q].behind
          /\ operations'[q].modal = operations[q].modal
    BY <2>1, <2>2 DEF Consoles
  <2>4. selfTuning[q] # NoView => selfTuning'[q] \in Tuners /\ selfTuning'[q].behind
    BY <2>1, <2>2 DEF Tuners
  <2>5. CopyInv(q)'
    BY <2>1, <2>2, <2>3, <2>4, NoViewAssumption DEF CopyInv
  <2>6. operations'[q] # NoView =>
          operations[q] # NoView /\ operations'[q].tx = operations[q].tx
    BY <2>1, <2>2 DEF Consoles
  <2>7. selfTuning'[q] # NoView =>
          selfTuning[q] # NoView /\ selfTuning'[q].tx = selfTuning[q].tx
    BY <2>1, <2>2 DEF Tuners
  <2> QED
    BY <2>1, <2>2, <2>3, <2>4, <2>5, <2>6, <2>7
<1>3. /\ operations' = [q \in Pages |-> operations'[q]]
      /\ selfTuning' = [q \in Pages |-> selfTuning'[q]]
  BY DEF Writes, Overtaken
<1> HIDE DEF Writes
<1>4. \A q \in Pages : /\ operations'[q] \in Consoles \cup {NoView}
                      /\ selfTuning'[q] \in Tuners \cup {NoView}
  BY <1>1, <1>2
<1> QED
  BY <1>1, <1>2, <1>3, <1>4

(* A step that only changes the views of one page. *)
LEMMA LocalStep ==
    ASSUME TuningIInv, NEW p \in Pages,
           NEW c \in Consoles \cup {NoView}, NEW t \in Tuners \cup {NoView},
           operations' = [operations EXCEPT ![p] = c],
           selfTuning' = [selfTuning EXCEPT ![p] = t],
           UNCHANGED <<authoritativeTx, histories>>,
           Counts(c, confirmed), Counts(t, confirmed),
           CopyInv(p)'
    PROVE  TuningIInv'
<1> USE DEF histories
<1>1. \A q \in Pages \ {p} : CopyInv(q)'
  BY DEF TuningIInv, TuningTypeOK, CopyInv
<1>2. TuningTypeOK'
  BY DEF TuningIInv, TuningTypeOK
<1>3. \A q \in Pages : Counts(operations'[q], confirmed') /\ Counts(selfTuning'[q], confirmed')
  <2>1. TAKE q \in Pages
  <2>2. /\ operations'[q] = IF q = p THEN c ELSE operations[q]
        /\ selfTuning'[q] = IF q = p THEN t ELSE selfTuning[q]
        /\ confirmed' = confirmed
    BY DEF TuningIInv, TuningTypeOK
  <2>3. Counts(operations[q], confirmed) /\ Counts(selfTuning[q], confirmed)
    BY DEF TuningIInv
  <2> QED
    BY <2>2, <2>3
<1>4. ExecutionsAccounted'
  BY DEF TuningIInv, ExecutionsAccounted
<1>5. MutationsCounted'
  BY DEF TuningIInv, MutationsCounted
<1> QED
  BY <1>1, <1>2, <1>3, <1>4, <1>5 DEF TuningIInv

(* A write, with what is left to show of it. *)
LEMMA WriteStep ==
    ASSUME TuningIInv, NEW p \in Pages, NEW tx \in Transactions,
           NEW c \in Consoles \cup {NoView}, NEW t \in Tuners \cup {NoView},
           Writes(p, tx, c, t), HistoryOK, confirmed' >= confirmed,
           Counts(c, confirmed'), Counts(t, confirmed'),
           CopyInv(p)', Accounted
    PROVE  TuningIInv'
<1>1. /\ authoritativeTx' \in Transactions
      /\ operations' \in [Pages -> Consoles \cup {NoView}]
      /\ selfTuning' \in [Pages -> Tuners \cup {NoView}]
      /\ \A q \in Pages : CopyInv(q)'
  BY WriteKeepsOthers
<1>2. operations'[p] = c /\ selfTuning'[p] = t
  BY WriteKeepsOthers
<1>3. ASSUME NEW q \in Pages \ {p}
      PROVE  Counts(operations'[q], confirmed') /\ Counts(selfTuning'[q], confirmed')
  <2>1. /\ operations'[q] # NoView =>
              operations[q] # NoView /\ operations'[q].tx = operations[q].tx
        /\ selfTuning'[q] # NoView =>
              selfTuning[q] # NoView /\ selfTuning'[q].tx = selfTuning[q].tx
    BY <1>3, WriteKeepsOthers
  <2>2. Counts(operations[q], confirmed) /\ Counts(selfTuning[q], confirmed)
    BY <1>3 DEF TuningIInv
  <2>3. /\ operations[q] # NoView => operations[q].tx.mutations \in Nat
        /\ selfTuning[q] # NoView => selfTuning[q].tx.mutations \in Nat
        /\ confirmed \in Nat /\ confirmed' \in Nat
    BY <1>3 DEF TuningIInv, TuningTypeOK, Consoles, Tuners, Transactions, HistoryOK
  <2> QED
    BY <2>1, <2>2, <2>3 DEF Counts
<1>4. \A q \in Pages : Counts(operations'[q], confirmed') /\ Counts(selfTuning'[q], confirmed')
  BY <1>2, <1>3
<1>5. TuningTypeOK'
  BY <1>1 DEF TuningTypeOK, HistoryOK
<1> QED
  BY <1>1, <1>4, <1>5 DEF TuningIInv, Accounted

(* The guard's refusal: the stored transaction gets an entry. *)
LEMMA RefusalKeeps ==
    ASSUME TuningIInv, NEW p \in Pages,
           NEW c \in Consoles \cup {NoView}, NEW t \in Tuners \cup {NoView},
           Writes(p, Noted("blocked", authoritativeTx), c, t),
           UNCHANGED histories,
           Counts(c, confirmed), Counts(t, confirmed), CopyInv(p)'
    PROVE  TuningIInv' /\ Continues(authoritativeTx'.trail, authoritativeTx.trail)
<1> DEFINE tx == Noted("blocked", authoritativeTx)
<1>1. /\ tx \in Transactions
      /\ tx.proposal = authoritativeTx.proposal
      /\ tx.finalized = authoritativeTx.finalized
      /\ tx.mutations = authoritativeTx.mutations
      /\ Continues(tx.trail, authoritativeTx.trail)
  BY NotedFacts DEF TuningIInv, TuningTypeOK
<1>2. authoritativeTx' = tx
  BY DEF Writes
<1> HIDE DEF tx
<1>3. Accounted
  <2>1. ExecutionsAccounted'
    BY <1>1, <1>2 DEF TuningIInv, ExecutionsAccounted, histories
  <2>2. MutationsCounted'
    BY <1>1, <1>2 DEF TuningIInv, MutationsCounted, histories
  <2> QED
    BY <2>1, <2>2 DEF Accounted
<1>4. HistoryOK /\ confirmed' = confirmed /\ confirmed' >= confirmed
  BY DEF TuningIInv, TuningTypeOK, HistoryOK, histories
<1>5. Writes(p, tx, c, t)
  BY DEF tx
<1>6. TuningIInv'
  BY <1>1, <1>3, <1>4, <1>5, WriteStep
<1> QED
  BY <1>1, <1>2, <1>6

-----------------------------------------------------------------------------
(* The actions.  Each keeps the invariant, and the trail goes on unless a  *)
(* copy executes late.                                                     *)

Step == TuningIInv' /\ (late' # late \/ Continues(authoritativeTx'.trail, authoritativeTx.trail))

(* Steps of one page that write nothing. *)
LEMMA LocalKeeps ==
    ASSUME TuningIInv, NEW p \in Pages,
           NEW c \in Consoles \cup {NoView}, NEW t \in Tuners \cup {NoView},
           operations' = [operations EXCEPT ![p] = c],
           selfTuning' = [selfTuning EXCEPT ![p] = t],
           UNCHANGED <<authoritativeTx, histories>>,
           Counts(c, confirmed), Counts(t, confirmed),
           CopyInv(p)'
    PROVE  Step
<1>1. Continues(authoritativeTx'.trail, authoritativeTx.trail)
  BY TrailStays DEF TuningIInv, TuningTypeOK, Transactions
<1> QED
  BY <1>1, LocalStep DEF Step

(* A view of the stored transaction counts what that one counts.           *)
LEMMA StoredCounts ==
    ASSUME TuningIInv, NEW view, view.tx.mutations = authoritativeTx.mutations
    PROVE  Counts(view, confirmed)
BY DEF TuningIInv, MutationsCounted, Counts

LEMMA OwnCounts ==
    ASSUME TuningIInv, NEW p \in Pages
    PROVE  /\ Counts(operations[p], confirmed) /\ Counts(selfTuning[p], confirmed)
           /\ Counts(NoView, confirmed)
BY DEF TuningIInv, Counts

LEMMA MountKeeps == ASSUME TuningIInv, NEW p \in Pages, Mount(p) PROVE Step
<1>1. ConsoleOf(authoritativeTx) \in Consoles
  BY ViewFacts DEF TuningIInv, TuningTypeOK
<1>2. selfTuning' = [selfTuning EXCEPT ![p] = NoView]
  BY DEF Mount, TuningIInv, TuningTypeOK, CopyInv
<1>3. operations'[p] = ConsoleOf(authoritativeTx) /\ selfTuning'[p] = NoView
  BY <1>2 DEF Mount, TuningIInv, TuningTypeOK
<1>4. CopyInv(p)'
  BY <1>3 DEF Mount, CopyInv, ConsoleOf
<1>5. Counts(ConsoleOf(authoritativeTx), confirmed) /\ Counts(NoView, confirmed)
  BY StoredCounts, OwnCounts DEF ConsoleOf
<1> QED
  BY <1>1, <1>2, <1>4, <1>5, LocalKeeps DEF Mount

LEMMA UnmountKeeps == ASSUME TuningIInv, NEW p \in Pages, Unmount(p) PROVE Step
<1>1. operations'[p] = NoView /\ selfTuning'[p] = NoView
  BY DEF Unmount, TuningIInv, TuningTypeOK
<1>2. CopyInv(p)'
  BY <1>1 DEF CopyInv
<1> QED
  BY <1>2, OwnCounts, LocalKeeps DEF Unmount

LEMMA SelectWritePresetKeeps == ASSUME TuningIInv, NEW p \in Pages, SelectWritePreset(p) PROVE Step
<1>1. ConsoleOf(authoritativeTx) \in Consoles
  BY ViewFacts DEF TuningIInv, TuningTypeOK
<1>2. selfTuning' = [selfTuning EXCEPT ![p] = NoView]
  BY DEF SelectWritePreset, InOperations, TuningIInv, TuningTypeOK
<1>3. operations'[p] = ConsoleOf(authoritativeTx) /\ selfTuning'[p] = NoView
  BY <1>2 DEF SelectWritePreset, TuningIInv, TuningTypeOK
<1>4. CopyInv(p)'
  BY <1>3 DEF SelectWritePreset, CopyInv, ConsoleOf
<1>5. Counts(ConsoleOf(authoritativeTx), confirmed) /\ Counts(NoView, confirmed)
  BY StoredCounts, OwnCounts DEF ConsoleOf
<1> QED
  BY <1>1, <1>2, <1>4, <1>5, LocalKeeps DEF SelectWritePreset

(* The guard admits a copy that is not overtaken only if it is the stored  *)
(* transaction, still open; a refusal replaces the copy.                   *)
LEMMA RequestApprovalKeeps == ASSUME TuningIInv, NEW p \in Pages, RequestApproval(p) PROVE Step
<1>1. authoritativeTx \in Transactions
      /\ operations[p] \in Consoles /\ operations[p] # NoView /\ selfTuning[p] = NoView
  BY DEF RequestApproval, InOperations, TuningIInv, TuningTypeOK
<1>2. CASE Blocks(operations[p].tx, authoritativeTx)
  <2> DEFINE tx == Noted("blocked", authoritativeTx)
  <2>1. tx \in Transactions /\ ConsoleOf(tx) \in Consoles
    BY <1>1, NotedFacts, ViewFacts
  <2>2. Writes(p, tx, ConsoleOf(tx), NoView) /\ UNCHANGED histories
    BY <1>2 DEF RequestApproval
  <2> HIDE DEF tx
  <2>3. authoritativeTx' = tx /\ operations'[p] = ConsoleOf(tx) /\ selfTuning'[p] = NoView
    BY <2>1, <2>2, WriteKeepsOthers
  <2>4. CopyInv(p)'
    BY <2>3 DEF CopyInv, ConsoleOf
  <2>5. ConsoleOf(tx).tx.mutations = authoritativeTx.mutations
    BY <1>1, NotedFacts DEF ConsoleOf, tx
  <2>6. Counts(ConsoleOf(tx), confirmed) /\ Counts(NoView, confirmed)
    BY <2>5, StoredCounts, OwnCounts
  <2> QED
    BY <2>1, <2>2, <2>4, <2>6, RefusalKeeps DEF Step, tx
<1>3. CASE ~Blocks(operations[p].tx, authoritativeTx)
  <2> DEFINE c == [operations[p] EXCEPT !.modal = TRUE]
  <2>1. c \in Consoles /\ c.tx = operations[p].tx /\ c.modal /\ c.behind = operations[p].behind
    BY <1>1 DEF Consoles
  <2>2. operations' = [operations EXCEPT ![p] = c]
        /\ UNCHANGED <<authoritativeTx, selfTuning, histories>>
    BY <1>3 DEF RequestApproval
  <2> HIDE DEF c
  <2>3. operations'[p] = c /\ selfTuning' = [selfTuning EXCEPT ![p] = NoView] /\ selfTuning'[p] = NoView
    BY <1>1, <2>2 DEF TuningIInv, TuningTypeOK
  <2>4. CopyInv(p)'
    BY <1>1, <1>3, <2>1, <2>2, <2>3 DEF TuningIInv, CopyInv, Blocks
  <2>5. Counts(c, confirmed) /\ Counts(NoView, confirmed)
    BY <1>1, <2>1, OwnCounts DEF Counts
  <2> QED
    BY <2>1, <2>2, <2>3, <2>4, <2>5, LocalKeeps
<1> QED
  BY <1>2, <1>3

LEMMA CancelApprovalKeeps == ASSUME TuningIInv, NEW p \in Pages, CancelApproval(p) PROVE Step
<1> DEFINE c == [operations[p] EXCEPT !.modal = FALSE]
<1>1. operations[p] \in Consoles /\ operations[p] # NoView /\ operations[p].modal
      /\ selfTuning[p] = NoView
  BY DEF CancelApproval, TuningIInv, TuningTypeOK, CopyInv
<1>2. c \in Consoles /\ c.tx = operations[p].tx /\ ~c.modal /\ c.behind = operations[p].behind
  BY <1>1 DEF Consoles
<1>3. operations' = [operations EXCEPT ![p] = c]
      /\ UNCHANGED <<authoritativeTx, selfTuning, histories>>
  BY DEF CancelApproval
<1> HIDE DEF c
<1>4. operations'[p] = c /\ selfTuning' = [selfTuning EXCEPT ![p] = NoView] /\ selfTuning'[p] = NoView
  BY <1>1, <1>3 DEF TuningIInv, TuningTypeOK
<1>5. CopyInv(p)'
  BY <1>1, <1>2, <1>3, <1>4 DEF TuningIInv, CopyInv
<1>6. Counts(c, confirmed) /\ Counts(NoView, confirmed)
  BY <1>1, <1>2, OwnCounts DEF Counts
<1> QED
  BY <1>2, <1>3, <1>4, <1>5, <1>6, LocalKeeps

-----------------------------------------------------------------------------
(* Staging and executing. *)

(* What staging does to the history. *)
LEMMA StagingCounts ==
    ASSUME TuningIInv, NEW a \in Proposals, NEW tx \in Transactions,
           tx = Staged(authoritativeTx, a), Displaces(tx),
           authoritativeTx'.proposal = tx.proposal,
           authoritativeTx'.finalized = tx.finalized,
           authoritativeTx'.mutations = tx.mutations
    PROVE  Accounted /\ HistoryOK /\ confirmed' = confirmed /\ confirmed' >= confirmed
<1>1. /\ tx.proposal = a
      /\ tx.mutations = authoritativeTx.mutations
      /\ tx.finalized => tx = authoritativeTx
      /\ a = authoritativeTx.proposal /\ authoritativeTx.finalized => tx = authoritativeTx
  BY StagedFacts DEF TuningIInv, TuningTypeOK, Staged
<1>2. /\ executed \in [Proposals -> Nat] /\ opened \in [Proposals -> Nat]
      /\ late \in [Proposals -> Nat] /\ confirmed \in Nat
  BY DEF TuningIInv, TuningTypeOK
<1>3. executed' = executed /\ late' = late /\ confirmed' = confirmed
  BY DEF Displaces
<1>4. HistoryOK /\ confirmed' >= confirmed
  <2>1. opened' \in [Proposals -> Nat]
    BY <1>1, <1>2 DEF Displaces
  <2>2. confirmed' >= confirmed
    BY <1>2, <1>3
  <2> QED
    BY <1>2, <1>3, <2>1, <2>2 DEF HistoryOK
<1>5. MutationsCounted'
  BY <1>1, <1>2, <1>3 DEF TuningIInv, MutationsCounted
<1>6. ExecutionsAccounted'
  <2>0. /\ \A b \in Proposals : executed[b] <= opened[b] + late[b]
        /\ IF authoritativeTx.finalized THEN executed[authoritativeTx.proposal] > 0
           ELSE executed[authoritativeTx.proposal]
                < opened[authoritativeTx.proposal] + late[authoritativeTx.proposal]
    BY DEF TuningIInv, ExecutionsAccounted
  <2>1. CASE a = authoritativeTx.proposal
    <3>1. opened' = opened
      BY <1>1, <2>1 DEF Displaces
    <3>2. tx.finalized <=> authoritativeTx.finalized
      BY <1>1, <2>1
    <3> QED
      BY <1>1, <1>3, <2>0, <2>1, <3>1, <3>2 DEF ExecutionsAccounted
  <2>2. CASE a # authoritativeTx.proposal
    <3>1. opened' = [opened EXCEPT ![a] = @ + 1]
      BY <1>1, <2>2 DEF Displaces
    <3>2. ~tx.finalized
      BY <1>1, <2>2
    <3>3. /\ \A b \in Proposals : executed[b] <= opened'[b] + late[b]
          /\ executed[a] < opened'[a] + late[a]
      BY <1>2, <2>0, <3>1
    <3> QED
      BY <1>1, <1>3, <3>2, <3>3 DEF ExecutionsAccounted
  <2> QED
    BY <2>1, <2>2
<1> QED
  BY <1>3, <1>4, <1>5, <1>6 DEF Accounted

(* What an execution does to it: a view that is not overtaken executes an  *)
(* open transaction, whose execution is still owed; one that is overtaken  *)
(* is counted as late.                                                     *)
LEMMA ExecutionCounts ==
    ASSUME TuningIInv, NEW view \in Consoles \cup Tuners, NEW count \in Nat,
           Executes(view, count),
           authoritativeTx'.proposal = view.tx.proposal,
           authoritativeTx'.finalized = TRUE,
           authoritativeTx'.mutations = view.tx.mutations + count,
           Counts(view, confirmed),
           ~view.behind => view.tx = authoritativeTx /\ ~authoritativeTx.finalized
    PROVE  /\ Accounted /\ HistoryOK /\ confirmed' = confirmed + count
           /\ view.behind => late' # late
<1> DEFINE a == view.tx.proposal
<1>1. /\ view.tx \in Transactions /\ view.behind \in BOOLEAN /\ a \in Proposals
      /\ view.tx.mutations \in Nat
  BY DEF Consoles, Tuners, Transactions
<1>2. /\ executed \in [Proposals -> Nat] /\ opened \in [Proposals -> Nat]
      /\ late \in [Proposals -> Nat] /\ confirmed \in Nat
  BY DEF TuningIInv, TuningTypeOK
<1>3. /\ late' = IF view.behind THEN [late EXCEPT ![a] = @ + 1] ELSE late
      /\ executed' = [executed EXCEPT ![a] = @ + 1]
      /\ confirmed' = confirmed + count
      /\ opened' = opened
  BY DEF Executes
<1>4. view # NoView
  BY NoViewAssumption
<1>5. /\ \A b \in Proposals : executed[b] <= opened[b] + late[b]
      /\ ~view.behind => executed[a] < opened[a] + late[a]
  BY DEF TuningIInv, ExecutionsAccounted
<1>6. /\ view.tx.mutations <= 1 + confirmed
      /\ ~view.behind /\ (\A b \in Proposals : late[b] = 0) => view.tx.mutations = 1 + confirmed
  BY <1>4 DEF TuningIInv, MutationsCounted, Counts
<1>7. authoritativeTx'.proposal = a
  OBVIOUS
<1> HIDE DEF a
<1>8. HistoryOK
  BY <1>1, <1>2, <1>3 DEF HistoryOK
<1>9. view.behind => late'[a] = late[a] + 1 /\ late' # late
  BY <1>1, <1>2, <1>3
<1>10. ExecutionsAccounted'
  <2>1. \A b \in Proposals : executed'[b] <= opened'[b] + late'[b]
    BY <1>1, <1>2, <1>3, <1>5
  <2>2. executed'[a] > 0
    BY <1>1, <1>2, <1>3
  <2> QED
    BY <1>7, <2>1, <2>2 DEF ExecutionsAccounted
<1>11. MutationsCounted'
  <2>1. authoritativeTx'.mutations <= 1 + confirmed'
    BY <1>1, <1>2, <1>3, <1>6
  <2>2. ASSUME \A b \in Proposals : late'[b] = 0
        PROVE  authoritativeTx'.mutations = 1 + confirmed'
    <3>1. ~view.behind
      BY <1>1, <1>2, <1>9, <2>2
    <3>2. view.tx.mutations = 1 + confirmed
      BY <1>3, <1>6, <2>2, <3>1
    <3> QED
      BY <1>1, <1>2, <1>3, <3>2
  <2> QED
    BY <2>1, <2>2 DEF MutationsCounted
<1> QED
  BY <1>3, <1>8, <1>9, <1>10, <1>11 DEF Accounted

LEMMA StageRequestKeeps ==
    ASSUME TuningIInv, NEW p \in Pages, NEW a \in Offered, StageRequest(p, a) PROVE Step
<1> DEFINE tx == Staged(authoritativeTx, a)
           blocked == Noted("blocked", tx)
<1>1. /\ authoritativeTx \in Transactions /\ a \in Proposals
      /\ operations[p] \in Consoles /\ operations[p] # NoView
  BY DEF StageRequest, TuningIInv, TuningTypeOK, Proposals
<1>2. /\ tx \in Transactions
      /\ tx.proposal = a
      /\ tx.mutations = authoritativeTx.mutations
      /\ tx.finalized => tx = authoritativeTx
      /\ Continues(tx.trail, authoritativeTx.trail)
  BY <1>1, StagedFacts
<1>3. Displaces(tx)
  BY DEF StageRequest
<1>4. CASE tx.finalized
  <2>1. tx = authoritativeTx /\ ~operations[p].modal
    BY <1>1, <1>2, <1>4 DEF StageRequest
  <2>2. blocked \in Transactions /\ blocked.mutations = tx.mutations
    BY <1>2, NotedFacts
  <2>3. Writes(p, blocked, [ConsoleOf(blocked) EXCEPT !.modal = operations[p].modal], NoView)
    BY <1>4 DEF StageRequest, Blocks
  <2> DEFINE c == [ConsoleOf(blocked) EXCEPT !.modal = operations[p].modal]
  <2>4. c \in Consoles /\ c.tx = blocked /\ c.modal = operations[p].modal
    BY <1>1, <2>2, ViewFacts DEF ConsoleOf, Consoles
  <2>5. blocked = Noted("blocked", authoritativeTx) /\ UNCHANGED histories
    BY <1>3, <1>4, <2>1 DEF Displaces, histories
  <2>9. Counts(c, confirmed) /\ Counts(NoView, confirmed)
    BY <1>2, <2>2, <2>4, StoredCounts, OwnCounts
  <2> HIDE DEF c, blocked, tx
  <2>6. Writes(p, blocked, c, NoView)
    BY <2>3 DEF c
  <2>7. authoritativeTx' = blocked /\ operations'[p] = c /\ selfTuning'[p] = NoView
    BY <2>2, <2>4, <2>6, WriteKeepsOthers
  <2>8. CopyInv(p)'
    BY <2>1, <2>4, <2>7 DEF CopyInv
  <2> QED
    BY <2>4, <2>5, <2>6, <2>8, <2>9, RefusalKeeps DEF Step
<1>5. CASE ~tx.finalized
  <2> DEFINE c == [ConsoleOf(tx) EXCEPT !.modal = TRUE]
  <2>1. Writes(p, tx, c, NoView)
    BY <1>5 DEF StageRequest, Blocks
  <2>2. c \in Consoles /\ c.tx = tx
    BY <1>2, ViewFacts DEF ConsoleOf
  <2>6. Counts(c, confirmed) /\ Counts(NoView, confirmed)
    BY <1>2, <2>2, StoredCounts, OwnCounts
  <2> HIDE DEF c, tx
  <2>3. authoritativeTx' = tx /\ operations'[p] = c /\ selfTuning'[p] = NoView
    BY <1>2, <2>1, <2>2, WriteKeepsOthers
  <2>4. CopyInv(p)'
    BY <1>5, <2>2, <2>3 DEF CopyInv
  <2>5. Accounted /\ HistoryOK /\ confirmed' = confirmed /\ confirmed' >= confirmed
    BY <1>1, <1>2, <1>3, <2>3, StagingCounts DEF tx
  <2> QED
    BY <1>2, <2>1, <2>2, <2>3, <2>4, <2>5, <2>6, WriteStep DEF Step
<1> QED
  BY <1>4, <1>5

LEMMA ConfirmKeeps ==
    ASSUME TuningIInv, NEW p \in Pages, ConfirmApprovalAndExecute(p) PROVE Step
<1> DEFINE copy == operations[p].tx
           counted == [copy EXCEPT !.mutations = @ + 1]
           tx == Finalized(counted)
<1>1. /\ operations[p] \in Consoles /\ operations[p] # NoView /\ operations[p].modal
      /\ selfTuning[p] = NoView
      /\ authoritativeTx \in Transactions
  BY DEF ConfirmApprovalAndExecute, TuningIInv, TuningTypeOK, CopyInv
<1>2. copy \in Transactions
  BY <1>1 DEF Consoles
<1>3. Writes(p, tx, ConsoleOf(tx), NoView) /\ Executes(operations[p], 1)
  BY <1>1 DEF ConfirmApprovalAndExecute
<1> HIDE DEF copy
<1>4. /\ counted \in Transactions /\ counted.proposal = copy.proposal
      /\ counted.mutations = copy.mutations + 1 /\ counted.trail = copy.trail
  BY <1>2, CountedFacts
<1> HIDE DEF counted
<1>5. /\ tx \in Transactions /\ tx.proposal = copy.proposal /\ tx.finalized = TRUE
      /\ tx.mutations = copy.mutations + 1
      /\ Continues(tx.trail, copy.trail)
  BY <1>4, FinalizedFacts
<1> HIDE DEF tx
<1>6. ConsoleOf(tx) \in Consoles
  BY <1>5, ViewFacts
<1>7. authoritativeTx' = tx /\ operations'[p] = ConsoleOf(tx) /\ selfTuning'[p] = NoView
  BY <1>3, <1>5, <1>6, WriteKeepsOthers
<1>8. CopyInv(p)'
  BY <1>7 DEF CopyInv, ConsoleOf
<1>9. ~operations[p].behind => copy = authoritativeTx /\ ~authoritativeTx.finalized
  BY <1>1 DEF TuningIInv, CopyInv, copy
<1>10. /\ Accounted /\ HistoryOK /\ confirmed' = confirmed + 1
       /\ operations[p].behind => late' # late
  BY <1>1, <1>3, <1>5, <1>7, <1>9, OwnCounts, ExecutionCounts DEF copy
<1>11. late' # late \/ Continues(authoritativeTx'.trail, authoritativeTx.trail)
  BY <1>5, <1>7, <1>9, <1>10
<1>12. confirmed \in Nat /\ copy.mutations \in Nat
  BY <1>2 DEF TuningIInv, TuningTypeOK, Transactions
<1>13. copy.mutations <= 1 + confirmed
  BY <1>1, OwnCounts DEF Counts, copy
<1>14. /\ confirmed' >= confirmed
       /\ Counts(ConsoleOf(tx), confirmed') /\ Counts(NoView, confirmed')
  BY <1>5, <1>10, <1>12, <1>13 DEF Counts, ConsoleOf
<1> QED
  BY <1>3, <1>5, <1>6, <1>8, <1>10, <1>11, <1>14, WriteStep DEF Step

LEMMA ProbeKeeps ==
    ASSUME TuningIInv, NEW p \in Pages, ProbeSignatureGate(p) PROVE Step
<1> DEFINE tx == Staged(authoritativeTx, Probed)
<1>1. authoritativeTx \in Transactions /\ Probed \in Proposals
  BY DEF TuningIInv, TuningTypeOK, Proposals
<1>2. tx \in Transactions /\ Continues(tx.trail, authoritativeTx.trail)
  BY <1>1, StagedFacts
<1>3. Writes(p, tx, NoView, NoView) /\ Displaces(tx)
  BY DEF ProbeSignatureGate
<1> HIDE DEF tx
<1>4. authoritativeTx' = tx /\ operations'[p] = NoView /\ selfTuning'[p] = NoView
  BY <1>2, <1>3, WriteKeepsOthers
<1>5. CopyInv(p)'
  BY <1>4 DEF CopyInv
<1>6. Accounted /\ HistoryOK /\ confirmed' = confirmed /\ confirmed' >= confirmed
  BY <1>1, <1>2, <1>3, <1>4, StagingCounts DEF tx
<1>7. Counts(NoView, confirmed')
  BY DEF Counts
<1> QED
  BY <1>2, <1>3, <1>4, <1>5, <1>6, <1>7, WriteStep DEF Step

-----------------------------------------------------------------------------
(* The self-tuning module. *)

LEMMA OpenTunerKeeps == ASSUME TuningIInv, NEW p \in Pages, OpenTuner(p) PROVE Step
<1> DEFINE t == TunerOf(authoritativeTx)
<1>1. t \in Tuners /\ t.tx = authoritativeTx /\ ~t.behind
  BY ViewFacts DEF TuningIInv, TuningTypeOK, TunerOf
<1>2. /\ operations[p] # NoView /\ ~operations[p].modal
      /\ selfTuning' = [selfTuning EXCEPT ![p] = t]
      /\ UNCHANGED <<authoritativeTx, operations, histories>>
  BY DEF OpenTuner, InOperations
<1> HIDE DEF t
<1>3. /\ selfTuning'[p] = t
      /\ operations[p] \in Consoles \cup {NoView}
      /\ operations' = [operations EXCEPT ![p] = operations[p]]
  BY <1>2 DEF TuningIInv, TuningTypeOK
<1>4. CopyInv(p)'
  BY <1>1, <1>2, <1>3 DEF TuningIInv, CopyInv
<1>5. Counts(operations[p], confirmed) /\ Counts(t, confirmed)
  BY <1>1, StoredCounts, OwnCounts
<1> QED
  BY <1>1, <1>2, <1>3, <1>4, <1>5, LocalKeeps

LEMMA CloseTunerKeeps == ASSUME TuningIInv, NEW p \in Pages, CloseTuner(p) PROVE Step
<1>1. /\ selfTuning' = [selfTuning EXCEPT ![p] = NoView]
      /\ UNCHANGED <<authoritativeTx, operations, histories>>
  BY DEF CloseTuner
<1>2. /\ selfTuning'[p] = NoView
      /\ operations[p] \in Consoles \cup {NoView}
      /\ operations' = [operations EXCEPT ![p] = operations[p]]
  BY <1>1 DEF TuningIInv, TuningTypeOK
<1>3. CopyInv(p)'
  BY <1>1, <1>2 DEF TuningIInv, CopyInv
<1> QED
  BY <1>1, <1>2, <1>3, OwnCounts, LocalKeeps

(* The stage of the module is of no account to the invariant. *)
LEMMA TunerStageKeeps ==
    ASSUME TuningIInv, NEW p \in Pages, selfTuning[p] # NoView,
           NEW stage \in {"idle", "approval", "final"},
           selfTuning' = [selfTuning EXCEPT ![p].stage = stage],
           UNCHANGED <<authoritativeTx, operations, histories>>
    PROVE  Step
<1> DEFINE t == [selfTuning[p] EXCEPT !.stage = stage]
<1>1. selfTuning[p] \in Tuners
  BY DEF TuningIInv, TuningTypeOK
<1>2. t \in Tuners /\ t.tx = selfTuning[p].tx /\ t.behind = selfTuning[p].behind
  BY <1>1 DEF Tuners
<1>3. selfTuning' = [selfTuning EXCEPT ![p] = t]
  OBVIOUS
<1> HIDE DEF t
<1>4. /\ selfTuning'[p] = t
      /\ operations[p] \in Consoles \cup {NoView}
      /\ operations' = [operations EXCEPT ![p] = operations[p]]
  BY <1>3 DEF TuningIInv, TuningTypeOK
<1>5. CopyInv(p)'
  BY <1>2, <1>4 DEF TuningIInv, CopyInv
<1>6. Counts(operations[p], confirmed) /\ Counts(t, confirmed)
  BY <1>2, OwnCounts DEF Counts
<1> QED
  BY <1>2, <1>3, <1>4, <1>5, <1>6, LocalKeeps

(* The refusal is written past the console's copy, which the guard will    *)
(* stop in its turn: the transaction is finalized.                         *)
LEMMA TunerBlockedKeeps ==
    ASSUME TuningIInv, NEW p \in Pages, selfTuning[p] # NoView, TunerBlocked(p) PROVE Step
<1> DEFINE tx == Noted("blocked", authoritativeTx)
           t == [TunerOf(tx) EXCEPT !.stage = "final"]
<1>1. authoritativeTx \in Transactions /\ authoritativeTx.finalized
  BY DEF TunerBlocked, Blocks, TuningIInv, TuningTypeOK
<1>2. /\ tx \in Transactions /\ tx.proposal = authoritativeTx.proposal
      /\ tx.finalized = authoritativeTx.finalized
      /\ tx.mutations = authoritativeTx.mutations
  BY <1>1, NotedFacts
<1>3. Writes(p, tx, operations[p], t) /\ UNCHANGED histories
  BY DEF TunerBlocked
<1> HIDE DEF tx
<1>4. t \in Tuners /\ t.tx = tx /\ ~t.behind
  BY <1>2, ViewFacts DEF TunerOf, Tuners
<1>5. operations[p] \in Consoles \cup {NoView}
  BY DEF TuningIInv, TuningTypeOK
<1> HIDE DEF t
<1>6. authoritativeTx' = tx /\ operations'[p] = operations[p] /\ selfTuning'[p] = t
  BY <1>2, <1>3, <1>4, <1>5, WriteKeepsOthers
<1>7. CopyInv(p)'
  BY <1>1, <1>2, <1>4, <1>6 DEF TuningIInv, CopyInv
<1>8. Counts(operations[p], confirmed) /\ Counts(t, confirmed)
  BY <1>2, <1>4, StoredCounts, OwnCounts
<1> QED
  BY <1>3, <1>4, <1>5, <1>7, <1>8, RefusalKeeps DEF Step, tx

LEMMA ResetTunerKeeps == ASSUME TuningIInv, NEW p \in Pages, ResetTuner(p) PROVE Step
BY TunerStageKeeps DEF ResetTuner

LEMMA RunInspectEngineKeeps ==
    ASSUME TuningIInv, NEW p \in Pages, RunInspectEngine(p) PROVE Step
BY TunerBlockedKeeps, TunerStageKeeps DEF RunInspectEngine

(* A module that is not overtaken finalizes the stored transaction, which  *)
(* the guard has just found open.                                          *)
LEMMA RunCycleKeeps ==
    ASSUME TuningIInv, NEW p \in Pages, selfTuning[p] # NoView,
           ~Blocks(selfTuning[p].tx, authoritativeTx), RunCycle(p)
    PROVE  Step
<1> DEFINE copy == selfTuning[p].tx
           tx == Finalized(copy)
<1>1. CASE Writes(p, tx, operations[p], TunerOf(tx)) /\ Executes(selfTuning[p], 0)
  <2>1. /\ selfTuning[p] \in Tuners
        /\ operations[p] \in Consoles \cup {NoView}
        /\ authoritativeTx \in Transactions
    BY DEF TuningIInv, TuningTypeOK
  <2>2. copy \in Transactions
    BY <2>1 DEF Tuners
  <2>3. /\ tx \in Transactions /\ tx.proposal = copy.proposal /\ tx.finalized = TRUE
        /\ tx.mutations = copy.mutations
        /\ Continues(tx.trail, copy.trail)
    BY <2>2, FinalizedFacts
  <2>4. ~selfTuning[p].behind => copy = authoritativeTx /\ ~authoritativeTx.finalized
    BY DEF TuningIInv, CopyInv, Blocks
  <2> HIDE DEF tx
  <2>5. TunerOf(tx) \in Tuners /\ TunerOf(tx).tx = tx /\ ~TunerOf(tx).behind
    BY <2>3, ViewFacts DEF TunerOf
  <2>6. authoritativeTx' = tx /\ operations'[p] = operations[p] /\ selfTuning'[p] = TunerOf(tx)
    BY <1>1, <2>1, <2>3, <2>5, WriteKeepsOthers
  <2>7. selfTuning[p].behind => operations[p].behind
    BY DEF TuningIInv, CopyInv
  <2>8. CopyInv(p)'
    BY <2>3, <2>4, <2>5, <2>6, <2>7 DEF TuningIInv, CopyInv
  <2>9. /\ Accounted /\ HistoryOK /\ confirmed' = confirmed + 0
        /\ selfTuning[p].behind => late' # late
    <3>1. tx.mutations = copy.mutations + 0
      BY <2>2, <2>3 DEF Transactions
    <3> QED
      BY <1>1, <2>1, <2>3, <2>4, <2>6, <3>1, OwnCounts, ExecutionCounts
  <2>10. late' # late \/ Continues(authoritativeTx'.trail, authoritativeTx.trail)
    BY <2>3, <2>4, <2>6, <2>9
  <2>11. confirmed' = confirmed /\ confirmed' >= confirmed
    BY <2>9 DEF TuningIInv, TuningTypeOK
  <2>12. Counts(operations[p], confirmed') /\ Counts(TunerOf(tx), confirmed')
    BY <2>3, <2>5, <2>11, OwnCounts DEF Counts
  <2> QED
    BY <1>1, <2>1, <2>3, <2>5, <2>8, <2>9, <2>10, <2>11, <2>12, WriteStep DEF Step
<1>2. CASE /\ selfTuning' = [selfTuning EXCEPT ![p].stage = "idle"]
           /\ UNCHANGED <<authoritativeTx, operations, histories>>
  BY <1>2, TunerStageKeeps
<1> QED
  BY <1>1, <1>2 DEF RunCycle

LEMMA ApproveProposalKeeps ==
    ASSUME TuningIInv, NEW p \in Pages, ApproveProposal(p) PROVE Step
BY TunerBlockedKeeps, RunCycleKeeps DEF ApproveProposal

-----------------------------------------------------------------------------
(* The theorems. *)

LEMMA TuningNextKeeps == TuningIInv /\ [TuningNext]_tuningVars => TuningIInv' /\ [late' # late \/ Continues(authoritativeTx'.trail, authoritativeTx.trail)]_tuningVars
<1> SUFFICES ASSUME TuningIInv, [TuningNext]_tuningVars
             PROVE  TuningIInv' /\ [late' # late \/ Continues(authoritativeTx'.trail, authoritativeTx.trail)]_tuningVars
  OBVIOUS
<1>1. CASE TuningNext
  <2>1. PICK p \in Pages :
            \/ Mount(p) \/ Unmount(p)
            \/ SelectWritePreset(p)
            \/ RequestApproval(p) \/ CancelApproval(p)
            \/ \E a \in Offered : StageRequest(p, a)
            \/ ConfirmApprovalAndExecute(p)
            \/ ProbeSignatureGate(p)
            \/ OpenTuner(p) \/ CloseTuner(p) \/ ResetTuner(p)
            \/ RunInspectEngine(p) \/ ApproveProposal(p)
    BY <1>1 DEF TuningNext
  <2>2. Step
    BY <2>1, MountKeeps, UnmountKeeps, SelectWritePresetKeeps, RequestApprovalKeeps,
       CancelApprovalKeeps, StageRequestKeeps, ConfirmKeeps, ProbeKeeps, OpenTunerKeeps,
       CloseTunerKeeps, ResetTunerKeeps, RunInspectEngineKeeps, ApproveProposalKeeps
  <2> QED
    BY <2>2 DEF Step
<1>2. CASE UNCHANGED tuningVars
  <2> USE DEF tuningVars, histories
  <2>1. TuningTypeOK' /\ \A p \in Pages : CopyInv(p)'
    BY <1>2 DEF TuningIInv, TuningTypeOK, CopyInv
  <2>2. \A p \in Pages : Counts(operations'[p], confirmed') /\ Counts(selfTuning'[p], confirmed')
    BY <1>2 DEF TuningIInv
  <2>3. ExecutionsAccounted' /\ MutationsCounted'
    BY <1>2 DEF TuningIInv, ExecutionsAccounted, MutationsCounted
  <2> QED
    BY <1>2, <2>1, <2>2, <2>3 DEF TuningIInv
<1> QED
  BY <1>1, <1>2

(* What is executed is the stored transaction, still open, unless another  *)
(* page has overtaken the copy that executes; a proposal is executed at    *)
(* most once for each time it takes another's place, whichever console the *)
(* user takes, and beyond that only by such copies; and no mutation is     *)
(* counted that was not confirmed (zyrquenAdapter.ts:578, 665, 750,        *)
(* CommandCenterOperationsConsole.tsx:1248, SelfTuningConsole.tsx:527).    *)
THEOREM TuningCorrect == TuningSpec => [](TuningTypeOK /\ TuningInv)
<1>1. TuningIInv => TuningTypeOK /\ TuningInv
  <2> SUFFICES ASSUME TuningIInv PROVE CopiesCurrent
    BY DEF TuningIInv, TuningInv
  <2> QED
    BY DEF TuningIInv, CopyInv, CopiesCurrent
<1> QED
  BY <1>1, TuningInitially, TuningNextKeeps, PTL DEF TuningSpec

(* Under the same exception no entry of the audit trail is ever lost       *)
(* (zyrquenAdapter.ts:578, 665, 750).                                      *)
THEOREM TrailNeverLost == TuningSpec => TrailKept
BY TuningInitially, TuningNextKeeps, PTL DEF TuningSpec, TrailKept
=============================================================================
