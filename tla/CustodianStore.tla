---------------------------- MODULE CustodianStore ----------------------------
(***************************************************************************)
(* The custodian registry and the store in front of it                     *)
(* (src/src/store/systemStateStore.ts), with the two ways evidence reaches *)
(* them: the QR validator, which checks at the scan and anchors at a later *)
(* click (components/system/CustodianQRValidator.tsx), and the evidence    *)
(* workflow (components/council/CustodianEvidenceWorkflow.tsx).            *)
(*                                                                         *)
(* A digest as written may differ in case or surrounding blanks from the   *)
(* digest it stands for: `plain` says it does not.  The registry compares  *)
(* what digests stand for, but a bundle's proof is stored as written.      *)
(* Slots are those some evidence names: all ten are verified from the      *)
(* start and stay so, so that the registry always counts ten.              *)
(***************************************************************************)
EXTENDS Integers

CONSTANTS
    Slots, Digests, Bundles, \* slots of the registry, digests, bundle ids
    Genesis,      \* the digest each slot starts with
    Length,       \* length class of a digest: under 24, under 32, or full
    NoBundle, NoDigest, \* evidence without a bundle id, a proof without a digest
    ValidatorBundle, \* the id the QR validator gives evidence that has none
    DefaultSlot,  \* the slot of a scan that names none
    Entries,      \* bound: single proofs offered
    BundleOffers, \* bound: bundles offered, of two proofs (the same twice is one)
    Documents     \* bound: decrees and arrays offered, two entries each

AsWritten == [of : Digests, plain : BOOLEAN]
Evidence == [slot : Slots \cup {"unknown", "unnamed"}, digest : AsWritten,
             bundle : Bundles \cup {NoBundle}]
Proofs == [slot : Slots \cup {"unknown"}, digest : AsWritten \cup {NoDigest}]

ASSUME CustodianAssumption ==
    /\ Genesis \in [Slots -> Digests]
    /\ \A s, t \in Slots : Genesis[s] = Genesis[t] => s = t
    /\ Length \in [Digests -> {"short", "medium", "full"}]
    /\ NoBundle \notin Bundles
    /\ NoDigest \notin AsWritten
    /\ ValidatorBundle \in Bundles
    /\ DefaultSlot \in Slots
    /\ Entries \subseteq Evidence
    /\ BundleOffers \subseteq [first : Proofs, second : Proofs, bundle : Bundles \cup {NoBundle}]
    /\ Documents \subseteq Evidence \X Evidence

VARIABLES
    registry, \* slots, digests already anchored, bundle ids already used
    store,    \* the store's state: proof count, copy of the registry, baseline fields
    scan      \* <<offer>> when the validator's last scan may be signed off

storeVars == <<registry, store, scan>>

TotalSlots == 10

(* getSnapshot; the count is that of the verified slots, all of them. *)
Snapshot(reg) == [count |-> TotalSlots, of |-> reg]

GenesisRegistry ==
    [slots |-> [s \in Slots |-> [of |-> Genesis[s], plain |-> TRUE]],
     verified |-> {Genesis[s] : s \in Slots},
     registered |-> {}]

Registries ==
    [slots : [Slots -> AsWritten], verified : SUBSET Digests, registered : SUBSET Bundles]

StoreTypeOK ==
    /\ registry \in Registries
    /\ store \in [proofs : Nat, shown : [count : Nat, of : Registries],
                  drift : {"0.00%", "0.00", "0.01"}, quarantined : BOOLEAN,
                  seals : {"canonical", "local"}]
    /\ scan \in {<<>>} \cup {<<e>> : e \in Entries \cup BundleOffers}

StoreInit ==
    /\ registry = GenesisRegistry
    /\ store = [proofs |-> TotalSlots, shown |-> Snapshot(GenesisRegistry),
                drift |-> "0.00%", quarantined |-> FALSE, seals |-> "canonical"]
    /\ scan = <<>>

-----------------------------------------------------------------------------
(* CustodianRegistry. *)

(* validateSignature *)
Verdict(digest, bundle) ==
    IF Length[digest.of] = "short" THEN "INVALID"
    ELSE IF digest.of \in registry.verified \/ bundle \in registry.registered
         THEN "DUPLICATE"
    ELSE "VALID"

(* Mutant: evidence the scan has found valid is not compared again. *)
AcceptsScanned(reg, entry) ==
    /\ Length[entry.digest.of] = "full"
    /\ entry.bundle \notin reg.registered
    /\ entry.slot \in Slots

(* ingestEvidence: its fail-closed checks, then what it stores. *)
Accepts(reg, entry) ==
    /\ Length[entry.digest.of] = "full"
    /\ entry.digest.of \notin reg.verified
    /\ entry.bundle \notin reg.registered
    /\ entry.slot \in Slots

Anchored(reg, entry) ==
    [slots |-> [reg.slots EXCEPT ![entry.slot] = [of |-> entry.digest.of, plain |-> TRUE]],
     verified |-> reg.verified \cup {entry.digest.of},
     registered |-> reg.registered \cup ({entry.bundle} \ {NoBundle})]

Ingested(reg, entry) == IF Accepts(reg, entry) THEN Anchored(reg, entry) ELSE reg

(* Mutant: a digest is compared as written with those of the slots. *)
TakeProofAsWritten(reg, proof) ==
    IF proof.digest \in {reg.slots[s] : s \in Slots} \/ proof.slot \notin Slots
    THEN reg
    ELSE [reg EXCEPT !.slots[proof.slot] = proof.digest,
                     !.verified = reg.verified \cup {proof.digest.of}]

(* One turn of the loop of ingestEvidenceBundle. *)
TakeProof(reg, proof) ==
    IF proof.digest.of \in reg.verified \/ proof.slot \notin Slots
    THEN reg
    ELSE [reg EXCEPT !.slots[proof.slot] = proof.digest,
                     !.verified = reg.verified \cup {proof.digest.of}]

-----------------------------------------------------------------------------
(* The store's operations, as the state they leave. *)

(* syncRegistryState *)
Synced(st, reg) == [st EXCEPT !.proofs = TotalSlots, !.shown = Snapshot(reg)]

(* setCustodianProofs: nothing happens when the count is that already. *)
WithProofs(st, count) ==
    IF st.proofs = count THEN st
    ELSE [st EXCEPT !.proofs = count, !.shown.count = count]

(* resetToSSoTBaseline: the count, but not the snapshot's. *)
Baseline(st) ==
    [st EXCEPT !.proofs = TotalSlots, !.drift = "0.00%",
               !.quarantined = FALSE, !.seals = "canonical"]

-----------------------------------------------------------------------------
(* ingestCustodianEvidence *)
IngestEvidence(entry) ==
    IF Accepts(registry, entry)
    THEN /\ registry' = Anchored(registry, entry)
         /\ store' = Synced(store, registry')
    ELSE UNCHANGED <<registry, store>>

(* The registry's loop, and whether it reports a success. *)
TakenFirst(offer) == TakeProof(registry, offer.first)
TakenBoth(offer) == TakeProof(TakenFirst(offer), offer.second)

Throws(offer) == NoDigest \in {offer.first.digest, offer.second.digest}

Succeeds(offer) ==
    /\ ~Throws(offer)
    /\ \/ TakenBoth(offer) # registry
       \/ /\ offer.first.digest.of \notin registry.verified
          /\ offer.second.digest.of \notin registry.verified

(* The store's ingestEvidenceBundle.  A proof without a digest throws in   *)
(* the loop: the proof before it stays taken, the store hears nothing.  A  *)
(* bundle that brings nothing new is registered without the store's copy.  *)
IngestBundle(offer) ==
    /\ registry' = IF offer.first.digest = NoDigest THEN registry
                   ELSE IF offer.second.digest = NoDigest THEN TakenFirst(offer)
                   ELSE [TakenBoth(offer) EXCEPT
                            !.registered = @ \cup ({offer.bundle} \ {NoBundle})]
    /\ store' = IF Succeeds(offer) THEN Synced(store, registry') ELSE store

(* The evidence workflow's form for one proof, and its bundle upload. *)
SubmitEvidence(entry) ==
    /\ Length[entry.digest.of] = "full"
    /\ IngestEvidence(entry)
    /\ UNCHANGED scan

SubmitBundle(offer) == IngestBundle(offer) /\ UNCHANGED scan

(* A decree or an array: each member's proof, then the count is set.  The  *)
(* entries of a decree carry one bundle id, those of an array one each.    *)
SubmitDocument(document) ==
    LET first == Ingested(registry, document[1])
        both == Ingested(first, document[2])
    IN  /\ registry' = both
        /\ store' = WithProofs(IF both = registry THEN store ELSE Synced(store, both), TotalSlots)
        /\ UNCHANGED scan

(* evaluateEvidence of the validator, for a slot's proof and for a bundle, *)
(* whose id is looked up in the copy of the registry the view was given.   *)
ScanEvidence(entry) ==
    /\ scan' = IF Verdict(entry.digest, entry.bundle) = "VALID" THEN <<entry>> ELSE <<>>
    /\ UNCHANGED <<registry, store>>

ScanBundle(offer) ==
    /\ scan' = IF offer.bundle \in store.shown.of.registered THEN <<>> ELSE <<offer>>
    /\ UNCHANGED <<registry, store>>

(* handleExecuteSignoff.  A refused bundle leaves the button enabled. *)
ForSignoff(entry) ==
    [slot |-> IF entry.slot = "unnamed" THEN DefaultSlot ELSE entry.slot,
     digest |-> entry.digest,
     bundle |-> IF entry.bundle = NoBundle THEN ValidatorBundle ELSE entry.bundle]

SignoffEvidence ==
    /\ \E entry \in Entries : scan = <<entry>> /\ IngestEvidence(ForSignoff(entry))
    /\ scan' = <<>>

SignoffBundle ==
    \E offer \in BundleOffers :
        /\ scan = <<offer>>
        /\ IngestBundle(offer)
        /\ scan' = IF Succeeds(offer) THEN <<>> ELSE scan

-----------------------------------------------------------------------------
(* The consoles: simulated counts, a drift label, a quarantine, the seals  *)
(* counted after a snapshot, the reset.                                    *)
SetCount(count) == store' = WithProofs(store, count) /\ UNCHANGED <<registry, scan>>

ToggleDrift ==
    /\ store' = [store EXCEPT !.drift = IF @ = "0.01" THEN "0.00" ELSE "0.01"]
    /\ UNCHANGED <<registry, scan>>

Quarantine ==
    /\ store' = [store EXCEPT !.quarantined = TRUE]
    /\ UNCHANGED <<registry, scan>>

CountSeals ==
    /\ store' = [store EXCEPT !.seals = "local"]
    /\ UNCHANGED <<registry, scan>>

Reset == store' = Baseline(store) /\ UNCHANGED <<registry, scan>>

EvidenceNext ==
    \/ \E entry \in Entries : SubmitEvidence(entry) \/ ScanEvidence(entry)
    \/ \E offer \in BundleOffers : SubmitBundle(offer) \/ ScanBundle(offer)
    \/ \E document \in Documents : SubmitDocument(document)
    \/ SignoffEvidence
    \/ SignoffBundle

ConsoleNext ==
    \/ \E count \in {7, TotalSlots} : SetCount(count)
    \/ ToggleDrift
    \/ Quarantine
    \/ CountSeals
    \/ Reset

StoreNext == EvidenceNext \/ ConsoleNext

StoreSpec == StoreInit /\ [][StoreNext]_storeVars

-----------------------------------------------------------------------------
(* The registry counts no evidence twice and shows nothing it does not     *)
(* hold: every slot's digest is among the anchored ones and in no other    *)
(* slot, however it was written and whichever of the four paths brought it *)
(* in; and the copy the views read holds only digests and bundle ids that  *)
(* the registry holds, also when a bundle threw half way through           *)
(* (CustodianRegistry and the store's ingest operations).                  *)
CustodianInv ==
    /\ \A s \in Slots : registry.slots[s].of \in registry.verified
    /\ \A s, t \in Slots : registry.slots[s].of = registry.slots[t].of => s = t
    /\ store.shown.of.verified \subseteq registry.verified
    /\ store.shown.of.registered \subseteq registry.registered
    /\ \A s \in Slots : store.shown.of.slots[s].of \in store.shown.of.verified

(* A slot's proof is only replaced by a digest that was never anchored     *)
(* before, though the validator may have found it valid long before the    *)
(* sign-off: two scans, a submission in between, or a bundle naming one    *)
(* digest twice anchor it once (evaluateEvidence and handleExecuteSignoff  *)
(* against ingestEvidence, ingestEvidenceBundle).                          *)
FreshDigests ==
    [][\A s \in Slots :
          registry'.slots[s] # registry.slots[s] =>
              /\ registry'.slots[s].of \notin registry.verified
              /\ registry'.slots[s].of \in registry'.verified]_storeVars
=============================================================================
