------------------------ MODULE CopilotAutonomyProofs -----------------------
(***************************************************************************)
(* Proofs about the height service, the custodian store, and the autonomy  *)
(* layer that composes them.  The first two parts prove their component    *)
(* alone, for every height, drift and number of callers, and for every set *)
(* of slots, digests, bundles and offers; the third adds the copilot's     *)
(* mirror of the heights, whose steps are steps of the first two or leave  *)
(* them alone.                                                             *)
(***************************************************************************)
EXTENDS CopilotAutonomy, TLAPS

-----------------------------------------------------------------------------
(* The height service. *)

(* The drift is that of one remote commit or none. *)
GithubIInv ==
    /\ GithubTypeOK
    /\ DriftAgrees
    /\ sync.driftCount \in {0, Delta}

LEMMA FinalBlockRemote ==
    ASSUME GithubIInv
    PROVE  /\ FinalBlock = sync.remote
           /\ sync.remote >= sync.local
           /\ sync.remote \in Nat
<1>1. sync.local \in Nat /\ sync.remote \in Nat /\ sync.driftCount = sync.remote - sync.local
  BY DEF GithubIInv, GithubTypeOK, DriftAgrees
<1>2. sync.driftCount \in Nat
  BY HeightAssumption DEF GithubIInv
<1> QED
  BY <1>1, <1>2 DEF FinalBlock, Higher

LEMMA GithubInitially == GithubInit => GithubIInv
  BY HeightAssumption DEF GithubInit, GithubIInv, GithubTypeOK, DriftAgrees

LEMMA DriftKeeps ==
    ASSUME GithubIInv, simulateDrift
    PROVE  GithubIInv' /\ sync'.local >= sync.local /\ sync'.remote >= sync.remote
<1>1. sync.local \in Nat /\ sync.remote \in Nat /\ Delta \in Nat \ {0}
  BY HeightAssumption DEF GithubIInv, GithubTypeOK
<1>2. /\ sync' = [sync EXCEPT !.remote = sync.local + Delta, !.driftCount = Delta,
                             !.status = "DRIFT_DETECTED"]
      /\ awaiting' = awaiting
  BY DEF simulateDrift
<1>3. /\ sync'.local = sync.local /\ sync'.remote = sync.local + Delta
      /\ sync'.driftCount = Delta /\ sync'.status = "DRIFT_DETECTED"
      /\ sync'.isSyncing = sync.isSyncing
  BY <1>2 DEF GithubIInv, GithubTypeOK
<1>4. GithubTypeOK'
  <2>1. sync.local + Delta \in Nat /\ Delta \in Nat
    BY <1>1
  <2>2. sync' \in [local : Nat, remote : Nat, driftCount : Nat, isSyncing : BOOLEAN,
                   status : {"SYNCED", "DRIFT_DETECTED", "RESYNCING"}]
    BY <1>2, <2>1 DEF GithubIInv, GithubTypeOK
  <2>3. awaiting' \in Seq(Callers)
    BY <1>2 DEF GithubIInv, GithubTypeOK
  <2> QED
    BY <2>2, <2>3 DEF GithubTypeOK
<1>5. sync.remote - sync.local \in {0, Delta}
  BY DEF GithubIInv, DriftAgrees
<1> QED
  BY <1>1, <1>2, <1>3, <1>4, <1>5 DEF GithubIInv, DriftAgrees

LEMMA StartKeeps ==
    ASSUME GithubIInv, NEW caller \in Callers, StartResync(caller)
    PROVE  GithubIInv' /\ sync'.local >= sync.local /\ sync'.remote >= sync.remote
<1>1. /\ sync' = [sync EXCEPT !.isSyncing = TRUE, !.status = "RESYNCING"]
      /\ awaiting' = Append(awaiting, caller)
  BY DEF StartResync
<1>2. /\ sync'.local = sync.local /\ sync'.remote = sync.remote
      /\ sync'.driftCount = sync.driftCount /\ sync'.status = "RESYNCING"
  BY <1>1 DEF GithubIInv, GithubTypeOK
<1>3. awaiting' # <<>> /\ awaiting' \in Seq(Callers)
  BY <1>1 DEF GithubIInv, GithubTypeOK
<1>4. GithubTypeOK'
  BY <1>1, <1>3 DEF GithubIInv, GithubTypeOK
<1> QED
  BY <1>2, <1>3, <1>4 DEF GithubIInv, DriftAgrees, GithubTypeOK

LEMMA FinishKeeps ==
    ASSUME GithubIInv, FinishResync
    PROVE  GithubIInv' /\ sync'.local >= sync.local /\ sync'.remote >= sync.remote
<1>1. sync' = Aligned(sync.remote)
  BY FinalBlockRemote DEF FinishResync
<1>2. sync'.local = sync.remote /\ sync'.remote = sync.remote /\ sync'.driftCount = 0
  BY <1>1 DEF Aligned
<1>3. GithubTypeOK'
  <2>1. awaiting' \in Seq(Callers)
    BY DEF FinishResync, GithubIInv, GithubTypeOK
  <2> QED
    BY <1>1, <2>1, FinalBlockRemote DEF Aligned, GithubTypeOK
<1>4. DriftAgrees'
  BY <1>1, FinalBlockRemote DEF Aligned, DriftAgrees
<1> QED
  BY <1>2, <1>3, <1>4, FinalBlockRemote DEF GithubIInv

LEMMA GithubStep ==
    ASSUME GithubIInv, [GithubNext]_githubVars
    PROVE  GithubIInv' /\ sync'.local >= sync.local /\ sync'.remote >= sync.remote
<1>1. CASE simulateDrift
  BY <1>1, DriftKeeps
<1>2. ASSUME NEW caller \in Callers, StartResync(caller)
      PROVE  GithubIInv' /\ sync'.local >= sync.local /\ sync'.remote >= sync.remote
  BY <1>2, StartKeeps
<1>3. CASE FinishResync
  BY <1>3, FinishKeeps
<1>4. CASE UNCHANGED githubVars
  BY <1>4 DEF githubVars, GithubIInv, GithubTypeOK, DriftAgrees
<1> QED
  BY <1>1, <1>2, <1>3, <1>4 DEF GithubNext

(* What the panels show agrees with the heights, whatever the delays. *)
THEOREM DriftCorrect == GithubSpec => [](GithubTypeOK /\ DriftAgrees)
<1>1. GithubIInv /\ [GithubNext]_githubVars => GithubIInv'
  BY GithubStep
<1>2. GithubIInv => GithubTypeOK /\ DriftAgrees
  BY DEF GithubIInv
<1> QED
  BY GithubInitially, <1>1, <1>2, PTL DEF GithubSpec

(* No reconciliation takes a height back. *)
THEOREM HeightsStay == GithubSpec => HeightsKept
<1>1. GithubIInv /\ [GithubNext]_githubVars => GithubIInv'
  BY GithubStep
<1>2. GithubIInv /\ [GithubNext]_githubVars
      => [sync'.local >= sync.local /\ sync'.remote >= sync.remote]_githubVars
  BY GithubStep
<1> QED
  BY GithubInitially, <1>1, <1>2, PTL DEF GithubSpec, HeightsKept

-----------------------------------------------------------------------------
(* The custodian store.  The registry only grows, and a slot only changes  *)
(* to a digest that is new to it: Grows says so of one turn of a loop,     *)
(* composes over turns, and with the store's copy being the registry of    *)
(* some earlier moment it yields both properties.                          *)

(* Every slot's digest is anchored, and in one slot only. *)
RegistryInv(reg) ==
    /\ reg \in Registries
    /\ \A s \in Slots : reg.slots[s].of \in reg.verified
    /\ \A s, t \in Slots : reg.slots[s].of = reg.slots[t].of => s = t

Grows(reg, next) ==
    /\ reg.verified \subseteq next.verified
    /\ reg.registered \subseteq next.registered
    /\ \A s \in Slots : next.slots[s] # reg.slots[s] =>
           /\ next.slots[s].of \notin reg.verified
           /\ next.slots[s].of \in next.verified

CustodianIInv == StoreTypeOK /\ CustodianInv

LEMMA GrowsReflexive == ASSUME NEW reg PROVE Grows(reg, reg)
  BY DEF Grows

LEMMA GrowsTransitive ==
    ASSUME NEW a, NEW b, NEW c, Grows(a, b), Grows(b, c)
    PROVE  Grows(a, c)
<1>1. a.verified \subseteq c.verified /\ a.registered \subseteq c.registered
  BY DEF Grows
<1>2. ASSUME NEW s \in Slots, c.slots[s] # a.slots[s]
      PROVE  c.slots[s].of \notin a.verified /\ c.slots[s].of \in c.verified
  <2>1. CASE c.slots[s] # b.slots[s]
    BY <2>1 DEF Grows
  <2>2. CASE c.slots[s] = b.slots[s]
    BY <1>2, <2>2 DEF Grows
  <2> QED
    BY <2>1, <2>2
<1> QED
  BY <1>1, <1>2 DEF Grows

-----------------------------------------------------------------------------
(* A fresh digest may go into any slot. *)
LEMMA FreshSlot ==
    ASSUME NEW reg, RegistryInv(reg),
           NEW slot \in Slots, NEW digest \in AsWritten, digest.of \notin reg.verified,
           NEW ids \in SUBSET Bundles,
           NEW next,
           next = [slots |-> [reg.slots EXCEPT ![slot] = digest],
                   verified |-> reg.verified \cup {digest.of},
                   registered |-> reg.registered \cup ids]
    PROVE  RegistryInv(next) /\ Grows(reg, next)
<1>1. /\ reg.slots \in [Slots -> AsWritten]
      /\ reg.verified \in SUBSET Digests
      /\ reg.registered \in SUBSET Bundles
  BY DEF RegistryInv, Registries
<1>2. digest.of \in Digests
  BY DEF AsWritten
<1>3. /\ next.slots = [reg.slots EXCEPT ![slot] = digest]
      /\ next.verified = reg.verified \cup {digest.of}
      /\ next.registered = reg.registered \cup ids
  OBVIOUS
<1>4. next \in Registries
  <2>1. [reg.slots EXCEPT ![slot] = digest] \in [Slots -> AsWritten]
    BY <1>1
  <2>2. reg.verified \cup {digest.of} \in SUBSET Digests
    BY <1>1, <1>2
  <2>3. reg.registered \cup ids \in SUBSET Bundles
    BY <1>1
  <2> QED
    BY <2>1, <2>2, <2>3 DEF Registries
<1>5. \A s \in Slots : next.slots[s] = IF s = slot THEN digest ELSE reg.slots[s]
  BY <1>1, <1>3
<1>6. \A s \in Slots : next.slots[s].of \in next.verified
  BY <1>3, <1>5 DEF RegistryInv
<1>7. \A s, t \in Slots : next.slots[s].of = next.slots[t].of => s = t
  BY <1>5 DEF RegistryInv
<1>8. Grows(reg, next)
  BY <1>3, <1>5, <1>6 DEF Grows
<1> QED
  BY <1>4, <1>6, <1>7, <1>8 DEF RegistryInv

LEMMA TakeProofGood ==
    ASSUME NEW reg, RegistryInv(reg), NEW proof \in Proofs, proof.digest # NoDigest
    PROVE  RegistryInv(TakeProof(reg, proof)) /\ Grows(reg, TakeProof(reg, proof))
<1>1. CASE proof.digest.of \in reg.verified \/ proof.slot \notin Slots
  BY <1>1, GrowsReflexive DEF TakeProof
<1>2. CASE proof.digest.of \notin reg.verified /\ proof.slot \in Slots
  <2>1. proof.digest \in AsWritten
    BY DEF Proofs
  <2>2. TakeProof(reg, proof) =
            [reg EXCEPT !.slots[proof.slot] = proof.digest,
                        !.verified = reg.verified \cup {proof.digest.of}]
    BY <1>2 DEF TakeProof
  <2>3. TakeProof(reg, proof) =
            [slots |-> [reg.slots EXCEPT ![proof.slot] = proof.digest],
             verified |-> reg.verified \cup {proof.digest.of},
             registered |-> reg.registered \cup {}]
    BY <2>2 DEF RegistryInv, Registries
  <2>4. {} \in SUBSET Bundles
    OBVIOUS
  <2> QED
    BY <1>2, <2>1, <2>3, <2>4, FreshSlot
<1> QED
  BY <1>1, <1>2

LEMMA IngestedGood ==
    ASSUME NEW reg, RegistryInv(reg), NEW entry \in Evidence
    PROVE  /\ RegistryInv(Ingested(reg, entry)) /\ Grows(reg, Ingested(reg, entry))
           /\ Accepts(reg, entry) => Ingested(reg, entry) = Anchored(reg, entry)
<1>1. CASE ~Accepts(reg, entry)
  BY <1>1, GrowsReflexive DEF Ingested
<1>2. CASE Accepts(reg, entry)
  <2> DEFINE digest == [of |-> entry.digest.of, plain |-> TRUE]
             ids == {entry.bundle} \ {NoBundle}
  <2>1. digest \in AsWritten /\ digest.of \notin reg.verified /\ entry.slot \in Slots
    BY <1>2 DEF Accepts, Evidence, AsWritten
  <2>2. ids \in SUBSET Bundles
    BY DEF Evidence
  <2>3. Ingested(reg, entry) = Anchored(reg, entry)
    BY <1>2 DEF Ingested
  <2>4. Anchored(reg, entry) =
            [slots |-> [reg.slots EXCEPT ![entry.slot] = digest],
             verified |-> reg.verified \cup {digest.of},
             registered |-> reg.registered \cup ids]
    BY DEF Anchored
  <2> HIDE DEF digest, ids
  <2> QED
    BY <2>1, <2>2, <2>3, <2>4, FreshSlot
<1> QED
  BY <1>1, <1>2

LEMMA RegisteredGood ==
    ASSUME NEW reg, RegistryInv(reg), NEW ids \in SUBSET Bundles,
           NEW next, next = [reg EXCEPT !.registered = @ \cup ids]
    PROVE  RegistryInv(next) /\ Grows(reg, next)
<1>1. next = [slots |-> reg.slots, verified |-> reg.verified,
              registered |-> reg.registered \cup ids]
  BY DEF RegistryInv, Registries
<1>2. next \in Registries
  BY <1>1 DEF RegistryInv, Registries
<1> QED
  BY <1>1, <1>2 DEF RegistryInv, Grows

-----------------------------------------------------------------------------
(* The store's operations: what they do to its copy of the registry. *)
Store == [proofs : Nat, shown : [count : Nat, of : Registries],
          drift : {"0.00%", "0.00", "0.01"}, quarantined : BOOLEAN,
          seals : {"canonical", "local"}]

LEMMA SyncedShows ==
    ASSUME NEW st \in Store, NEW reg \in Registries
    PROVE  Synced(st, reg) \in Store /\ Synced(st, reg).shown.of = reg
  BY DEF Synced, Store, Snapshot, TotalSlots

LEMMA WithProofsShows ==
    ASSUME NEW st \in Store, NEW count \in Nat
    PROVE  WithProofs(st, count) \in Store /\ WithProofs(st, count).shown.of = st.shown.of
  BY DEF WithProofs, Store

LEMMA BaselineShows ==
    ASSUME NEW st \in Store
    PROVE  Baseline(st) \in Store /\ Baseline(st).shown.of = st.shown.of
  BY DEF Baseline, Store, TotalSlots

(* What every step does, in one shape. *)
Advances ==
    /\ RegistryInv(registry')
    /\ Grows(registry, registry')
    /\ store' \in Store
    /\ store'.shown.of \in {store.shown.of, registry'}

LEMMA RegistryOfInv ==
    ASSUME CustodianIInv
    PROVE  RegistryInv(registry) /\ store \in Store
  BY DEF CustodianIInv, StoreTypeOK, CustodianInv, RegistryInv, Store

LEMMA AdvancesKeeps ==
    ASSUME CustodianIInv, Advances
    PROVE  /\ CustodianInv'
           /\ \A s \in Slots : registry'.slots[s] # registry.slots[s] =>
                  /\ registry'.slots[s].of \notin registry.verified
                  /\ registry'.slots[s].of \in registry'.verified
<1>1. CASE store'.shown.of = registry'
  BY <1>1 DEF CustodianIInv, CustodianInv, Advances, RegistryInv, Grows
<1>2. CASE store'.shown.of = store.shown.of
  BY <1>2 DEF CustodianIInv, CustodianInv, Advances, RegistryInv, Grows
<1> QED
  BY <1>1, <1>2 DEF Advances

-----------------------------------------------------------------------------
(* The operations. *)
LEMMA EvidenceAdvances ==
    ASSUME CustodianIInv, NEW entry \in Evidence, IngestEvidence(entry)
    PROVE  Advances
<1>1. RegistryInv(registry) /\ store \in Store
  BY RegistryOfInv
<1>2. CASE Accepts(registry, entry)
  <2>1. registry' = Ingested(registry, entry)
    BY <1>1, <1>2, IngestedGood DEF IngestEvidence
  <2>2. RegistryInv(registry') /\ Grows(registry, registry')
    BY <1>1, <2>1, IngestedGood
  <2>3. registry' \in Registries
    BY <2>2 DEF RegistryInv
  <2>4. store' = Synced(store, registry')
    BY <1>2 DEF IngestEvidence
  <2> QED
    BY <1>1, <2>2, <2>3, <2>4, SyncedShows DEF Advances
<1>3. CASE ~Accepts(registry, entry)
  BY <1>1, <1>3, GrowsReflexive DEF IngestEvidence, Advances
<1> QED
  BY <1>2, <1>3

LEMMA BundleAdvances ==
    ASSUME CustodianIInv, NEW offer \in BundleOffers, IngestBundle(offer)
    PROVE  Advances
<1>1. RegistryInv(registry) /\ store \in Store
  BY RegistryOfInv
<1>2. offer.first \in Proofs /\ offer.second \in Proofs /\ offer.bundle \in Bundles \cup {NoBundle}
  BY CustodianAssumption
<1>3. RegistryInv(registry') /\ Grows(registry, registry')
  <2>1. CASE offer.first.digest = NoDigest
    BY <1>1, <2>1, GrowsReflexive DEF IngestBundle
  <2>2. CASE offer.first.digest # NoDigest /\ offer.second.digest = NoDigest
    <3>1. registry' = TakeProof(registry, offer.first)
      BY <2>2 DEF IngestBundle, TakenFirst
    <3> QED
      BY <1>1, <1>2, <2>2, <3>1, TakeProofGood
  <2>3. CASE offer.first.digest # NoDigest /\ offer.second.digest # NoDigest
    <3>1. RegistryInv(TakenFirst(offer)) /\ Grows(registry, TakenFirst(offer))
      BY <1>1, <1>2, <2>3, TakeProofGood DEF TakenFirst
    <3>2. RegistryInv(TakenBoth(offer)) /\ Grows(TakenFirst(offer), TakenBoth(offer))
      BY <1>2, <2>3, <3>1, TakeProofGood DEF TakenBoth
    <3>3. registry' = [TakenBoth(offer) EXCEPT !.registered = @ \cup ({offer.bundle} \ {NoBundle})]
      BY <2>3 DEF IngestBundle
    <3>4. {offer.bundle} \ {NoBundle} \in SUBSET Bundles
      BY <1>2
    <3>5. RegistryInv(registry') /\ Grows(TakenBoth(offer), registry')
      BY <3>2, <3>3, <3>4, RegisteredGood
    <3>6. Grows(registry, TakenBoth(offer))
      BY <3>1, <3>2, GrowsTransitive
    <3> QED
      BY <3>5, <3>6, GrowsTransitive
  <2> QED
    BY <2>1, <2>2, <2>3
<1>4. registry' \in Registries
  BY <1>3 DEF RegistryInv
<1>5. store' = Synced(store, registry') \/ store' = store
  BY DEF IngestBundle
<1> QED
  BY <1>1, <1>3, <1>4, <1>5, SyncedShows DEF Advances

LEMMA DocumentAdvances ==
    ASSUME CustodianIInv, NEW document \in Documents, SubmitDocument(document)
    PROVE  Advances
<1>1. RegistryInv(registry) /\ store \in Store
  BY RegistryOfInv
<1>2. document[1] \in Evidence /\ document[2] \in Evidence
  BY CustodianAssumption
<1> DEFINE first == Ingested(registry, document[1])
           both == Ingested(first, document[2])
<1>3. RegistryInv(first) /\ Grows(registry, first)
  BY <1>1, <1>2, IngestedGood
<1>4. RegistryInv(both) /\ Grows(first, both)
  BY <1>2, <1>3, IngestedGood
<1>5. Grows(registry, both)
  BY <1>3, <1>4, GrowsTransitive
<1>6. both \in Registries
  BY <1>4 DEF RegistryInv
<1>7. registry' = both
  BY DEF SubmitDocument
<1>8. PICK st : /\ st = IF both = registry THEN store ELSE Synced(store, both)
                /\ store' = WithProofs(st, TotalSlots)
  BY DEF SubmitDocument
<1> HIDE DEF both
<1>9. st \in Store /\ st.shown.of \in {store.shown.of, both}
  BY <1>1, <1>6, <1>8, SyncedShows
<1>10. store' \in Store /\ store'.shown.of = st.shown.of
  <2>1. TotalSlots \in Nat
    BY DEF TotalSlots
  <2> QED
    BY <1>8, <1>9, <2>1, WithProofsShows
<1> QED
  BY <1>4, <1>5, <1>7, <1>9, <1>10 DEF Advances

LEMMA ConsoleAdvances == ASSUME CustodianIInv, ConsoleNext PROVE Advances /\ scan' = scan
<1>1. RegistryInv(registry) /\ store \in Store
  BY RegistryOfInv
<1>2. registry' = registry /\ scan' = scan
  BY DEF ConsoleNext, SetCount, ToggleDrift, Quarantine, CountSeals, Reset
<1>3. store' \in Store /\ store'.shown.of = store.shown.of
  <2>1. ASSUME NEW count \in {7, TotalSlots}, SetCount(count)
        PROVE  store' \in Store /\ store'.shown.of = store.shown.of
    BY <1>1, <2>1, WithProofsShows DEF SetCount, TotalSlots
  <2>2. CASE ToggleDrift
    BY <1>1, <2>2 DEF ToggleDrift, Store
  <2>3. CASE Quarantine
    BY <1>1, <2>3 DEF Quarantine, Store
  <2>4. CASE CountSeals
    BY <1>1, <2>4 DEF CountSeals, Store
  <2>5. CASE Reset
    BY <1>1, <2>5, BaselineShows DEF Reset
  <2> QED
    BY <2>1, <2>2, <2>3, <2>4, <2>5 DEF ConsoleNext
<1> QED
  BY <1>1, <1>2, <1>3, GrowsReflexive DEF Advances

Scans == {<<>>} \cup {<<e>> : e \in Entries \cup BundleOffers}

LEMMA SignoffIsEvidence ==
    ASSUME NEW entry \in Entries
    PROVE  entry \in Evidence /\ ForSignoff(entry) \in Evidence
  BY CustodianAssumption DEF ForSignoff, Evidence

LEMMA StoreStep ==
    ASSUME CustodianIInv, [StoreNext]_storeVars
    PROVE  /\ Advances \/ UNCHANGED <<registry, store>>
           /\ scan' \in Scans
<1>0. scan \in Scans
  BY DEF CustodianIInv, StoreTypeOK, Scans
<1>1. ASSUME NEW entry \in Entries, SubmitEvidence(entry)
      PROVE  Advances /\ scan' \in Scans
  BY <1>0, <1>1, EvidenceAdvances, SignoffIsEvidence DEF SubmitEvidence
<1>2. ASSUME NEW entry \in Entries, ScanEvidence(entry)
      PROVE  UNCHANGED <<registry, store>> /\ scan' \in Scans
  BY <1>2 DEF ScanEvidence, Scans
<1>3. ASSUME NEW offer \in BundleOffers, SubmitBundle(offer)
      PROVE  Advances /\ scan' \in Scans
  BY <1>0, <1>3, BundleAdvances DEF SubmitBundle
<1>4. ASSUME NEW offer \in BundleOffers, ScanBundle(offer)
      PROVE  UNCHANGED <<registry, store>> /\ scan' \in Scans
  BY <1>4 DEF ScanBundle, Scans
<1>5. ASSUME NEW document \in Documents, SubmitDocument(document)
      PROVE  Advances /\ scan' \in Scans
  <2>1. scan' = scan
    BY <1>5 DEF SubmitDocument
  <2> QED
    BY <1>0, <1>5, <2>1, DocumentAdvances
<1>6. ASSUME SignoffEvidence PROVE Advances /\ scan' \in Scans
  <2>1. PICK entry \in Entries : IngestEvidence(ForSignoff(entry))
    BY <1>6 DEF SignoffEvidence
  <2>2. scan' = <<>>
    BY <1>6 DEF SignoffEvidence
  <2> QED
    BY <2>1, <2>2, EvidenceAdvances, SignoffIsEvidence DEF Scans
<1>7. ASSUME SignoffBundle PROVE Advances /\ scan' \in Scans
  <2>1. PICK offer \in BundleOffers : IngestBundle(offer) /\ scan' \in {<<>>, scan}
    BY <1>7 DEF SignoffBundle
  <2> QED
    BY <1>0, <2>1, BundleAdvances DEF Scans
<1>8. CASE ConsoleNext
  BY <1>0, <1>8, ConsoleAdvances
<1>9. CASE UNCHANGED storeVars
  BY <1>0, <1>9 DEF storeVars
<1> QED
  BY <1>1, <1>2, <1>3, <1>4, <1>5, <1>6, <1>7, <1>8, <1>9 DEF StoreNext, EvidenceNext

LEMMA StoreKeeps ==
    ASSUME CustodianIInv, [StoreNext]_storeVars
    PROVE  /\ CustodianIInv'
           /\ \A s \in Slots : registry'.slots[s] # registry.slots[s] =>
                  /\ registry'.slots[s].of \notin registry.verified
                  /\ registry'.slots[s].of \in registry'.verified
<1>1. scan' \in Scans
  BY StoreStep
<1>2. CASE Advances
  <2>1. registry' \in Registries /\ store' \in Store
    BY <1>2 DEF Advances, RegistryInv
  <2>2. StoreTypeOK'
    BY <1>1, <2>1 DEF StoreTypeOK, Scans, Store
  <2> QED
    BY <1>2, <2>2, AdvancesKeeps DEF CustodianIInv
<1>3. CASE UNCHANGED <<registry, store>>
  BY <1>1, <1>3 DEF CustodianIInv, StoreTypeOK, CustodianInv, Scans
<1> QED
  BY <1>2, <1>3, StoreStep

LEMMA StoreInitially == StoreInit => CustodianIInv
<1> SUFFICES ASSUME StoreInit PROVE CustodianIInv
  OBVIOUS
<1>1. RegistryInv(GenesisRegistry)
  <2>1. \A s \in Slots : Genesis[s] \in Digests
    BY CustodianAssumption
  <2>2. [s \in Slots |-> [of |-> Genesis[s], plain |-> TRUE]] \in [Slots -> AsWritten]
    BY <2>1 DEF AsWritten
  <2>3. {Genesis[s] : s \in Slots} \in SUBSET Digests
    BY <2>1
  <2>4. GenesisRegistry \in Registries
    BY <2>2, <2>3 DEF GenesisRegistry, Registries
  <2> QED
    BY <2>4, CustodianAssumption DEF GenesisRegistry, RegistryInv
<1>2. registry = GenesisRegistry /\ store.shown.of = GenesisRegistry
  BY DEF StoreInit, Snapshot
<1>3. GenesisRegistry \in Registries
  BY <1>1 DEF RegistryInv
<1>4. StoreTypeOK
  <2> HIDE DEF Registries, GenesisRegistry
  <2>1. store \in Store
    BY <1>3 DEF StoreInit, Snapshot, Store, TotalSlots
  <2> QED
    BY <1>2, <1>3, <2>1 DEF StoreInit, StoreTypeOK, Store
<1> QED
  BY <1>1, <1>2, <1>4 DEF CustodianIInv, CustodianInv, RegistryInv

(* The registry counts no evidence twice, and the store's copy of it holds *)
(* nothing the registry does not.                                          *)
THEOREM CustodianCorrect == StoreSpec => [](StoreTypeOK /\ CustodianInv)
<1>1. CustodianIInv /\ [StoreNext]_storeVars => CustodianIInv'
  BY StoreKeeps
<1>2. CustodianIInv => StoreTypeOK /\ CustodianInv
  BY DEF CustodianIInv
<1> QED
  BY StoreInitially, <1>1, <1>2, PTL DEF StoreSpec

(* A slot only changes to a digest that was never anchored before. *)
THEOREM SlotsTakeFreshDigests == StoreSpec => FreshDigests
<1>1. CustodianIInv /\ [StoreNext]_storeVars => CustodianIInv'
  BY StoreKeeps
<1>2. CustodianIInv /\ [StoreNext]_storeVars
      => [\A s \in Slots :
             registry'.slots[s] # registry.slots[s] =>
                 /\ registry'.slots[s].of \notin registry.verified
                 /\ registry'.slots[s].of \in registry'.verified]_storeVars
  BY StoreKeeps
<1> QED
  BY StoreInitially, <1>1, <1>2, PTL DEF StoreSpec, FreshDigests

-----------------------------------------------------------------------------
(* The autonomy layer. *)

Copilots == [currentDriftCount : Nat, zeroDriftAttested : BOOLEAN,
             driftDetected : Suggestion, zeroDriftLocked : Suggestion,
             autoPilotActive : BOOLEAN]

(* The heights, the store, and what the copilot makes of them. *)
CopilotIInv ==
    /\ GithubIInv
    /\ CustodianIInv
    /\ copilot \in Copilots
    /\ CopilotInv

(* The mirror of a drift that agrees with the heights is a good state. *)
Mirrors0(cp, drift) ==
    /\ cp \in Copilots
    /\ cp.currentDriftCount = drift
    /\ cp.zeroDriftAttested <=> drift = 0
    /\ cp.driftDetected # "absent" => drift # 0
    /\ cp.zeroDriftLocked # "absent" => drift = 0

LEMMA CopilotFacts ==
    ASSUME CopilotIInv
    PROVE  /\ sync.driftCount \in Nat
           /\ sync.local = sync.remote <=> sync.driftCount = 0
           /\ Mirrors0(copilot, sync.driftCount)
<1>1. /\ sync.local \in Nat /\ sync.remote \in Nat /\ sync.driftCount \in Nat
      /\ sync.driftCount = sync.remote - sync.local
  BY DEF CopilotIInv, GithubIInv, GithubTypeOK, DriftAgrees
<1>2. sync.local = sync.remote <=> sync.driftCount = 0
  BY <1>1
<1> QED
  BY <1>1, <1>2 DEF CopilotIInv, CopilotInv, Mirrors0

LEMMA MirroredGood ==
    ASSUME CopilotIInv, NEW drift \in Nat
    PROVE  Mirrors0(Mirrored(drift), drift)
<1> DEFINE attested == drift = 0
           detected == IF drift = 0 THEN "absent"
                       ELSE IF copilot.driftDetected = "absent" THEN "open"
                       ELSE copilot.driftDetected
           locked == IF drift = 0
                     THEN (IF copilot.zeroDriftLocked = "absent" THEN "open"
                           ELSE copilot.zeroDriftLocked)
                     ELSE IF copilot.driftDetected = "absent" THEN "absent"
                     ELSE copilot.zeroDriftLocked
<1>1. /\ copilot \in Copilots
      /\ copilot.driftDetected # "absent" => copilot.zeroDriftLocked = "absent"
  <2>1. copilot \in Copilots
    BY DEF CopilotIInv
  <2> QED
    BY <2>1 DEF CopilotIInv, CopilotInv
<1>2. copilot.driftDetected \in Suggestion /\ copilot.zeroDriftLocked \in Suggestion
  BY <1>1 DEF Copilots
<1>3. detected \in Suggestion /\ locked \in Suggestion
  BY <1>2 DEF Suggestion
<1>4. attested \in BOOLEAN /\ (attested <=> drift = 0)
  OBVIOUS
<1>5. detected # "absent" => drift # 0
  OBVIOUS
<1>6. locked # "absent" => drift = 0
  BY <1>1
<1>7. Mirrored(drift) = [copilot EXCEPT !.currentDriftCount = drift,
                                       !.zeroDriftAttested = attested,
                                       !.driftDetected = detected,
                                       !.zeroDriftLocked = locked]
  BY <1>1, Zenon DEF Mirrored, Copilots
<1> HIDE DEF attested, detected, locked
<1>8. Mirrored(drift) \in Copilots
  BY <1>1, <1>3, <1>4, <1>7 DEF Copilots
<1>9. /\ Mirrored(drift).currentDriftCount = drift
      /\ Mirrored(drift).zeroDriftAttested <=> attested
      /\ Mirrored(drift).driftDetected = detected
      /\ Mirrored(drift).zeroDriftLocked = locked
  BY <1>1, <1>7 DEF Copilots
<1> QED
  BY <1>4, <1>5, <1>6, <1>8, <1>9 DEF Mirrors0

LEMMA SweptGood ==
    ASSUME NEW cp \in Copilots, Mirrors0(cp, 0)
    PROVE  Mirrors0(Swept(cp), 0)
<1> DEFINE detected == IF cp.driftDetected = "absent" THEN cp.driftDetected ELSE "applied"
           locked == IF cp.zeroDriftLocked = "absent" THEN cp.zeroDriftLocked ELSE "applied"
           attested == TRUE
<1>1. cp.driftDetected = "absent"
  BY DEF Mirrors0
<1>2. Swept(cp) = [cp EXCEPT !.autoPilotActive = attested,
                             !.zeroDriftAttested = attested,
                             !.currentDriftCount = 0,
                             !.driftDetected = detected,
                             !.zeroDriftLocked = locked]
  BY Zenon DEF Swept, Copilots
<1>3. /\ detected = "absent" /\ detected \in Suggestion /\ locked \in Suggestion
      /\ attested \in BOOLEAN /\ attested
  BY <1>1 DEF Copilots, Suggestion
<1> HIDE DEF attested, detected, locked
<1>4. Swept(cp) \in Copilots
  <2>1. 0 \in Nat
    OBVIOUS
  <2> QED
    BY <1>2, <1>3, <2>1, Zenon DEF Copilots
<1>5. /\ Swept(cp).currentDriftCount = 0
      /\ Swept(cp).zeroDriftAttested <=> attested
      /\ Swept(cp).driftDetected = detected
  BY <1>2 DEF Copilots
<1> QED
  BY <1>3, <1>4, <1>5 DEF Mirrors0

LEMMA GoodAgain ==
    ASSUME GithubIInv', CustodianIInv', Mirrors0(copilot', sync'.driftCount)
    PROVE  CopilotIInv'
<1>1. /\ sync'.local \in Nat /\ sync'.remote \in Nat
      /\ sync'.driftCount = sync'.remote - sync'.local
  BY DEF GithubIInv, GithubTypeOK, DriftAgrees
<1>2. sync'.local = sync'.remote <=> sync'.driftCount = 0
  BY <1>1
<1> QED
  BY <1>2 DEF CopilotIInv, CopilotInv, Mirrors0

LEMMA NotifiesGood ==
    ASSUME CopilotIInv, GithubIInv', Notifies
    PROVE  Mirrors0(copilot', sync'.driftCount)
<1>1. sync'.driftCount \in Nat
  BY DEF GithubIInv, GithubTypeOK
<1> QED
  BY <1>1, MirroredGood DEF Notifies

(* The store's part of a step that heals it or not. *)
LEMMA HealedKeeps ==
    ASSUME CustodianIInv, store' \in {store, Healed(store)}, UNCHANGED <<registry, scan>>
    PROVE  CustodianIInv'
<1>1. RegistryInv(registry) /\ store \in Store
  BY RegistryOfInv
<1>2. store' \in Store /\ store'.shown.of = store.shown.of
  BY <1>1, BaselineShows, WithProofsShows DEF Healed, TotalSlots
<1>3. Advances
  BY <1>1, <1>2, GrowsReflexive DEF Advances
<1>4. CustodianInv'
  BY <1>3, AdvancesKeeps
<1>5. StoreTypeOK'
  BY <1>1, <1>2 DEF CustodianIInv, StoreTypeOK, Store
<1> QED
  BY <1>4, <1>5 DEF CustodianIInv

LEMMA StoreUnchangedKeeps ==
    ASSUME CustodianIInv, UNCHANGED storeVars
    PROVE  CustodianIInv'
  BY DEF storeVars, CustodianIInv, StoreTypeOK, CustodianInv

LEMMA RequestResyncKeeps ==
    ASSUME CopilotIInv, NEW caller \in Callers, StartResync(caller), Notifies
    PROVE  GithubIInv' /\ Mirrors0(copilot', sync'.driftCount)
<1>1. GithubIInv'
  BY StartKeeps DEF CopilotIInv
<1> QED
  BY <1>1, NotifiesGood

LEMMA ResyncEndsKeeps ==
    ASSUME CopilotIInv, ResyncEnds
    PROVE  CopilotIInv'
<1>1. GithubIInv'
  BY FinishKeeps DEF CopilotIInv, ResyncEnds
<1>2. sync'.driftCount = 0
  BY DEF ResyncEnds, FinishResync, Aligned
<1>3. Mirrors0(Mirrored(0), 0)
  BY MirroredGood
<1>4. Mirrors0(copilot', 0)
  BY <1>2, <1>3, SweptGood DEF ResyncEnds, Notifies, Mirrors0
<1>5. CustodianIInv'
  BY HealedKeeps DEF CopilotIInv, ResyncEnds
<1> QED
  BY <1>1, <1>2, <1>4, <1>5, GoodAgain

LEMMA MonitorTickKeeps ==
    ASSUME CopilotIInv, MonitorTick
    PROVE  CopilotIInv'
<1>1. GithubIInv' /\ Mirrors0(copilot', sync'.driftCount)
  <2>1. CASE MustResync
    <3>1. "monitor" \in Callers
      BY CallersAssumption
    <3> QED
      BY <2>1, <3>1, RequestResyncKeeps DEF MonitorTick
  <2>2. CASE ~MustResync
    <3>1. UNCHANGED <<sync, awaiting, copilot>>
      BY <2>2 DEF MonitorTick
    <3> QED
      BY <3>1, CopilotFacts DEF CopilotIInv, GithubIInv, GithubTypeOK, DriftAgrees
  <2> QED
    BY <2>1, <2>2
<1>2. CustodianIInv'
  BY HealedKeeps DEF CopilotIInv, MonitorTick
<1> QED
  BY <1>1, <1>2, GoodAgain

(* The copilot's own switches. *)
LEMMA SwitchKeeps ==
    ASSUME CopilotIInv, UNCHANGED <<githubVars, storeVars>>,
           copilot' \in Copilots,
           copilot'.currentDriftCount = copilot.currentDriftCount,
           copilot'.zeroDriftAttested <=> copilot.zeroDriftAttested,
           copilot'.driftDetected \in {copilot.driftDetected, "absent"},
           copilot.zeroDriftLocked = "absent" => copilot'.zeroDriftLocked = "absent"
    PROVE  CopilotIInv'
<1>1. GithubIInv' /\ sync' = sync
  BY DEF githubVars, CopilotIInv, GithubIInv, GithubTypeOK, DriftAgrees
<1>2. CustodianIInv'
  BY StoreUnchangedKeeps DEF CopilotIInv
<1>3. Mirrors0(copilot', sync'.driftCount)
  BY <1>1, CopilotFacts DEF Mirrors0
<1> QED
  BY <1>1, <1>2, <1>3, GoodAgain

LEMMA SwitchesKeep ==
    ASSUME CopilotIInv, ApplyZeroDriftLocked \/ DismissSuggestion \/ ToggleAutoPilot
    PROVE  CopilotIInv'
<1>0. copilot \in Copilots /\ UNCHANGED <<githubVars, storeVars>>
  BY DEF CopilotIInv, ApplyZeroDriftLocked, DismissSuggestion, ToggleAutoPilot
<1>1. CASE ApplyZeroDriftLocked
  <2>1. copilot' = [copilot EXCEPT !.zeroDriftLocked = "applied"] /\ copilot.zeroDriftLocked = "open"
    BY <1>1 DEF ApplyZeroDriftLocked
  <2> QED
    BY <1>0, <2>1, SwitchKeeps DEF Copilots, Suggestion
<1>2. CASE copilot' = [copilot EXCEPT !.driftDetected = "absent"]
  BY <1>0, <1>2, SwitchKeeps DEF Copilots, Suggestion
<1>3. CASE copilot' = [copilot EXCEPT !.zeroDriftLocked = "absent"]
  BY <1>0, <1>3, SwitchKeeps DEF Copilots, Suggestion
<1>4. CASE ToggleAutoPilot
  <2> DEFINE active == ~copilot.autoPilotActive
  <2>1. copilot' = [copilot EXCEPT !.autoPilotActive = active] /\ active \in BOOLEAN
    BY <1>4 DEF ToggleAutoPilot
  <2> HIDE DEF active
  <2> QED
    BY <1>0, <2>1, SwitchKeeps DEF Copilots
<1> QED
  BY <1>1, <1>2, <1>3, <1>4 DEF DismissSuggestion

LEMMA CopilotNextKeeps ==
    ASSUME CopilotIInv, [CopilotNext]_copilotVars
    PROVE  CopilotIInv'
<1>1. CASE RemoteAdvances
  <2>1. GithubIInv'
    BY <1>1, DriftKeeps DEF RemoteAdvances, CopilotIInv
  <2> QED
    BY <1>1, <2>1, NotifiesGood, StoreUnchangedKeeps, GoodAgain DEF RemoteAdvances, CopilotIInv
<1>2. ASSUME NEW caller \in {"panel", "sweep"}, RequestResync(caller) PROVE CopilotIInv'
  <2>1. caller \in Callers
    BY CallersAssumption
  <2> QED
    BY <1>2, <2>1, RequestResyncKeeps, StoreUnchangedKeeps, GoodAgain
       DEF RequestResync, CopilotIInv
<1>3. CASE UseConsole
  <2>1. CustodianIInv'
    BY <1>3, StoreKeeps DEF UseConsole, CopilotIInv, StoreNext
  <2>2. GithubIInv' /\ UNCHANGED <<sync, copilot>>
    BY <1>3 DEF UseConsole, githubVars, CopilotIInv, GithubIInv, GithubTypeOK, DriftAgrees
  <2> QED
    BY <2>1, <2>2, CopilotFacts, GoodAgain
<1>4. CASE UNCHANGED copilotVars
  <2>1. UNCHANGED <<githubVars, storeVars, copilot>>
    BY <1>4 DEF copilotVars, githubVars, storeVars
  <2>2. GithubIInv' /\ UNCHANGED <<sync, copilot>>
    BY <2>1 DEF githubVars, CopilotIInv, GithubIInv, GithubTypeOK, DriftAgrees
  <2> QED
    BY <2>1, <2>2, StoreUnchangedKeeps, CopilotFacts, GoodAgain DEF CopilotIInv
<1> QED
  BY <1>1, <1>2, <1>3, <1>4, ResyncEndsKeeps, MonitorTickKeeps, SwitchesKeep DEF CopilotNext

LEMMA CopilotInitially == CopilotInit => CopilotIInv
<1> SUFFICES ASSUME CopilotInit PROVE CopilotIInv
  OBVIOUS
<1>1. GithubIInv /\ CustodianIInv
  BY GithubInitially, StoreInitially DEF CopilotInit
<1>2. sync.driftCount = 0 /\ sync.local = sync.remote
  BY DEF CopilotInit, GithubInit
<1>3. copilot = [currentDriftCount |-> 0, zeroDriftAttested |-> TRUE,
                 driftDetected |-> "absent", zeroDriftLocked |-> "open",
                 autoPilotActive |-> TRUE]
  BY DEF CopilotInit
<1> QED
  BY <1>1, <1>2, <1>3 DEF CopilotIInv, CopilotInv, Copilots, Suggestion

LEMMA CopilotInvHolds ==
    CopilotIInv => CopilotTypeOK /\ DriftAgrees /\ CustodianInv /\ CopilotInv
  BY DEF CopilotIInv, CopilotTypeOK, GithubIInv, CustodianIInv, Copilots

(* What the copilot attests and suggests is what the heights say, through  *)
(* drifts, overlapping reconciliations, sweeps and the auto-pilot's        *)
(* interval, and the store it resets stays consistent                      *)
(* (copilotAssistantService.ts with githubSyncService.ts and               *)
(* systemStateStore.ts).                                                   *)
THEOREM CopilotCorrect ==
    CopilotSpec => [](CopilotTypeOK /\ DriftAgrees /\ CustodianInv /\ CopilotInv)
<1>1. CopilotIInv /\ [CopilotNext]_copilotVars => CopilotIInv'
  BY CopilotNextKeeps
<1> QED
  BY CopilotInitially, CopilotInvHolds, <1>1, PTL DEF CopilotSpec
=============================================================================
