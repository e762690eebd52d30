--------------------------- MODULE ServicesProofs ---------------------------
(***************************************************************************)
(* Proofs about the services of the page and of its server: each service   *)
(* alone, for any value of its constants, and then all of them side by     *)
(* side, as Services composes them.                                        *)
(***************************************************************************)
EXTENDS Services, CopilotAutonomyProofs, TuningTransactionProofs, FiniteSetTheorems

-----------------------------------------------------------------------------
(* The cluster. *)

(* ClusterInv is inductive as it stands. *)
ClusterIInv == HsmTypeOK /\ ClusterInv

LEMMA ClusterInitially == HsmInit => ClusterIInv
  BY DEF HsmInit, ClusterIInv, HsmTypeOK, ClusterInv, Nodes, TotalNodes

LEMMA DegradationKeeps ==
    ASSUME ClusterIInv, NEW count \in Drops, simulateDegradation(count)
    PROVE  ClusterIInv'
<1> DEFINE active == Clamped(count)
           degraded == active * 10 < ThresholdPct
<1>1. active \in Nodes
  BY HsmAssumption DEF Clamped, Nodes, TotalNodes
<1>2. /\ cluster' = [cluster EXCEPT !.activeNodes = active,
                                    !.quorumPercentage = active * 10,
                                    !.isDegraded = degraded,
                                    !.online = 1..active]
      /\ Mirrors(active)
      /\ remediations' = remediations
  BY DEF simulateDegradation
<1>a. degraded \in BOOLEAN
  OBVIOUS
<1> HIDE DEF active
<1>3. active * 10 \in 0..100 /\ (degraded <=> active < 8) /\ active * 10 = 10 * active
      /\ 1..active \subseteq Nodes
  BY <1>1 DEF Nodes, TotalNodes, ThresholdPct
<1> HIDE DEF degraded
<1>4. HsmTypeOK'
  BY <1>1, <1>2, <1>3, <1>a DEF ClusterIInv, HsmTypeOK, Mirrors
<1>5. /\ cluster'.activeNodes = active
      /\ cluster'.quorumPercentage = 10 * active
      /\ cluster'.isDegraded = degraded
      /\ cluster'.online = 1..active
      /\ cluster'.isRemediating = cluster.isRemediating
  BY <1>2, <1>3 DEF ClusterIInv, HsmTypeOK
<1>6. /\ console'.activeHsmNodes = active
      /\ active < TotalNodes => console'.lastEvent # "none"
      /\ active = TotalNodes => console'.lastEvent # "offline"
  BY <1>1, <1>2 DEF Mirrors, ClusterIInv, ClusterInv, HsmTypeOK, Nodes, TotalNodes
<1> QED
  BY <1>2, <1>3, <1>4, <1>5, <1>6 DEF ClusterIInv, ClusterInv

LEMMA StartRemediationKeeps ==
    ASSUME ClusterIInv, StartRemediation
    PROVE  ClusterIInv'
<1>1. /\ cluster' = [cluster EXCEPT !.isRemediating = TRUE]
      /\ remediations' = remediations + 1 /\ console' = console
  BY DEF StartRemediation
<1>2. /\ cluster'.online = cluster.online /\ cluster'.activeNodes = cluster.activeNodes
      /\ cluster'.quorumPercentage = cluster.quorumPercentage
      /\ cluster'.isDegraded = cluster.isDegraded
  BY <1>1 DEF ClusterIInv, HsmTypeOK
<1>3. remediations' \in Nat /\ remediations' > 0
  BY <1>1 DEF ClusterIInv, HsmTypeOK
<1>4. HsmTypeOK'
  BY <1>1, <1>3 DEF ClusterIInv, HsmTypeOK
<1> QED
  BY <1>1, <1>2, <1>3, <1>4 DEF ClusterIInv, ClusterInv

LEMMA FinishRemediationKeeps ==
    ASSUME ClusterIInv, FinishRemediation
    PROVE  ClusterIInv'
<1>1. cluster' = Restored /\ Mirrors(TotalNodes) /\ remediations' = remediations - 1
      /\ remediations' \in Nat
  BY DEF FinishRemediation, ClusterIInv, HsmTypeOK
<1>2. /\ console'.activeHsmNodes = TotalNodes
      /\ console'.lastEvent # "offline"
  BY <1>1 DEF Mirrors, ClusterIInv, ClusterInv, HsmTypeOK, Nodes, TotalNodes
<1> QED
  BY <1>1, <1>2 DEF ClusterIInv, ClusterInv, HsmTypeOK, Mirrors, Restored, Nodes, TotalNodes

LEMMA HsmNextKeeps == ASSUME ClusterIInv, [HsmNext]_hsmVars PROVE ClusterIInv'
<1>1. CASE UNCHANGED hsmVars
  BY <1>1 DEF hsmVars, ClusterIInv, HsmTypeOK, ClusterInv
<1> QED
  BY <1>1, DegradationKeeps, StartRemediationKeeps, FinishRemediationKeeps DEF HsmNext

(* The count, the percentage, the flags, the node list, App's mirror and the *)
(* last event logged tell the same of the cluster, however drops arrive    *)
(* while remediations wait (simulateDegradation and remediateCluster of    *)
(* hsmClusterService.ts with the subscription of App.tsx).                 *)
THEOREM ClusterCorrect == HsmSpec => [](HsmTypeOK /\ ClusterInv)
<1>1. ClusterIInv /\ [HsmNext]_hsmVars => ClusterIInv'
  BY HsmNextKeeps
<1> QED
  BY ClusterInitially, <1>1, PTL DEF HsmSpec, ClusterIInv

-----------------------------------------------------------------------------
(* The recovery tickets. *)

(* TicketsInv is inductive as it stands. *)
TicketIInv == TicketTypeOK /\ TicketsInv

LEMMA TicketsInitially == TicketInit => TicketIInv
  BY DEF TicketInit, TicketIInv, TicketTypeOK, TicketsInv

LEMMA IssueTicketKeeps ==
    ASSUME TicketIInv, NEW email \in Emails, IssueTicket(email)
    PROVE  TicketIInv'
<1> DEFINE last == Len(tickets) + 1
           new == [email |-> email, used |-> FALSE, expired |-> FALSE, verified |-> 0]
           spent == [n \in 1..Len(tickets) |->
                        IF SpentBy(email, n) THEN [tickets[n] EXCEPT !.used = TRUE]
                        ELSE tickets[n]]
<1>1. tickets \in Seq(Ticket) /\ Len(tickets) \in Nat /\ known \subseteq 1..Len(tickets)
  BY DEF TicketIInv, TicketTypeOK
<1>2. new \in Ticket
  BY DEF Ticket
<1>3. spent \in Seq(Ticket) /\ Len(spent) = Len(tickets)
  <2>1. \A n \in 1..Len(tickets) : spent[n] \in Ticket
    <3> SUFFICES ASSUME NEW n \in 1..Len(tickets) PROVE spent[n] \in Ticket
      OBVIOUS
    <3>1. tickets[n] \in Ticket
      BY <1>1
    <3>2. [tickets[n] EXCEPT !.used = TRUE] \in Ticket
      BY <3>1 DEF Ticket
    <3> QED
      BY <3>1, <3>2
  <2> HIDE DEF spent
  <2>2. spent = [n \in 1..Len(tickets) |-> spent[n]]
    BY DEF spent
  <2> QED
    BY <1>1, <2>1, <2>2
<1>4. tickets' = Append(spent, new) /\ known' = known \cup {last}
  BY DEF IssueTicket
<1>5. /\ tickets' \in Seq(Ticket) /\ Len(tickets') = last
      /\ tickets'[last] = new
      /\ \A n \in 1..Len(tickets) : tickets'[n] = spent[n]
  BY <1>2, <1>3, <1>4, <1>1
<1>6. \A n \in 1..Len(tickets) :
          /\ tickets'[n].email = tickets[n].email
          /\ tickets'[n].verified = tickets[n].verified
          /\ tickets[n].used \/ SpentBy(email, n) => tickets'[n].used
  <2> SUFFICES ASSUME NEW n \in 1..Len(tickets)
               PROVE  /\ tickets'[n].email = tickets[n].email
                      /\ tickets'[n].verified = tickets[n].verified
                      /\ tickets[n].used \/ SpentBy(email, n) => tickets'[n].used
    OBVIOUS
  <2>1. tickets[n] \in Ticket /\ tickets'[n] = spent[n]
    BY <1>1, <1>5
  <2>2. CASE SpentBy(email, n)
    BY <2>1, <2>2 DEF Ticket
  <2>3. CASE ~SpentBy(email, n)
    BY <2>1, <2>3 DEF Ticket
  <2> QED
    BY <2>2, <2>3
<1> HIDE DEF last, spent, new
<1>7. \A n \in 1..Len(tickets) : Redeemable(n)' => Redeemable(n) /\ tickets[n].email # email
  <2> SUFFICES ASSUME NEW n \in 1..Len(tickets), Redeemable(n)'
               PROVE  Redeemable(n) /\ tickets[n].email # email
    OBVIOUS
  <2>1. n \in known
    BY <1>1, <1>4 DEF Redeemable, last
  <2> QED
    BY <1>6, <2>1 DEF Redeemable, SpentBy
<1>8. TicketTypeOK'
  <2>1. known' \subseteq 1..Len(tickets')
    <3>1. known' = known \cup {last} /\ Len(tickets') = last
      BY <1>4, <1>5
    <3>2. last \in 1..last /\ 1..Len(tickets) \subseteq 1..last
      BY <1>1 DEF last
    <3> QED
      BY <1>1, <3>1, <3>2
  <2> QED
    BY <1>5, <2>1 DEF TicketTypeOK
<1>9. ASSUME NEW n \in 1..Len(tickets')
      PROVE  tickets'[n].verified <= 1 /\ (Redeemable(n)' => tickets'[n].verified = 0)
  <2>1. CASE n = last
    BY <1>5, <2>1 DEF new
  <2>2. CASE n \in 1..Len(tickets)
    BY <1>6, <1>7, <2>2 DEF TicketIInv, TicketsInv
  <2> QED
    BY <1>1, <1>5, <2>1, <2>2 DEF last
<1>10. ASSUME NEW m \in 1..Len(tickets'), NEW n \in 1..Len(tickets'),
              m < n, n \in known', tickets'[m].email = tickets'[n].email
       PROVE  ~Redeemable(m)'
  <2>1. m \in 1..Len(tickets)
    BY <1>1, <1>5, <1>10 DEF last
  <2>2. CASE n = last
    BY <1>5, <1>6, <1>7, <1>10, <2>1, <2>2 DEF new
  <2>3. CASE n \in 1..Len(tickets)
    <3>1. n \in known
      BY <1>1, <1>4, <1>10, <2>3 DEF last
    <3> QED
      BY <1>6, <1>7, <1>10, <2>1, <2>3, <3>1 DEF TicketIInv, TicketsInv
  <2> QED
    BY <1>1, <1>5, <2>2, <2>3 DEF last
<1> QED
  BY <1>8, <1>9, <1>10 DEF TicketIInv, TicketsInv

(* What using up or expiring one ticket keeps. *)
LEMMA OneTicketKeeps ==
    ASSUME TicketIInv, NEW n \in 1..Len(tickets), NEW ticket \in Ticket,
           tickets' = [tickets EXCEPT ![n] = ticket], known' = known,
           ticket.email = tickets[n].email, ticket.verified <= 1,
           n \in known /\ ~ticket.used => ~tickets[n].used /\ ticket.verified = 0
    PROVE  TicketIInv'
<1>1. tickets \in Seq(Ticket)
  BY DEF TicketIInv, TicketTypeOK
<1>2. /\ tickets' \in Seq(Ticket) /\ Len(tickets') = Len(tickets)
      /\ \A m \in 1..Len(tickets) : tickets'[m] = IF m = n THEN ticket ELSE tickets[m]
  BY <1>1
<1>3. TicketTypeOK'
  BY <1>2 DEF TicketIInv, TicketTypeOK
<1>4. \A m \in 1..Len(tickets) : /\ tickets'[m].email = tickets[m].email
                                 /\ Redeemable(m)' => Redeemable(m)
  BY <1>2 DEF Redeemable
<1>5. \A m \in 1..Len(tickets) : /\ tickets'[m].verified <= 1
                                 /\ Redeemable(m)' => tickets'[m].verified = 0
  BY <1>2, <1>4 DEF Redeemable, TicketIInv, TicketsInv
<1> QED
  BY <1>2, <1>3, <1>4, <1>5 DEF TicketIInv, TicketsInv

(* A ticket after its redemption, or after a newer one was issued. *)
Spent(ticket, count) == [ticket EXCEPT !.used = TRUE, !.verified = count]

LEMMA SpentFacts ==
    ASSUME NEW ticket \in Ticket, NEW count \in Nat
    PROVE  /\ Spent(ticket, count) \in Ticket
           /\ Spent(ticket, count).used
           /\ Spent(ticket, count).verified = count
           /\ Spent(ticket, count).email = ticket.email
  BY DEF Spent, Ticket

LEMMA VerifyTicketKeeps ==
    ASSUME TicketIInv, NEW n \in 1..Len(tickets), VerifyTicket(n)
    PROVE  TicketIInv'
<1> DEFINE ticket == [tickets[n] EXCEPT !.used = TRUE,
                                        !.verified = IF tickets[n].expired THEN @ ELSE @ + 1]
<1>1. tickets \in Seq(Ticket) /\ tickets[n] \in Ticket
  BY DEF TicketIInv, TicketTypeOK
<1>2. tickets[n].verified = 0
  BY DEF VerifyTicket, TicketIInv, TicketsInv, Redeemable
<1>3. ticket \in Ticket /\ ticket.used /\ ticket.verified <= 1 /\ ticket.email = tickets[n].email
  <2> DEFINE count == IF tickets[n].expired THEN tickets[n].verified ELSE tickets[n].verified + 1
  <2>1. ticket = Spent(tickets[n], count)
    BY DEF Spent
  <2>2. count \in Nat /\ count <= 1
    BY <1>2
  <2> HIDE DEF count, ticket
  <2> QED
    BY <1>1, <2>1, <2>2, SpentFacts
<1>4. tickets' = [tickets EXCEPT ![n] = ticket] /\ known' = known
  BY <1>1 DEF VerifyTicket
<1> HIDE DEF ticket
<1> QED
  BY <1>3, <1>4, OneTicketKeeps

LEMMA ExpireTicketKeeps ==
    ASSUME TicketIInv, NEW n \in 1..Len(tickets), ExpireTicket(n)
    PROVE  TicketIInv'
<1> DEFINE ticket == [tickets[n] EXCEPT !.expired = TRUE]
<1>1. tickets \in Seq(Ticket) /\ tickets[n] \in Ticket
  BY DEF TicketIInv, TicketTypeOK
<1>2. /\ ticket \in Ticket /\ ticket.used = tickets[n].used
      /\ ticket.verified = tickets[n].verified /\ ticket.email = tickets[n].email
  BY <1>1 DEF Ticket
<1>3. /\ tickets[n].verified <= 1
      /\ n \in known /\ ~tickets[n].used => tickets[n].verified = 0
  BY DEF TicketIInv, TicketsInv, Redeemable
<1>4. tickets' = [tickets EXCEPT ![n] = ticket] /\ known' = known
  BY <1>1 DEF ExpireTicket
<1> HIDE DEF ticket
<1> QED
  BY <1>2, <1>3, <1>4, OneTicketKeeps

LEMMA TicketNextKeeps == ASSUME TicketIInv, [TicketNext]_ticketVars PROVE TicketIInv'
<1>1. CASE RestartServer
  BY <1>1 DEF RestartServer, TicketIInv, TicketTypeOK, TicketsInv, Redeemable
<1>2. CASE UNCHANGED ticketVars
  BY <1>2 DEF ticketVars, TicketIInv, TicketTypeOK, TicketsInv, Redeemable
<1> QED
  BY <1>1, <1>2, IssueTicketKeeps, VerifyTicketKeeps, ExpireTicketKeeps DEF TicketNext

(* A recovery ticket is redeemed once, and of an address only the newest   *)
(* can be, however requests, redemptions, expiries and restarts of the     *)
(* server interleave (the two recovery handlers of server.ts).             *)
THEOREM TicketsCorrect == TicketSpec => [](TicketTypeOK /\ TicketsInv)
<1>1. TicketIInv /\ [TicketNext]_ticketVars => TicketIInv'
  BY TicketNextKeeps
<1> QED
  BY TicketsInitially, <1>1, PTL DEF TicketSpec, TicketIInv

-----------------------------------------------------------------------------
(* The federation. *)

(* No run overtakes the one before it. *)
InStartOrder == \A n \in 2..Len(runs) : runs[n - 1] >= runs[n]

FederationIInv == FederationTypeOK /\ InStartOrder /\ FederationInv

LEMMA FederationInitially == FederationInit => FederationIInv
<1> SUFFICES ASSUME FederationInit PROVE FederationIInv
  OBVIOUS
<1>1. runs = <<>> /\ Len(runs) = 0 /\ fed.lastSyncedMerkleRoot = 0
      /\ fed.packetsProcessedCount = Base /\ fed.packet.of = 0 /\ ~fed.isSyncing
  BY DEF FederationInit
<1>2. FederationTypeOK
  BY <1>1, FederationAssumption DEF FederationInit, FederationTypeOK
<1>3. SealedRuns = {} /\ 1..0 = {}
  BY <1>1 DEF SealedRuns
<1> QED
  BY <1>1, <1>2, <1>3, FederationAssumption DEF FederationIInv, InStartOrder, FederationInv

(* The runs sealed are the first of all, as many as the last root says. *)
LEMMA SealedFacts ==
    ASSUME FederationIInv
    PROVE  /\ runs \in Seq(1..Sealed) /\ Len(runs) \in Nat
           /\ fed.lastSyncedMerkleRoot \in 0..Len(runs)
           /\ \A n \in 1..Len(runs) : runs[n] = Sealed <=> n <= fed.lastSyncedMerkleRoot
<1>1. runs \in Seq(1..Sealed) /\ Len(runs) \in Nat /\ fed.lastSyncedMerkleRoot \in Nat
  BY DEF FederationIInv, FederationTypeOK
<1>2. SealedRuns = 1..fed.lastSyncedMerkleRoot
  BY DEF FederationIInv, FederationInv
<1>3. \A n \in 1..fed.lastSyncedMerkleRoot : n \in 1..Len(runs)
  BY <1>2 DEF SealedRuns
<1>4. fed.lastSyncedMerkleRoot \in 0..Len(runs)
  BY <1>1, <1>3
<1>5. \A n \in 1..Len(runs) : runs[n] = Sealed <=> n \in 1..fed.lastSyncedMerkleRoot
  BY <1>2 DEF SealedRuns
<1> QED
  BY <1>1, <1>4, <1>5

LEMMA TriggerKeeps ==
    ASSUME FederationIInv, triggerFederationSync
    PROVE  FederationIInv'
<1> DEFINE last == Len(runs) + 1
<1>1. /\ runs \in Seq(1..Sealed) /\ Len(runs) \in Nat
      /\ fed.lastSyncedMerkleRoot \in 0..Len(runs)
  BY SealedFacts
<1>2. /\ runs' = Append(runs, 1)
      /\ fed' = [fed EXCEPT !.isSyncing = TRUE,
                            !.stage = Stages[1],
                            !.packet = [of |-> last, status |-> PacketStatus[1]]]
  BY DEF triggerFederationSync
<1>3. /\ fed'.lastSyncedMerkleRoot = fed.lastSyncedMerkleRoot
      /\ fed'.packetsProcessedCount = fed.packetsProcessedCount
  BY <1>2 DEF FederationIInv, FederationTypeOK
<1>4. /\ runs' \in Seq(1..Sealed) /\ Len(runs') = last /\ runs'[last] = 1
      /\ \A n \in 1..Len(runs) : runs'[n] = runs[n]
  BY <1>1, <1>2 DEF Sealed
<1>5. FederationTypeOK'
  <2>1. [of |-> last, status |-> PacketStatus[1]]
            \in [of : Nat, status : {PacketStatus[k] : k \in 1..Sealed} \cup {"none"}]
    BY <1>1 DEF Sealed
  <2>2. Stages[1] \in {Stages[k] : k \in 1..Sealed} \cup {"IDLE"}
    BY DEF Sealed
  <2> QED
    BY <1>2, <1>4, <2>1, <2>2 DEF FederationIInv, FederationTypeOK
<1>6. InStartOrder'
  <2> SUFFICES ASSUME NEW n \in 2..last PROVE runs'[n - 1] >= runs'[n]
    BY <1>4 DEF InStartOrder
  <2>1. CASE n = last
    <3>1. n - 1 \in 1..Len(runs) /\ runs'[n] = 1
      BY <1>1, <1>4, <2>1
    <3>2. runs'[n - 1] = runs[n - 1] /\ runs[n - 1] \in 1..Sealed
      BY <1>1, <1>4, <3>1 DEF Sealed
    <3> QED
      BY <3>1, <3>2 DEF Sealed
  <2>2. CASE n \in 2..Len(runs)
    BY <1>1, <1>4, <2>2 DEF FederationIInv, InStartOrder
  <2> QED
    BY <1>1, <2>1, <2>2
<1>7. SealedRuns' = SealedRuns
  BY <1>1, <1>4 DEF SealedRuns, Sealed
<1>8. SealedRuns' # 1..Len(runs')
  BY <1>1, <1>4 DEF SealedRuns, Sealed
<1> QED
  BY <1>3, <1>5, <1>6, <1>7, <1>8 DEF FederationIInv, FederationInv

LEMMA StageTimerKeeps ==
    ASSUME FederationIInv, NEW n \in 1..Len(runs), StageTimer(n)
    PROVE  FederationIInv'
<1>1. /\ runs \in Seq(1..Sealed) /\ Len(runs) \in Nat
      /\ fed.lastSyncedMerkleRoot \in 0..Len(runs)
      /\ \A m \in 1..Len(runs) : runs[m] = Sealed <=> m <= fed.lastSyncedMerkleRoot
  BY SealedFacts
<1>2. /\ runs[n] \in 1..4 /\ runs[n] + 1 \in 2..5
      /\ n > 1 => runs[n - 1] > runs[n]
  BY <1>1 DEF StageTimer, Due, Sealed
<1>3. /\ Len(runs') = Len(runs) /\ runs' \in Seq(1..Sealed)
      /\ \A m \in 1..Len(runs) : runs'[m] = IF m = n THEN runs[n] + 1 ELSE runs[m]
  <2>1. runs' = [runs EXCEPT ![n] = runs[n] + 1] /\ runs[n] + 1 \in 1..Sealed
    BY <1>1, <1>2 DEF StageTimer, Sealed
  <2> QED
    BY <1>1, <2>1
<1>4. InStartOrder'
  <2> SUFFICES ASSUME NEW m \in 2..Len(runs) PROVE runs'[m - 1] >= runs'[m]
    BY <1>3 DEF InStartOrder
  <2>1. m \in 1..Len(runs) /\ m - 1 \in 1..Len(runs) /\ runs[m] \in Nat /\ runs[m - 1] \in Nat
        /\ runs[m - 1] >= runs[m]
    BY <1>1 DEF FederationIInv, InStartOrder, Sealed
  <2>2. CASE m = n
    BY <1>2, <1>3, <2>1, <2>2
  <2>3. CASE m # n
    BY <1>3, <2>1, <2>3
  <2> QED
    BY <2>2, <2>3
<1>5. CASE runs[n] + 1 # Sealed
  <2>1. fed' = StageReached(n, runs[n] + 1)
    BY <1>5 DEF StageTimer
  <2>2. runs[n] + 1 \in 2..4
    BY <1>2, <1>5 DEF Sealed
  <2>3. /\ fed'.lastSyncedMerkleRoot = fed.lastSyncedMerkleRoot
        /\ fed'.packetsProcessedCount = fed.packetsProcessedCount
    BY <2>1 DEF StageReached, FederationIInv, FederationTypeOK
  <2>4. FederationTypeOK'
    <3>1. Stages[runs[n] + 1] \in {Stages[k] : k \in 1..Sealed} \cup {"IDLE"}
      BY <2>2 DEF Sealed
    <3>2. [of |-> n, status |-> PacketStatus[runs[n] + 1]]
              \in [of : Nat, status : {PacketStatus[k] : k \in 1..Sealed} \cup {"none"}]
      BY <2>2 DEF Sealed
    <3> QED
      BY <1>3, <2>1, <3>1, <3>2 DEF StageReached, FederationIInv, FederationTypeOK
  <2>5. SealedRuns' = SealedRuns
    BY <1>2, <1>3, <1>5 DEF SealedRuns, Sealed
  <2>6. SealedRuns' # 1..Len(runs')
    <3>1. n \notin SealedRuns'
      BY <1>3, <1>5 DEF SealedRuns
    <3> QED
      BY <1>3, <3>1
  <2> QED
    BY <1>4, <2>3, <2>4, <2>5, <2>6 DEF FederationIInv, FederationInv
<1>6. CASE runs[n] + 1 = Sealed
  <2>1. fed' = SealedBy(n)
    BY <1>6 DEF StageTimer
  <2>2. n = fed.lastSyncedMerkleRoot + 1
    <3>1. runs[n] # Sealed
      BY <1>2, <1>6 DEF Sealed
    <3>2. n > 1 => runs[n - 1] = Sealed
      <4> SUFFICES ASSUME n > 1 PROVE runs[n - 1] = Sealed
        OBVIOUS
      <4>0. n - 1 \in 1..Len(runs)
        BY <1>1
      <4>1. runs[n - 1] \in 1..Sealed
        BY <1>1, <4>0 DEF Sealed
      <4> QED
        BY <1>2, <1>6, <4>1 DEF Sealed
    <3> QED
      BY <1>1, <3>1, <3>2
  <2>3. SealedRuns' = 1..n
    BY <1>1, <1>3, <1>6, <2>2 DEF SealedRuns
  <2>4. fed.packetsProcessedCount = Base + fed.lastSyncedMerkleRoot
        /\ fed.packetsProcessedCount + 1 = Base + n /\ Base + n \in Nat
    BY <1>1, <2>2, FederationAssumption DEF FederationIInv, FederationInv
  <2>5. FederationTypeOK'
    <3>1. Stages[Sealed] \in {Stages[k] : k \in 1..Sealed} \cup {"IDLE"}
      BY DEF Sealed
    <3>2. [of |-> n, status |-> PacketStatus[Sealed]]
              \in [of : Nat, status : {PacketStatus[k] : k \in 1..Sealed} \cup {"none"}]
      BY DEF Sealed
    <3> QED
      BY <1>3, <2>1, <2>4, <3>1, <3>2 DEF SealedBy, FederationTypeOK
  <2>6. SealedRuns' = 1..Len(runs') => n = Len(runs')
    <3>1. Len(runs') \in 1..Len(runs')
      BY <1>1, <1>3
    <3> QED
      BY <1>1, <1>3, <2>3, <3>1
  <2>7. Stages[Sealed] = "FINAL_SEAL" /\ PacketStatus[Sealed] = "SEALED_CONSENSUS"
    BY DEF Stages, PacketStatus, Sealed
  <2> QED
    BY <1>4, <2>1, <2>3, <2>4, <2>5, <2>6, <2>7
       DEF SealedBy, FederationIInv, FederationInv
<1> QED
  BY <1>5, <1>6

LEMMA FederationNextKeeps == ASSUME FederationIInv, [FederationNext]_fedVars PROVE FederationIInv'
<1>1. CASE UNCHANGED fedVars
  BY <1>1 DEF fedVars, FederationIInv, FederationTypeOK, InStartOrder, FederationInv, SealedRuns
<1> QED
  BY <1>1, TriggerKeeps, StageTimerKeeps DEF FederationNext

(* Overlapping synchronisations seal in the order they were started, none  *)
(* is lost, and the last one leaves its own packet in the state shown (the *)
(* chain of timers of triggerFederationSync, federationSyncManager.ts).    *)
THEOREM FederationCorrect == FederationSpec => [](FederationTypeOK /\ FederationInv)
<1>1. FederationIInv /\ [FederationNext]_fedVars => FederationIInv'
  BY FederationNextKeeps
<1>2. FederationIInv => FederationTypeOK /\ FederationInv
  BY DEF FederationIInv
<1> QED
  BY FederationInitially, <1>1, <1>2, PTL DEF FederationSpec

-----------------------------------------------------------------------------
(* The swarm. *)

(* What is known of a task between its timers. *)
TaskInv(task) ==
    /\ IsCompleted(task) <=> task.progress = 100
    /\ IsCompleted(task) => task.advanced
    /\ ~IsCompleted(task) /\ ~task.ticked => task.progress <= 68
    /\ ~IsCompleted(task) => task.progress <= 97

(* Task n is the last one agent a was given. *)
Latest(tasks, a, n) ==
    /\ tasks[n].assignedAgent = a
    /\ \A m \in 1..Len(tasks) : tasks[m].assignedAgent = a => m <= n

(* The agents' part of SwarmInv without a choice. *)
BusyWithLatest(tasks, busy) ==
    \A a \in Agents :
        /\ \A n \in 1..Len(tasks) : Latest(tasks, a, n) /\ ~IsCompleted(tasks[n]) => busy[a] = n
        /\ busy[a] # 0 => Latest(tasks, a, busy[a]) /\ ~IsCompleted(tasks[busy[a]])

(* SwarmInv, with what bounds the progress of a task that has not ended. *)
SwarmIInv ==
    /\ SwarmTypeOK
    /\ \A n \in 1..Len(swarmTasks) : TaskInv(swarmTasks[n])
    /\ BusyWithLatest(swarmTasks, activeTask)

(* The least element of a set of numbers, which stands for an induction. *)
LEMMA Least ==
    ASSUME NEW S \in SUBSET Nat, S # {}
    PROVE  \E n \in S : \A m \in S : n <= m
<1> DEFINE T == {0..k : k \in S}
<1>1. \A k \in S : 0..k \in FiniteSubsetsOf(Nat)
  <2> SUFFICES ASSUME NEW k \in S PROVE 0..k \in FiniteSubsetsOf(Nat)
    OBVIOUS
  <2>1. IsFiniteSet(0..k)
    <3>1. 0 \in Int /\ k \in Int
      OBVIOUS
    <3> QED
      BY <3>1, FS_Interval
  <2>2. 0..k \subseteq Nat
    OBVIOUS
  <2> QED
    BY <2>1, <2>2 DEF FiniteSubsetsOf
<1>2. T \subseteq FiniteSubsetsOf(Nat) /\ T # {}
  BY <1>1
<1>3. IsWellFoundedOn(StrictSubsetOrdering(Nat), FiniteSubsetsOf(Nat))
  BY FS_StrictSubsetOrderingWellFounded
<1>4. PICK x \in T : \A y \in T : ~(<<y, x>> \in StrictSubsetOrdering(Nat))
  <2> HIDE DEF T
  <2> QED
    BY <1>2, <1>3, WFMin
<1>5. PICK n \in S : x = 0..n
  OBVIOUS
<1>6. ASSUME NEW m \in S, m < n PROVE FALSE
  <2>1. 0..m \in T
    OBVIOUS
  <2>2. 0..m \subseteq 0..n /\ n \in 0..n /\ n \notin 0..m
    BY <1>6
  <2>3. 0..m \in SUBSET Nat /\ 0..n \in SUBSET Nat
    OBVIOUS
  <2>4. <<0..m, 0..n>> \in StrictSubsetOrdering(Nat)
    BY <2>2, <2>3 DEF StrictSubsetOrdering
  <2> QED
    BY <1>4, <1>5, <2>1, <2>4
<1> QED
  BY <1>6

LEMMA SwarmInitially == SwarmInit => SwarmIInv
<1> SUFFICES ASSUME SwarmInit PROVE SwarmIInv
  OBVIOUS
<1>1. swarmTasks = <<>> /\ Len(swarmTasks) = 0 /\ swarmTasks \in Seq(Task)
      /\ activeTask = [a \in Agents |-> 0] /\ 1..0 = {}
  BY DEF SwarmInit
<1> QED
  BY <1>1 DEF SwarmIInv, SwarmTypeOK, BusyWithLatest

LEMMA AvailableFacts == AvailableAgent \in Agents
<1>1. CASE IdleAgents = {}
  BY <1>1, SwarmAssumption DEF AvailableAgent, Agents
<1>2. CASE IdleAgents # {}
  <2>1. IdleAgents \in SUBSET Nat /\ IdleAgents \subseteq Agents
    BY DEF IdleAgents, Agents
  <2>2. \E a \in IdleAgents : \A b \in IdleAgents : a <= b
    BY <1>2, <2>1, Least
  <2>3. (CHOOSE a \in IdleAgents : \A b \in IdleAgents : a <= b) \in IdleAgents
    BY <2>2
  <2> QED
    BY <1>2, <2>1, <2>3 DEF AvailableAgent
<1> QED
  BY <1>1, <1>2

LEMMA SubmitKeeps ==
    ASSUME SwarmIInv, submitSwarmTask
    PROVE  SwarmIInv'
<1> DEFINE agent == AvailableAgent
           last == Len(swarmTasks) + 1
           new == [assignedAgent |-> agent, progress |-> 25, status |-> "PROCESSING",
                   advanced |-> FALSE, ticked |-> FALSE]
<1>1. agent \in Agents
  BY AvailableFacts
<1>2. swarmTasks' = Append(swarmTasks, new) /\ activeTask' = [activeTask EXCEPT ![agent] = last]
  BY DEF submitSwarmTask
<1>3. swarmTasks \in Seq(Task) /\ Len(swarmTasks) \in Nat
      /\ activeTask \in [Agents -> 0..Len(swarmTasks)]
  BY DEF SwarmIInv, SwarmTypeOK
<1> HIDE DEF agent
<1>4. new \in Task /\ TaskInv(new) /\ new.assignedAgent = agent /\ ~IsCompleted(new)
  BY <1>1 DEF Task, TaskInv, IsCompleted
<1> HIDE DEF new
<1>5. /\ swarmTasks' \in Seq(Task) /\ Len(swarmTasks') = last
      /\ swarmTasks'[last] = new
      /\ \A n \in 1..Len(swarmTasks) : swarmTasks'[n] = swarmTasks[n]
  BY <1>2, <1>3, <1>4
<1>6. /\ last \in Nat \ {0} /\ last \in 0..last /\ 0..Len(swarmTasks) \subseteq 0..last
      /\ \A n \in 1..last : n = last \/ n \in 1..Len(swarmTasks)
      /\ \A n \in 1..Len(swarmTasks) : n \in 1..last /\ n < last
  BY <1>3
<1>7. activeTask' \in [Agents -> 0..last]
      /\ \A a \in Agents : activeTask'[a] = IF a = agent THEN last ELSE activeTask[a]
  BY <1>1, <1>2, <1>3, <1>6
<1> HIDE DEF last
<1>8. SwarmTypeOK'
  BY <1>5, <1>7 DEF SwarmTypeOK
<1>9. \A n \in 1..Len(swarmTasks') : TaskInv(swarmTasks'[n])
  BY <1>4, <1>5, <1>6 DEF SwarmIInv
<1>10. Latest(swarmTasks', agent, last)
       /\ \A n \in 1..last : Latest(swarmTasks', agent, n) => n = last
  BY <1>4, <1>5, <1>6 DEF Latest
<1>11. \A a \in Agents \ {agent} :
           /\ ~Latest(swarmTasks', a, last)
           /\ \A n \in 1..Len(swarmTasks) : Latest(swarmTasks', a, n) <=> Latest(swarmTasks, a, n)
  BY <1>4, <1>5, <1>6 DEF Latest
<1>12. BusyWithLatest(swarmTasks', activeTask')
  <2> SUFFICES ASSUME NEW a \in Agents
               PROVE  /\ \A n \in 1..last :
                             Latest(swarmTasks', a, n) /\ ~IsCompleted(swarmTasks'[n])
                                 => activeTask'[a] = n
                      /\ activeTask'[a] # 0 =>
                             /\ Latest(swarmTasks', a, activeTask'[a])
                             /\ ~IsCompleted(swarmTasks'[activeTask'[a]])
    BY <1>5 DEF BusyWithLatest
  <2>1. CASE a = agent
    BY <1>4, <1>5, <1>7, <1>10, <2>1
  <2>2. CASE a # agent
    <3>1. activeTask'[a] = activeTask[a] /\ activeTask[a] \in 0..Len(swarmTasks)
      BY <1>3, <1>7, <2>2
    <3>2. activeTask[a] # 0 => activeTask[a] \in 1..Len(swarmTasks)
      BY <1>3, <3>1
    <3>3. BusyWithLatest(swarmTasks, activeTask)
      BY DEF SwarmIInv
    <3> QED
      BY <1>5, <1>6, <1>11, <2>2, <3>1, <3>2, <3>3 DEF BusyWithLatest
  <2> QED
    BY <2>1, <2>2
<1> QED
  BY <1>8, <1>9, <1>12 DEF SwarmIInv

LEMMA AdvanceKeeps ==
    ASSUME SwarmIInv, NEW n \in 1..Len(swarmTasks), Advance(n)
    PROVE  SwarmIInv'
<1> DEFINE task == [swarmTasks[n] EXCEPT !.progress = 68, !.advanced = TRUE]
<1>1. swarmTasks \in Seq(Task) /\ swarmTasks[n] \in Task /\ TaskInv(swarmTasks[n])
  BY DEF SwarmIInv, SwarmTypeOK
<1>2. ~swarmTasks[n].advanced /\ swarmTasks' = [swarmTasks EXCEPT ![n] = task]
      /\ activeTask' = activeTask
  BY <1>1 DEF Advance
<1>3. /\ task.assignedAgent = swarmTasks[n].assignedAgent /\ task.progress = 68
      /\ task.status = swarmTasks[n].status /\ task.advanced
  BY <1>1 DEF Task
<1>4. task \in Task
  <2>1. 68 \in 0..100
    OBVIOUS
  <2> QED
    BY <1>1, <2>1 DEF Task
<1> HIDE DEF task
<1>5. ~IsCompleted(swarmTasks[n])
  BY <1>1, <1>2 DEF TaskInv
<1>6. TaskInv(task) /\ ~IsCompleted(task) /\ task.assignedAgent = swarmTasks[n].assignedAgent
  BY <1>3, <1>5 DEF TaskInv, IsCompleted
<1>7. /\ swarmTasks' \in Seq(Task) /\ Len(swarmTasks') = Len(swarmTasks)
      /\ \A m \in 1..Len(swarmTasks) :
             swarmTasks'[m] = IF m = n THEN task ELSE swarmTasks[m]
  BY <1>1, <1>2, <1>4
<1>8. \A m \in 1..Len(swarmTasks) :
          /\ swarmTasks'[m].assignedAgent = swarmTasks[m].assignedAgent
          /\ IsCompleted(swarmTasks'[m]) <=> IsCompleted(swarmTasks[m])
          /\ TaskInv(swarmTasks'[m])
  BY <1>5, <1>6, <1>7 DEF SwarmIInv
<1>9. \A a \in Agents, m \in 1..Len(swarmTasks) :
          Latest(swarmTasks', a, m) <=> Latest(swarmTasks, a, m)
  BY <1>7, <1>8 DEF Latest
<1>10. \A a \in Agents : activeTask[a] # 0 => activeTask[a] \in 1..Len(swarmTasks)
  BY DEF SwarmIInv, SwarmTypeOK
<1>11. BusyWithLatest(swarmTasks', activeTask')
  BY <1>2, <1>7, <1>8, <1>9, <1>10 DEF BusyWithLatest, SwarmIInv
<1> QED
  BY <1>2, <1>7, <1>8, <1>11 DEF SwarmIInv, SwarmTypeOK

LEMMA CompleteKeeps ==
    ASSUME SwarmIInv, NEW n \in 1..Len(swarmTasks), Complete(n)
    PROVE  SwarmIInv'
<1> DEFINE task == [swarmTasks[n] EXCEPT !.progress = 100, !.status = "COMPLETED"]
<1>1. swarmTasks \in Seq(Task) /\ swarmTasks[n] \in Task
      /\ activeTask \in [Agents -> 0..Len(swarmTasks)]
  BY DEF SwarmIInv, SwarmTypeOK
<1>2. /\ swarmTasks[n].advanced /\ ~IsCompleted(swarmTasks[n])
      /\ swarmTasks' = [swarmTasks EXCEPT ![n] = task]
      /\ activeTask' = [a \in Agents |-> IF activeTask[a] = n THEN 0 ELSE activeTask[a]]
  BY <1>1 DEF Complete, Freed, IsCompleted
<1>3. /\ task \in Task /\ task.assignedAgent = swarmTasks[n].assignedAgent
      /\ task.progress = 100 /\ task.status = "COMPLETED"
      /\ task.advanced
  <2>1. 100 \in 0..100 /\ "COMPLETED" \in {"PROCESSING", "COMPLETED"}
    OBVIOUS
  <2>2. task \in Task
    BY <1>1, <2>1 DEF Task
  <2> QED
    BY <1>1, <1>2, <2>2 DEF Task
<1> HIDE DEF task
<1>4. TaskInv(task) /\ IsCompleted(task)
  BY <1>2, <1>3 DEF TaskInv, IsCompleted
<1>5. /\ swarmTasks' \in Seq(Task) /\ Len(swarmTasks') = Len(swarmTasks)
      /\ \A m \in 1..Len(swarmTasks) :
             swarmTasks'[m] = IF m = n THEN task ELSE swarmTasks[m]
  BY <1>1, <1>2, <1>3
<1>6. \A m \in 1..Len(swarmTasks) :
          /\ swarmTasks'[m].assignedAgent = swarmTasks[m].assignedAgent
          /\ TaskInv(swarmTasks'[m])
  BY <1>3, <1>4, <1>5 DEF SwarmIInv
<1>7. \A a \in Agents, m \in 1..Len(swarmTasks) :
          Latest(swarmTasks', a, m) <=> Latest(swarmTasks, a, m)
  BY <1>5, <1>6 DEF Latest
<1>8. activeTask' \in [Agents -> 0..Len(swarmTasks')]
  BY <1>1, <1>2, <1>5
<1>9. BusyWithLatest(swarmTasks', activeTask')
  <2> SUFFICES ASSUME NEW a \in Agents
               PROVE  /\ \A m \in 1..Len(swarmTasks) :
                             Latest(swarmTasks', a, m) /\ ~IsCompleted(swarmTasks'[m])
                                 => activeTask'[a] = m
                      /\ activeTask'[a] # 0 =>
                             /\ Latest(swarmTasks', a, activeTask'[a])
                             /\ ~IsCompleted(swarmTasks'[activeTask'[a]])
    BY <1>5 DEF BusyWithLatest
  <2>1. /\ \A m \in 1..Len(swarmTasks) :
               Latest(swarmTasks, a, m) /\ ~IsCompleted(swarmTasks[m]) => activeTask[a] = m
        /\ activeTask[a] # 0 =>
               Latest(swarmTasks, a, activeTask[a]) /\ ~IsCompleted(swarmTasks[activeTask[a]])
        /\ activeTask'[a] = IF activeTask[a] = n THEN 0 ELSE activeTask[a]
        /\ activeTask[a] # 0 => activeTask[a] \in 1..Len(swarmTasks)
    BY <1>1, <1>2 DEF SwarmIInv, BusyWithLatest
  <2> QED
    BY <1>4, <1>5, <1>7, <2>1
<1> QED
  BY <1>5, <1>6, <1>8, <1>9 DEF SwarmIInv, SwarmTypeOK

(* The interval completes no task: it meets each once, and below 70. *)
LEMMA WorkedFacts ==
    ASSUME NEW task \in Task, TaskInv(task), NEW added \in Increments,
           ~IsCompleted(task) => ~task.ticked
    PROVE  /\ Worked(task, added) \in Task
           /\ TaskInv(Worked(task, added))
           /\ Worked(task, added).assignedAgent = task.assignedAgent
           /\ IsCompleted(Worked(task, added)) <=> IsCompleted(task)
           /\ ~(~IsCompleted(task) /\ task.progress + added >= 100)
<1>0. added \in 10..29 /\ task.progress \in 0..100
  BY SwarmAssumption DEF Task
<1>1. CASE IsCompleted(task)
  BY <1>1 DEF Worked, IsCompleted
<1>2. CASE ~IsCompleted(task)
  <2> DEFINE progress == task.progress + added
  <2>1. progress \in 0..97 /\ progress \in 0..100 /\ ~(task.progress + added >= 100)
    BY <1>0, <1>2 DEF TaskInv
  <2>2. Worked(task, added) = [task EXCEPT !.progress = progress, !.ticked = TRUE]
    BY <1>2, <2>1 DEF Worked, IsCompleted
  <2> HIDE DEF progress
  <2>3. /\ Worked(task, added) \in Task
        /\ Worked(task, added).assignedAgent = task.assignedAgent
        /\ Worked(task, added).progress = progress
        /\ Worked(task, added).status = task.status
        /\ Worked(task, added).ticked
    BY <2>1, <2>2 DEF Task
  <2>4. TaskInv(Worked(task, added)) /\ ~IsCompleted(Worked(task, added))
    BY <1>2, <2>1, <2>3 DEF TaskInv, IsCompleted
  <2> QED
    BY <1>2, <2>1, <2>3, <2>4
<1> QED
  BY <1>1, <1>2

LEMMA ProcessTickKeeps ==
    ASSUME SwarmIInv, NEW added \in Increments, ProcessTick(added)
    PROVE  SwarmIInv'
<1>1. swarmTasks \in Seq(Task) /\ Len(swarmTasks) \in Nat
      /\ activeTask \in [Agents -> 0..Len(swarmTasks)]
  BY DEF SwarmIInv, SwarmTypeOK
<1>2. \A n \in 1..Len(swarmTasks) :
          /\ swarmTasks[n] \in Task /\ TaskInv(swarmTasks[n])
          /\ ~IsCompleted(swarmTasks[n]) => ~swarmTasks[n].ticked
  BY <1>1 DEF ProcessTick, SwarmIInv
<1>3. \A n \in 1..Len(swarmTasks) :
          /\ Worked(swarmTasks[n], added) \in Task
          /\ TaskInv(Worked(swarmTasks[n], added))
          /\ Worked(swarmTasks[n], added).assignedAgent = swarmTasks[n].assignedAgent
          /\ IsCompleted(Worked(swarmTasks[n], added)) <=> IsCompleted(swarmTasks[n])
          /\ ~(~IsCompleted(swarmTasks[n]) /\ swarmTasks[n].progress + added >= 100)
  BY <1>2, WorkedFacts
<1>4. swarmTasks' = [n \in 1..Len(swarmTasks) |-> Worked(swarmTasks[n], added)]
  BY DEF ProcessTick
<1>5. /\ swarmTasks' \in Seq(Task) /\ Len(swarmTasks') = Len(swarmTasks)
      /\ \A n \in 1..Len(swarmTasks) : swarmTasks'[n] = Worked(swarmTasks[n], added)
  BY <1>1, <1>3, <1>4
<1>6. activeTask' = activeTask
  <2>1. activeTask' = [a \in Agents |-> activeTask[a]]
    BY <1>3 DEF ProcessTick
  <2> QED
    BY <1>1, <2>1
<1>7. \A a \in Agents, m \in 1..Len(swarmTasks) :
          Latest(swarmTasks', a, m) <=> Latest(swarmTasks, a, m)
  BY <1>3, <1>5 DEF Latest
<1>8. \A a \in Agents : activeTask[a] # 0 => activeTask[a] \in 1..Len(swarmTasks)
  BY <1>1
<1>9. BusyWithLatest(swarmTasks', activeTask')
  BY <1>3, <1>5, <1>6, <1>7, <1>8 DEF SwarmIInv, BusyWithLatest
<1> QED
  BY <1>1, <1>3, <1>5, <1>6, <1>9 DEF SwarmIInv, SwarmTypeOK

LEMMA SwarmNextKeeps == ASSUME SwarmIInv, [SwarmNext]_swarmVars PROVE SwarmIInv'
<1>1. CASE UNCHANGED swarmVars
  BY <1>1 DEF swarmVars, SwarmIInv, SwarmTypeOK
<1> QED
  BY <1>1, SubmitKeeps, AdvanceKeeps, CompleteKeeps, ProcessTickKeeps DEF SwarmNext

LEMMA SwarmInvHolds == SwarmIInv => SwarmTypeOK /\ SwarmInv
<1> SUFFICES ASSUME SwarmIInv PROVE SwarmInv
  BY DEF SwarmIInv
<1>1. ASSUME NEW a \in Agents
      PROVE  LET given == {n \in 1..Len(swarmTasks) : swarmTasks[n].assignedAgent = a}
                 running == {n \in given : /\ \A m \in given : m <= n
                                           /\ ~IsCompleted(swarmTasks[n])}
             IN  activeTask[a] = IF running = {} THEN 0 ELSE CHOOSE n \in running : TRUE
  <2> DEFINE given == {n \in 1..Len(swarmTasks) : swarmTasks[n].assignedAgent = a}
             running == {n \in given : /\ \A m \in given : m <= n
                                       /\ ~IsCompleted(swarmTasks[n])}
  <2>1. \A n : n \in running <=> /\ n \in 1..Len(swarmTasks)
                                 /\ Latest(swarmTasks, a, n)
                                 /\ ~IsCompleted(swarmTasks[n])
    BY DEF Latest
  <2> HIDE DEF running
  <2>2. /\ \A n \in running : activeTask[a] = n
        /\ activeTask[a] # 0 => activeTask[a] \in running
    BY <2>1 DEF SwarmIInv, SwarmTypeOK, BusyWithLatest
  <2>3. activeTask[a] = IF running = {} THEN 0 ELSE CHOOSE n \in running : TRUE
    BY <2>2
  <2> QED
    BY <2>3 DEF running
<1>2. \A n \in 1..Len(swarmTasks) : IsCompleted(swarmTasks[n]) <=> swarmTasks[n].progress = 100
  BY DEF SwarmIInv, TaskInv
<1> QED
  BY <1>1, <1>2 DEF SwarmInv

(* An agent is busy exactly with the last task it was given while that task *)
(* runs, although older tasks of the agent go on and end (submitSwarmTask  *)
(* and processSwarmTasks of copilotAssistantService.ts).                   *)
THEOREM SwarmCorrect == SwarmSpec => [](SwarmTypeOK /\ SwarmInv)
<1>1. SwarmIInv /\ [SwarmNext]_swarmVars => SwarmIInv'
  BY SwarmNextKeeps
<1> QED
  BY SwarmInitially, SwarmInvHolds, <1>1, PTL DEF SwarmSpec

-----------------------------------------------------------------------------
(* The sessions.  What a late or lost request may do rests on two facts    *)
(* about the calls: a token has at most one request that opens its         *)
(* session, and while that request is awaited and not handled the browser  *)
(* cannot have asked for the session's end.                                *)

Opens(call) == call.op # "logout"

(* What the browser may rely on for a session it was told of. *)
Standing(t) ==
    \/ t \in activeSessions /\ t \notin revokedTokens
    \/ t \in closed \cup lost \cup expired

(* A session logged out is gone from the map, unless its time is over. *)
ClosedStays == \A t \in closed \ lost : t \notin activeSessions \/ t \in expired

AnsweredStand == \A t \in answered : Standing(t)

(* Every token in sight was drawn, or is the made-up one. *)
Known ==
    /\ answered \subseteq drawn
    /\ revokedTokens \subseteq drawn \cup {Local}
    /\ {current, cached} \subseteq drawn \cup {Local, NoSession}
    /\ \A c \in calls : c.token \in drawn \cup {Local}

(* The request that opens a session: its answer has not arrived yet. *)
Opening ==
    \A c \in calls : Opens(c) =>
        /\ c.token \in drawn
        /\ c.token \notin answered
        /\ c.handled => Standing(c.token)

(* A token has at most one such request. *)
OpenedOnce ==
    \A c, d \in calls : Opens(c) /\ Opens(d) /\ c.token = d.token => c = d

(* Until it is handled or given up, nothing else names its token. *)
NotYetHeld ==
    \A c \in calls : Opens(c) /\ c.awaited /\ ~c.handled =>
        /\ c.token \notin revokedTokens
        /\ c.token \notin {current, cached}
        /\ \A d \in calls : ~Opens(d) => d.token # c.token

SessionIInv ==
    /\ SessionTypeOK
    /\ SessionsDurable
    /\ ClosedStays
    /\ AnsweredStand
    /\ Known
    /\ Opening
    /\ OpenedOnce
    /\ NotYetHeld

LEMMA SessionInitially == SessionInit => SessionIInv
  BY DEF SessionInit, SessionIInv, SessionTypeOK, SessionsDurable, ClosedStays,
         AnsweredStand, Known, Opening, OpenedOnce, NotYetHeld, Holders

LEMMA RequestSessionKeeps ==
    ASSUME SessionIInv, NEW t \in Tokens, RequestSession(t)
    PROVE  SessionIInv'
<1> DEFINE new == [op |-> IF t \in Passkeys THEN "passkey" ELSE "login", token |-> t,
                    handled |-> FALSE, awaited |-> TRUE]
<1>a. /\ calls' = calls \cup {new} /\ drawn' = drawn \cup {t} /\ t \notin drawn
      /\ UNCHANGED <<serverVars, browserVars, expired, answered, closed, lost>>
  BY DEF RequestSession, Send
<1>b. /\ new \in Call /\ new.token = t /\ Opens(new) /\ ~new.handled
      /\ t \notin {Local, NoSession}
  BY TokensAssumption DEF Call, Holders, Opens
<1> HIDE DEF new
<1>1. SessionTypeOK'
  BY <1>a, <1>b DEF SessionIInv, SessionTypeOK, serverVars, browserVars
<1>2. SessionsDurable'
  BY <1>a, <1>b DEF SessionIInv, SessionsDurable, serverVars, browserVars
<1>3. ClosedStays'
  BY <1>a, <1>b DEF SessionIInv, ClosedStays, serverVars, browserVars
<1>4. AnsweredStand'
  BY <1>a, <1>b DEF SessionIInv, AnsweredStand, Standing, serverVars, browserVars
<1>5. Known'
  BY <1>a, <1>b DEF SessionIInv, Known, serverVars, browserVars
<1>6. Opening'
  BY <1>a, <1>b DEF SessionIInv, Opening, Opens, Standing, Known, OpenedOnce,
     serverVars, browserVars
<1>7. OpenedOnce'
  BY <1>a, <1>b DEF SessionIInv, OpenedOnce, Opening, Opens, serverVars, browserVars
<1>8. NotYetHeld'
  BY <1>a, <1>b DEF SessionIInv, NotYetHeld, Opens, Known, SessionTypeOK, serverVars,
     browserVars
<1> QED
  BY <1>1, <1>2, <1>3, <1>4, <1>5, <1>6, <1>7, <1>8 DEF SessionIInv

LEMMA RequestLogoutKeeps ==
    ASSUME SessionIInv, RequestLogout
    PROVE  SessionIInv'
<1> DEFINE new == [op |-> "logout", token |-> current, handled |-> FALSE, awaited |-> TRUE]
<1>a. /\ calls' = calls \cup {new} /\ current # NoSession
      /\ UNCHANGED <<serverVars, browserVars, expired, drawn, answered, closed, lost>>
  BY DEF RequestLogout, Send
<1>b. new \in Call /\ new.token = current /\ ~Opens(new)
  BY <1>a DEF SessionIInv, SessionTypeOK, Call, Holders, Opens
<1> HIDE DEF new
<1>1. SessionTypeOK'
  BY <1>a, <1>b DEF SessionIInv, SessionTypeOK, serverVars, browserVars
<1>2. SessionsDurable'
  BY <1>a, <1>b DEF SessionIInv, SessionsDurable, serverVars, browserVars
<1>3. ClosedStays'
  BY <1>a, <1>b DEF SessionIInv, ClosedStays, serverVars, browserVars
<1>4. AnsweredStand'
  BY <1>a, <1>b DEF SessionIInv, AnsweredStand, Standing, serverVars, browserVars
<1>5. Known'
  BY <1>a, <1>b DEF SessionIInv, Known, serverVars, browserVars
<1>6. Opening'
  BY <1>a, <1>b DEF SessionIInv, Opening, Opens, Standing, serverVars, browserVars
<1>7. OpenedOnce'
  BY <1>a, <1>b DEF SessionIInv, OpenedOnce, Opens, serverVars, browserVars
<1>8. NotYetHeld'
  BY <1>a, <1>b DEF SessionIInv, NotYetHeld, Opens, serverVars, browserVars
<1> QED
  BY <1>1, <1>2, <1>3, <1>4, <1>5, <1>6, <1>7, <1>8 DEF SessionIInv

LEMMA AnsweredKeeps ==
    ASSUME SessionIInv, NEW call \in calls, Answered(call)
    PROVE  SessionIInv'
<1>1. SessionTypeOK'
  BY DEF Answered, LogoutTail, Holds, SessionIInv, SessionTypeOK, Opens, Opening,
     Call, Holders, serverVars, browserVars
<1>2. SessionsDurable'
  BY DEF Answered, LogoutTail, Holds, SessionIInv, SessionsDurable, serverVars,
     browserVars
<1>3. ClosedStays'
  BY DEF Answered, LogoutTail, Holds, SessionIInv, ClosedStays, serverVars, browserVars
<1>4. AnsweredStand'
  BY DEF Answered, LogoutTail, Holds, SessionIInv, AnsweredStand, Standing, Opening,
     Opens, serverVars, browserVars
<1>5. Known'
  BY DEF Answered, LogoutTail, Holds, SessionIInv, Known, Opening, Opens, serverVars,
     browserVars
<1>6. Opening'
  BY DEF Answered, LogoutTail, Holds, SessionIInv, Opening, Opens, Standing, Known,
     OpenedOnce, serverVars, browserVars
<1>7. OpenedOnce'
  BY DEF Answered, LogoutTail, Holds, SessionIInv, OpenedOnce, Opens, serverVars,
     browserVars
<1>8. NotYetHeld'
  BY TokensAssumption DEF Answered, LogoutTail, Holds, SessionIInv, SessionTypeOK,
     SessionsDurable, ClosedStays, AnsweredStand, Known, Opening, OpenedOnce,
     NotYetHeld, Standing, Opens, Holders, Call, serverVars, browserVars
<1> QED
  BY <1>1, <1>2, <1>3, <1>4, <1>5, <1>6, <1>7, <1>8 DEF SessionIInv

LEMMA GivenUpKeeps ==
    ASSUME SessionIInv, NEW call \in calls, GivenUp(call)
    PROVE  SessionIInv'
<1> DEFINE gone == [call EXCEPT !.awaited = FALSE]
<1>a. /\ calls' \subseteq (calls \ {call}) \cup {gone}
      /\ gone \in calls' => gone \in calls \ {call} \/ ~call.handled
      /\ UNCHANGED <<serverVars, expired, drawn, answered, closed, lost>>
      /\ \/ UNCHANGED browserVars
         \/ current' = NoSession /\ cached' = NoSession
         \/ current' = call.token /\ cached' = call.token /\ Opens(call)
  <2>1. call.op \in {"login", "passkey", "logout"}
    BY DEF SessionIInv, SessionTypeOK, Call
  <2>2. /\ calls' = (calls \ {call}) \cup (IF call.handled THEN {} ELSE {gone})
        /\ UNCHANGED <<serverVars, expired, drawn, answered, closed, lost>>
    BY DEF GivenUp
  <2>3. \/ UNCHANGED browserVars
        \/ current' = NoSession /\ cached' = NoSession
        \/ current' = call.token /\ cached' = call.token /\ Opens(call)
    <3>1. CASE call.op = "logout"
      BY <3>1 DEF GivenUp, LogoutTail, Holds
    <3>2. CASE call.op = "passkey"
      BY <3>2 DEF GivenUp, Holds, Opens
    <3>3. CASE call.op = "login"
      BY <3>3 DEF GivenUp
    <3> QED
      BY <2>1, <3>1, <3>2, <3>3
  <2> QED
    BY <2>2, <2>3
<1>b. /\ call \in Call /\ gone \in Call /\ gone.op = call.op /\ gone.token = call.token
      /\ gone.handled = call.handled /\ ~gone.awaited
  BY DEF SessionIInv, SessionTypeOK, Call
<1> HIDE DEF gone
<1>1. SessionTypeOK'
  BY <1>a, <1>b DEF SessionIInv, SessionTypeOK, Opens, Opening, Call, Holders,
     serverVars, browserVars
<1>2. SessionsDurable'
  BY <1>a, <1>b DEF SessionIInv, SessionsDurable, serverVars, browserVars
<1>3. ClosedStays'
  BY <1>a, <1>b DEF SessionIInv, ClosedStays, serverVars, browserVars
<1>4. AnsweredStand'
  BY <1>a, <1>b DEF SessionIInv, AnsweredStand, Standing, serverVars, browserVars
<1>5. Known'
  BY <1>a, <1>b DEF SessionIInv, Known, serverVars, browserVars
<1>6. Opening'
  BY <1>a, <1>b DEF SessionIInv, Opening, Opens, Standing, serverVars, browserVars
<1>7. OpenedOnce'
  BY <1>a, <1>b DEF SessionIInv, OpenedOnce, Opens, serverVars, browserVars
<1>8. NotYetHeld'
  BY TokensAssumption, <1>a, <1>b, SMTT(60) DEF SessionIInv, SessionTypeOK,
     SessionsDurable, ClosedStays, AnsweredStand, Known, Opening, OpenedOnce,
     NotYetHeld, Standing, Opens, Holders, Call, serverVars, browserVars
<1> QED
  BY <1>1, <1>2, <1>3, <1>4, <1>5, <1>6, <1>7, <1>8 DEF SessionIInv

LEMMA ReloadKeeps ==
    ASSUME SessionIInv, ReloadPage
    PROVE  SessionIInv'
<1>a. /\ \A d \in calls' : \E c \in calls : ~c.handled /\ d = [c EXCEPT !.awaited = FALSE]
      /\ UNCHANGED <<serverVars, expired, drawn, answered, closed, lost>>
      /\ \/ cached' = current'
         \/ cached' = NoSession /\ current' \in expired
      /\ {current', cached'} \subseteq {cached, Local, NoSession}
  <2>1. /\ calls' = {[c EXCEPT !.awaited = FALSE] : c \in {d \in calls : ~d.handled}}
        /\ UNCHANGED <<serverVars, expired, drawn, answered, closed, lost>>
    BY DEF ReloadPage
  <2>2. CASE cached = NoSession
    BY <2>1, <2>2 DEF ReloadPage, Holds
  <2>3. CASE cached # NoSession /\ cached \in expired
    BY <2>1, <2>3 DEF ReloadPage, Holds
  <2>4. CASE cached # NoSession /\ cached \notin expired
    BY <2>1, <2>4 DEF ReloadPage, Holds
  <2> QED
    BY <2>2, <2>3, <2>4
<1>b. \A d \in calls' :
          \E c \in calls : /\ d \in Call /\ d.op = c.op /\ d.token = c.token /\ ~d.handled
                           /\ ~d.awaited /\ d = [c EXCEPT !.awaited = FALSE]
  BY <1>a DEF SessionIInv, SessionTypeOK, Call
<1>1. SessionTypeOK'
  BY <1>a, <1>b DEF SessionIInv, SessionTypeOK, Opens, Opening, Call, Holders,
     serverVars, browserVars
<1>2. SessionsDurable'
  BY <1>a, <1>b DEF SessionIInv, SessionsDurable, serverVars, browserVars
<1>3. ClosedStays'
  BY <1>a, <1>b DEF SessionIInv, ClosedStays, serverVars, browserVars
<1>4. AnsweredStand'
  BY <1>a, <1>b DEF SessionIInv, AnsweredStand, Standing, serverVars, browserVars
<1>5. Known'
  BY <1>a, <1>b DEF SessionIInv, Known, serverVars, browserVars
<1>6. Opening'
  BY <1>a, <1>b DEF SessionIInv, Opening, Opens, Standing, serverVars, browserVars
<1>7. OpenedOnce'
  BY <1>a, <1>b DEF SessionIInv, OpenedOnce, Opening, Opens, SessionTypeOK, Call,
     serverVars, browserVars
<1>8. NotYetHeld'
  BY <1>a, <1>b DEF SessionIInv, NotYetHeld, Opens, serverVars, browserVars
<1> QED
  BY <1>1, <1>2, <1>3, <1>4, <1>5, <1>6, <1>7, <1>8 DEF SessionIInv

LEMMA HandleSessionKeeps ==
    ASSUME SessionIInv, NEW call \in calls, NEW ok \in BOOLEAN, HandleSession(call, ok)
    PROVE  SessionIInv'
<1> DEFINE done == [call EXCEPT !.handled = TRUE]
<1>a. /\ calls' \subseteq (calls \ {call}) \cup {done}
      /\ done \in calls' => done \in calls \ {call} \/ call.awaited
      /\ activeSessions' = activeSessions \cup {call.token}
      /\ saved' = ok /\ file' \in IF ok THEN {activeSessions'} ELSE {file, {}}
      /\ closed' = closed \ {call.token}
      /\ Opens(call) /\ ~call.handled
      /\ UNCHANGED <<revokedTokens, browserVars, expired, drawn, answered, lost>>
  BY DEF HandleSession, Handled, Saves, Opens
<1>b. /\ call \in Call /\ done \in Call /\ done.op = call.op /\ done.token = call.token
      /\ done.awaited = call.awaited /\ done.handled
  BY DEF SessionIInv, SessionTypeOK, Call
<1> HIDE DEF done
<1>1. SessionTypeOK'
  BY <1>a, <1>b DEF SessionIInv, SessionTypeOK, Opens, Opening, Call, Holders,
     serverVars, browserVars
<1>2. SessionsDurable'
  BY <1>a, <1>b DEF SessionIInv, SessionsDurable, serverVars, browserVars
<1>3. ClosedStays'
  BY <1>a, <1>b DEF SessionIInv, ClosedStays, serverVars, browserVars
<1>4. AnsweredStand'
  BY <1>a, <1>b DEF SessionIInv, AnsweredStand, Standing, Opening, Opens, serverVars,
     browserVars
<1>5. Known'
  BY <1>a, <1>b DEF SessionIInv, Known, serverVars, browserVars
<1>6. Opening'
  BY <1>a, <1>b DEF SessionIInv, Opening, OpenedOnce, NotYetHeld, Known, Opens,
     Standing, SessionTypeOK, serverVars, browserVars
<1>7. OpenedOnce'
  BY <1>a, <1>b DEF SessionIInv, OpenedOnce, Opens, serverVars, browserVars
<1>8. NotYetHeld'
  BY <1>a, <1>b DEF SessionIInv, NotYetHeld, Opens, serverVars, browserVars
<1> QED
  BY <1>1, <1>2, <1>3, <1>4, <1>5, <1>6, <1>7, <1>8 DEF SessionIInv

LEMMA HandleLogoutKeeps ==
    ASSUME SessionIInv, NEW call \in calls, NEW ok \in BOOLEAN, HandleLogout(call, ok)
    PROVE  SessionIInv'
<1> DEFINE done == [call EXCEPT !.handled = TRUE]
<1>a. /\ calls' \subseteq (calls \ {call}) \cup {done}
      /\ revokedTokens' = revokedTokens \cup {call.token}
      /\ activeSessions' = activeSessions \ {call.token}
      /\ IF call.token \in activeSessions
         THEN saved' = ok /\ file' \in IF ok THEN {activeSessions'} ELSE {file, {}}
         ELSE UNCHANGED <<file, saved>>
      /\ closed' = closed \cup {call.token}
      /\ ~Opens(call)
      /\ UNCHANGED <<browserVars, expired, drawn, answered, lost>>
  BY DEF HandleLogout, Handled, Saves, Opens
<1>b. /\ call \in Call /\ done \in Call /\ done.op = call.op /\ done.token = call.token
      /\ done.handled
  BY DEF SessionIInv, SessionTypeOK, Call
<1> HIDE DEF done
<1>1. SessionTypeOK'
  BY <1>a, <1>b DEF SessionIInv, SessionTypeOK, Opens, Opening, Call, Holders,
     serverVars, browserVars
<1>2. SessionsDurable'
  BY <1>a, <1>b DEF SessionIInv, SessionsDurable, serverVars, browserVars
<1>3. ClosedStays'
  BY <1>a, <1>b DEF SessionIInv, ClosedStays, serverVars, browserVars
<1>4. AnsweredStand'
  BY <1>a, <1>b DEF SessionIInv, AnsweredStand, Standing, serverVars, browserVars
<1>5. Known'
  BY <1>a, <1>b DEF SessionIInv, Known, serverVars, browserVars
<1>6. Opening'
  BY <1>a, <1>b DEF SessionIInv, Opening, Opens, Standing, serverVars, browserVars
<1>7. OpenedOnce'
  BY <1>a, <1>b DEF SessionIInv, OpenedOnce, Opens, serverVars, browserVars
<1>8. NotYetHeld'
  BY <1>a, <1>b DEF SessionIInv, NotYetHeld, Opens, serverVars, browserVars
<1> QED
  BY <1>1, <1>2, <1>3, <1>4, <1>5, <1>6, <1>7, <1>8 DEF SessionIInv

LEMMA DropKeeps ==
    ASSUME SessionIInv, NEW call \in calls, Drop(call)
    PROVE  SessionIInv'
<1>1. SessionTypeOK'
  BY DEF Drop, SessionIInv, SessionTypeOK, serverVars, browserVars
<1>2. SessionsDurable'
  BY DEF Drop, SessionIInv, SessionsDurable, serverVars, browserVars
<1>3. ClosedStays'
  BY DEF Drop, SessionIInv, ClosedStays, serverVars, browserVars
<1>4. AnsweredStand'
  BY DEF Drop, SessionIInv, AnsweredStand, Standing, serverVars, browserVars
<1>5. Known'
  BY DEF Drop, SessionIInv, Known, serverVars, browserVars
<1>6. Opening'
  BY DEF Drop, SessionIInv, Opening, Opens, Standing, serverVars, browserVars
<1>7. OpenedOnce'
  BY DEF Drop, SessionIInv, OpenedOnce, Opens, serverVars, browserVars
<1>8. NotYetHeld'
  BY DEF Drop, SessionIInv, NotYetHeld, Opens, serverVars, browserVars
<1> QED
  BY <1>1, <1>2, <1>3, <1>4, <1>5, <1>6, <1>7, <1>8 DEF SessionIInv

LEMMA RestartKeeps ==
    ASSUME SessionIInv, Restart
    PROVE  SessionIInv'
<1>1. SessionTypeOK'
  BY DEF Restart, SessionIInv, SessionTypeOK, serverVars, browserVars
<1>2. SessionsDurable'
  BY DEF Restart, SessionIInv, SessionsDurable, serverVars, browserVars
<1>3. ClosedStays'
  BY DEF Restart, SessionIInv, SessionsDurable, ClosedStays, serverVars, browserVars
<1>4. AnsweredStand'
  BY DEF Restart, SessionIInv, AnsweredStand, Standing, SessionsDurable, serverVars,
     browserVars
<1>5. Known'
  BY DEF Restart, SessionIInv, Known, serverVars, browserVars
<1>6. Opening'
  BY DEF Restart, SessionIInv, Opening, Opens, Standing, SessionsDurable, serverVars,
     browserVars
<1>7. OpenedOnce'
  BY DEF Restart, SessionIInv, OpenedOnce, Opens, serverVars, browserVars
<1>8. NotYetHeld'
  BY DEF Restart, SessionIInv, NotYetHeld, Opens, serverVars, browserVars
<1> QED
  BY <1>1, <1>2, <1>3, <1>4, <1>5, <1>6, <1>7, <1>8 DEF SessionIInv

LEMMA ExpireKeeps ==
    ASSUME SessionIInv, NEW t \in Expirable, Expire(t)
    PROVE  SessionIInv'
<1>1. SessionTypeOK'
  BY DEF Expire, SessionIInv, SessionTypeOK, serverVars, browserVars
<1>2. SessionsDurable'
  BY DEF Expire, SessionIInv, SessionsDurable, serverVars, browserVars
<1>3. ClosedStays'
  BY DEF Expire, SessionIInv, ClosedStays, serverVars, browserVars
<1>4. AnsweredStand'
  BY DEF Expire, SessionIInv, AnsweredStand, Standing, serverVars, browserVars
<1>5. Known'
  BY DEF Expire, SessionIInv, Known, serverVars, browserVars
<1>6. Opening'
  BY DEF Expire, SessionIInv, Opening, Opens, Standing, serverVars, browserVars
<1>7. OpenedOnce'
  BY DEF Expire, SessionIInv, OpenedOnce, Opens, serverVars, browserVars
<1>8. NotYetHeld'
  BY DEF Expire, SessionIInv, NotYetHeld, Opens, serverVars, browserVars
<1> QED
  BY <1>1, <1>2, <1>3, <1>4, <1>5, <1>6, <1>7, <1>8 DEF SessionIInv

LEMMA StutterKeeps ==
    ASSUME SessionIInv, UNCHANGED sessionVars
    PROVE  SessionIInv'
<1>1. SessionTypeOK'
  BY DEF sessionVars, SessionIInv, SessionTypeOK, serverVars, browserVars
<1>2. SessionsDurable'
  BY DEF sessionVars, SessionIInv, SessionsDurable, serverVars, browserVars
<1>3. ClosedStays'
  BY DEF sessionVars, SessionIInv, ClosedStays, serverVars, browserVars
<1>4. AnsweredStand'
  BY DEF sessionVars, SessionIInv, AnsweredStand, Standing, serverVars, browserVars
<1>5. Known'
  BY DEF sessionVars, SessionIInv, Known, serverVars, browserVars
<1>6. Opening'
  BY DEF sessionVars, SessionIInv, Opening, Opens, Standing, serverVars, browserVars
<1>7. OpenedOnce'
  BY DEF sessionVars, SessionIInv, OpenedOnce, Opens, serverVars, browserVars
<1>8. NotYetHeld'
  BY DEF sessionVars, SessionIInv, NotYetHeld, Opens, serverVars, browserVars
<1> QED
  BY <1>1, <1>2, <1>3, <1>4, <1>5, <1>6, <1>7, <1>8 DEF SessionIInv

LEMMA SessionNextKeeps == SessionIInv /\ [SessionNext]_sessionVars => SessionIInv'
<1> SUFFICES ASSUME SessionIInv, [SessionNext]_sessionVars PROVE SessionIInv'
  OBVIOUS
<1>1. ASSUME NEW t \in Tokens, RequestSession(t) PROVE SessionIInv'
  BY <1>1, RequestSessionKeeps
<1>2. ASSUME RequestLogout PROVE SessionIInv'
  BY <1>2, RequestLogoutKeeps
<1>3. ASSUME NEW call \in calls, Answered(call) PROVE SessionIInv'
  BY <1>3, AnsweredKeeps
<1>4. ASSUME NEW call \in calls, GivenUp(call) PROVE SessionIInv'
  BY <1>4, GivenUpKeeps
<1>5. ASSUME ReloadPage PROVE SessionIInv'
  BY <1>5, ReloadKeeps
<1>6. ASSUME NEW call \in calls, NEW ok \in BOOLEAN, HandleSession(call, ok) PROVE SessionIInv'
  BY <1>6, HandleSessionKeeps
<1>7. ASSUME NEW call \in calls, NEW ok \in BOOLEAN, HandleLogout(call, ok) PROVE SessionIInv'
  BY <1>7, HandleLogoutKeeps
<1>8. ASSUME NEW call \in calls, Drop(call) PROVE SessionIInv'
  BY <1>8, DropKeeps
<1>9. ASSUME Restart PROVE SessionIInv'
  BY <1>9, RestartKeeps
<1>10. ASSUME NEW t \in Expirable, Expire(t) PROVE SessionIInv'
  BY <1>10, ExpireKeeps
<1>11. ASSUME UNCHANGED sessionVars PROVE SessionIInv'
  BY <1>11, StutterKeeps
<1> QED
  BY <1>1, <1>2, <1>3, <1>4, <1>5, <1>6, <1>7, <1>8, <1>9, <1>10, <1>11 DEF SessionNext

LEMMA SessionIInvAlways == SessionSpec => []SessionIInv
  BY SessionInitially, SessionNextKeeps, PTL DEF SessionSpec

(* What a restart would load, and what a reload would restore, is what the *)
(* server and the browser hold now.                                        *)
THEOREM SessionsAreDurable == SessionSpec => [](SessionTypeOK /\ SessionsDurable)
<1>1. SessionIInv => SessionTypeOK /\ SessionsDurable
  BY DEF SessionIInv
<1> QED
  BY SessionIInvAlways, <1>1, PTL

(* A handled logout is final, restarts included. *)
THEOREM LogoutIsFinal == SessionSpec => []LogoutSticks
<1>1. SessionIInv => LogoutSticks
  BY DEF SessionIInv, ClosedStays, LogoutSticks, Accepted
<1> QED
  BY SessionIInvAlways, <1>1, PTL

(* A session the browser was told of stays accepted until its end. *)
THEOREM ConfirmedStaysAccepted == SessionSpec => []ConfirmedAccepted
<1>1. SessionIInv => ConfirmedAccepted
  BY DEF SessionIInv, AnsweredStand, Standing, ConfirmedAccepted, Accepted
<1> QED
  BY SessionIInvAlways, <1>1, PTL

-----------------------------------------------------------------------------
(* The backups. *)

Engines == [isRunning : BOOLEAN, timeRemaining : 1..LongCycle,
            cycleDuration : {LongCycle, ShortCycle}, totalBackups : 0..MaxBackups]

LEMMA CycleFacts ==
    /\ LongCycle \in 1..LongCycle /\ ShortCycle \in 1..LongCycle
    /\ LongCycle \in Nat /\ ShortCycle \in Nat /\ MaxBackups \in Nat /\ 0 \in 0..MaxBackups
  BY CycleAssumption

LEMMA LoadedFacts == Loaded \in Engines
<1> DEFINE running == TRUE
<1>1. Loaded = [isRunning |-> running, timeRemaining |-> LongCycle,
                cycleDuration |-> LongCycle, totalBackups |-> 0]
  BY DEF Loaded
<1>2. running \in BOOLEAN
  OBVIOUS
<1> HIDE DEF running
<1> QED
  BY <1>1, <1>2, CycleFacts DEF Engines

LEMMA SnapshotFacts ==
    ASSUME NEW e \in Engines, e.totalBackups < MaxBackups
    PROVE  WithSnapshot(e) \in Engines
<1> DEFINE count == e.totalBackups + 1
<1>1. count \in 0..MaxBackups
  BY CycleFacts DEF Engines
<1>2. e.cycleDuration \in 1..LongCycle
  BY CycleFacts DEF Engines
<1>3. WithSnapshot(e) = [e EXCEPT !.totalBackups = count, !.timeRemaining = e.cycleDuration]
  BY DEF WithSnapshot
<1> HIDE DEF count
<1> QED
  BY <1>1, <1>2, <1>3 DEF Engines

LEMMA CountedDownFacts ==
    ASSUME NEW e \in Engines, e.totalBackups < MaxBackups
    PROVE  CountedDown(e) \in Engines
<1>1. CASE e.timeRemaining <= 1
  BY <1>1, SnapshotFacts DEF CountedDown
<1>2. CASE ~(e.timeRemaining <= 1)
  <2> DEFINE left == e.timeRemaining - 1
  <2>1. left \in 1..LongCycle
    BY <1>2, CycleFacts DEF Engines
  <2>2. CountedDown(e) = [e EXCEPT !.timeRemaining = left]
    BY <1>2 DEF CountedDown
  <2> HIDE DEF left
  <2> QED
    BY <2>1, <2>2 DEF Engines
<1> QED
  BY <1>1, <1>2

LEMMA WithCycleFacts ==
    ASSUME NEW e \in Engines, NEW cycle \in {LongCycle, ShortCycle}
    PROVE  WithCycle(e, cycle) \in Engines
<1> DEFINE left == Shortened(e.timeRemaining, cycle)
<1>1. left \in 1..LongCycle
  BY CycleFacts DEF Engines, Shortened
<1>2. WithCycle(e, cycle) = [e EXCEPT !.cycleDuration = cycle, !.timeRemaining = left]
  BY DEF WithCycle, Engines
<1> HIDE DEF left
<1> QED
  BY <1>1, <1>2 DEF Engines

(* A step that changes one engine. *)
LEMMA EngineKeeps ==
    ASSUME BackupTypeOK, NEW t \in Tabs, NEW e \in Engines, engine' = [engine EXCEPT ![t] = e],
           frozen' \in [Tabs -> BOOLEAN], paused' \in [Tabs -> BOOLEAN],
           stored' \in BOOLEAN, locks' \in [Tabs -> Seq(BOOLEAN)]
    PROVE  BackupTypeOK'
<1>1. engine \in [Tabs -> Engines]
  BY DEF BackupTypeOK, Engines
<1>2. engine' \in [Tabs -> Engines]
  BY <1>1
<1> QED
  BY <1>2 DEF BackupTypeOK, Engines

LEMMA BackupInitially == BackupInit => BackupTypeOK
<1> SUFFICES ASSUME BackupInit PROVE BackupTypeOK
  OBVIOUS
<1>1. engine \in [Tabs -> Engines]
  BY LoadedFacts DEF BackupInit
<1>2. frozen \in [Tabs -> BOOLEAN] /\ paused \in [Tabs -> BOOLEAN] /\ stored \in BOOLEAN
  BY Zenon DEF BackupInit
<1>3. locks \in [Tabs -> Seq(BOOLEAN)]
  BY DEF BackupInit
<1> QED
  BY <1>1, <1>2, <1>3 DEF BackupTypeOK, Engines

LEMMA BackupNextKeeps ==
    ASSUME BackupTypeOK, [BackupNext]_backupVars
    PROVE  BackupTypeOK'
<1>1. CASE UNCHANGED backupVars
  BY <1>1 DEF backupVars, BackupTypeOK
<1> SUFFICES ASSUME NEW t \in Tabs,
                    \/ Tick(t) \/ ManualSnapshot(t) \/ ToggleCadence(t) \/ togglePause(t)
                    \/ ToggleFreeze(t) \/ ReceiveLock(t) \/ ReloadTab(t)
             PROVE  BackupTypeOK'
  BY <1>1 DEF BackupNext
<1>2. /\ engine \in [Tabs -> Engines] /\ engine[t] \in Engines
      /\ frozen \in [Tabs -> BOOLEAN] /\ paused \in [Tabs -> BOOLEAN]
      /\ stored \in BOOLEAN /\ locks \in [Tabs -> Seq(BOOLEAN)]
  BY DEF BackupTypeOK, Engines
<1>3. CASE Tick(t)
  <2>1. CountedDown(engine[t]) \in Engines
    BY <1>2, <1>3, CountedDownFacts DEF Tick
  <2>2. engine' = [engine EXCEPT ![t] = CountedDown(engine[t])]
        /\ UNCHANGED <<frozen, paused, stored, locks>>
    BY <1>3 DEF Tick
  <2> QED
    BY <1>2, <2>1, <2>2, EngineKeeps
<1>4. CASE ManualSnapshot(t)
  <2>1. WithSnapshot(engine[t]) \in Engines
    BY <1>2, <1>4, SnapshotFacts DEF ManualSnapshot
  <2>2. engine' = [engine EXCEPT ![t] = WithSnapshot(engine[t])]
        /\ UNCHANGED <<frozen, paused, stored, locks>>
    BY <1>4 DEF ManualSnapshot
  <2> QED
    BY <1>2, <2>1, <2>2, EngineKeeps
<1>5. CASE ToggleCadence(t)
  <2> DEFINE cycle == IF engine[t].cycleDuration = LongCycle THEN ShortCycle ELSE LongCycle
  <2>1. engine' = [engine EXCEPT ![t] = WithCycle(engine[t], cycle)]
        /\ UNCHANGED <<frozen, paused, stored, locks>>
    BY <1>5 DEF ToggleCadence
  <2>2. cycle \in {LongCycle, ShortCycle}
    OBVIOUS
  <2> HIDE DEF cycle
  <2>3. WithCycle(engine[t], cycle) \in Engines
    BY <1>2, <2>2, WithCycleFacts
  <2> QED
    BY <1>2, <2>1, <2>3, EngineKeeps
<1>6. ASSUME NEW running \in BOOLEAN, engine' = [engine EXCEPT ![t].isRunning = running],
             frozen' \in [Tabs -> BOOLEAN], paused' \in [Tabs -> BOOLEAN],
             stored' \in BOOLEAN, locks' \in [Tabs -> Seq(BOOLEAN)]
      PROVE  BackupTypeOK'
  <2> DEFINE e == [engine[t] EXCEPT !.isRunning = running]
  <2>1. e \in Engines
    BY <1>2 DEF Engines
  <2>2. engine' = [engine EXCEPT ![t] = e]
    BY <1>6
  <2> HIDE DEF e
  <2> QED
    BY <1>6, <2>1, <2>2, EngineKeeps
<1>7. CASE togglePause(t)
  <2> DEFINE running == ~engine[t].isRunning
  <2>1. running \in BOOLEAN
    OBVIOUS
  <2>2. engine' = [engine EXCEPT ![t].isRunning = running]
    BY <1>7 DEF togglePause
  <2>3. engine[t].isRunning \in BOOLEAN
    BY <1>2 DEF Engines
  <2>4. paused' \in [Tabs -> BOOLEAN] /\ UNCHANGED <<frozen, stored, locks>>
    BY <1>2, <1>7, <2>3 DEF togglePause
  <2> HIDE DEF running
  <2> QED
    BY <1>2, <1>6, <2>1, <2>2, <2>4
<1>8. CASE ToggleFreeze(t)
  <2> DEFINE next == ~frozen[t]
             running == ~next
  <2>1. next \in BOOLEAN /\ running \in BOOLEAN
    OBVIOUS
  <2>2. /\ frozen' = [frozen EXCEPT ![t] = next] /\ stored' = next
        /\ locks' = [u \in Tabs |-> IF u = t THEN locks[u] ELSE Append(locks[u], next)]
        /\ engine' = [engine EXCEPT ![t].isRunning = running]
    BY <1>8 DEF ToggleFreeze
  <2>3. paused' \in [Tabs -> BOOLEAN]
    <3> DEFINE none == FALSE
    <3>1. paused' = [paused EXCEPT ![t] = none] /\ none \in BOOLEAN
      BY <1>8 DEF ToggleFreeze
    <3> HIDE DEF none
    <3> QED
      BY <1>2, <3>1
  <2> HIDE DEF next, running
  <2>4. \A u \in Tabs : Append(locks[u], next) \in Seq(BOOLEAN) /\ locks[u] \in Seq(BOOLEAN)
    BY <1>2, <2>1
  <2>5. locks' \in [Tabs -> Seq(BOOLEAN)]
    BY <2>2, <2>4
  <2>6. frozen' \in [Tabs -> BOOLEAN] /\ stored' \in BOOLEAN
    BY <1>2, <2>1, <2>2
  <2> QED
    BY <1>6, <2>1, <2>2, <2>3, <2>5, <2>6
<1>9. CASE ReceiveLock(t)
  <2>1. locks[t] \in Seq(BOOLEAN) /\ locks[t] # <<>>
    BY <1>2, <1>9 DEF ReceiveLock
  <2>2. Head(locks[t]) \in BOOLEAN /\ Tail(locks[t]) \in Seq(BOOLEAN)
    <3> DEFINE S == BOOLEAN
               messages == locks[t]
    <3>1. messages \in Seq(S) /\ messages # <<>>
      BY <2>1
    <3> HIDE DEF S, messages
    <3>2. Head(messages) \in S /\ Tail(messages) \in Seq(S)
      BY <3>1
    <3> QED
      BY <3>2 DEF S, messages
  <2> DEFINE first == Head(locks[t])
             rest == Tail(locks[t])
  <2>3. /\ frozen' = [frozen EXCEPT ![t] = first] /\ locks' = [locks EXCEPT ![t] = rest]
        /\ UNCHANGED <<engine, paused, stored>>
    BY <1>9 DEF ReceiveLock
  <2>4. first \in BOOLEAN /\ rest \in Seq(BOOLEAN)
    BY <2>2
  <2> HIDE DEF first, rest
  <2>5. frozen' \in [Tabs -> BOOLEAN] /\ locks' \in [Tabs -> Seq(BOOLEAN)]
    BY <1>2, <2>3, <2>4
  <2> QED
    BY <2>3, <2>5 DEF BackupTypeOK
<1>10. CASE ReloadTab(t)
  <2>1. engine' = [engine EXCEPT ![t] = Loaded] /\ frozen' = [frozen EXCEPT ![t] = stored]
        /\ locks' = [locks EXCEPT ![t] = <<>>] /\ stored' = stored
    BY <1>10 DEF ReloadTab
  <2>2. paused' \in [Tabs -> BOOLEAN]
    <3> DEFINE none == FALSE
    <3>1. paused' = [paused EXCEPT ![t] = none] /\ none \in BOOLEAN
      BY <1>10 DEF ReloadTab
    <3> HIDE DEF none
    <3> QED
      BY <1>2, <3>1
  <2>3. frozen' \in [Tabs -> BOOLEAN] /\ locks' \in [Tabs -> Seq(BOOLEAN)] /\ stored' \in BOOLEAN
    BY <1>2, <2>1
  <2> QED
    BY <2>1, <2>2, <2>3, LoadedFacts, EngineKeeps
<1> QED
  BY <1>3, <1>4, <1>5, <1>7, <1>8, <1>9, <1>10

-----------------------------------------------------------------------------
(* All services side by side.  Every step is a step of the service in      *)
(* focus and leaves the variables of the others alone, so that the         *)
(* invariant of each is kept by its own lemma or by stuttering.            *)

ServicesIInv ==
    /\ CopilotIInv
    /\ SwarmIInv
    /\ ClusterIInv
    /\ FederationIInv
    /\ BackupTypeOK
    /\ SessionIInv
    /\ TicketIInv
    /\ TuningIInv

LEMMA ServicesInitially == ServicesInit => ServicesIInv
  BY CopilotInitially, SwarmInitially, ClusterInitially, FederationInitially,
     BackupInitially, SessionInitially, TicketsInitially, TuningInitially
     DEF ServicesInit, ServicesIInv

(* New evidence reaches the registry and the store, not the copilot. *)
LEMMA RegistryStepKeeps ==
    ASSUME CopilotIInv, RegistryStep
    PROVE  CopilotIInv'
<1>1. EvidenceNext /\ UNCHANGED githubVars /\ copilot' = copilot
  BY DEF RegistryStep
<1>2. CustodianIInv'
  BY <1>1, StoreKeeps DEF CopilotIInv, StoreNext
<1>3. GithubIInv' /\ sync' = sync
  BY <1>1 DEF githubVars, CopilotIInv, GithubIInv, GithubTypeOK, DriftAgrees
<1> QED
  BY <1>1, <1>2, <1>3, CopilotFacts, GoodAgain

(* Which steps each service sees: its own, or none. *)
LEMMA OwnSteps ==
    ASSUME [ServicesNext]_servicesVars
    PROVE  /\ RegistryStep \/ [CopilotNext]_copilotVars
           /\ [SwarmNext]_swarmVars
           /\ [HsmNext]_hsmVars
           /\ [FederationNext]_fedVars
           /\ [BackupNext]_backupVars
           /\ [SessionNext]_sessionVars
           /\ [TicketNext]_ticketVars
           /\ [TuningNext]_tuningVars
<1>1. CASE UNCHANGED servicesVars
  BY <1>1 DEF servicesVars
<1>2. CASE AutonomyStep
  BY <1>2 DEF AutonomyStep, Others
<1>3. CASE RegistryStep
  BY <1>3 DEF RegistryStep, Others
<1>4. CASE SwarmStep
  BY <1>4 DEF SwarmStep, Others
<1>5. CASE ClusterStep
  BY <1>5 DEF ClusterStep, Others
<1>6. CASE FederationStep
  BY <1>6 DEF FederationStep, Others
<1>7. CASE BackupStep
  BY <1>7 DEF BackupStep, Others
<1>8. CASE SessionStep
  BY <1>8 DEF SessionStep, Others
<1>9. CASE TicketStep
  BY <1>9 DEF TicketStep, Others
<1>10. CASE TuningStep
  BY <1>10 DEF TuningStep, Others
<1>11. CASE AtlasStep
  BY <1>11 DEF AtlasStep, Others
<1> QED
  BY <1>1, <1>2, <1>3, <1>4, <1>5, <1>6, <1>7, <1>8, <1>9, <1>10, <1>11 DEF ServicesNext

LEMMA ServicesNextKeeps ==
    ASSUME ServicesIInv, [ServicesNext]_servicesVars
    PROVE  ServicesIInv'
<1>1. CopilotIInv'
  BY OwnSteps, RegistryStepKeeps, CopilotNextKeeps DEF ServicesIInv
<1>2. SwarmIInv'
  BY OwnSteps, SwarmNextKeeps DEF ServicesIInv
<1>3. ClusterIInv'
  BY OwnSteps, HsmNextKeeps DEF ServicesIInv
<1>4. FederationIInv'
  BY OwnSteps, FederationNextKeeps DEF ServicesIInv
<1>5. BackupTypeOK'
  BY OwnSteps, BackupNextKeeps DEF ServicesIInv
<1>6. SessionIInv'
  BY OwnSteps, SessionNextKeeps DEF ServicesIInv
<1>7. TicketIInv'
  BY OwnSteps, TicketNextKeeps DEF ServicesIInv
<1>8. TuningIInv'
  BY OwnSteps, TuningNextKeeps DEF ServicesIInv
<1> QED
  BY <1>1, <1>2, <1>3, <1>4, <1>5, <1>6, <1>7, <1>8 DEF ServicesIInv

LEMMA ServicesAlways == ServicesSpec => []ServicesIInv
<1>1. ServicesIInv /\ [ServicesNext]_servicesVars => ServicesIInv'
  BY ServicesNextKeeps
<1> QED
  BY ServicesInitially, <1>1, PTL DEF ServicesSpec

(* Every variable of every service keeps its type. *)
THEOREM ServicesTyped == ServicesSpec => []ServicesTypeOK
<1>1. ServicesIInv => ServicesTypeOK
  BY CopilotInvHolds, SwarmInvHolds
     DEF ServicesIInv, ServicesTypeOK, ClusterIInv, FederationIInv, SessionIInv, TicketIInv,
         TuningIInv
<1> QED
  BY ServicesAlways, <1>1, PTL

(* What each service promises holds in the composition: the copilot's      *)
(* attestation, the agents of the swarm, the cluster's six tellings, the   *)
(* order of the seals, one redemption of a ticket, the durable sessions,   *)
(* and the account of the executions of each proposal.                     *)
THEOREM ServicesCorrect ==
    ServicesSpec => [](/\ DriftAgrees /\ CustodianInv /\ CopilotInv
                       /\ SwarmInv /\ ClusterInv /\ FederationInv /\ TicketsInv
                       /\ SessionsDurable /\ LogoutSticks /\ ConfirmedAccepted
                       /\ TuningInv)
<1>1. ServicesIInv => /\ DriftAgrees /\ CustodianInv /\ CopilotInv
                      /\ SwarmInv /\ ClusterInv /\ FederationInv /\ TicketsInv
  BY CopilotInvHolds, SwarmInvHolds
     DEF ServicesIInv, ClusterIInv, FederationIInv, TicketIInv
<1>2. SessionIInv => SessionsDurable /\ LogoutSticks /\ ConfirmedAccepted
  BY DEF SessionIInv, ClosedStays, LogoutSticks, AnsweredStand, Standing, ConfirmedAccepted,
         Accepted
<1>3. TuningIInv => TuningInv
  BY DEF TuningIInv, TuningInv, CopyInv, CopiesCurrent
<1>4. ServicesIInv => /\ DriftAgrees /\ CustodianInv /\ CopilotInv
                      /\ SwarmInv /\ ClusterInv /\ FederationInv /\ TicketsInv
                      /\ SessionsDurable /\ LogoutSticks /\ ConfirmedAccepted
                      /\ TuningInv
  BY <1>1, <1>2, <1>3 DEF ServicesIInv
<1> QED
  BY ServicesAlways, <1>4, PTL

(* The copilot's steps take no height back. *)
LEMMA CopilotKeepsHeights ==
    ASSUME CopilotIInv, [CopilotNext]_copilotVars
    PROVE  [sync'.local >= sync.local /\ sync'.remote >= sync.remote]_githubVars
<1>0. GithubIInv
  BY DEF CopilotIInv
<1>1. CASE \/ simulateDrift
           \/ \E caller \in {"panel", "monitor", "sweep"} : StartResync(caller)
           \/ FinishResync
  <2>1. \A caller \in {"panel", "monitor", "sweep"} : caller \in Callers
    BY CallersAssumption
  <2> QED
    BY <1>0, <1>1, <2>1, DriftKeeps, StartKeeps, FinishKeeps
<1>2. CASE UNCHANGED githubVars
  BY <1>2
<1> QED
  BY <1>1, <1>2
     DEF CopilotNext, copilotVars, RemoteAdvances, RequestResync, ResyncEnds, MonitorTick,
         ApplyZeroDriftLocked, DismissSuggestion, ToggleAutoPilot, UseConsole, githubVars

(* Neither the copilot nor the consoles change a slot of the registry. *)
LEMMA CopilotKeepsSlots ==
    ASSUME [CopilotNext]_copilotVars
    PROVE  registry' = registry
  BY DEF CopilotNext, copilotVars, RemoteAdvances, RequestResync, ResyncEnds, MonitorTick,
         ApplyZeroDriftLocked, DismissSuggestion, ToggleAutoPilot, UseConsole, ConsoleNext,
         SetCount, ToggleDrift, Quarantine, CountSeals, Reset, storeVars

(* Through all of it no reconciliation takes a height back, a slot is only *)
(* ever given a digest that is new to the registry, and the audit trail of *)
(* the transaction only grows.                                             *)
THEOREM ServicesOnlyAdd == ServicesSpec => HeightsKept /\ FreshDigests /\ TrailKept
<1>1. ServicesIInv /\ [ServicesNext]_servicesVars
      => [sync'.local >= sync.local /\ sync'.remote >= sync.remote]_githubVars
  BY OwnSteps, CopilotKeepsHeights DEF ServicesIInv, RegistryStep
<1>2. ServicesIInv /\ [ServicesNext]_servicesVars
      => [\A s \in Slots :
             registry'.slots[s] # registry.slots[s] =>
                 /\ registry'.slots[s].of \notin registry.verified
                 /\ registry'.slots[s].of \in registry'.verified]_storeVars
  <2> SUFFICES ASSUME ServicesIInv, [ServicesNext]_servicesVars
               PROVE  \A s \in Slots :
                          registry'.slots[s] # registry.slots[s] =>
                              /\ registry'.slots[s].of \notin registry.verified
                              /\ registry'.slots[s].of \in registry'.verified
    OBVIOUS
  <2>1. CASE RegistryStep
    BY <2>1, StoreKeeps DEF ServicesIInv, CopilotIInv, RegistryStep, StoreNext
  <2>2. CASE [CopilotNext]_copilotVars
    BY <2>2, CopilotKeepsSlots
  <2> QED
    BY <2>1, <2>2, OwnSteps
<1>3. ServicesIInv /\ [ServicesNext]_servicesVars
      => [late' # late \/ Continues(authoritativeTx'.trail, authoritativeTx.trail)]_tuningVars
  BY OwnSteps, TuningNextKeeps DEF ServicesIInv
<1> QED
  BY ServicesAlways, <1>1, <1>2, <1>3, PTL
     DEF ServicesSpec, HeightsKept, FreshDigests, TrailKept
=============================================================================
