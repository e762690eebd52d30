----------------------- MODULE EvidenceLifecycleProofs -----------------------
(***************************************************************************)
(* Proofs about EvidenceLifecycle, for any number of handlers, artifacts,  *)
(* retries and ledger entries.                                             *)
(*                                                                         *)
(* What TerminalJobProofs shows of the job engine is not available through *)
(* the instance J, so the facts about runs that the evidence needs are     *)
(* proved here, for the keys and the steps the evidence components use.    *)
(***************************************************************************)
EXTENDS EvidenceLifecycle, TLAPS

USE MaxRetriesAssumption

VerifyKeys == {VerifyKey(a) : a \in Artifact}
SyncKeys   == {SyncKey(a) : a \in Artifact}

(* A verification that runs holds the lock of its key, is the only one for *)
(* it, and its job is active with retries left.                            *)
Runs ==
    /\ J!TypeOK
    /\ \A k \in VerifyKeys : k \in locks <=> \E c \in Caller : J!Running(c, k)
    /\ \A k \in SyncKeys : k \notin locks
    /\ \A k \in VerifyKeys : \A c, d \in Caller : J!Running(c, k) /\ J!Running(d, k) => c = d
    /\ \A c \in Caller, k \in VerifyKeys : J!Running(c, k) => job[k].state = "UPLOADING"
    /\ \A k \in VerifyKeys : ~J!IsTerminal(k) => job[k].retryCount < MaxRetries

(* The synchronisation record is made in one stretch. *)
SyncStates == \A a \in Artifact : job[SyncKey(a)].state \in {"none", "UPLOADED"}

(* A handler past its attestation still runs, and its event is there. *)
AttestedRuns ==
    \A c \in attested : \E a \in Artifact : J!Running(c, VerifyKey(a)) /\ VerifiedEvent(a)

VerifiedRecorded == \A a \in Artifact : artifact[a] = "VERIFIED" => VerifiedEvent(a)

EvidenceIInv ==
    /\ Runs
    /\ TypeOK
    /\ JobsFollowArtifacts
    /\ LedgerReplays
    /\ SyncStates
    /\ AttestedRuns
    /\ VerifiedRecorded

-----------------------------------------------------------------------------
(* Keys, calls and states. *)

LEMMA KeyFacts ==
    /\ \A a \in Artifact : VerifyKey(a) \in VerifyKeys /\ SyncKey(a) \in SyncKeys
    /\ \A a, b : VerifyKey(a) # SyncKey(b)
    /\ \A a, b : VerifyKey(a) = VerifyKey(b) => a = b
    /\ \A a, b : SyncKey(a) = SyncKey(b) => a = b
    /\ VerifyKeys \cap SyncKeys = {}
    /\ J!Key = VerifyKeys \cup SyncKeys
<1>1. /\ \A a, b : VerifyKey(a) # SyncKey(b)
      /\ \A a, b : VerifyKey(a) = VerifyKey(b) => a = b
      /\ \A a, b : SyncKey(a) = SyncKey(b) => a = b
  BY DEF VerifyKey, SyncKey
<1>2. VerifyKeys \cap SyncKeys = {}
  BY <1>1 DEF VerifyKeys, SyncKeys
<1>3. J!Key = VerifyKeys \cup SyncKeys
  BY DEF J!Key, VerifyKeys, SyncKeys
<1>4. \A a \in Artifact : VerifyKey(a) \in VerifyKeys /\ SyncKey(a) \in SyncKeys
  BY DEF VerifyKeys, SyncKeys
<1>5. QED
  BY <1>1, <1>2, <1>3, <1>4

LEMMA CallFacts ==
    /\ \A k : J!Free # J!Awaiting("run", k)
    /\ \A k, l : J!Awaiting("run", k) = J!Awaiting("run", l) => k = l
    /\ \A k \in VerifyKeys : J!Awaiting("run", k) \in J!Call
    /\ J!Free \in J!Call
<1>1. \A k : J!Free.op = "free" /\ J!Awaiting("run", k).op = "run"
             /\ J!Awaiting("run", k).key = k
  BY DEF J!Free, J!Awaiting
<1>2. \A k \in VerifyKeys : J!Awaiting("run", k) \in J!Call
  BY DEF J!Call, J!Awaiting, VerifyKeys
<1>3. J!Free \in J!Call
  BY DEF J!Call
<1>4. QED
  BY <1>1, <1>2, <1>3

(* submitJob and transitionState on one record. *)
LEMMA SubmittedFacts ==
    ASSUME NEW j \in J!Job
    PROVE  /\ J!Submitted(j) \in J!Job
           /\ J!Submitted(j).state = IF j.state = "none" THEN "PENDING" ELSE j.state
           /\ J!Submitted(j).retryCount = j.retryCount \/ J!Submitted(j).retryCount = 0
<1>1. CASE j.state = "none"
  <2>1. J!Submitted(j) = [state |-> "PENDING", retryCount |-> 0, sealed |-> FALSE]
    BY <1>1 DEF J!Submitted, J!NoJob
  <2>2. J!Submitted(j).state = "PENDING" /\ J!Submitted(j).retryCount = 0
    BY <2>1
  <2>3. J!Submitted(j) \in J!Job
    BY <2>1 DEF J!Job, J!JobState
  <2>4. QED
    BY <1>1, <2>2, <2>3
<1>2. CASE j.state # "none"
  BY <1>2 DEF J!Submitted
<1>3. QED
  BY <1>1, <1>2

LEMMA TransitionedFacts ==
    ASSUME NEW j \in J!Job, j.state \notin J!Terminal \cup {"none"},
           NEW s \in J!JobState \ {"none"}
    PROVE  /\ J!Transitioned(j, s) \in J!Job
           /\ J!Transitioned(j, s).state = s
           /\ J!Transitioned(j, s).retryCount = j.retryCount
<1> DEFINE b == s \in J!Terminal
<1>1. b \in BOOLEAN
  OBVIOUS
<1>2. J!Transitioned(j, s) = [j EXCEPT !.state = s, !.sealed = b]
  BY DEF J!Transitioned
<1> HIDE DEF b
<1>3. J!Transitioned(j, s) = [state |-> s, retryCount |-> j.retryCount, sealed |-> b]
  BY <1>2 DEF J!Job
<1>4. QED
  BY <1>1, <1>3 DEF J!Job

LEMMA StateFacts ==
    /\ {"UPLOADING", "FAILED", "TERMINAL_REJECTED", "UPLOADED"} \subseteq J!JobState \ {"none"}
    /\ "UPLOADED" \in J!Terminal /\ "TERMINAL_REJECTED" \in J!Terminal
    /\ "UPLOADING" \notin J!Terminal /\ "FAILED" \notin J!Terminal
    /\ "PENDING" \notin J!Terminal /\ "none" \notin J!Terminal
    /\ \A k \in VerifyKeys : J!ActiveState(k) = "UPLOADING" /\ J!DoneState(k) = "UPLOADED"
BY DEF J!JobState, J!Terminal, J!ActiveState, J!DoneState, VerifyKeys

-----------------------------------------------------------------------------
(* What each step of the engine does to the runs. *)

LEMMA StartsRun ==
    ASSUME Runs, NEW c \in Caller, NEW k \in VerifyKeys, J!ExecuteJob(c, k)
    PROVE  /\ Runs'
           /\ call[c] = J!Free
           /\ \A d \in Caller : \A l : J!Running(d, l)' <=> (J!Running(d, l) \/ (d = c /\ l = k))
           /\ job'[k].state = "UPLOADING"
           /\ \A l \in J!Key \ {k} : job'[l] = job[l]
<1> DEFINE m == J!Submitted(job[k])
           n == J!Transitioned(m, "UPLOADING")
<1>1. k \in J!Key /\ k \notin SyncKeys /\ job[k] \in J!Job /\ job[k].retryCount < MaxRetries
      /\ job[k].state \notin J!Terminal
  BY KeyFacts DEF Runs, J!TypeOK, J!ExecuteJob, J!IsTerminal
<1>2. m \in J!Job /\ m.state \notin J!Terminal \cup {"none"} /\ m.retryCount < MaxRetries
  BY <1>1, SubmittedFacts, StateFacts
<1> HIDE DEF m
<1>3. n \in J!Job /\ n.state = "UPLOADING" /\ n.retryCount < MaxRetries
  BY <1>2, TransitionedFacts, StateFacts
<1>4. job' = [job EXCEPT ![k] = n]
  BY StateFacts DEF J!ExecuteJob, m
<1> HIDE DEF n
<1>5. /\ job' \in [J!Key -> J!Job] /\ job'[k] = n
      /\ \A l \in J!Key \ {k} : job'[l] = job[l]
  BY <1>1, <1>3, <1>4 DEF Runs, J!TypeOK
<1>6. /\ k \notin locks /\ locks' = locks \cup {k} /\ effects' = effects /\ call[c] = J!Free
      /\ call' = [call EXCEPT ![c] = J!Awaiting("run", k)]
  BY DEF J!ExecuteJob
<1>7. \A d \in Caller : call'[d] = IF d = c THEN J!Awaiting("run", k) ELSE call[d]
  BY <1>6 DEF Runs, J!TypeOK
<1>8. \A d \in Caller : \A l : J!Running(d, l)' <=> (J!Running(d, l) \/ (d = c /\ l = k))
  BY <1>6, <1>7, CallFacts DEF J!Running
<1>9. J!TypeOK'
  BY <1>1, <1>5, <1>6, CallFacts DEF J!TypeOK, Runs
<1>10. \A d \in Caller : ~J!Running(d, k)
  BY <1>6 DEF Runs
<1>11. /\ (\A l \in VerifyKeys : l \in locks <=> \E d \in Caller : J!Running(d, l))'
       /\ (\A l \in SyncKeys : l \notin locks)'
       /\ (\A l \in VerifyKeys : \A d, e \in Caller : J!Running(d, l) /\ J!Running(e, l) => d = e)'
  BY <1>1, <1>6, <1>8, <1>10 DEF Runs
<1>12. /\ (\A d \in Caller, l \in VerifyKeys : J!Running(d, l) => job[l].state = "UPLOADING")'
       /\ (\A l \in VerifyKeys : ~J!IsTerminal(l) => job[l].retryCount < MaxRetries)'
  BY <1>3, <1>5, <1>8, <1>10, KeyFacts DEF Runs, J!IsTerminal
<1>13. Runs'
  BY <1>9, <1>11, <1>12 DEF Runs
<1>14. QED
  BY <1>3, <1>5, <1>6, <1>8, <1>13

(* A run that ends with record n for key k. *)
LEMMA RunEnds ==
    ASSUME Runs, NEW c \in Caller, NEW k \in VerifyKeys, NEW n \in J!Job,
           J!Running(c, k),
           n.state \notin J!Terminal => n.retryCount < MaxRetries,
           job' = [job EXCEPT ![k] = n],
           locks' = locks \ {k},
           call' = [call EXCEPT ![c] = J!Free],
           effects' \in [J!Key -> Nat]
    PROVE  /\ Runs'
           /\ \A d \in Caller : \A l : J!Running(d, l)' <=> (J!Running(d, l) /\ d # c)
           /\ \A l : J!Running(c, l) => l = k
           /\ job'[k] = n
           /\ \A l \in J!Key \ {k} : job'[l] = job[l]
<1>1. k \in J!Key /\ k \notin SyncKeys
  BY KeyFacts
<1>2. /\ job' \in [J!Key -> J!Job] /\ job'[k] = n
      /\ \A l \in J!Key \ {k} : job'[l] = job[l]
  BY <1>1 DEF Runs, J!TypeOK
<1>3. \A d \in Caller : call'[d] = IF d = c THEN J!Free ELSE call[d]
  BY DEF Runs, J!TypeOK
<1>4. \A d \in Caller : \A l : J!Running(d, l)' <=> (J!Running(d, l) /\ d # c)
  BY <1>3, CallFacts DEF J!Running
<1>5. \A l : J!Running(c, l) => l = k
  BY CallFacts DEF J!Running
<1>6. \A d \in Caller : J!Running(d, k) => d = c
  BY DEF Runs
<1>7. J!TypeOK'
  BY <1>2, CallFacts DEF J!TypeOK, Runs
<1>8. /\ (\A l \in VerifyKeys : l \in locks <=> \E d \in Caller : J!Running(d, l))'
      /\ (\A l \in SyncKeys : l \notin locks)'
      /\ (\A l \in VerifyKeys : \A d, e \in Caller : J!Running(d, l) /\ J!Running(e, l) => d = e)'
  BY <1>4, <1>5, <1>6 DEF Runs
<1>9. /\ (\A d \in Caller, l \in VerifyKeys : J!Running(d, l) => job[l].state = "UPLOADING")'
      /\ (\A l \in VerifyKeys : ~J!IsTerminal(l) => job[l].retryCount < MaxRetries)'
  BY <1>2, <1>4, <1>6, KeyFacts DEF Runs, J!IsTerminal
<1>10. Runs'
  BY <1>7, <1>8, <1>9 DEF Runs
<1>11. QED
  BY <1>2, <1>4, <1>5, <1>10

LEMMA RunSucceeds ==
    ASSUME Runs, NEW c \in Caller, NEW k \in VerifyKeys, J!ExecutorSucceeds(c, k)
    PROVE  /\ Runs'
           /\ \A d \in Caller : \A l : J!Running(d, l)' <=> (J!Running(d, l) /\ d # c)
           /\ \A l : J!Running(c, l) => l = k
           /\ job'[k].state = "UPLOADED"
           /\ \A l \in J!Key \ {k} : job'[l] = job[l]
<1> DEFINE n == J!Transitioned(job[k], "UPLOADED")
<1>1. k \in J!Key /\ job[k] \in J!Job /\ job[k].state = "UPLOADING" /\ J!Running(c, k)
  BY KeyFacts DEF Runs, J!TypeOK, J!ExecutorSucceeds
<1>2. n \in J!Job /\ n.state = "UPLOADED" /\ n.state \in J!Terminal
  BY <1>1, TransitionedFacts, StateFacts
<1>3. job' = [job EXCEPT ![k] = n]
  BY StateFacts DEF J!ExecutorSucceeds
<1> HIDE DEF n
<1>4. job'[k] = n
  BY <1>1, <1>3 DEF Runs, J!TypeOK
<1>5. locks' = locks \ {k}
  <2>1. J!IsTerminal(k)'
    BY <1>2, <1>4 DEF J!IsTerminal
  <2>2. QED
    BY <1>1, <2>1, StateFacts DEF J!ExecutorSucceeds, J!Released
<1>6. /\ call' = [call EXCEPT ![c] = J!Free]
      /\ effects' \in [J!Key -> Nat]
  BY <1>1 DEF J!ExecutorSucceeds, Runs, J!TypeOK
<1>7. QED
  BY <1>1, <1>2, <1>3, <1>5, <1>6, RunEnds

LEMMA RunFails ==
    ASSUME Runs, NEW c \in Caller, NEW k \in VerifyKeys, J!ExecutorFails(c, k)
    PROVE  /\ Runs'
           /\ \A d \in Caller : \A l : J!Running(d, l)' <=> (J!Running(d, l) /\ d # c)
           /\ \A l : J!Running(c, l) => l = k
           /\ job'[k].state \in {"FAILED", "TERMINAL_REJECTED"}
           /\ \A l \in J!Key \ {k} : job'[l] = job[l]
<1> DEFINE tried == [job[k] EXCEPT !.retryCount = @ + 1]
           rejected == J!Transitioned(tried, "TERMINAL_REJECTED")
           failed == [tried EXCEPT !.state = "FAILED"]
<1>1. k \in J!Key /\ job[k] \in J!Job /\ job[k].state = "UPLOADING" /\ J!Running(c, k)
  BY KeyFacts DEF Runs, J!TypeOK, J!ExecutorFails
<1>2. job[k].retryCount < MaxRetries
  BY <1>1, StateFacts DEF Runs, J!IsTerminal
<1>3. tried = [state |-> job[k].state, retryCount |-> job[k].retryCount + 1,
               sealed |-> job[k].sealed]
  BY <1>1 DEF J!Job
<1>4. tried \in J!Job /\ tried.state = "UPLOADING"
      /\ tried.retryCount = job[k].retryCount + 1
  <2>1. job[k].retryCount + 1 \in 0..MaxRetries /\ job[k].state \in J!JobState
        /\ job[k].sealed \in BOOLEAN
    BY <1>1, <1>2 DEF J!Job
  <2>2. tried \in J!Job
    BY <1>3, <2>1 DEF J!Job
  <2>3. QED
    BY <1>1, <1>3, <2>2
<1>5. rejected \in J!Job /\ rejected.state = "TERMINAL_REJECTED"
  <2> HIDE DEF tried
  <2>1. QED
    BY <1>4, TransitionedFacts, StateFacts
<1>6. failed \in J!Job /\ failed.state = "FAILED" /\ failed.retryCount = tried.retryCount
  <2> HIDE DEF tried
  <2>1. failed = [state |-> "FAILED", retryCount |-> tried.retryCount, sealed |-> tried.sealed]
    BY <1>4 DEF J!Job
  <2>2. QED
    BY <1>4, <2>1, StateFacts DEF J!Job
<1>7. call' = [call EXCEPT ![c] = J!Free] /\ effects' \in [J!Key -> Nat]
  BY DEF J!ExecutorFails, Runs, J!TypeOK
<1>8. CASE tried.retryCount >= MaxRetries
  <2>1. job' = [job EXCEPT ![k] = rejected]
    BY <1>8 DEF J!ExecutorFails
  <2>2. locks' = locks \ {k}
    <3>1. J!IsTerminal(k)'
      <4> HIDE DEF rejected
      <4>1. QED
        BY <1>1, <1>5, <2>1, StateFacts DEF J!IsTerminal, Runs, J!TypeOK
    <3>2. locks' = J!Released(locks, k, tried, "TERMINAL_REJECTED")
      BY <3>1 DEF J!ExecutorFails
    <3> HIDE DEF tried
    <3>3. QED
      BY <1>4, <3>2, StateFacts DEF J!Released
  <2> HIDE DEF rejected, tried
  <2>3. QED
    BY <1>1, <1>5, <1>7, <2>1, <2>2, RunEnds, StateFacts
<1>9. CASE ~(tried.retryCount >= MaxRetries)
  <2>1. job' = [job EXCEPT ![k] = failed]
    BY <1>9 DEF J!ExecutorFails
  <2>2. failed.retryCount < MaxRetries
    BY <1>1, <1>4, <1>6, <1>9 DEF J!Job
  <2> HIDE DEF failed
  <2>3. locks' = locks \ {k}
    <3>1. ~J!IsTerminal(k)'
      BY <1>1, <1>6, <2>1, StateFacts DEF J!IsTerminal, Runs, J!TypeOK
    <3>2. QED
      BY <3>1 DEF J!ExecutorFails
  <2> HIDE DEF tried
  <2>4. QED
    BY <1>1, <1>6, <1>7, <2>1, <2>2, <2>3, RunEnds
<1>10. QED
  BY <1>8, <1>9

(* The synchronisation record of artifact a, after it became target. *)
LEMMA Records ==
    ASSUME Runs, SyncStates, NEW a \in Artifact, NEW target, SyncJob(a, target)
    PROVE  /\ Runs'
           /\ \A c, l : J!Running(c, l)' <=> J!Running(c, l)
           /\ job'[SyncKey(a)].state
                 = IF target = "VERIFIED" THEN "UPLOADED" ELSE job[SyncKey(a)].state
           /\ \A l \in J!Key \ {SyncKey(a)} : job'[l] = job[l]
<1> DEFINE k == SyncKey(a)
           m == J!Submitted(job[k])
           n == J!Transitioned(m, "UPLOADED")
<1>1. k \in J!Key /\ k \in SyncKeys /\ k \notin VerifyKeys /\ k \notin locks
      /\ job[k] \in J!Job /\ job[k].state \in {"none", "UPLOADED"}
  BY KeyFacts DEF Runs, J!TypeOK, SyncStates
<1>2. CASE target = "VERIFIED" /\ ~J!IsTerminal(k)
  <2>1. job[k].state = "none"
    BY <1>1, <1>2, StateFacts DEF J!IsTerminal
  <2>2. m \in J!Job /\ m.state = "PENDING"
    BY <1>1, <2>1, SubmittedFacts
  <2>3. J!DoByHand(k, "UPLOADED")
    BY <1>2 DEF SyncJob
  <2>4. job' = [job EXCEPT ![k] = n] /\ call' = call /\ effects' = effects
    BY <2>3 DEF J!DoByHand
  <2>5. locks' = locks
    BY <1>1, <2>3 DEF J!DoByHand, J!Released
  <2> HIDE DEF m
  <2>6. n \in J!Job /\ n.state = "UPLOADED"
    BY <2>2, TransitionedFacts, StateFacts
  <2> HIDE DEF n, k
  <2>7. /\ job' \in [J!Key -> J!Job] /\ job'[k] = n
        /\ \A l \in J!Key \ {k} : job'[l] = job[l]
    BY <1>1, <2>4, <2>6 DEF Runs, J!TypeOK
  <2>8. \A c, l : J!Running(c, l)' <=> J!Running(c, l)
    BY <2>4 DEF J!Running
  <2>9. J!TypeOK'
    BY <2>4, <2>5, <2>7 DEF Runs, J!TypeOK
  <2>10. /\ (\A l \in VerifyKeys : l \in locks <=> \E d \in Caller : J!Running(d, l))'
         /\ (\A l \in SyncKeys : l \notin locks)'
         /\ (\A l \in VerifyKeys : \A d, e \in Caller : J!Running(d, l) /\ J!Running(e, l) => d = e)'
    BY <2>5, <2>8 DEF Runs
  <2>11. \A l \in VerifyKeys : job'[l] = job[l]
    BY <1>1, <2>7, KeyFacts
  <2>12. /\ (\A d \in Caller, l \in VerifyKeys : J!Running(d, l) => job[l].state = "UPLOADING")'
         /\ (\A l \in VerifyKeys : ~J!IsTerminal(l) => job[l].retryCount < MaxRetries)'
    BY <2>8, <2>11 DEF Runs, J!IsTerminal
  <2>13. Runs'
    BY <2>9, <2>10, <2>12 DEF Runs
  <2>14. QED
    BY <1>2, <2>6, <2>7, <2>8, <2>13 DEF k
<1>3. CASE ~(target = "VERIFIED" /\ ~J!IsTerminal(k))
  <2>1. UNCHANGED jobVars
    BY <1>3 DEF SyncJob
  <2>2. job' = job /\ locks' = locks /\ call' = call /\ effects' = effects
    BY <2>1 DEF jobVars
  <2>3. \A c, l : J!Running(c, l)' <=> J!Running(c, l)
    BY <2>2 DEF J!Running
  <2>4. Runs'
    BY <2>2 DEF Runs, J!TypeOK, J!Running, J!IsTerminal
  <2>5. target = "VERIFIED" => job[k].state = "UPLOADED"
    BY <1>1, <1>3, StateFacts DEF J!IsTerminal
  <2>6. QED
    BY <2>2, <2>3, <2>4, <2>5
<1>4. QED
  BY <1>2, <1>3

-----------------------------------------------------------------------------
(* The ledger. *)

(* transitionState appends the event that explains the new state. *)
LEMMA LedgerStep ==
    ASSUME EvidenceIInv, NEW a \in Artifact, NEW target \in ArtifactState,
           TransitionState(a, target)
    PROVE  /\ artifact' \in [Artifact -> ArtifactState]
           /\ (ledger \in Seq([id : Artifact, previousState : ArtifactState,
                               newState : ArtifactState]))'
           /\ LedgerReplays'
           /\ \A b \in Artifact : artifact'[b] = IF b = a THEN target ELSE artifact[b]
           /\ \A b \in Artifact : VerifiedEvent(b) => VerifiedEvent(b)'
           /\ target = "VERIFIED" => VerifiedEvent(a)'
<1> DEFINE Event == [id : Artifact, previousState : ArtifactState, newState : ArtifactState]
           e == [id |-> a, previousState |-> artifact[a], newState |-> target]
<1>1. artifact \in [Artifact -> ArtifactState] /\ ledger \in Seq(Event)
  BY DEF EvidenceIInv, TypeOK
<1>2. CASE artifact[a] \in TerminalArtifact /\ artifact[a] = target
  <2>1. artifact' = artifact /\ ledger' = ledger
    BY <1>2 DEF TransitionState
  <2>2. target = "VERIFIED" => VerifiedEvent(a)
    BY <1>2 DEF EvidenceIInv, VerifiedRecorded
  <2>3. LedgerReplays'
    <3>1. LedgerReplays
      BY DEF EvidenceIInv
    <3>2. QED
      BY <2>1, <3>1 DEF LedgerReplays, StateBefore
  <2>4. \A b \in Artifact : VerifiedEvent(b)' <=> VerifiedEvent(b)
    BY <2>1 DEF VerifiedEvent
  <2>5. artifact'[a] = target
    BY <1>2, <2>1
  <2>6. QED
    BY <1>1, <2>1, <2>2, <2>3, <2>4, <2>5
<1>3. CASE ~(artifact[a] \in TerminalArtifact /\ artifact[a] = target)
  <2>1. /\ ledger' = Append(ledger, e)
        /\ artifact' = [artifact EXCEPT ![a] = target]
    BY <1>3 DEF TransitionState
  <2>2. e.id = a /\ e.previousState = artifact[a] /\ e.newState = target
    OBVIOUS
  <2>3. e \in Event
    BY <1>1
  <2> DEFINE N == Len(ledger)
  <2> HIDE DEF e, Event
  <2>4. /\ ledger' \in Seq(Event) /\ Len(ledger') = N + 1 /\ N \in Nat
        /\ DOMAIN ledger' = 1..(N + 1) /\ DOMAIN ledger = 1..N
        /\ ledger'[N + 1] = e
        /\ \A i \in 1..N : ledger'[i] = ledger[i]
    BY <1>1, <2>1, <2>3
  <2>5. /\ artifact' \in [Artifact -> ArtifactState]
        /\ \A b \in Artifact : artifact'[b] = IF b = a THEN target ELSE artifact[b]
    BY <1>1, <2>1
  <2>6. LedgerReplays
    BY DEF EvidenceIInv
  <2>7. ASSUME NEW b, NEW i \in 1..(N + 1), NEW st, StateBefore(b, i, st)
        PROVE  StateBefore(b, i, st)'
    BY <2>4, <2>7 DEF StateBefore
  <2>8. ASSUME NEW i \in 1..(N + 1)
        PROVE  StateBefore(ledger[i].id, i, ledger[i].previousState)'
    <3>1. CASE i \in 1..N
      <4>1. StateBefore(ledger[i].id, i, ledger[i].previousState)
        BY <2>4, <2>6, <3>1 DEF LedgerReplays
      <4>2. StateBefore(ledger[i].id, i, ledger[i].previousState)'
        BY <2>4, <3>1, <4>1 DEF StateBefore
      <4>3. QED
        BY <4>2
    <3>2. CASE i = N + 1
      <4>1. StateBefore(a, N + 1, artifact[a])
        BY <2>6 DEF LedgerReplays
      <4>2. QED
        BY <2>2, <2>4, <3>2, <4>1 DEF StateBefore
    <3>3. QED
      BY <2>4, <3>1, <3>2
  <2>9. ASSUME NEW b \in Artifact
        PROVE  StateBefore(b, Len(ledger) + 1, artifact[b])'
    <3>1. CASE b = a
      <4>1. \A k \in (N + 2)..((N + 2) - 1) : FALSE
        BY <2>4
      <4>2. artifact'[b] = target
        BY <2>5, <3>1
      <4>3. QED
        BY <2>2, <2>4, <3>1, <4>1, <4>2 DEF StateBefore
    <3>2. CASE b # a
      <4>1. StateBefore(b, N + 1, artifact[b]) /\ artifact'[b] = artifact[b]
        BY <2>5, <2>6, <3>2 DEF LedgerReplays
      <4>2. QED
        BY <2>2, <2>4, <3>2, <4>1 DEF StateBefore
    <3>3. QED
      BY <3>1, <3>2
  <2>10. LedgerReplays'
    BY <2>4, <2>8, <2>9 DEF LedgerReplays
  <2>11. \A b \in Artifact : VerifiedEvent(b) => VerifiedEvent(b)'
    BY <2>4 DEF VerifiedEvent
  <2>12. target = "VERIFIED" => VerifiedEvent(a)'
    BY <2>2, <2>4 DEF VerifiedEvent
  <2>13. QED
    BY <2>4, <2>5, <2>10, <2>11, <2>12 DEF Event
<1>4. QED
  BY <1>2, <1>3

-----------------------------------------------------------------------------
LEMMA EvidenceInit == Init => EvidenceIInv
<1> SUFFICES ASSUME Init PROVE EvidenceIInv
  OBVIOUS
<1>1. J!TypeOK
  <2>1. J!NoJob \in J!Job /\ J!Free \in J!Call
    <3>1. 0 \in 0..MaxRetries
      OBVIOUS
    <3>2. QED
      BY <3>1, CallFacts DEF J!NoJob, J!Job, J!JobState
  <2>2. QED
    BY <2>1 DEF Init, J!Init, J!TypeOK
<1>2. \A c \in Caller : \A k : ~J!Running(c, k)
  BY CallFacts DEF Init, J!Init, J!Running
<1>3. \A k \in J!Key : job[k].state = "none" /\ job[k].retryCount = 0
  BY DEF Init, J!Init, J!NoJob
<1>4. locks = {} /\ ledger = <<>> /\ attested = {}
      /\ artifact = [a \in Artifact |-> "PENDING_VERIFICATION"]
  BY DEF Init, J!Init
<1>5. Runs
  BY <1>1, <1>2, <1>3, <1>4, KeyFacts DEF Runs
<1>6. TypeOK
  BY <1>1, <1>4 DEF TypeOK, ArtifactState
<1>7. JobsFollowArtifacts /\ SyncStates /\ AttestedRuns /\ VerifiedRecorded
  BY <1>3, <1>4, KeyFacts DEF JobsFollowArtifacts, SyncStates, AttestedRuns, VerifiedRecorded
<1>8. LedgerReplays
  <2>1. Len(ledger) = 0 /\ DOMAIN ledger = {}
    BY <1>4
  <2>2. ASSUME NEW a \in Artifact PROVE StateBefore(a, Len(ledger) + 1, artifact[a])
    <3>1. 1..((Len(ledger) + 1) - 1) = {}
      BY <2>1
    <3>2. QED
      BY <1>4, <3>1 DEF StateBefore
  <2>3. QED
    BY <2>1, <2>2 DEF LedgerReplays
<1>9. QED
  BY <1>5, <1>6, <1>7, <1>8 DEF EvidenceIInv

(* A step of a verification that leaves artifacts and ledger alone. *)
LEMMA RunOnly ==
    ASSUME EvidenceIInv, NEW c \in Caller, NEW a \in Artifact, Runs',
           UNCHANGED <<artifact, ledger>>,
           attested' \subseteq attested \ {c},
           \A d \in Caller \ {c} : \A l : J!Running(d, l) => J!Running(d, l)',
           \A l \in J!Key \ {VerifyKey(a)} : job'[l] = job[l],
           job'[VerifyKey(a)].state = "UPLOADED" => VerifiedEvent(a)
    PROVE  EvidenceIInv'
<1>1. /\ artifact' = artifact /\ ledger' = ledger
      /\ \A b : VerifiedEvent(b)' <=> VerifiedEvent(b)
  BY DEF VerifiedEvent
<1>2. TypeOK'
  BY <1>1 DEF EvidenceIInv, TypeOK, Runs
<1>3. \A b \in Artifact : job'[SyncKey(b)] = job[SyncKey(b)]
  BY KeyFacts
<1>4. \A b \in Artifact : b # a => job'[VerifyKey(b)] = job[VerifyKey(b)]
  BY KeyFacts
<1>5. JobsFollowArtifacts'
  BY <1>1, <1>3, <1>4 DEF EvidenceIInv, JobsFollowArtifacts
<1>6. LedgerReplays'
  BY <1>1 DEF EvidenceIInv, LedgerReplays, StateBefore
<1>7. SyncStates'
  BY <1>3 DEF EvidenceIInv, SyncStates
<1>8. AttestedRuns'
  BY <1>1 DEF EvidenceIInv, AttestedRuns, TypeOK
<1>9. VerifiedRecorded'
  BY <1>1 DEF EvidenceIInv, VerifiedRecorded
<1>10. QED
  BY <1>2, <1>5, <1>6, <1>7, <1>8, <1>9 DEF EvidenceIInv

(* A step of the state manager on artifact a, taken by a handler that      *)
(* attests it or by another component.                                     *)
LEMMA TransitionKeeps ==
    ASSUME EvidenceIInv, NEW a \in Artifact, NEW target \in ArtifactState,
           TransitionState(a, target),
           attested' \subseteq Caller,
           \A c \in attested' \ attested :
               J!Running(c, VerifyKey(a)) /\ target = "VERIFIED"
    PROVE  EvidenceIInv'
<1>1. Runs /\ SyncStates /\ JobsFollowArtifacts /\ AttestedRuns /\ VerifiedRecorded
  BY DEF EvidenceIInv
<1>2. /\ Runs'
      /\ \A c, l : J!Running(c, l)' <=> J!Running(c, l)
      /\ target = "VERIFIED" => job'[SyncKey(a)].state = "UPLOADED"
      /\ job'[SyncKey(a)].state \in {job[SyncKey(a)].state, "UPLOADED"}
      /\ job[SyncKey(a)].state = "UPLOADED" => job'[SyncKey(a)].state = "UPLOADED"
      /\ \A l \in J!Key \ {SyncKey(a)} : job'[l] = job[l]
  <2>1. CASE SyncJob(a, target)
    BY <1>1, <2>1, Records
  <2>2. CASE artifact[a] = target /\ UNCHANGED jobVars
    <3>1. job' = job /\ locks' = locks /\ call' = call /\ effects' = effects
      BY <2>2 DEF jobVars
    <3>2. Runs'
      BY <1>1, <3>1 DEF Runs, J!TypeOK, J!Running, J!IsTerminal
    <3>3. QED
      BY <1>1, <2>2, <3>1, <3>2 DEF J!Running, JobsFollowArtifacts
  <2>3. QED
    BY <2>1, <2>2 DEF TransitionState
<1>3. /\ artifact' \in [Artifact -> ArtifactState]
      /\ (ledger \in Seq([id : Artifact, previousState : ArtifactState,
                          newState : ArtifactState]))'
      /\ LedgerReplays'
      /\ \A b \in Artifact : artifact'[b] = IF b = a THEN target ELSE artifact[b]
      /\ \A b \in Artifact : VerifiedEvent(b) => VerifiedEvent(b)'
      /\ target = "VERIFIED" => VerifiedEvent(a)'
  BY LedgerStep
<1>4. TypeOK'
  BY <1>2, <1>3 DEF TypeOK, Runs
<1>5. \A b \in Artifact : job'[VerifyKey(b)] = job[VerifyKey(b)]
  BY <1>2, KeyFacts
<1>6. \A b \in Artifact : b # a => job'[SyncKey(b)] = job[SyncKey(b)]
  BY <1>2, KeyFacts
<1>7. JobsFollowArtifacts'
  BY <1>1, <1>2, <1>3, <1>5, <1>6 DEF JobsFollowArtifacts
<1>8. SyncStates'
  BY <1>1, <1>2, <1>6 DEF SyncStates
<1>9. AttestedRuns'
  BY <1>1, <1>2, <1>3 DEF AttestedRuns
<1>10. VerifiedRecorded'
  BY <1>1, <1>3 DEF VerifiedRecorded
<1>11. QED
  BY <1>2, <1>3, <1>4, <1>7, <1>8, <1>9, <1>10 DEF EvidenceIInv

LEMMA EvidenceStep == EvidenceIInv /\ [Next]_vars => EvidenceIInv'
<1> SUFFICES ASSUME EvidenceIInv, [Next]_vars PROVE EvidenceIInv'
  OBVIOUS
<1>1. Runs /\ JobsFollowArtifacts /\ AttestedRuns /\ attested \subseteq Caller
  BY DEF EvidenceIInv, TypeOK
<1>2. "VERIFIED" \in ArtifactState /\ "BLOCKED" \in ArtifactState
  BY DEF ArtifactState, TerminalArtifact
<1>3. ASSUME NEW c \in Caller, NEW a \in Artifact, StartVerify(c, a)
      PROVE  EvidenceIInv'
  <2>1. VerifyKey(a) \in VerifyKeys /\ J!ExecuteJob(c, VerifyKey(a))
        /\ artifact' = artifact /\ ledger' = ledger /\ attested' = attested
    BY <1>3, KeyFacts DEF StartVerify
  <2>2. /\ Runs' /\ call[c] = J!Free
        /\ \A d \in Caller : \A l : J!Running(d, l) => J!Running(d, l)'
        /\ job'[VerifyKey(a)].state = "UPLOADING"
        /\ \A l \in J!Key \ {VerifyKey(a)} : job'[l] = job[l]
    BY <1>1, <2>1, StartsRun
  <2>3. c \notin attested
    BY <1>1, <2>2, CallFacts DEF AttestedRuns, J!Running
  <2>4. QED
    BY <2>1, <2>2, <2>3, RunOnly
<1>4. ASSUME NEW c \in Caller, NEW a \in Artifact, Attest(c, a)
      PROVE  EvidenceIInv'
  BY <1>1, <1>2, <1>4, TransitionKeeps DEF Attest
<1>5. ASSUME NEW c \in Caller, NEW a \in Artifact, VerifyReturns(c, a)
      PROVE  EvidenceIInv'
  <2>1. VerifyKey(a) \in VerifyKeys /\ J!ExecutorSucceeds(c, VerifyKey(a))
        /\ c \in attested /\ attested' = attested \ {c}
        /\ artifact' = artifact /\ ledger' = ledger
    BY <1>5, KeyFacts DEF VerifyReturns
  <2>2. /\ Runs'
        /\ \A d \in Caller : \A l : J!Running(d, l)' <=> (J!Running(d, l) /\ d # c)
        /\ \A l : J!Running(c, l) => l = VerifyKey(a)
        /\ \A l \in J!Key \ {VerifyKey(a)} : job'[l] = job[l]
    BY <1>1, <2>1, RunSucceeds
  <2>3. VerifiedEvent(a)
    BY <1>1, <2>1, <2>2, KeyFacts DEF AttestedRuns
  <2>4. QED
    BY <2>1, <2>2, <2>3, RunOnly
<1>6. ASSUME NEW c \in Caller, NEW a \in Artifact, VerifyThrows(c, a)
      PROVE  EvidenceIInv'
  <2>1. VerifyKey(a) \in VerifyKeys /\ J!ExecutorFails(c, VerifyKey(a))
        /\ attested' = attested \ {c}
        /\ artifact' = artifact /\ ledger' = ledger
    BY <1>6, KeyFacts DEF VerifyThrows
  <2>2. /\ Runs'
        /\ \A d \in Caller : \A l : J!Running(d, l)' <=> (J!Running(d, l) /\ d # c)
        /\ job'[VerifyKey(a)].state \in {"FAILED", "TERMINAL_REJECTED"}
        /\ \A l \in J!Key \ {VerifyKey(a)} : job'[l] = job[l]
    BY <1>1, <2>1, RunFails
  <2>3. QED
    BY <2>1, <2>2, RunOnly
<1>7. ASSUME NEW a \in Artifact, CenterVerifies(a) PROVE EvidenceIInv'
  BY <1>1, <1>2, <1>7, TransitionKeeps DEF CenterVerifies
<1>8. ASSUME NEW a \in Artifact, PromotionBlocked(a) PROVE EvidenceIInv'
  BY <1>1, <1>2, <1>8, TransitionKeeps DEF PromotionBlocked
<1>9. CASE UNCHANGED vars
  <2>1. /\ job' = job /\ locks' = locks /\ call' = call /\ effects' = effects
        /\ artifact' = artifact /\ ledger' = ledger /\ attested' = attested
    BY <1>9 DEF vars, jobVars
  <2>2. \A b : VerifiedEvent(b)' <=> VerifiedEvent(b)
    BY <2>1 DEF VerifiedEvent
  <2>3. Runs'
    BY <1>1, <2>1 DEF Runs, J!TypeOK, J!Running, J!IsTerminal
  <2>4. LedgerReplays'
    BY <2>1 DEF EvidenceIInv, LedgerReplays, StateBefore
  <2>5. TypeOK'
    BY <2>1, <2>3 DEF EvidenceIInv, TypeOK, Runs
  <2>6. JobsFollowArtifacts' /\ SyncStates' /\ AttestedRuns' /\ VerifiedRecorded'
    BY <2>1, <2>2 DEF EvidenceIInv, JobsFollowArtifacts, SyncStates, AttestedRuns,
                      VerifiedRecorded, J!Running
  <2>7. QED
    BY <2>3, <2>4, <2>5, <2>6 DEF EvidenceIInv
<1>10. QED
  BY <1>3, <1>4, <1>5, <1>6, <1>7, <1>8, <1>9 DEF Next

(* A VERIFIED artifact has its synchronisation record, and a verification  *)
(* that executeJob completed has its event in the ledger, whichever        *)
(* components move the artifact meanwhile.                                 *)
THEOREM EvidenceCorrect == Spec => []EvidenceInv
<1>1. EvidenceIInv => EvidenceInv
  BY DEF EvidenceIInv, EvidenceInv
<1>2. QED
  BY EvidenceInit, EvidenceStep, <1>1, PTL DEF Spec

(* The ledger that transitionState writes explains the state of every      *)
(* artifact.                                                               *)
THEOREM LedgerExplains == Spec => []LedgerReplays
<1>1. EvidenceIInv => LedgerReplays
  BY DEF EvidenceIInv
<1>2. QED
  BY EvidenceInit, EvidenceStep, <1>1, PTL DEF Spec

(* The only step with which the pipeline moves an artifact is the          *)
(* attestation of a handler that runs, and then the job is active.         *)
LEMMA AttestationInTime ==
    ASSUME EvidenceIInv, [Next]_vars, NEW a \in Artifact,
           J!IsTerminal(VerifyKey(a)), artifact'[a] # artifact[a]
    PROVE  attested' = attested
<1>1. Runs /\ artifact \in [Artifact -> ArtifactState]
  BY DEF EvidenceIInv, TypeOK
<1>2. ASSUME NEW c \in Caller, NEW b \in Artifact, Attest(c, b) PROVE FALSE
  <2>1. J!Running(c, VerifyKey(b)) /\ TransitionState(b, "VERIFIED")
    BY <1>2 DEF Attest
  <2>2. job[VerifyKey(b)].state = "UPLOADING"
    BY <1>1, <2>1, KeyFacts DEF Runs
  <2>3. a # b
    BY <2>2, StateFacts DEF J!IsTerminal
  <2>4. artifact' = artifact \/ artifact' = [artifact EXCEPT ![b] = "VERIFIED"]
    BY <2>1 DEF TransitionState
  <2>5. QED
    BY <1>1, <2>3, <2>4
<1>3. QED
  BY <1>2 DEF Next, StartVerify, VerifyReturns, VerifyThrows, CenterVerifies,
              PromotionBlocked, vars

(* After its verification job has ended the pipeline never moves an        *)
(* artifact, however many handlers were started on it and whatever the     *)
(* other components did to it meanwhile (TerminalStateManager.executeJob   *)
(* as DeterministicVerificationPipeline uses it).                          *)
THEOREM NoLateVerification == Spec => NoLateAttestation
<1>1. EvidenceIInv /\ [Next]_vars =>
         [\A a \in Artifact :
             J!IsTerminal(VerifyKey(a)) /\ artifact'[a] # artifact[a] => attested' = attested]_vars
  BY AttestationInTime
<1>2. QED
  BY EvidenceInit, EvidenceStep, <1>1, PTL DEF Spec, NoLateAttestation
=============================================================================
