-------------------------- MODULE TerminalJobProofs --------------------------
(***************************************************************************)
(* Proofs about TerminalJob, for any number of handlers, keys and retries: *)
(* its inductive invariant JobInv, and that terminal records never change. *)
(***************************************************************************)
EXTENDS TerminalJob, TLAPS

USE KeysAssumption, MaxRetriesAssumption

(* What a handler awaits is determined by its operation and key. *)
LEMMA CallFacts ==
    /\ \A k : Free # Awaiting("run", k) /\ Free # Awaiting("hand", k)
    /\ \A k, l : Awaiting("run", k) # Awaiting("hand", l)
    /\ \A k, l : Awaiting("run", k) = Awaiting("run", l) => k = l
    /\ \A k \in RunKey : Awaiting("run", k) \in Call
    /\ \A k \in HandKey : Awaiting("hand", k) \in Call
    /\ \A k : Awaiting("run", k) \in Call => k \in RunKey
    /\ Free \in Call
<1>1. \A k : Free.op = "free" /\ Awaiting("run", k).op = "run"
                              /\ Awaiting("hand", k).op = "hand"
  BY DEF Free, Awaiting
<1>2. \A k : Awaiting("run", k).key = k
  BY DEF Awaiting
<1>3. /\ \A k : Free # Awaiting("run", k) /\ Free # Awaiting("hand", k)
      /\ \A k, l : Awaiting("run", k) # Awaiting("hand", l)
  BY <1>1
<1>4. \A k, l : Awaiting("run", k) = Awaiting("run", l) => k = l
  BY <1>2
<1>5. /\ \A k \in RunKey : Awaiting("run", k) \in Call
      /\ \A k \in HandKey : Awaiting("hand", k) \in Call
      /\ Free \in Call
  BY DEF Call, Awaiting
<1>6. \A k : Awaiting("run", k) \in Call => k \in RunKey
  <2>1. SUFFICES ASSUME NEW k, Awaiting("run", k) \in Call PROVE k \in RunKey
    OBVIOUS
  <2>2. Awaiting("run", k) \in [op : {"run"}, key : RunKey]
                               \cup [op : {"hand"}, key : HandKey]
    BY <1>3, <2>1 DEF Call
  <2>3. Awaiting("run", k) \in [op : {"run"}, key : RunKey]
    BY <1>1, <2>2
  <2>4. QED
    BY <1>2, <2>3
<1>7. QED
  BY <1>3, <1>4, <1>5, <1>6

(* submitJob and transitionState on one record: the states they produce,   *)
(* and what they leave alone.                                              *)
LEMMA SubmittedFacts ==
    ASSUME NEW j \in Job
    PROVE  /\ Submitted(j) \in Job
           /\ Submitted(j).state # "none"
           /\ Submitted(j).state = j.state \/ Submitted(j).state = "PENDING"
           /\ j.state \in Terminal => Submitted(j) = j
           /\ (j.sealed <=> j.state \in Terminal)
                 => (Submitted(j).sealed <=> Submitted(j).state \in Terminal)
           /\ Submitted(j).retryCount = j.retryCount \/ Submitted(j).retryCount = 0
           /\ Submitted(j).state \in Terminal => j.state \in Terminal
<1>1. CASE j.state = "none"
  <2>1. Submitted(j) = [state |-> "PENDING", retryCount |-> 0, sealed |-> FALSE]
    BY <1>1 DEF Submitted, NoJob
  <2>2. Submitted(j).state = "PENDING" /\ Submitted(j).retryCount = 0
        /\ Submitted(j).sealed = FALSE
    BY <2>1
  <2>3. Submitted(j) \in Job
    BY <2>1 DEF Job, JobState
  <2>4. QED
    BY <1>1, <2>2, <2>3 DEF Terminal
<1>2. CASE j.state # "none"
  BY <1>2 DEF Submitted
<1>3. QED
  BY <1>1, <1>2

LEMMA TransitionedFacts ==
    ASSUME NEW j \in Job, NEW s \in JobState \ {"none"}
    PROVE  /\ Transitioned(j, s) \in Job
           /\ Transitioned(j, s).retryCount = j.retryCount
           /\ j.state \in Terminal \cup {"none"} => Transitioned(j, s) = j
           /\ j.state \notin Terminal \cup {"none"} => Transitioned(j, s).state = s
           /\ (j.sealed <=> j.state \in Terminal)
                 => (Transitioned(j, s).sealed <=> Transitioned(j, s).state \in Terminal)
<1>1. CASE j.state \in Terminal \cup {"none"}
  BY <1>1 DEF Transitioned
<1>2. CASE j.state \notin Terminal \cup {"none"}
  <2> DEFINE b == s \in Terminal
  <2>0. b \in BOOLEAN
    OBVIOUS
  <2>1. Transitioned(j, s) = [j EXCEPT !.state = s, !.sealed = b]
    BY <1>2 DEF Transitioned
  <2> HIDE DEF b
  <2>2. Transitioned(j, s) = [state |-> s, retryCount |-> j.retryCount, sealed |-> b]
    BY <2>1 DEF Job
  <2>3. Transitioned(j, s).state = s /\ Transitioned(j, s).retryCount = j.retryCount
        /\ Transitioned(j, s).sealed = b
    BY <2>2
  <2>4. Transitioned(j, s) \in Job
    BY <2>0, <2>2 DEF Job
  <2>5. Transitioned(j, s).sealed <=> Transitioned(j, s).state \in Terminal
    BY <2>3 DEF b
  <2>6. QED
    BY <1>2, <2>3, <2>4, <2>5
<1>3. QED
  BY <1>1, <1>2

(* The states of executeJob. *)
LEMMA StateFacts ==
    ASSUME NEW k \in Key
    PROVE  /\ ActiveState(k) \in JobState \ (Terminal \cup {"none"})
           /\ DoneState(k) \in Terminal /\ DoneState(k) \in JobState \ {"none"}
           /\ DoneState(k) # "TERMINAL_REJECTED"
           /\ "FAILED" \notin Terminal /\ "PENDING" \notin Terminal
           /\ "TERMINAL_REJECTED" \in Terminal
           /\ "FAILED" \in JobState \ {"none"} /\ "TERMINAL_REJECTED" \in JobState \ {"none"}
           /\ "none" \notin Terminal
           /\ AsyncOutcome \subseteq JobState \ {"none"} /\ SyncOutcome \subseteq JobState \ {"none"}
           /\ DoneState(k) # ActiveState(k) /\ DoneState(k) # "FAILED"
BY DEF ActiveState, DoneState, JobState, Terminal, AsyncOutcome, SyncOutcome

-----------------------------------------------------------------------------
(* The invariant holds initially. *)
LEMMA JobInvInit == Init => JobInv
<1> SUFFICES ASSUME Init PROVE JobInv
  OBVIOUS
<1>1. TypeOK
  BY DEF Init, TypeOK, Call, Job, JobState, NoJob
<1>2. \A c \in Caller, k \in Key : ~Running(c, k)
  BY CallFacts DEF Init, Running
<1>3. \A k \in Key : job[k].state = "none" /\ job[k].retryCount = 0 /\ ~job[k].sealed
  BY DEF Init, NoJob
<1>4. \A k \in Key : ~IsTerminal(k)
  BY <1>3 DEF IsTerminal, Terminal
<1>5. LockMatchesRun /\ RunsAreActive
  BY <1>2 DEF LockMatchesRun, RunsAreActive, Init, Key
<1>6. RetriesLeft /\ SealedIffTerminal
  BY <1>3, <1>4 DEF RetriesLeft, SealedIffTerminal, Key
<1>7. EffectOnce
  BY <1>3 DEF EffectOnce, Init, Key, DoneState
<1>8. QED
  BY <1>1, <1>5, <1>6, <1>7 DEF JobInv

(* A step that changes one record k: the obligations that concern the      *)
(* records only.                                                           *)
LEMMA RecordStep ==
    ASSUME JobInv, NEW k \in Key, NEW n \in Job,
           job' = [job EXCEPT ![k] = n],
           n.sealed <=> n.state \in Terminal,
           k \in RunKey => (n.state \notin Terminal => n.retryCount < MaxRetries)
    PROVE  /\ job' \in [Key -> Job]
           /\ \A l \in Key : job'[l] = IF l = k THEN n ELSE job[l]
           /\ RetriesLeft'
           /\ SealedIffTerminal'
<1>1. job' \in [Key -> Job] /\ \A l \in Key : job'[l] = IF l = k THEN n ELSE job[l]
  BY DEF JobInv, TypeOK
<1>2. RetriesLeft'
  BY <1>1 DEF JobInv, RetriesLeft, IsTerminal, Key
<1>3. SealedIffTerminal'
  <2>1. SUFFICES ASSUME NEW l \in Key PROVE (job[l].sealed <=> IsTerminal(l))'
    BY DEF SealedIffTerminal
  <2>2. CASE l = k
    <3>1. job'[l] = n
      BY <1>1, <2>2
    <3>2. QED
      BY <3>1 DEF IsTerminal
  <2>3. CASE l # k
    <3>1. job'[l] = job[l]
      BY <1>1, <2>3
    <3>2. job[l].sealed <=> IsTerminal(l)
      BY DEF JobInv, SealedIffTerminal
    <3>3. QED
      BY <3>1, <3>2 DEF IsTerminal
  <2>4. QED
    BY <2>2, <2>3
<1>4. QED
  BY <1>1, <1>2, <1>3

(* executeJob locks the key and starts the only run of it. *)
LEMMA ExecuteJobStep ==
    ASSUME JobInv, NEW c \in Caller, NEW k \in RunKey, ExecuteJob(c, k)
    PROVE  JobInv'
<1> DEFINE m == Submitted(job[k])
           n == Transitioned(m, ActiveState(k))
<1>1. k \in Key /\ job[k] \in Job /\ job[k].retryCount < MaxRetries
      /\ (job[k].sealed <=> job[k].state \in Terminal) /\ job[k].state \notin Terminal
  BY DEF JobInv, TypeOK, RetriesLeft, SealedIffTerminal, IsTerminal, ExecuteJob, Key
<1>2. /\ m \in Job /\ m.state \notin Terminal \cup {"none"}
      /\ m.retryCount < MaxRetries /\ (m.sealed <=> m.state \in Terminal)
  BY <1>1, SubmittedFacts
<1> HIDE DEF m
<1>3. /\ n \in Job /\ n.state = ActiveState(k) /\ n.retryCount < MaxRetries
      /\ (n.sealed <=> n.state \in Terminal)
  <2>1. ActiveState(k) \in JobState \ {"none"}
    BY <1>1, StateFacts
  <2>2. QED
    BY <1>2, <2>1, TransitionedFacts
<1>4. n.state \notin Terminal /\ n.state # DoneState(k) /\ job[k].state # DoneState(k)
  BY <1>1, <1>3, StateFacts
<1>5. job' = [job EXCEPT ![k] = n]
  BY <1>1 DEF ExecuteJob, m
<1> HIDE DEF n
<1>6. job' \in [Key -> Job] /\ RetriesLeft' /\ SealedIffTerminal'
      /\ \A l \in Key : job'[l] = IF l = k THEN n ELSE job[l]
  BY <1>1, <1>3, <1>5, RecordStep
<1>7. /\ k \notin locks /\ locks' = locks \cup {k} /\ effects' = effects /\ call[c] = Free
      /\ \A d \in Caller : call'[d] = IF d = c THEN Awaiting("run", k) ELSE call[d]
  BY DEF ExecuteJob, JobInv, TypeOK
<1>8. \A d \in Caller, l \in Key : Running(d, l)' <=> (Running(d, l) \/ (d = c /\ l = k))
  BY <1>7, CallFacts DEF Running
<1>9. TypeOK'
  BY <1>1, <1>6, <1>7, CallFacts DEF TypeOK, JobInv, ExecuteJob
<1>10. LockMatchesRun'
  <2>1. \A d \in Caller : ~Running(d, k)
    BY <1>1, <1>7 DEF JobInv, LockMatchesRun
  <2>2. QED
    BY <1>1, <1>7, <1>8, <2>1 DEF JobInv, LockMatchesRun, Key
<1>11. RunsAreActive'
  BY <1>3, <1>6, <1>8 DEF JobInv, RunsAreActive, Key
<1>12. EffectOnce'
  BY <1>4, <1>6, <1>7 DEF JobInv, EffectOnce, Key
<1>13. QED
  BY <1>6, <1>9, <1>10, <1>11, <1>12 DEF JobInv

(* What the end of a run, with record n for key k, keeps. *)
LEMMA RunEnds ==
    ASSUME JobInv, NEW c \in Caller, NEW k \in RunKey, NEW n \in Job, Running(c, k),
           job' = [job EXCEPT ![k] = n],
           n.sealed <=> n.state \in Terminal,
           n.state \notin Terminal => n.retryCount < MaxRetries,
           locks' = locks \ {k},
           call' = [call EXCEPT ![c] = Free],
           effects' \in [Key -> Nat],
           \A l \in Key \ {k} : effects'[l] = effects[l],
           effects'[k] = IF n.state = DoneState(k) THEN 1 ELSE 0
    PROVE  JobInv'
<1>1. k \in Key
  BY DEF Key
<1>2. job' \in [Key -> Job] /\ RetriesLeft' /\ SealedIffTerminal'
      /\ \A l \in Key : job'[l] = IF l = k THEN n ELSE job[l]
  BY <1>1, RecordStep
<1>3. \A d \in Caller : call'[d] = IF d = c THEN Free ELSE call[d]
  BY DEF JobInv, TypeOK
<1>4. \A d \in Caller, l \in Key : Running(d, l)' <=> (Running(d, l) /\ d # c)
  BY <1>3, CallFacts DEF Running
<1>5. \A d \in Caller : Running(d, k) => d = c
  BY DEF JobInv, LockMatchesRun
<1>6. \A l \in Key : Running(c, l) => l = k
  BY CallFacts DEF Running
<1>7. TypeOK'
  BY <1>2, CallFacts DEF JobInv, TypeOK
<1>8. LockMatchesRun'
  BY <1>4, <1>5, <1>6 DEF JobInv, LockMatchesRun, Key
<1>9. RunsAreActive'
  BY <1>2, <1>4, <1>5 DEF JobInv, RunsAreActive, Key
<1>10. EffectOnce'
  BY <1>2 DEF JobInv, EffectOnce, Key
<1>11. QED
  BY <1>2, <1>7, <1>8, <1>9, <1>10 DEF JobInv

LEMMA ExecutorSucceedsStep ==
    ASSUME JobInv, NEW c \in Caller, NEW k \in RunKey, ExecutorSucceeds(c, k)
    PROVE  JobInv'
<1> DEFINE n == Transitioned(job[k], DoneState(k))
<1>1. k \in Key /\ job[k] \in Job /\ (job[k].sealed <=> job[k].state \in Terminal)
      /\ job[k].state = ActiveState(k) /\ Running(c, k)
  BY DEF JobInv, TypeOK, RunsAreActive, SealedIffTerminal, IsTerminal, ExecutorSucceeds, Key
<1>2. job[k].state \notin Terminal \cup {"none"} /\ DoneState(k) \in Terminal
      /\ DoneState(k) \in JobState \ {"none"} /\ job[k].state # DoneState(k)
  BY <1>1, StateFacts
<1>3. n \in Job /\ n.state = DoneState(k) /\ (n.sealed <=> n.state \in Terminal)
  BY <1>1, <1>2, TransitionedFacts
<1>4. job' = [job EXCEPT ![k] = n]
  BY DEF ExecutorSucceeds
<1> HIDE DEF n
<1>5. IsTerminal(k)'
  BY <1>1, <1>2, <1>3, <1>4 DEF IsTerminal, JobInv, TypeOK
<1>6. locks' = locks \ {k}
  BY <1>2, <1>5 DEF ExecutorSucceeds, Released
<1>7. effects[k] = 0
  BY <1>2 DEF JobInv, EffectOnce
<1>8. effects' = [effects EXCEPT ![k] = 1]
  BY <1>7 DEF ExecutorSucceeds
<1>9. /\ effects' \in [Key -> Nat] /\ effects'[k] = 1
      /\ \A l \in Key \ {k} : effects'[l] = effects[l]
  BY <1>1, <1>8 DEF JobInv, TypeOK
<1>10. call' = [call EXCEPT ![c] = Free]
  BY DEF ExecutorSucceeds
<1>11. QED
  BY <1>1, <1>2, <1>3, <1>4, <1>6, <1>9, <1>10, RunEnds

LEMMA ExecutorFailsStep ==
    ASSUME JobInv, NEW c \in Caller, NEW k \in RunKey, ExecutorFails(c, k)
    PROVE  JobInv'
<1> DEFINE tried == [job[k] EXCEPT !.retryCount = @ + 1]
<1>1. k \in Key /\ job[k] \in Job /\ (job[k].sealed <=> job[k].state \in Terminal)
      /\ job[k].state = ActiveState(k) /\ Running(c, k) /\ job[k].retryCount < MaxRetries
  BY DEF JobInv, TypeOK, RunsAreActive, SealedIffTerminal, IsTerminal, ExecutorFails, Key
<1>2. job[k].state \notin Terminal \cup {"none"} /\ job[k].state # DoneState(k)
  BY <1>1, StateFacts
<1>3. effects[k] = 0 /\ effects' = effects /\ call' = [call EXCEPT ![c] = Free]
  BY <1>2 DEF JobInv, EffectOnce, ExecutorFails
<1>4. tried = [state |-> job[k].state, retryCount |-> job[k].retryCount + 1,
               sealed |-> job[k].sealed]
  BY <1>1 DEF Job
<1>5. /\ tried.state = job[k].state /\ tried.sealed = job[k].sealed
      /\ tried.retryCount = job[k].retryCount + 1
  BY <1>4
<1>6. tried \in Job
  <2>1. job[k].retryCount + 1 \in 0..MaxRetries /\ job[k].state \in JobState
        /\ job[k].sealed \in BOOLEAN
    BY <1>1 DEF Job
  <2>2. QED
    BY <1>4, <2>1 DEF Job
<1>7. CASE tried.retryCount >= MaxRetries
  <2> DEFINE n == Transitioned(tried, "TERMINAL_REJECTED")
  <2>1. job' = [job EXCEPT ![k] = n]
    BY <1>7 DEF ExecutorFails
  <2>2. n \in Job /\ n.state = "TERMINAL_REJECTED" /\ (n.sealed <=> n.state \in Terminal)
    <3>1. "TERMINAL_REJECTED" \in JobState \ {"none"}
      BY <1>1, StateFacts
    <3>2. (tried.sealed <=> tried.state \in Terminal) /\ tried.state \notin Terminal \cup {"none"}
      BY <1>1, <1>2, <1>5
    <3> HIDE DEF tried
    <3>3. QED
      BY <1>6, <3>1, <3>2, TransitionedFacts
  <2>3. n.state \in Terminal /\ n.state # DoneState(k)
    BY <1>1, <2>2, StateFacts
  <2> HIDE DEF n
  <2>4. IsTerminal(k)'
    BY <1>1, <2>1, <2>3 DEF IsTerminal, JobInv, TypeOK
  <2>5. locks' = locks \ {k}
    <3>1. locks' = Released(locks, k, tried, "TERMINAL_REJECTED")
      BY <2>4 DEF ExecutorFails
    <3>2. "TERMINAL_REJECTED" \in Terminal /\ tried.state \notin Terminal \cup {"none"}
      BY <1>1, <1>2, <1>5, StateFacts
    <3> HIDE DEF tried
    <3>3. QED
      BY <3>1, <3>2 DEF Released
  <2>6. QED
    BY <1>1, <1>3, <2>1, <2>2, <2>3, <2>5, RunEnds DEF JobInv, TypeOK
<1>8. CASE ~(tried.retryCount >= MaxRetries)
  <2> DEFINE n == [tried EXCEPT !.state = "FAILED"]
  <2>1. job' = [job EXCEPT ![k] = n]
    BY <1>8 DEF ExecutorFails
  <2>2. n = [state |-> "FAILED", retryCount |-> job[k].retryCount + 1,
             sealed |-> job[k].sealed]
    <3> HIDE DEF tried
    <3>1. n = [state |-> "FAILED", retryCount |-> tried.retryCount, sealed |-> tried.sealed]
      BY <1>6 DEF Job
    <3>2. QED
      BY <1>5, <3>1
  <2>3. n.state = "FAILED" /\ n.retryCount = tried.retryCount /\ n.sealed = job[k].sealed
    BY <1>5, <2>2
  <2>4. n \in Job
    <3>1. job[k].retryCount + 1 \in 0..MaxRetries /\ "FAILED" \in JobState
          /\ job[k].sealed \in BOOLEAN
      BY <1>1, StateFacts DEF Job
    <3>2. QED
      BY <2>2, <3>1 DEF Job
  <2>5. n.state \notin Terminal /\ n.state # DoneState(k)
    BY <1>1, <2>3, StateFacts
  <2>6. n.retryCount < MaxRetries
    BY <1>1, <1>5, <1>8, <2>3 DEF Job
  <2>7. n.sealed <=> n.state \in Terminal
    BY <1>1, <1>2, <2>3, <2>5
  <2> HIDE DEF n
  <2>8. ~IsTerminal(k)'
    BY <1>1, <2>1, <2>5 DEF IsTerminal, JobInv, TypeOK
  <2>9. locks' = locks \ {k}
    BY <2>8 DEF ExecutorFails
  <2>10. QED
    BY <1>1, <1>3, <2>1, <2>4, <2>5, <2>6, <2>7, <2>9, RunEnds DEF JobInv, TypeOK
<1>9. QED
  BY <1>7, <1>8

(* A step by hand on one key: it has no lock and no run. *)
LEMMA HandEnds ==
    ASSUME JobInv, NEW k \in HandKey, NEW n \in Job,
           job' = [job EXCEPT ![k] = n],
           n.sealed <=> n.state \in Terminal,
           locks' = locks,
           call' \in [Caller -> Call],
           \A c \in Caller, l \in RunKey : Running(c, l)' <=> Running(c, l),
           effects' \in [Key -> Nat],
           \A l \in RunKey : effects'[l] = effects[l]
    PROVE  JobInv'
<1>1. k \in Key /\ k \notin RunKey
  BY DEF Key
<1>2. job' \in [Key -> Job] /\ RetriesLeft' /\ SealedIffTerminal'
      /\ \A l \in Key : job'[l] = IF l = k THEN n ELSE job[l]
  BY <1>1, RecordStep
<1>3. \A l \in RunKey : l \in Key /\ job'[l] = job[l]
  BY <1>1, <1>2 DEF Key
<1>4. TypeOK'
  BY <1>2 DEF JobInv, TypeOK
<1>5. \A c \in Caller, l \in Key : Running(c, l)' <=> Running(c, l)
  <2>1. \A c \in Caller, l \in Key : Running(c, l) => l \in RunKey
    BY CallFacts DEF JobInv, TypeOK, Running
  <2>2. \A c \in Caller, l \in Key : Running(c, l)' => l \in RunKey
    BY CallFacts DEF Running
  <2>3. QED
    BY <2>1, <2>2
<1>6. LockMatchesRun'
  BY <1>5 DEF JobInv, LockMatchesRun, Key
<1>7. RunsAreActive'
  BY <1>3, <1>5 DEF JobInv, RunsAreActive, Key
<1>8. EffectOnce'
  BY <1>3 DEF JobInv, EffectOnce
<1>9. QED
  BY <1>2, <1>4, <1>6, <1>7, <1>8 DEF JobInv

(* A key driven by hand is never locked. *)
LEMMA HandUnlocked == ASSUME JobInv, NEW k \in HandKey PROVE k \notin locks
<1>1. \A c \in Caller : ~Running(c, k)
  BY CallFacts DEF JobInv, TypeOK, Running
<1>2. QED
  BY <1>1 DEF JobInv, LockMatchesRun, Key

LEMMA HandStepKeeps ==
    ASSUME JobInv, NEW c \in Caller, NEW k \in HandKey, HandStep(c, k)
    PROVE  JobInv'
<1>1. k \in Key /\ job[k] \in Job /\ (job[k].sealed <=> job[k].state \in Terminal)
      /\ k \notin RunKey /\ k \notin locks
  BY HandUnlocked DEF JobInv, TypeOK, SealedIffTerminal, IsTerminal, Key
<1>2. CASE StartByHand(c, k)
  <2> DEFINE n == Submitted(job[k])
  <2>1. n \in Job /\ (n.sealed <=> n.state \in Terminal)
    BY <1>1, SubmittedFacts
  <2>2. job' = [job EXCEPT ![k] = n] /\ locks' = locks /\ effects' = effects
    BY <1>2 DEF StartByHand
  <2>3. /\ call[c] = Free /\ call' \in [Caller -> Call]
        /\ \A d \in Caller : call'[d] = IF d = c THEN Awaiting("hand", k) ELSE call[d]
    BY <1>2, CallFacts DEF StartByHand, JobInv, TypeOK
  <2>4. \A d \in Caller, l \in RunKey : Running(d, l)' <=> Running(d, l)
    BY <2>3, CallFacts DEF Running
  <2> HIDE DEF n
  <2>5. QED
    BY <2>1, <2>2, <2>3, <2>4, HandEnds DEF JobInv, TypeOK
<1>3. ASSUME NEW s \in AsyncOutcome, FinishByHand(c, k, s) PROVE JobInv'
  <2> DEFINE n == Transitioned(job[k], s)
  <2>1. s \in JobState \ {"none"}
    BY <1>1, StateFacts
  <2>2. n \in Job /\ (n.sealed <=> n.state \in Terminal)
    BY <1>1, <2>1, TransitionedFacts
  <2>3. job' = [job EXCEPT ![k] = n] /\ locks' = locks
    BY <1>1, <1>3 DEF FinishByHand, Released
  <2>4. /\ call[c] = Awaiting("hand", k) /\ call' \in [Caller -> Call]
        /\ \A d \in Caller : call'[d] = IF d = c THEN Free ELSE call[d]
    BY <1>3, CallFacts DEF FinishByHand, JobInv, TypeOK
  <2>5. \A d \in Caller, l \in RunKey : Running(d, l)' <=> Running(d, l)
    BY <2>4, CallFacts DEF Running
  <2>6. effects' \in [Key -> Nat] /\ \A l \in RunKey : effects'[l] = effects[l]
    BY <1>1, <1>3 DEF FinishByHand, JobInv, TypeOK, Key
  <2> HIDE DEF n
  <2>7. QED
    BY <2>2, <2>3, <2>4, <2>5, <2>6, HandEnds
<1>4. QED
  BY <1>2, <1>3 DEF HandStep

LEMMA DoByHandKeeps ==
    ASSUME JobInv, NEW k \in HandKey, NEW s \in SyncOutcome, DoByHand(k, s)
    PROVE  JobInv'
<1> DEFINE m == Submitted(job[k])
           n == Transitioned(m, s)
<1>1. k \in Key /\ job[k] \in Job /\ (job[k].sealed <=> job[k].state \in Terminal)
      /\ k \notin locks
  BY HandUnlocked DEF JobInv, TypeOK, SealedIffTerminal, IsTerminal, Key
<1>2. m \in Job /\ (m.sealed <=> m.state \in Terminal)
  BY <1>1, SubmittedFacts
<1>3. s \in JobState \ {"none"}
  BY <1>1, StateFacts
<1>4. job' = [job EXCEPT ![k] = n] /\ locks' = locks
  BY <1>1 DEF DoByHand, Released
<1> HIDE DEF m
<1>5. n \in Job /\ (n.sealed <=> n.state \in Terminal)
  BY <1>2, <1>3, TransitionedFacts
<1> HIDE DEF n
<1>6. call' = call /\ effects' = effects
  BY DEF DoByHand
<1>7. QED
  BY <1>4, <1>5, <1>6, HandEnds DEF JobInv, TypeOK, Running

-----------------------------------------------------------------------------
LEMMA JobInvStep == JobInv /\ [Next]_vars => JobInv'
<1> SUFFICES ASSUME JobInv, [Next]_vars PROVE JobInv'
  OBVIOUS
<1>1. ASSUME NEW c \in Caller, NEW k \in RunKey, RunStep(c, k) PROVE JobInv'
  BY <1>1, ExecuteJobStep, ExecutorSucceedsStep, ExecutorFailsStep DEF RunStep
<1>2. ASSUME NEW c \in Caller, NEW k \in HandKey, HandStep(c, k) PROVE JobInv'
  BY <1>2, HandStepKeeps
<1>3. ASSUME NEW k \in HandKey, NEW s \in SyncOutcome, DoByHand(k, s) PROVE JobInv'
  BY <1>3, DoByHandKeeps
<1>4. CASE UNCHANGED vars
  BY <1>4 DEF vars, JobInv, TypeOK, LockMatchesRun, RunsAreActive, RetriesLeft,
              EffectOnce, SealedIffTerminal, IsTerminal, Running
<1>5. QED
  BY <1>1, <1>2, <1>3, <1>4 DEF Next

(* The lock of a key matches its only run, executeJob delivers the work of *)
(* a key at most once, and the flags of a record agree with its state.     *)
THEOREM JobCorrect == Spec => []JobInv
BY JobInvInit, JobInvStep, PTL DEF Spec

(* executeJob delivers the work of a key at most once.                     *)
THEOREM DeliversOnce == Spec => []EffectOnce
<1>1. JobInv => EffectOnce
  BY DEF JobInv
<1>2. QED
  BY <1>1, JobCorrect, PTL

(* A terminal record never changes: a step by hand leaves it alone because *)
(* of the check in transitionState, a run because it only writes records   *)
(* that RunsAreActive says are not terminal.                               *)
LEMMA TerminalStays ==
    ASSUME JobInv, [Next]_vars, NEW k \in Key, IsTerminal(k)
    PROVE  job'[k] = job[k]
<1>1. ASSUME NEW c \in Caller, NEW l \in RunKey, RunStep(c, l) PROVE job'[k] = job[k]
  <2>1. k # l
    <3>1. ~IsTerminal(l)
      <4>1. CASE ExecuteJob(c, l)
        BY <4>1 DEF ExecuteJob
      <4>2. CASE ExecutorSucceeds(c, l) \/ ExecutorFails(c, l)
        <5>1. job[l].state = ActiveState(l)
          BY <4>2 DEF ExecutorSucceeds, ExecutorFails, JobInv, RunsAreActive
        <5>2. QED
          BY <5>1, StateFacts DEF IsTerminal, Key
      <4>3. QED
        BY <1>1, <4>1, <4>2 DEF RunStep
    <3>2. QED
      BY <3>1
  <2>2. \E n : job' = [job EXCEPT ![l] = n]
    BY <1>1 DEF RunStep, ExecuteJob, ExecutorSucceeds, ExecutorFails
  <2>3. QED
    BY <2>1, <2>2 DEF JobInv, TypeOK
<1>2. ASSUME NEW c \in Caller, NEW l \in HandKey, HandStep(c, l) PROVE job'[k] = job[k]
  <2>1. k \in Key /\ job[k] \in Job /\ job[k].state \in Terminal
    BY DEF JobInv, TypeOK, IsTerminal
  <2>2. Submitted(job[k]) = job[k]
    BY <2>1, SubmittedFacts
  <2>3. \A s : Transitioned(job[k], s) = job[k]
    BY <2>1 DEF Transitioned
  <2>4. \/ job' = [job EXCEPT ![l] = Submitted(job[l])]
        \/ \E s : job' = [job EXCEPT ![l] = Transitioned(job[l], s)]
    BY <1>2 DEF HandStep, StartByHand, FinishByHand
  <2>5. QED
    BY <2>1, <2>2, <2>3, <2>4 DEF JobInv, TypeOK
<1>3. ASSUME NEW l \in HandKey, NEW s \in SyncOutcome, DoByHand(l, s) PROVE job'[k] = job[k]
  <2>1. k # l
    BY <1>3 DEF DoByHand
  <2>2. QED
    BY <1>3, <2>1 DEF DoByHand, JobInv, TypeOK
<1>4. CASE UNCHANGED vars
  BY <1>4 DEF vars
<1>5. QED
  BY <1>1, <1>2, <1>3, <1>4 DEF Next

(* Invariant 1 of the engine's header, for the way its clients use it.     *)
THEOREM TerminalRecordsStay == Spec => TerminalImmutable
<1>1. JobInv /\ [Next]_vars => [\A k \in Key : IsTerminal(k) => job'[k] = job[k]]_vars
  BY TerminalStays
<1>2. QED
  BY <1>1, JobCorrect, PTL DEF Spec, TerminalImmutable
=============================================================================
