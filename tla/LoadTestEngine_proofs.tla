----------------------- MODULE LoadTestEngine_proofs -----------------------
(***************************************************************************)
(* Theorems of LoadTestEngine, for every traffic pattern and every size.   *)
(***************************************************************************)
EXTENDS LoadTestEngine, FiniteSetTheorems, SequenceTheorems, TLAPS

\* What FirstTier and Advance leave alone.
BranchFrame == UNCHANGED <<now, all_results, persisted, up, healthVars,
                           report, issued, dropped>>

\* A tier of a legal size and length starts, or the finally block runs.
TierOrEnd ==
    \/ \E kind \in Stages, n \in 0..TargetUsers,
          ticks \in 0..Duration : StartTier(kind, n, ticks)
    \/ Finally(FALSE)

\* Each branch of the pattern code either starts a tier of legal size and
\* length, while the run is active or at its very beginning, or ends in the
\* finally block: all that the invariants need to know of the four patterns.
LEMMA BranchOutcome ==
    ASSUME TypeOK, FirstTier \/ Advance
    PROVE  /\ BranchFrame
           /\ ctl \in {"hello", "advance"}
           /\ TierOrEnd
<1> USE EngineAssumption DEF TypeOK, TierOrEnd, Stages
<1>1. ASSUME NEW u \in Nat, Stress(u)
      PROVE  TierOrEnd
  <2>1. CASE /\ u <= Smaller(TargetUsers, MaxConcurrentUsers)
             /\ IsActive
             /\ now <= Duration
    <3>1. u \in 0..TargetUsers
      BY <2>1 DEF Smaller
    <3>2. Smaller(StepSeconds, Duration - now) \in 0..Duration
      BY <2>1 DEF Smaller
    <3>3. StartTier("stress", u, Smaller(StepSeconds, Duration - now))
      BY <1>1, <2>1 DEF Stress
    <3> QED BY <3>1, <3>2, <3>3
  <2>2. CASE ~ (/\ u <= Smaller(TargetUsers, MaxConcurrentUsers)
                /\ IsActive
                /\ now <= Duration)
    BY <1>1, <2>2 DEF Stress
  <2> QED BY <2>1, <2>2
<1>2. ASSUME NEW u \in Nat, RampUp(u)
      PROVE  TierOrEnd
  <2>1. CASE u <= TargetUsers /\ IsActive /\ now <= Duration
    <3>1. u \in 0..TargetUsers
      BY <2>1
    <3>2. Smaller(StepSeconds, Duration - now) \in 0..Duration
      BY <2>1 DEF Smaller
    <3>3. StartTier("rampup", u, Smaller(StepSeconds, Duration - now))
      BY <1>2, <2>1 DEF RampUp
    <3> QED BY <3>1, <3>2, <3>3
  <2>2. CASE ~ (u <= TargetUsers /\ IsActive /\ now <= Duration)
    <3>1. Hold
      BY <1>2, <2>2 DEF RampUp
    <3>2. CASE now < Duration /\ IsActive
      <4>1. StartTier("hold", TargetUsers, Duration - now)
        BY <3>1, <3>2 DEF Hold
      <4>2. TargetUsers \in 0..TargetUsers /\ Duration - now \in 0..Duration
        BY <3>2
      <4> QED BY <4>1, <4>2
    <3>3. CASE ~ (now < Duration /\ IsActive)
      BY <3>1, <3>3 DEF Hold
    <3> QED BY <3>2, <3>3
  <2> QED BY <2>1, <2>2
<1>3. ASSUME Spike
      PROVE  TierOrEnd
  <2>1. TargetUsers \in 0..TargetUsers /\ Duration - WarmSeconds \in 0..Duration
    OBVIOUS
  <2>2. StartTier("second", TargetUsers, Duration - WarmSeconds) \/ Finally(FALSE)
    BY <1>3 DEF Spike
  <2> QED BY <2>1, <2>2
<1>4. CASE FirstTier
  <2>1. BranchFrame /\ ctl \in {"hello", "advance"}
    BY <1>4 DEF FirstTier, BranchFrame
  <2>2. CASE StartTier("constant", TargetUsers, Duration)
    <3>1. TargetUsers \in 0..TargetUsers /\ Duration \in 0..Duration
      OBVIOUS
    <3> QED BY <2>1, <2>2, <3>1
  <2>3. CASE RampUp(StepUsers)
    BY <1>2, <2>1, <2>3
  <2>4. CASE StartTier("spike", Smaller(WarmUsers, TargetUsers), WarmSeconds)
    <3>1. Smaller(WarmUsers, TargetUsers) \in 0..TargetUsers
      BY DEF Smaller
    <3> QED BY <2>1, <2>4, <3>1
  <2>5. CASE Stress(StepUsers)
    BY <1>1, <2>1, <2>5
  <2> QED BY <1>4, <2>2, <2>3, <2>4, <2>5 DEF FirstTier
<1>5. CASE Advance
  <2>1. BranchFrame /\ ctl \in {"hello", "advance"}
    BY <1>5 DEF Advance, BranchFrame
  <2>2. users + StepUsers \in Nat
    OBVIOUS
  <2>3. CASE RampUp(users + StepUsers)
    BY <1>2, <2>1, <2>2, <2>3
  <2>4. CASE Spike
    BY <1>3, <2>1, <2>4
  <2>5. CASE Stress(users + StepUsers)
    BY <1>1, <2>1, <2>2, <2>5
  <2>6. CASE Finally(FALSE)
    BY <2>1, <2>6
  <2> QED BY <1>5, <2>3, <2>4, <2>5, <2>6 DEF Advance
<1> QED BY <1>4, <1>5

-----------------------------------------------------------------------------
\* The type invariant is inductive only together with the bound on retries.
TypeInv == TypeOK /\ BackoffIsFirstTry

\* Every variable keeps a value the code could store in it, and no request is
\* tried more than twice.
THEOREM TypeCorrect == Spec => [](TypeOK /\ BackoffIsFirstTry)
<1>1. Init => TypeInv
  <2> SUFFICES ASSUME Init PROVE TypeInv
    OBVIOUS
  <2>1. <<>> \in Seq(Results)
    BY EmptySeq
  <2>2. NoReport \in [total : Nat, healthy : BOOLEAN, abort : {"none", "given"}]
    BY DEF NoReport
  <2>3. /\ worker \in [Workers -> {"top", "request", "backoff", "report", "done"}]
        /\ attempt \in [Workers -> 0..MaxAttempts]
        /\ BackoffIsFirstTry
    BY DEF Init, MaxAttempts, BackoffIsFirstTry
  <2>4. /\ users \in 0..TargetUsers
        /\ stage \in Stages
        /\ left \in 0..Duration
        /\ now \in 0..(Duration + 1)
        /\ issued \in 0..RequestBudget
        /\ dropped \in Nat
    BY EngineAssumption DEF Init, Stages
  <2>5. /\ up \in BOOLEAN
        /\ healthy \in BOOLEAN
        /\ failing \in BOOLEAN
    BY DEF Init
  <2> QED BY <2>1, <2>2, <2>3, <2>4, <2>5 DEF Init, TypeInv, TypeOK
<1>2. TypeInv /\ [Next]_vars => TypeInv'
  <2> SUFFICES ASSUME TypeInv, [Next]_vars
               PROVE  TypeInv'
    OBVIOUS
  <2> USE EngineAssumption DEF TypeInv, TypeOK, BackoffIsFirstTry
  <2>1. CASE Begin
    BY <2>1 DEF Begin, Running
  <2>2. CASE FirstTier \/ Advance
    <3>1. BranchFrame /\ TierOrEnd
      BY <2>2, BranchOutcome
    <3>2. ASSUME NEW kind \in Stages, NEW n \in 0..TargetUsers,
                 NEW ticks \in 0..Duration, StartTier(kind, n, ticks)
          PROVE  TypeInv'
      <4>1. <<>> \in Seq(Results)
        BY EmptySeq
      <4> QED BY <3>1, <3>2, <4>1 DEF BranchFrame, healthVars, StartTier, Running, MaxAttempts
    <3>3. CASE Finally(FALSE)
      BY <3>1, <3>3 DEF BranchFrame, healthVars, Finally, Over
    <3> QED BY <3>1, <3>2, <3>3 DEF TierOrEnd
  <2>3. CASE EndTier \/ Gathered
    BY <2>3 DEF EndTier, Gathered, Running, workVars, bufVars, healthVars
  <2>4. CASE Persist
    <3>1. persisted \o tier_buffer \in Seq(Results)
      BY ConcatProperties
    <3> QED BY <2>4, <3>1 DEF Persist, Running, workVars, bufVars, healthVars
  <2>5. CASE PersistFails
    BY <2>5 DEF PersistFails, Finally, Over, healthVars
  <2>6. CASE Return
    <3>1. Len(all_results) \in Nat
      BY LenProperties
    <3> QED BY <2>6, <3>1 DEF Return, Over, workVars, bufVars, healthVars
  <2>7. ASSUME NEW w \in Workers, Worker(w)
        PROVE  TypeInv'
    <3> USE DEF WorkerFrame, ctlVars, healthVars, MaxAttempts
    <3>1. CASE Send(w)
      BY <3>1 DEF Send, bufVars
    <3>2. CASE Quit(w)
      BY <3>2 DEF Quit, bufVars
    <3>8. CASE Rest(w)
      BY <3>8 DEF Rest, bufVars
    <3>3. ASSUME NEW o \in Outcomes, Record(w, o), WorkerFrame
          PROVE  TypeInv'
      <4>1. [users |-> users, outcome |-> o] \in Results
        BY DEF Results
      <4>2. /\ Append(tier_buffer, [users |-> users, outcome |-> o]) \in Seq(Results)
            /\ Append(all_results, [users |-> users, outcome |-> o]) \in Seq(Results)
        BY <4>1
      <4> QED BY <3>3, <4>2 DEF Record
    <3>4. CASE Answer(w)
      BY <3>3, <3>4 DEF Answer, Outcomes
    <3>5. CASE NetworkError(w)
      <4>1. CASE attempt[w] < MaxAttempts /\ IsActive
        BY <3>5, <4>1 DEF NetworkError, bufVars
      <4>2. CASE ~ (attempt[w] < MaxAttempts /\ IsActive)
        BY <3>3, <3>5, <4>2 DEF NetworkError, Outcomes
      <4> QED BY <4>1, <4>2
    <3>6. CASE Retry(w)
      <4>1. attempt[w] + 1 \in 0..MaxAttempts
        BY <3>6 DEF Retry
      <4>2. attempt' \in [Workers -> 0..MaxAttempts]
        BY <3>6, <4>1 DEF Retry
      <4>3. /\ worker' \in [Workers -> {"top", "request", "backoff", "report", "done"}]
            /\ BackoffIsFirstTry'
        BY <3>6 DEF Retry
      <4> QED BY <3>6, <4>2, <4>3 DEF Retry, bufVars
    <3>7. CASE CancelWorker(w)
      BY <3>7 DEF CancelWorker, bufVars
    <3> QED BY <2>7, <3>1, <3>2, <3>4, <3>5, <3>6, <3>7, <3>8 DEF Worker
  <2>8. CASE Watchdog
    BY <2>8 DEF Watchdog, WatchdogWakes, PingSucceeds, PingFails, AlertSent,
                WatchdogCancelled, WatchdogFrame, ctlVars, workVars, bufVars
  <2>9. CASE StopRun \/ RuntimeCrashes \/ RuntimeRecovers
    BY <2>9 DEF StopRun, RuntimeCrashes, RuntimeRecovers, EnvFrame, workVars,
                bufVars, healthVars
  <2>10. CASE Tick
    <3>1. Smaller(now + 1, Duration + 1) \in 0..(Duration + 1)
      BY DEF Smaller
    <3>2. (IF ctl = "tier" /\ left > 0 THEN left - 1 ELSE left) \in 0..Duration
      OBVIOUS
    <3> QED BY <2>10, <3>1, <3>2 DEF Tick, EnvFrame, workVars, bufVars, healthVars
  <2>11. CASE UNCHANGED vars
    BY <2>11 DEF vars
  <2> QED BY <2>1, <2>2, <2>3, <2>4, <2>5, <2>6, <2>7, <2>8, <2>9, <2>10, <2>11
          DEF Next, Controller, Environment
<1>3. QED BY <1>1, <1>2, PTL DEF Spec, TypeInv

-----------------------------------------------------------------------------
\* The registry entry: booked and condemned runs.  A run that has not begun
\* has no watchdog, so no verdict can be overwritten by Begin.
FlagInv ==
    /\ ActiveOnlyWhileRunning
    /\ VerdictIsFinal
    /\ ctl = "boot" => watchdog = "off" /\ healthy
    /\ watchdog \in {"off", "sleep", "ping"} => healthy

\* FlagInv holds throughout every run.
LEMMA FlagCorrect == Spec => []FlagInv
<1>1. Init => FlagInv
  BY DEF Init, FlagInv, ActiveOnlyWhileRunning, VerdictIsFinal, IsActive
<1>2. TypeInv /\ FlagInv /\ [Next]_vars => FlagInv'
  <2> SUFFICES ASSUME TypeInv, FlagInv, [Next]_vars
               PROVE  FlagInv'
    OBVIOUS
  <2> USE DEF FlagInv, ActiveOnlyWhileRunning, VerdictIsFinal, IsActive, Running
  <2>1. CASE Begin
    BY <2>1 DEF Begin
  <2>2. CASE FirstTier \/ Advance
    <3>1. BranchFrame /\ TierOrEnd /\ ctl # "boot"
      BY <2>2, BranchOutcome DEF TypeInv
    <3> QED BY <3>1 DEF BranchFrame, healthVars, TierOrEnd, StartTier, Finally
  <2>3. CASE EndTier \/ Gathered \/ Persist \/ Return
    BY <2>3 DEF EndTier, Gathered, Persist, Return, healthVars
  <2>4. CASE PersistFails
    BY <2>4 DEF PersistFails, Finally, healthVars
  <2>5. ASSUME NEW w \in Workers, Worker(w)
        PROVE  FlagInv'
    <3>1. UNCHANGED <<ctl, active, watchdog, healthy, abort_reason>>
      BY <2>5 DEF Worker, Send, Quit, Answer, NetworkError, Retry, Rest,
                  CancelWorker, WorkerFrame, ctlVars, healthVars
    <3> QED BY <3>1
  <2>6. CASE Watchdog
    BY <2>6 DEF Watchdog, WatchdogWakes, PingSucceeds, PingFails, AlertSent,
                WatchdogCancelled, WatchdogFrame, ctlVars
  <2>7. CASE Environment
    BY <2>7 DEF Environment, StopRun, RuntimeCrashes, RuntimeRecovers, Tick,
                EnvFrame, healthVars
  <2>8. CASE UNCHANGED vars
    BY <2>8 DEF vars
  <2> QED BY <2>1, <2>2, <2>3, <2>4, <2>5, <2>6, <2>7, <2>8 DEF Next, Controller
<1>3. Spec => []TypeInv
  BY TypeCorrect, PTL DEF TypeInv
<1>4. QED BY <1>1, <1>2, <1>3, PTL DEF Spec

\* The entry of _ACTIVE_RUNS is TRUE only while the engine runs, and never
\* again once the watchdog has condemned the runtime.
THEOREM FlagIsSafe == Spec => [](ActiveOnlyWhileRunning /\ VerdictIsFinal)
<1>1. FlagInv => ActiveOnlyWhileRunning /\ VerdictIsFinal
  BY DEF FlagInv
<1>2. QED BY <1>1, FlagCorrect, PTL

-----------------------------------------------------------------------------
\* Where the tasks of a tier may be: the inductive core of LoadIsBounded.
TierInv ==
    \A w \in Workers :
        worker[w] # "done" => w <= users /\ ctl \in {"tier", "gather"}

\* A tier of n tasks has n members.
LEMMA IntervalCardinality ==
    ASSUME NEW n \in Nat
    PROVE  IsFiniteSet(1..n) /\ Cardinality(1..n) = n
<1>1. 1 \in Int /\ n \in Int
  OBVIOUS
<1>2. IsFiniteSet(1..n)
  BY <1>1, FS_Interval
<1>3. Cardinality(1..n) = IF 1 > n THEN 0 ELSE n - 1 + 1
  BY <1>1, FS_Interval, Zenon
<1> QED BY <1>2, <1>3

\* The in-flight requests are a finite set no larger than the tier.
LEMMA HoldersBounded ==
    ASSUME TypeInv, TierInv
    PROVE  /\ Live \subseteq 1..users
           /\ IsFiniteSet(Holders)
           /\ Cardinality(Holders) \in Nat
           /\ Cardinality(Holders) <= users
<1> USE EngineAssumption DEF TypeInv, TypeOK, TierInv
<1>1. Live \subseteq 1..users
  BY DEF Live, Workers
<1>2. Holders \subseteq 1..users
  BY <1>1 DEF Live, Holders
<1>3. IsFiniteSet(1..users) /\ Cardinality(1..users) = users
  BY IntervalCardinality
<1>4. IsFiniteSet(Holders) /\ Cardinality(Holders) <= Cardinality(1..users)
  BY <1>2, <1>3, FS_Subset
<1>5. Cardinality(Holders) \in Nat
  BY <1>4, FS_CardinalityType
<1> QED BY <1>1, <1>3, <1>4, <1>5

\* Every step keeps the tasks inside their tier.
LEMMA TierStep ==
    ASSUME TypeInv, TierInv, [Next]_vars
    PROVE  TierInv'
<1> USE EngineAssumption DEF TypeInv, TypeOK, TierInv
<1>1. CASE Begin
  BY <1>1 DEF Begin
<1>2. CASE FirstTier \/ Advance
  <2>1. TierOrEnd /\ ctl \notin {"tier", "gather"}
    BY <1>2, BranchOutcome
  <2>2. ASSUME NEW kind \in Stages, NEW n \in 0..TargetUsers,
               NEW ticks \in 0..Duration, StartTier(kind, n, ticks)
        PROVE  TierInv'
    BY <2>2 DEF StartTier
  <2>3. CASE Finally(FALSE)
    BY <2>1, <2>3 DEF Finally
  <2> QED BY <2>1, <2>2, <2>3 DEF TierOrEnd
<1>3. CASE EndTier \/ Persist \/ Return
  BY <1>3 DEF EndTier, Persist, Return, workVars
<1>4. CASE Gathered
  BY <1>4 DEF Gathered, Live, workVars
<1>5. CASE PersistFails
  BY <1>5 DEF PersistFails, Finally
<1>6. ASSUME NEW w \in Workers, Worker(w)
      PROVE  TierInv'
  <2>1. /\ UNCHANGED <<ctl, users>>
        /\ \E pos : worker' = [worker EXCEPT ![w] = pos]
        /\ worker[w] # "done"
    BY <1>6 DEF Worker, Send, Quit, Answer, NetworkError, Record, Retry, Rest,
                CancelWorker, WorkerFrame, ctlVars
  <2> QED BY <2>1
<1>7. CASE Watchdog
  BY <1>7 DEF Watchdog, WatchdogWakes, PingSucceeds, PingFails, AlertSent,
              WatchdogCancelled, WatchdogFrame, ctlVars, workVars
<1>8. CASE Environment
  BY <1>8 DEF Environment, StopRun, RuntimeCrashes, RuntimeRecovers, Tick,
              EnvFrame, workVars
<1>9. CASE UNCHANGED vars
  BY <1>9 DEF vars
<1> QED BY <1>1, <1>2, <1>3, <1>4, <1>5, <1>6, <1>7, <1>8, <1>9
        DEF Next, Controller

\* TierInv holds throughout every run.
LEMMA TierCorrect == Spec => []TierInv
<1>1. Init => TierInv
  BY DEF Init, TierInv
<1>2. TypeInv /\ TierInv /\ [Next]_vars => TierInv'
  BY TierStep
<1>3. Spec => []TypeInv
  BY TypeCorrect, PTL DEF TypeInv
<1>4. QED BY <1>1, <1>2, <1>3, PTL DEF Spec

\* The load never exceeds the tier's size, and nothing is in flight between
\* tiers or after the run: for every pattern, number of users and schedule.
THEOREM LoadBounded == Spec => []LoadIsBounded
<1>1. TypeInv /\ TierInv => LoadIsBounded
  BY HoldersBounded DEF LoadIsBounded, TierInv, Live
<1>2. Spec => []TypeInv
  BY TypeCorrect, PTL DEF TypeInv
<1>3. QED BY <1>1, <1>2, TierCorrect, PTL

-----------------------------------------------------------------------------
\* Recording a result commutes with putting the tier's results behind the
\* rows that are already written.
LEMMA ConcatAppend ==
    \A s, t \in Seq(Results) : \A e \in Results :
        Append(s \o t, e) = s \o Append(t, e)
<1> TAKE s, t \in Seq(Results)
<1> TAKE e \in Results
<1>1. <<e>> \in Seq(Results)
  OBVIOUS
<1>2. s \o t \in Seq(Results)
  BY ConcatProperties
<1>3. Append(t, e) = t \o <<e>>
  BY AppendIsConcat
<1>4. Append(s \o t, e) = (s \o t) \o <<e>>
  BY <1>2, AppendIsConcat
<1>5. (s \o t) \o <<e>> = s \o (t \o <<e>>)
  BY <1>1, ConcatAssociative
<1> QED BY <1>3, <1>4, <1>5

\* The database and the aggregates agree on the run's results, whatever tier
\* was cancelled, stopped or failed to be written.
THEOREM RowsCorrect == Spec => []RowsMatchResults
<1>1. Init => RowsMatchResults
  BY DEF Init, RowsMatchResults, Over
<1>2. TypeInv /\ TierInv /\ RowsMatchResults /\ [Next]_vars => RowsMatchResults'
  <2> SUFFICES ASSUME TypeInv, TierInv, RowsMatchResults, [Next]_vars
               PROVE  RowsMatchResults'
    OBVIOUS
  <2> USE DEF TypeInv, TypeOK, RowsMatchResults, Over
  <2>1. CASE Begin
    BY <2>1 DEF Begin
  <2>2. CASE FirstTier \/ Advance
    <3>1. BranchFrame /\ TierOrEnd /\ ctl \in {"hello", "advance"}
      BY <2>2, BranchOutcome
    <3>2. persisted' = all_results'
      BY <3>1 DEF BranchFrame
    <3>3. ASSUME NEW kind \in Stages, NEW n \in 0..TargetUsers,
                 NEW ticks \in 0..Duration, StartTier(kind, n, ticks)
          PROVE  RowsMatchResults'
      <4>1. persisted \o <<>> = persisted
        BY ConcatEmptySeq
      <4> QED BY <3>1, <3>2, <3>3, <4>1 DEF StartTier, BranchFrame
    <3>4. CASE Finally(FALSE)
      BY <3>2, <3>4 DEF Finally
    <3> QED BY <3>1, <3>3, <3>4 DEF TierOrEnd
  <2>3. CASE EndTier \/ Gathered
    BY <2>3 DEF EndTier, Gathered, bufVars
  <2>4. CASE Persist
    BY <2>4 DEF Persist, bufVars
  <2>5. CASE PersistFails
    BY <2>5 DEF PersistFails, Finally
  <2>6. CASE Return
    BY <2>6 DEF Return, bufVars
  <2>7. ASSUME NEW w \in Workers, Worker(w)
        PROVE  RowsMatchResults'
    <3>1. /\ UNCHANGED <<ctl, persisted, failing, report>>
          /\ ctl \in {"tier", "gather"}
      BY <2>7 DEF Worker, Send, Quit, Answer, NetworkError, Record, Retry,
                  Rest, CancelWorker, WorkerFrame, ctlVars
    <3>2. CASE UNCHANGED bufVars
      BY <3>1, <3>2 DEF bufVars
    <3>3. ASSUME NEW o \in Outcomes, Record(w, o)
          PROVE  RowsMatchResults'
      <4> DEFINE r == [users |-> users, outcome |-> o]
      <4>1. r \in Results
        BY DEF Results
      <4>2. Append(persisted \o tier_buffer, r)
              = persisted \o Append(tier_buffer, r)
        <5>1. persisted \in Seq(Results) /\ tier_buffer \in Seq(Results)
          OBVIOUS
        <5> HIDE DEF r, TypeInv, TypeOK, RowsMatchResults, Over
        <5> QED BY <4>1, <5>1, ConcatAppend
      <4>3. all_results' = persisted' \o tier_buffer'
        BY <3>1, <3>3, <4>2 DEF Record
      <4> QED BY <3>1, <4>3
    <3> QED BY <2>7, <3>2, <3>3
            DEF Worker, Send, Quit, Answer, NetworkError, Retry, Rest,
                CancelWorker, Outcomes
  <2>8. CASE Watchdog \/ Environment
    <3>1. UNCHANGED <<ctl, failing, report, tier_buffer, all_results, persisted>>
      BY <2>8 DEF Watchdog, WatchdogWakes, PingSucceeds, PingFails, AlertSent,
                  WatchdogCancelled, WatchdogFrame, ctlVars, Environment,
                  StopRun, RuntimeCrashes, RuntimeRecovers, Tick, EnvFrame,
                  bufVars
    <3> QED BY <3>1
  <2>9. CASE UNCHANGED vars
    BY <2>9 DEF vars
  <2> QED BY <2>1, <2>2, <2>3, <2>4, <2>5, <2>6, <2>7, <2>8, <2>9
          DEF Next, Controller
<1>3. Spec => []TypeInv
  BY TypeCorrect, PTL DEF TypeInv
<1>4. QED BY <1>1, <1>2, <1>3, TierCorrect, PTL DEF Spec

-----------------------------------------------------------------------------
\* Every request that was sent is recorded, in flight, or was cut off by the
\* cancellation of its tier.
THEOREM RequestsConserved == Spec => []RequestsAccounted
<1>1. Init => RequestsAccounted
  <2> SUFFICES ASSUME Init PROVE RequestsAccounted
    OBVIOUS
  <2>1. Holders = {}
    BY DEF Init, Holders
  <2>2. Cardinality(Holders) = 0
    BY <2>1, FS_EmptySet
  <2> QED BY <2>2 DEF Init, RequestsAccounted
<1>2. TypeInv /\ TierInv /\ RequestsAccounted /\ [Next]_vars => RequestsAccounted'
  <2> SUFFICES ASSUME TypeInv, TierInv, RequestsAccounted, [Next]_vars
               PROVE  RequestsAccounted'
    OBVIOUS
  <2>0. IsFiniteSet(Holders) /\ Cardinality(Holders) \in Nat
    BY HoldersBounded
  <2> USE DEF TypeInv, TypeOK
  <2>1. ASSUME UNCHANGED <<worker, all_results, issued, dropped>>
        PROVE  RequestsAccounted'
    BY <2>1 DEF RequestsAccounted, Holders
  <2>2. ASSUME NEW w \in Workers, Holders' = Holders \cup {w}, w \notin Holders,
               issued' = issued + 1, UNCHANGED <<all_results, dropped>>
        PROVE  RequestsAccounted'
    <3>1. Cardinality(Holders') = Cardinality(Holders) + 1
      BY <2>0, <2>2, FS_AddElement
    <3>2. Len(all_results) \in Nat
      BY LenProperties
    <3>3. issued \in Nat /\ dropped \in Nat
      OBVIOUS
    <3>4. issued = Len(all_results) + Cardinality(Holders) + dropped
      BY DEF RequestsAccounted
    <3>5. issued' = Len(all_results') + Cardinality(Holders') + dropped'
      BY ONLY <2>0, <2>2, <3>1, <3>2, <3>3, <3>4
    <3> QED BY ONLY <3>5 DEF RequestsAccounted
  <2>3. ASSUME NEW w \in Workers, Holders' = Holders \ {w}, w \in Holders,
               UNCHANGED issued,
               \/ Len(all_results') = Len(all_results) + 1 /\ dropped' = dropped
               \/ all_results' = all_results /\ dropped' = dropped + 1
        PROVE  RequestsAccounted'
    <3>1. Cardinality(Holders') = Cardinality(Holders) - 1
      BY <2>0, <2>3, FS_RemoveElement
    <3>2. Len(all_results) \in Nat
      BY LenProperties
    <3>3. issued \in Nat /\ dropped \in Nat
      OBVIOUS
    <3>4. issued = Len(all_results) + Cardinality(Holders) + dropped
      BY DEF RequestsAccounted
    <3>5. issued' = Len(all_results') + Cardinality(Holders') + dropped'
      BY ONLY <2>0, <2>3, <3>1, <3>2, <3>3, <3>4
    <3> QED BY ONLY <3>5 DEF RequestsAccounted
  <2>4. ASSUME Holders' = Holders, UNCHANGED <<all_results, issued, dropped>>
        PROVE  RequestsAccounted'
    BY <2>4 DEF RequestsAccounted
  <2>5. CASE Begin
    BY <2>1, <2>5 DEF Begin
  <2>6. CASE FirstTier \/ Advance
    <3>1. BranchFrame /\ TierOrEnd /\ ctl \in {"hello", "advance"}
      BY <2>6, BranchOutcome
    <3>2. Holders = {}
      BY <3>1 DEF TierInv, Holders
    <3>3. Holders' = {}
      BY <3>1, <3>2 DEF TierOrEnd, StartTier, Finally, Holders
    <3> QED BY <2>4, <3>1, <3>2, <3>3 DEF BranchFrame
  <2>7. CASE EndTier \/ Gathered \/ Persist \/ Return
    BY <2>1, <2>7 DEF EndTier, Gathered, Persist, Return, workVars, bufVars
  <2>8. CASE PersistFails
    BY <2>1, <2>8 DEF PersistFails, Finally
  <2>9. ASSUME NEW w \in Workers, Worker(w)
        PROVE  RequestsAccounted'
    <3>1. CASE Send(w)
      <4>1. Holders' = Holders \cup {w} /\ w \notin Holders
        BY <3>1 DEF Send, Holders
      <4> QED BY <2>2, <3>1, <4>1 DEF Send, bufVars
    <3>2. CASE Quit(w) \/ Rest(w)
      <4>1. Holders' = Holders
        BY <3>2 DEF Quit, Rest, Holders
      <4> QED BY <2>4, <3>2, <4>1 DEF Quit, Rest, bufVars
    <3>3. CASE Retry(w)
      <4>1. Holders' = Holders
        BY <3>3 DEF Retry, Holders
      <4> QED BY <2>4, <3>3, <4>1 DEF Retry, bufVars
    <3>4. ASSUME NEW o \in Outcomes, worker[w] = "request", Record(w, o)
          PROVE  RequestsAccounted'
      <4>1. Holders' = Holders \ {w} /\ w \in Holders
        BY <3>4 DEF Record, Holders
      <4>2. [users |-> users, outcome |-> o] \in Results
        BY DEF Results
      <4>3. Len(all_results') = Len(all_results) + 1
        BY <3>4, <4>2 DEF Record
      <4> QED BY <2>3, <3>4, <4>1, <4>3 DEF Record
    <3>5. CASE Answer(w)
      BY <3>4, <3>5 DEF Answer, Outcomes
    <3>6. CASE NetworkError(w)
      <4>1. CASE attempt[w] < MaxAttempts /\ IsActive
        <5>1. Holders' = Holders
          BY <3>6, <4>1 DEF NetworkError, Holders
        <5> QED BY <2>4, <3>6, <4>1, <5>1 DEF NetworkError, bufVars
      <4>2. CASE ~ (attempt[w] < MaxAttempts /\ IsActive)
        BY <3>4, <3>6, <4>2 DEF NetworkError, Outcomes
      <4> QED BY <4>1, <4>2
    <3>7. CASE CancelWorker(w)
      <4>1. CASE w \in Holders
        <5>1. Holders' = Holders \ {w}
          BY <3>7 DEF CancelWorker, Holders
        <5> QED BY <2>3, <3>7, <4>1, <5>1 DEF CancelWorker, bufVars
      <4>2. CASE w \notin Holders
        <5>1. Holders' = Holders
          BY <3>7, <4>2 DEF CancelWorker, Holders
        <5> QED BY <2>4, <3>7, <4>2, <5>1 DEF CancelWorker, bufVars
      <4> QED BY <4>1, <4>2
    <3> QED BY <2>9, <3>1, <3>2, <3>3, <3>5, <3>6, <3>7 DEF Worker
  <2>10. CASE Watchdog
    BY <2>1, <2>10 DEF Watchdog, WatchdogWakes, PingSucceeds, PingFails,
                AlertSent, WatchdogCancelled, WatchdogFrame, workVars, bufVars
  <2>11. CASE Environment
    BY <2>1, <2>11 DEF Environment, StopRun, RuntimeCrashes, RuntimeRecovers,
                Tick, EnvFrame, workVars, bufVars
  <2>12. CASE UNCHANGED vars
    BY <2>1, <2>12 DEF vars
  <2> QED BY <2>5, <2>6, <2>7, <2>8, <2>9, <2>10, <2>11, <2>12
          DEF Next, Controller
<1>3. Spec => []TypeInv
  BY TypeCorrect, PTL DEF TypeInv
<1>4. QED BY <1>1, <1>2, <1>3, TierCorrect, PTL DEF Spec

-----------------------------------------------------------------------------
\* A run never commits more rows than it sent requests.
LEMMA RowsWithinBudget ==
    ASSUME TypeInv, TierInv, RowsMatchResults, RequestsAccounted
    PROVE  /\ Len(persisted) \in 0..RequestBudget
           /\ Len(persisted) <= Len(persisted \o tier_buffer)
           /\ ctl = "persist" => Len(persisted \o tier_buffer) \in 0..RequestBudget
<1> USE EngineAssumption DEF TypeInv, TypeOK
<1>1. Cardinality(Holders) \in Nat
  BY HoldersBounded
<1>2. /\ Len(persisted) \in Nat
      /\ Len(tier_buffer) \in Nat
      /\ Len(all_results) \in Nat
  BY LenProperties
<1>3. Len(persisted \o tier_buffer) = Len(persisted) + Len(tier_buffer)
  BY ConcatProperties
<1>4. Len(all_results) <= RequestBudget
  BY <1>1, <1>2 DEF RequestsAccounted
<1> QED
  <2>1. \/ persisted = all_results
        \/ all_results = persisted \o tier_buffer
    BY DEF RowsMatchResults, Running, Over
  <2>2. ctl = "persist" => all_results = persisted \o tier_buffer
    BY DEF RowsMatchResults
  <2> QED BY <2>1, <2>2, <1>2, <1>3, <1>4

\* Everything the refinement needs to know of a reachable state.
RefinementInv == TypeInv /\ TierInv /\ FlagInv /\ RowsMatchResults /\ RequestsAccounted

\* The engine implements EngineContract: to its callers, a run is Start, some
\* CommitRows, perhaps a StopRun or a Condemn, Close and Leave, in that order.
THEOREM EngineImplementsContract == Spec => ImplementsContract
<1>1. Init => Contract!ContractInit
  BY DEF Init, Contract!ContractInit, PhaseOf, Running
<1>2. ASSUME RefinementInv, [Next]_vars
      PROVE  [Contract!ContractNext]_(Contract!contractVars)
  <2> USE <1>2 DEF RefinementInv, FlagInv, Running, PhaseOf,
                   Contract!ContractNext, Contract!contractVars
  <2>1. CASE Begin
    BY <2>1 DEF Begin, Contract!Start
  <2>2. CASE FirstTier \/ Advance
    <3>1. BranchFrame /\ TierOrEnd /\ ctl \in {"hello", "advance"}
      BY <2>2, BranchOutcome DEF TypeInv
    <3> QED BY <3>1 DEF BranchFrame, TierOrEnd, StartTier, Finally, healthVars,
                        Contract!Close
  <2>3. CASE EndTier \/ Gathered
    BY <2>3 DEF EndTier, Gathered, healthVars
  <2>4. CASE Persist
    <3>1. /\ Len(persisted) \in 0..RequestBudget
          /\ Len(persisted) <= Len(persisted \o tier_buffer)
          /\ Len(persisted \o tier_buffer) \in 0..RequestBudget
      BY <2>4, RowsWithinBudget DEF Persist
    <3>2. Len(persisted)' \in Len(persisted)..RequestBudget
      BY <2>4, <3>1 DEF Persist
    <3>3. /\ ctl = "persist" /\ ctl' = "advance"
          /\ UNCHANGED <<active, healthy>>
      BY <2>4 DEF Persist, healthVars
    <3> QED BY <3>2, <3>3 DEF Contract!CommitRows
  <2>5. CASE PersistFails
    BY <2>5 DEF PersistFails, Finally, healthVars, Contract!Close
  <2>6. CASE Return
    BY <2>6 DEF Return, healthVars, Contract!Leave
  <2>7. ASSUME NEW w \in Workers, Worker(w)
        PROVE  UNCHANGED Contract!contractVars
    <3>1. UNCHANGED <<ctl, active, persisted, healthy>>
      BY <2>7 DEF Worker, Send, Quit, Answer, NetworkError, Retry, Rest,
                  CancelWorker, WorkerFrame, ctlVars, healthVars
    <3> QED BY <3>1
  <2>8. CASE PingFails
    <3>1. ctl # "boot" /\ healthy
      BY <2>8 DEF PingFails
    <3>2. /\ healthy' = FALSE /\ active' = "off"
          /\ UNCHANGED <<ctl, persisted>>
      BY <2>8 DEF PingFails, WatchdogFrame, ctlVars
    <3> QED BY <3>1, <3>2 DEF Contract!Condemn
  <2>9. CASE WatchdogWakes \/ PingSucceeds \/ AlertSent \/ WatchdogCancelled
    BY <2>9 DEF WatchdogWakes, PingSucceeds, AlertSent, WatchdogCancelled,
                WatchdogFrame, ctlVars
  <2>10. CASE StopRun
    BY <2>10 DEF StopRun, EnvFrame, healthVars, Contract!StopRun
  <2>11. CASE RuntimeCrashes \/ RuntimeRecovers \/ Tick
    BY <2>11 DEF RuntimeCrashes, RuntimeRecovers, Tick, EnvFrame, healthVars
  <2>12. CASE UNCHANGED vars
    BY <2>12 DEF vars
  <2> QED BY <2>1, <2>2, <2>3, <2>4, <2>5, <2>6, <2>7, <2>8, <2>9, <2>10,
             <2>11, <2>12 DEF Next, Controller, Watchdog, Environment
<1>3. Spec => []RefinementInv
  <2>1. Spec => []TypeInv
    BY TypeCorrect, PTL DEF TypeInv
  <2> QED BY <2>1, TierCorrect, FlagCorrect, RowsCorrect, RequestsConserved, PTL
          DEF RefinementInv
<1>4. QED BY <1>1, <1>2, <1>3, PTL
          DEF Spec, ImplementsContract, Contract!ContractSpec
-----------------------------------------------------------------------------
\* A task that sends is on its first try at least, and one that pauses on the
\* first exactly: the retry it is about to make is its last.
TriesInv ==
    /\ \A w \in Workers : worker[w] \in {"request", "backoff"} => attempt[w] >= 1
    /\ DeadlineWithinBudget

\* TriesInv is an invariant: every way of starting a tier keeps its deadline,
\* and every tick takes from the tier what it adds to the clock.
LEMMA TriesCorrect == Spec => []TriesInv
<1>1. Init => TriesInv
  BY DEF Init, TriesInv, DeadlineWithinBudget
<1>2. TypeInv /\ TriesInv /\ [Next]_vars => TriesInv'
  <2> SUFFICES ASSUME TypeInv, TriesInv, [Next]_vars
               PROVE  TriesInv'
    OBVIOUS
  <2> USE EngineAssumption
          DEF TypeInv, TypeOK, BackoffIsFirstTry, TriesInv, DeadlineWithinBudget
  <2>1. ASSUME NEW kind, NEW n, NEW ticks, StartTier(kind, n, ticks), now' = now,
               kind \in {"rampup", "stress", "hold"} => now + ticks <= Duration
        PROVE  TriesInv'
    <3>1. /\ stage' = kind /\ left' = ticks
          /\ \A w \in Workers : worker'[w] \in {"top", "done"}
      BY <2>1 DEF StartTier
    <3> QED BY <2>1, <3>1
  <2>2. CASE Finally(FALSE)
    BY <2>2 DEF Finally
  <2>3. ASSUME now' = now, Hold
        PROVE  TriesInv'
    <3>1. CASE now < Duration /\ IsActive
      <4>1. StartTier("hold", TargetUsers, Duration - now)
        BY <2>3, <3>1 DEF Hold
      <4>2. now + (Duration - now) <= Duration
        OBVIOUS
      <4> QED BY <2>1, <2>3, <4>1, <4>2
    <3>2. CASE ~ (now < Duration /\ IsActive)
      BY <2>2, <2>3, <3>2 DEF Hold
    <3> QED BY <3>1, <3>2
  <2>4. ASSUME NEW u, now' = now, RampUp(u) \/ Stress(u)
        PROVE  TriesInv'
    <3>1. CASE now <= Duration
      <4>1. now + Smaller(StepSeconds, Duration - now) <= Duration
        BY <3>1 DEF Smaller
      <4> QED BY <2>1, <2>2, <2>3, <2>4, <4>1 DEF RampUp, Stress
    <3>2. CASE ~ (now <= Duration)
      BY <2>2, <2>3, <2>4, <3>2 DEF RampUp, Stress
    <3> QED BY <3>1, <3>2
  <2>5. CASE FirstTier
    BY <2>1, <2>4, <2>5 DEF FirstTier
  <2>6. CASE Advance
    BY <2>1, <2>2, <2>4, <2>6 DEF Advance, Spike
  <2>7. CASE Begin \/ EndTier \/ Gathered \/ Persist \/ PersistFails \/ Return
    BY <2>7 DEF Begin, EndTier, Gathered, Persist, PersistFails, Finally,
                Return, workVars
  <2>8. ASSUME NEW w \in Workers, Worker(w)
        PROVE  TriesInv'
    <3>1. UNCHANGED <<ctl, stage, left, now>>
      BY <2>8 DEF Worker, Send, Quit, Answer, NetworkError, Retry, Rest,
                  CancelWorker, WorkerFrame, ctlVars
    <3>2. CASE Send(w)
      BY <3>1, <3>2 DEF Send
    <3>3. CASE Retry(w)
      BY <3>1, <3>3 DEF Retry
    <3>4. CASE Quit(w) \/ Answer(w) \/ NetworkError(w) \/ Rest(w) \/ CancelWorker(w)
      BY <3>1, <3>4 DEF Quit, Answer, NetworkError, Record, Rest, CancelWorker
    <3> QED BY <2>8, <3>2, <3>3, <3>4 DEF Worker
  <2>9. CASE Watchdog
    BY <2>9 DEF Watchdog, WatchdogWakes, PingSucceeds, PingFails, AlertSent,
                WatchdogCancelled, WatchdogFrame, ctlVars, workVars
  <2>10. CASE StopRun \/ RuntimeCrashes \/ RuntimeRecovers
    BY <2>10 DEF StopRun, RuntimeCrashes, RuntimeRecovers, EnvFrame, workVars
  <2>11. CASE Tick
    <3>1. UNCHANGED <<ctl, stage, worker, attempt>>
      BY <2>11 DEF Tick, EnvFrame, workVars
    <3>2. ASSUME ctl = "tier", left' > 0, stage \in {"rampup", "stress", "hold"}
          PROVE  now' + left' <= Duration
      <4>1. /\ left > 0 /\ left' = left - 1
            /\ now' <= now + 1 /\ now' \in Nat
        BY <2>11, <3>2 DEF Tick, Smaller
      <4>2. now + left <= Duration
        BY <3>2, <4>1
      <4>3. now \in Nat /\ left \in Nat /\ Duration \in Nat
        OBVIOUS
      <4>4. ASSUME NEW t \in Nat, NEW l \in Nat, NEW u \in Nat, NEW d \in Nat,
                   t + l <= d, u <= t + 1
            PROVE  u + (l - 1) <= d
        BY ONLY <4>4
      <4>5. now' + (left - 1) <= Duration
        BY <4>1, <4>2, <4>3, <4>4
      <4> QED BY <4>1, <4>5
    <3>3. DeadlineWithinBudget'
      BY <3>1, <3>2
    <3> QED BY <3>1, <3>3
  <2>12. CASE UNCHANGED vars
    BY <2>12 DEF vars
  <2> QED BY <2>5, <2>6, <2>7, <2>8, <2>9, <2>10, <2>11, <2>12
          DEF Next, Controller, Environment
<1>3. Spec => []TypeInv
  BY TypeCorrect, PTL DEF TypeInv
<1>4. QED BY <1>1, <1>2, <1>3, PTL DEF Spec

\* A tier of a ramp or of a stress test, and the hold after a ramp, end within
\* the duration of the run, however late the tiers before them were.
THEOREM DeadlineKept == Spec => []DeadlineWithinBudget
<1>1. TriesInv => DeadlineWithinBudget
  BY DEF TriesInv
<1>2. QED BY <1>1, TriesCorrect, PTL

\* Once the flag is down, only a retry whose pause had begun is still sent, and
\* it is the last one of its request.
THEOREM StopIsPrompt == Spec => StopAdmitsOnlyPendingRetries
<1> DEFINE Admitted ==
      \A w \in Workers :
         (~IsActive /\ worker[w] # "request" /\ worker'[w] = "request")
            => (worker[w] = "backoff" /\ attempt'[w] = MaxAttempts)
<1>1. TypeInv /\ TriesInv /\ [Next]_vars => [Admitted]_vars
  <2> SUFFICES ASSUME TypeInv, TriesInv, Next PROVE Admitted
    OBVIOUS
  <2> USE DEF TypeInv, TypeOK
  <2>1. ASSUME NEW w \in Workers, Worker(w)
        PROVE  Admitted
    <3>1. CASE Send(w)
      BY <3>1 DEF Send
    <3>2. CASE Retry(w)
      <4>1. attempt[w] + 1 = MaxAttempts
        <5>1. attempt[w] < MaxAttempts /\ attempt[w] >= 1
          BY <3>2 DEF Retry, TriesInv, BackoffIsFirstTry
        <5>2. attempt[w] \in 0..MaxAttempts
          OBVIOUS
        <5> QED BY ONLY <5>1, <5>2 DEF MaxAttempts
      <4>2. worker[w] = "backoff" /\ attempt'[w] = MaxAttempts
        BY <3>2, <4>1 DEF Retry
      <4>3. \A v \in Workers : v # w => worker'[v] = worker[v]
        BY <3>2 DEF Retry
      <4>4. ASSUME NEW v \in Workers, worker[v] # "request", worker'[v] = "request"
            PROVE  worker[v] = "backoff" /\ attempt'[v] = MaxAttempts
        BY <4>2, <4>3, <4>4
      <4> QED BY <4>4
    <3>3. CASE Quit(w) \/ Answer(w) \/ NetworkError(w) \/ Rest(w) \/ CancelWorker(w)
      BY <3>3 DEF Quit, Answer, NetworkError, Record, Rest, CancelWorker
    <3> QED BY <2>1, <3>1, <3>2, <3>3 DEF Worker
  <2>2. CASE FirstTier \/ Advance
    <3>1. TierOrEnd
      BY <2>2, BranchOutcome
    <3> QED BY <3>1 DEF TierOrEnd, StartTier, Finally
  <2>3. CASE Begin \/ EndTier \/ Gathered \/ Persist \/ PersistFails \/ Return
    BY <2>3 DEF Begin, EndTier, Gathered, Persist, PersistFails, Finally,
                Return, workVars
  <2>4. CASE Watchdog \/ Environment
    BY <2>4 DEF Watchdog, WatchdogWakes, PingSucceeds, PingFails, AlertSent,
                WatchdogCancelled, WatchdogFrame, Environment, StopRun,
                RuntimeCrashes, RuntimeRecovers, Tick, EnvFrame, workVars
  <2> QED BY <2>1, <2>2, <2>3, <2>4 DEF Next, Controller
<1>2. Spec => []TypeInv
  BY TypeCorrect, PTL DEF TypeInv
<1>3. QED BY <1>1, <1>2, TriesCorrect, PTL
          DEF Spec, StopAdmitsOnlyPendingRetries

\* A new tier is never smaller than the last, never comes after a stop, and
\* a stress test is not pushed beyond its failures or the limit of the server.
THEOREM EscalationIsSafe == Spec => LoadEscalatesSafely
<1> DEFINE Escalates ==
      (ctl = "advance" /\ ctl' = "tier")
         => /\ users <= users'
            /\ IsActive
            /\ stage = "stress" => /\ ~TooManyFailures(tier_buffer)
                                    /\ users' <= MaxConcurrentUsers
<1>1. TypeInv /\ [Next]_vars => [Escalates]_vars
  <2> SUFFICES ASSUME TypeInv, Next, ctl = "advance", ctl' = "tier"
               PROVE  /\ users <= users'
                      /\ IsActive
                      /\ stage = "stress" => /\ ~TooManyFailures(tier_buffer)
                                              /\ users' <= MaxConcurrentUsers
    OBVIOUS
  <2> USE EngineAssumption DEF TypeInv, TypeOK
  <2>1. Advance
    BY DEF Next, Controller, Begin, FirstTier, EndTier, Gathered, Persist,
           PersistFails, Return, Worker, Send, Quit, Answer, NetworkError,
           Retry, Rest, CancelWorker, WorkerFrame, ctlVars, Watchdog,
           WatchdogWakes, PingSucceeds, PingFails, AlertSent,
           WatchdogCancelled, WatchdogFrame, Environment, StopRun,
           RuntimeCrashes, RuntimeRecovers, Tick, EnvFrame
  <2>2. ~Finally(FALSE)
    BY DEF Finally
  <2>3. CASE stage = "rampup" /\ RampUp(users + StepUsers)
    <3>1. IsActive /\ users' \in {users + StepUsers, TargetUsers}
      BY <2>2, <2>3 DEF RampUp, Hold, StartTier
    <3> QED BY <2>3, <3>1
  <2>4. CASE stage = "spike" /\ Spike
    <3>1. IsActive /\ users' = TargetUsers
      BY <2>2, <2>4 DEF Spike, StartTier
    <3> QED BY <2>4, <3>1
  <2>5. CASE /\ stage = "stress"
             /\ ~TooManyFailures(tier_buffer)
             /\ Stress(users + StepUsers)
    <3>1. /\ IsActive /\ users' = users + StepUsers
          /\ users + StepUsers <= Smaller(TargetUsers, MaxConcurrentUsers)
      BY <2>2, <2>5 DEF Stress, StartTier
    <3>2. users + StepUsers <= MaxConcurrentUsers
      BY <3>1 DEF Smaller
    <3> QED BY <2>5, <3>1, <3>2
  <2> QED BY <2>1, <2>2, <2>3, <2>4, <2>5 DEF Advance
<1>2. Spec => []TypeInv
  BY TypeCorrect, PTL DEF TypeInv
<1>3. QED BY <1>1, <1>2, PTL DEF Spec, LoadEscalatesSafely
=============================================================================
