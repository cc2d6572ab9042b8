----------------------- MODULE EngineTelemetry_proofs -----------------------
(***************************************************************************)
(* The safety of EngineTelemetry for any runtimes, runs and buffer size.   *)
(***************************************************************************)
EXTENDS EngineTelemetry, SequenceTheorems, TLAPS

\* A full buffer keeps its length, and every entry after an addition is the
\* new one or one that was there before.
LEMMA RememberKeeps ==
  ASSUME NEW S, NEW buffer \in Seq(S), NEW sample \in S, Len(buffer) <= MaxSamples
  PROVE  /\ Remember(buffer, sample) \in Seq(S)
         /\ Len(Remember(buffer, sample)) <= MaxSamples
         /\ \A i \in DOMAIN Remember(buffer, sample) :
               \/ Remember(buffer, sample)[i] = sample
               \/ \E j \in DOMAIN buffer : Remember(buffer, sample)[i] = buffer[j]
<1> USE TelemetryAssumption
<1>1. CASE Len(buffer) < MaxSamples
  <2>1. Remember(buffer, sample) = Append(buffer, sample)
    BY <1>1 DEF Remember
  <2>2. /\ Append(buffer, sample) \in Seq(S)
        /\ Len(Append(buffer, sample)) = Len(buffer) + 1
        /\ \A i \in 1..Len(buffer) : Append(buffer, sample)[i] = buffer[i]
        /\ Append(buffer, sample)[Len(buffer) + 1] = sample
    OBVIOUS
  <2> QED BY <1>1, <2>1, <2>2
<1>2. CASE ~ (Len(buffer) < MaxSamples)
  <2> DEFINE rest == Tail(buffer)
  <2>1. Remember(buffer, sample) = Append(rest, sample)
    BY <1>2 DEF Remember
  <2>2. buffer # <<>> /\ Len(buffer) = MaxSamples
    BY <1>2
  <2>3. /\ rest \in Seq(S)
        /\ Len(rest) = Len(buffer) - 1
        /\ \A i \in 1..Len(rest) : rest[i] = buffer[i + 1]
    BY <2>2
  <2> HIDE DEF rest
  <2>4. /\ Append(rest, sample) \in Seq(S)
        /\ Len(Append(rest, sample)) = Len(rest) + 1
        /\ \A i \in 1..Len(rest) : Append(rest, sample)[i] = rest[i]
        /\ Append(rest, sample)[Len(rest) + 1] = sample
    BY <2>3
  <2>5. ASSUME NEW i \in DOMAIN Append(rest, sample)
        PROVE  \/ Append(rest, sample)[i] = sample
               \/ \E j \in DOMAIN buffer : Append(rest, sample)[i] = buffer[j]
    <3>1. CASE i = Len(rest) + 1
      BY <2>4, <3>1
    <3>2. CASE i # Len(rest) + 1
      <4>1. i \in 1..Len(rest) /\ i + 1 \in DOMAIN buffer
        BY <2>2, <2>3, <2>4, <3>2
      <4> QED BY <2>3, <2>4, <4>1
    <3> QED BY <3>1, <3>2
  <2> QED BY <2>1, <2>2, <2>3, <2>4, <2>5
<1> QED BY <1>1, <1>2

\* What each of the two parts of the module relies on: polls are only under
\* way for loaded runtimes, and an unshared run is the registered one.
PollInv ==
    /\ polls \subseteq runtimes
    /\ poller # "polling" => polls = {}

RunInv ==
    \A r \in Runtimes : \A k \in running[r] \ shared :
        running[r] = {k} /\ active_run[r] = k

\* What a sample may say, whatever the registrations do afterwards.
SampleInv(s) ==
    /\ s.run_id # None => s.run_id \in s.during
    /\ \A k \in Runs \ shared : k \in s.during => s.run_id = k

TagInv == \A r \in Runtimes : active_run[r] # None => active_run[r] \in running[r]

HistoryInv == \A r \in Runtimes : \A i \in DOMAIN history[r] : SampleInv(history[r][i])

\* Every variable keeps its type, and every ring buffer its bound.
THEOREM TypeCorrect == Spec => []TypeOK
<1>1. Init => TypeOK
  <2> SUFFICES ASSUME Init PROVE TypeOK
    OBVIOUS
  <2>1. <<>> \in Seq(Samples) /\ Len(<<>>) = 0
    OBVIOUS
  <2>2. /\ history \in [Runtimes -> Seq(Samples)]
        /\ \A r \in Runtimes : Len(history[r]) <= MaxSamples
    BY <2>1, TelemetryAssumption DEF Init
  <2> QED BY <2>2 DEF Init, TypeOK
<1>2. TypeOK /\ [Next]_vars => TypeOK'
  <2> SUFFICES ASSUME TypeOK, [Next]_vars
               PROVE  TypeOK'
    OBVIOUS
  <2> USE DEF TypeOK, pollerVars, runVars
  <2>1. CASE Load \/ Sleep
    BY <2>1 DEF Load, Sleep
  <2>2. CASE Evict
    <3>1. <<>> \in Seq(Samples) /\ Len(<<>>) = 0
      OBVIOUS
    <3>2. /\ history' \in [Runtimes -> Seq(Samples)]
          /\ \A r \in Runtimes : Len(history'[r]) <= MaxSamples
      BY <2>2, <3>1, TelemetryAssumption DEF Evict
    <3> QED BY <2>2, <3>2 DEF Evict
  <2>3. ASSUME NEW r \in Runtimes, PollAnswers(r)
        PROVE  TypeOK'
    <3> DEFINE s == [run_id |-> active_run[r], during |-> running[r]]
    <3>1. s \in Samples
      BY DEF Samples
    <3>2. /\ Remember(history[r], s) \in Seq(Samples)
          /\ Len(Remember(history[r], s)) <= MaxSamples
      BY <3>1, RememberKeeps
    <3>3. history' = [history EXCEPT ![r] = Remember(history[r], s)]
      BY <2>3 DEF PollAnswers
    <3>4. /\ history' \in [Runtimes -> Seq(Samples)]
          /\ \A q \in Runtimes : Len(history'[q]) <= MaxSamples
      BY <3>2, <3>3
    <3> QED BY <2>3, <3>4 DEF PollAnswers
  <2>4. ASSUME NEW r \in Runtimes, PollFails(r) \/ PollTimesOut(r)
        PROVE  TypeOK'
    BY <2>4 DEF PollFails, PollTimesOut
  <2>5. ASSUME NEW r \in Runtimes, Register(r) \/ Deregister(r)
        PROVE  TypeOK'
    BY <2>5 DEF Register, Deregister
  <2>6. ASSUME NEW r \in Runtimes, NEW k \in Runs, Start(k, r)
        PROVE  TypeOK'
    BY <2>6 DEF Start
  <2>7. ASSUME NEW r \in Runtimes, NEW k \in Runs, Finish(k, r)
        PROVE  TypeOK'
    BY <2>7 DEF Finish
  <2>8. CASE UNCHANGED vars
    BY <2>8 DEF vars
  <2> QED BY <2>1, <2>2, <2>3, <2>4, <2>5, <2>6, <2>7, <2>8 DEF Next
<1> QED BY <1>1, <1>2, PTL DEF Spec

-----------------------------------------------------------------------------
\* The eviction finds every buffer (engine_poller.py:92), and the cache never
\* shows a runtime the last select did not return.
THEOREM EvictionCorrect == Spec => []EvictionIsComplete
<1> DEFINE Inv == PollInv /\ BufferIsEvictable /\ CacheFollowsDatabase
<1>1. Init => Inv
  BY DEF Init, PollInv, BufferIsEvictable, CacheFollowsDatabase
<1>2. TypeOK /\ Inv /\ [Next]_vars => Inv'
  <2> SUFFICES ASSUME TypeOK, Inv, [Next]_vars
               PROVE  Inv'
    OBVIOUS
  <2> USE DEF PollInv, BufferIsEvictable, CacheFollowsDatabase, TypeOK, pollerVars
  <2>1. CASE Load \/ Sleep
    BY <2>1 DEF Load, Sleep
  <2>2. CASE Evict
    BY <2>2 DEF Evict
  <2>3. ASSUME NEW r \in Runtimes, Poll(r)
        PROVE  Inv'
    <3>1. /\ r \in polls /\ polls' = polls \ {r}
          /\ UNCHANGED <<poller, runtimes>>
      BY <2>3 DEF Poll, PollAnswers, PollFails, PollTimesOut
    <3>2. \A q \in Runtimes : q # r => cache'[q] = cache[q] /\ history'[q] = history[q]
      BY <2>3 DEF Poll, PollAnswers, PollFails, PollTimesOut
    <3>3. \/ cache'[r] # "absent"
          \/ cache'[r] = cache[r] /\ history'[r] = history[r]
      BY <2>3 DEF Poll, PollAnswers, PollFails, PollTimesOut
    <3> QED BY <3>1, <3>2, <3>3
  <2>4. CASE UNCHANGED pollerVars
    BY <2>4
  <2>5. ASSUME NEW r \in Runtimes,
               \/ Register(r) \/ Deregister(r)
               \/ \E k \in Runs : Start(k, r) \/ Finish(k, r)
        PROVE  UNCHANGED pollerVars
    BY <2>5 DEF Register, Deregister, Start, Finish
  <2>6. CASE UNCHANGED vars
    BY <2>4, <2>6 DEF vars
  <2> QED BY <2>1, <2>2, <2>3, <2>4, <2>5, <2>6 DEF Next, Poll
<1>3. Inv => EvictionIsComplete
  BY DEF EvictionIsComplete
<1> QED BY <1>1, <1>2, <1>3, TypeCorrect, PTL DEF Spec

-----------------------------------------------------------------------------
\* Samples are labelled with a run that was executing on their runtime, and
\* with the only one if there was only one (engine_history.py:62).
THEOREM LabelsCorrect == Spec => [](LabelsAreTrue /\ LoneRunIsLabelled)
<1> DEFINE Inv == RunInv /\ TagInv /\ HistoryInv
<1>1. Init => Inv
  BY DEF Init, RunInv, TagInv, HistoryInv
<1>2. TypeOK /\ Inv /\ [Next]_vars => Inv'
  <2> SUFFICES ASSUME TypeOK, Inv, [Next]_vars
               PROVE  Inv'
    OBVIOUS
  <2> USE DEF TypeOK, pollerVars, runVars
  <2>1. CASE UNCHANGED runVars /\ UNCHANGED history
    BY <2>1 DEF RunInv, TagInv, HistoryInv, SampleInv
  <2>2. CASE Load \/ Sleep
    BY <2>1, <2>2 DEF Load, Sleep
  <2>3. CASE Evict
    <3>1. UNCHANGED runVars /\ \A r \in Runtimes : history'[r] \in {history[r], <<>>}
      BY <2>3 DEF Evict
    <3> QED BY <3>1 DEF RunInv, TagInv, HistoryInv, SampleInv
  <2>4. ASSUME NEW r \in Runtimes, PollAnswers(r)
        PROVE  Inv'
    <3> DEFINE s == [run_id |-> active_run[r], during |-> running[r]]
    <3>1. UNCHANGED runVars
      BY <2>4 DEF PollAnswers
    <3>2. history' = [history EXCEPT ![r] = Remember(history[r], s)]
      BY <2>4 DEF PollAnswers
    <3>3. s \in Samples
      BY DEF Samples
    <3>4. SampleInv(s)
      BY DEF SampleInv, RunInv, TagInv
    <3>5. \A i \in DOMAIN Remember(history[r], s) :
              \/ Remember(history[r], s)[i] = s
              \/ \E j \in DOMAIN history[r] : Remember(history[r], s)[i] = history[r][j]
      BY <3>3, RememberKeeps
    <3> HIDE DEF s
    <3>6. \A i \in DOMAIN history'[r] : SampleInv(history'[r][i])
      BY <3>2, <3>4, <3>5 DEF HistoryInv
    <3>7. \A q \in Runtimes : \A i \in DOMAIN history'[q] : SampleInv(history'[q][i])
      BY <3>2, <3>6 DEF HistoryInv
    <3> QED BY <3>1, <3>7 DEF RunInv, TagInv, HistoryInv, SampleInv
  <2>5. ASSUME NEW r \in Runtimes,
               PollFails(r) \/ PollTimesOut(r) \/ Register(r) \/ Deregister(r)
        PROVE  Inv'
    BY <2>1, <2>5 DEF PollFails, PollTimesOut, Register, Deregister
  <2>6. ASSUME NEW r \in Runtimes, NEW k \in Runs, Start(k, r)
        PROVE  Inv'
    <3>1. shared \subseteq shared' /\ UNCHANGED history
      BY <2>6 DEF Start
    <3>2. HistoryInv'
      BY <3>1 DEF HistoryInv, SampleInv
    <3>3. \A q \in Runtimes : q # r =>
              running'[q] = running[q] /\ active_run'[q] = active_run[q]
      BY <2>6 DEF Start
    <3>4. running'[r] = running[r] \cup {k} /\ active_run'[r] = k
      BY <2>6 DEF Start
    <3>5. running[r] # {} => running'[r] \subseteq shared'
      BY <2>6, <3>4 DEF Start
    <3>6. TagInv'
      BY <3>3, <3>4 DEF TagInv
    <3>7. ASSUME NEW q \in Runtimes, NEW l \in running'[q] \ shared'
          PROVE  running'[q] = {l} /\ active_run'[q] = l
      <4>1. CASE q = r
        <5>1. running[r] = {}
          BY <3>5, <3>7, <4>1
        <5> QED BY <3>4, <3>7, <4>1, <5>1
      <4>2. CASE q # r
        BY <3>1, <3>3, <3>7, <4>2 DEF RunInv
      <4> QED BY <4>1, <4>2
    <3>8. RunInv'
      BY <3>7 DEF RunInv
    <3> QED BY <3>2, <3>6, <3>8
  <2>7. ASSUME NEW r \in Runtimes, NEW k \in Runs, Finish(k, r)
        PROVE  Inv'
    <3>1. UNCHANGED <<shared, history>>
      BY <2>7 DEF Finish
    <3>2. HistoryInv'
      BY <3>1 DEF HistoryInv, SampleInv
    <3>3. /\ \A q \in Runtimes : q # r =>
                running'[q] = running[q] /\ active_run'[q] = active_run[q]
          /\ k \in running[r]
          /\ running'[r] = running[r] \ {k}
          /\ active_run'[r] = None
      BY <2>7 DEF Finish
    <3>4. TagInv'
      BY <3>3 DEF TagInv
    <3>5. ASSUME NEW q \in Runtimes, NEW l \in running'[q] \ shared'
          PROVE  running'[q] = {l} /\ active_run'[q] = l
      <4>1. CASE q = r
        <5>1. running[r] = {l} /\ l # k
          BY <3>1, <3>3, <3>5, <4>1 DEF RunInv
        <5> QED BY <3>3, <5>1
      <4>2. CASE q # r
        BY <3>1, <3>3, <3>5, <4>2 DEF RunInv
      <4> QED BY <4>1, <4>2
    <3>6. RunInv'
      BY <3>5 DEF RunInv
    <3> QED BY <3>2, <3>4, <3>6
  <2>8. CASE UNCHANGED vars
    BY <2>1, <2>8 DEF vars
  <2> QED BY <2>2, <2>3, <2>4, <2>5, <2>6, <2>7, <2>8 DEF Next
<1>3. Inv => LabelsAreTrue /\ LoneRunIsLabelled
  BY DEF TagInv, HistoryInv, SampleInv, LabelsAreTrue, LoneRunIsLabelled
<1> QED BY <1>1, <1>2, <1>3, TypeCorrect, PTL DEF Spec
=============================================================================
