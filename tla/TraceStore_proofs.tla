-------------------------- MODULE TraceStore_proofs --------------------------
(***************************************************************************)
(* The retention of TraceStore, for any number of concurrent callers, any  *)
(* limit and any traces.                                                   *)
(***************************************************************************)
EXTENDS TraceStore, FiniteSetTheorems, TLAPS

\* What a caller's enforcement is still going to achieve: it has yet to count,
\* it will select enough rows, or the rows it has selected are enough.
WillEnforce(c) ==
    \/ pc[c] \in {"refreshing", "counting"}
    \/ pc[c] = "selecting" /\ Cardinality(traces) - excess[c] <= MaxStoredTraces
    \/ pc[c] = "deleting"
       /\ Cardinality(traces \ oldest_ids[c]) <= MaxStoredTraces

\* LimitHolds is not inductive, because it says nothing while calls are under
\* way; this is what is true all along.
LimitInv ==
    \/ swallowed
    \/ Cardinality(traces) <= MaxStoredTraces
    \/ \E c \in Callers : WillEnforce(c)

\* Every variable keeps its type, and a caller that selects has counted rows
\* over the limit (trace_service.py:51).
THEOREM TypeCorrect == Spec => []TypeOK
<1>1. Init => TypeOK
  <2> SUFFICES ASSUME Init PROVE TypeOK
    OBVIOUS
  <2>1. traces \in SUBSET Stamps /\ unused \in SUBSET Stamps
    BY DEF Init
  <2>2. /\ own \in [Callers -> SUBSET Stamps]
        /\ oldest_ids \in [Callers -> SUBSET Stamps]
        /\ excess \in [Callers -> Int]
    BY DEF Init
  <2>3. /\ pc \in [Callers -> {"idle", "refreshing", "counting", "selecting", "deleting"}]
        /\ \A c \in Callers : pc[c] # "selecting"
    BY DEF Init
  <2>4. swallowed \in BOOLEAN /\ calm \in [Callers -> BOOLEAN]
    BY DEF Init
  <2> QED BY <2>1, <2>2, <2>3, <2>4 DEF TypeOK
<1>2. TypeOK /\ [Next]_vars => TypeOK'
  <2> SUFFICES ASSUME TypeOK, [Next]_vars
               PROVE  TypeOK'
    OBVIOUS
  <2>0. Cardinality(traces) \in Nat
    BY TraceAssumption, FS_Subset, FS_CardinalityType DEF TypeOK
  <2> USE TraceAssumption DEF TypeOK
  <2>1. ASSUME NEW c \in Callers, NEW new \in SUBSET Stamps, Insert(c, new)
        PROVE  TypeOK'
    BY <2>1 DEF Insert
  <2>2. ASSUME NEW c \in Callers, Refresh(c)
        PROVE  TypeOK'
    BY <2>2 DEF Refresh
  <2>3. ASSUME NEW c \in Callers, Count(c)
        PROVE  TypeOK'
    <3>1. Cardinality(traces) - MaxStoredTraces \in Int
      BY <2>0
    <3>2. Cardinality(traces) > MaxStoredTraces =>
             Cardinality(traces) - MaxStoredTraces > 0
      BY <2>0
    <3> QED BY <2>3, <3>1, <3>2 DEF Count
  <2>4. ASSUME NEW c \in Callers, NEW ids \in SUBSET Stamps, Select(c, ids)
        PROVE  TypeOK'
    BY <2>4 DEF Select
  <2>5. ASSUME NEW c \in Callers, Delete(c)
        PROVE  TypeOK'
    BY <2>5 DEF Delete
  <2>6. ASSUME NEW c \in Callers, EnforcementFails(c)
        PROVE  TypeOK'
    BY <2>6 DEF EnforcementFails
  <2>7. CASE UNCHANGED vars
    BY <2>7 DEF vars
  <2> QED BY <2>1, <2>2, <2>3, <2>4, <2>5, <2>6, <2>7 DEF Next
<1> QED BY <1>1, <1>2, PTL DEF Spec

-----------------------------------------------------------------------------
\* Finite sets of traces: what a deletion leaves.
LEMMA Leaves ==
  ASSUME TypeOK, NEW ids \in SUBSET Stamps
  PROVE  /\ IsFiniteSet(traces) /\ Cardinality(traces) \in Nat
         /\ Cardinality(traces \ ids) \in Nat
         /\ Cardinality(traces \ ids) <= Cardinality(traces)
         /\ ids \subseteq traces =>
               Cardinality(traces \ ids) = Cardinality(traces) - Cardinality(ids)
<1>1. IsFiniteSet(traces)
  BY TraceAssumption, FS_Subset DEF TypeOK
<1>2. Cardinality(traces) \in Nat
  BY <1>1, FS_CardinalityType
<1>3. IsFiniteSet(traces \ ids) /\ Cardinality(traces \ ids) <= Cardinality(traces)
  BY <1>1, FS_Subset, traces \ ids \in SUBSET traces
<1>4. Cardinality(traces \ ids) \in Nat
  BY <1>3, FS_CardinalityType
<1>5. Cardinality(traces \ ids) = Cardinality(traces) - Cardinality(traces \cap ids)
  BY <1>1, FS_Difference
<1>6. ids \subseteq traces => traces \cap ids = ids
  OBVIOUS
<1> QED BY <1>1, <1>2, <1>3, <1>4, <1>5, <1>6

\* A step that leaves caller c where it is and deletes rows (or none) does not
\* spoil what c is going to achieve.
LEMMA OthersOnlyHelp ==
  ASSUME TypeOK, NEW c \in Callers, NEW ids \in SUBSET Stamps, WillEnforce(c),
         traces' = traces \ ids, pc'[c] = pc[c], excess'[c] = excess[c],
         oldest_ids'[c] = oldest_ids[c]
  PROVE  WillEnforce(c)'
<1>1. Cardinality(traces') <= Cardinality(traces) /\ Cardinality(traces') \in Nat
      /\ Cardinality(traces) \in Nat
  BY Leaves
<1>2. excess[c] \in Int /\ MaxStoredTraces \in Nat
  BY TraceAssumption DEF TypeOK
<1>3. CASE pc[c] \in {"refreshing", "counting"}
  BY <1>3 DEF WillEnforce
<1>4. CASE pc[c] = "selecting" /\ Cardinality(traces) - excess[c] <= MaxStoredTraces
  <2>1. Cardinality(traces') - excess[c] <= MaxStoredTraces
    BY <1>1, <1>2, <1>4
  <2> QED BY <1>4, <2>1 DEF WillEnforce
<1>5. CASE pc[c] = "deleting" /\ Cardinality(traces \ oldest_ids[c]) <= MaxStoredTraces
  <2>1. oldest_ids[c] \in SUBSET Stamps
    BY DEF TypeOK
  <2>2. IsFiniteSet(traces \ oldest_ids[c])
    BY <2>1, Leaves, FS_Subset, traces \ oldest_ids[c] \in SUBSET traces
  <2>3. (traces \ ids) \ oldest_ids[c] \in SUBSET (traces \ oldest_ids[c])
    OBVIOUS
  <2>4. Cardinality((traces \ ids) \ oldest_ids[c]) <= Cardinality(traces \ oldest_ids[c])
    BY <2>2, <2>3, FS_Subset
  <2>5. /\ Cardinality((traces \ ids) \ oldest_ids[c]) \in Nat
        /\ Cardinality(traces \ oldest_ids[c]) \in Nat
    BY <2>2, <2>3, FS_Subset, FS_CardinalityType
  <2>6. Cardinality(traces' \ oldest_ids'[c]) <= MaxStoredTraces
    BY <1>2, <1>5, <2>4, <2>5
  <2> QED BY <1>5, <2>6 DEF WillEnforce
<1> QED BY <1>3, <1>4, <1>5 DEF WillEnforce

-----------------------------------------------------------------------------
\* "Enforce MAX_STORED_TRACES" (trace_service.py:45): a call that ends without
\* an exception has done its part, whatever the others did between its
\* statements.
THEOREM LimitCorrect == Spec => []LimitHolds
<1>1. Init => LimitInv
  <2> SUFFICES ASSUME Init PROVE LimitInv
    OBVIOUS
  <2>1. Cardinality(traces) = 0
    BY FS_EmptySet DEF Init
  <2> QED BY <2>1, TraceAssumption DEF LimitInv
<1>2. TypeOK /\ LimitInv /\ [Next]_vars => LimitInv'
  <2> SUFFICES ASSUME TypeOK, LimitInv, [Next]_vars
               PROVE  LimitInv'
    OBVIOUS
  <2>0. {} \in SUBSET Stamps /\ traces \ {} = traces
    OBVIOUS
  <2>1. ASSUME NEW c \in Callers, NEW new \in SUBSET Stamps, Insert(c, new)
        PROVE  LimitInv'
    <3>1. pc'[c] \in {"refreshing", "counting"}
      BY <2>1 DEF Insert, TypeOK
    <3> QED BY <3>1 DEF LimitInv, WillEnforce
  <2>2. ASSUME NEW c \in Callers, Refresh(c)
        PROVE  LimitInv'
    <3>1. UNCHANGED <<traces, excess, oldest_ids>>
      BY <2>2 DEF Refresh
    <3>2. CASE ~(own[c] \subseteq traces)
      BY <2>2, <3>2 DEF Refresh, LimitInv
    <3>3. ASSUME own[c] \subseteq traces, NEW d \in Callers, WillEnforce(d)
          PROVE  WillEnforce(d)'
      <4>1. CASE d = c
        BY <2>2, <3>3, <4>1 DEF Refresh, WillEnforce, TypeOK
      <4>2. CASE d # c
        <5>1. pc'[d] = pc[d]
          BY <2>2, <4>2 DEF Refresh, TypeOK
        <5> QED BY <3>1, <3>3, <5>1, <2>0, OthersOnlyHelp
      <4> QED BY <4>1, <4>2
    <3>4. CASE own[c] \subseteq traces
      BY <2>2, <3>1, <3>3, <3>4 DEF LimitInv, Refresh
    <3> QED BY <3>2, <3>4
  <2>3. ASSUME NEW c \in Callers, Count(c)
        PROVE  LimitInv'
    <3>1. Cardinality(traces) \in Nat /\ MaxStoredTraces \in Nat
      BY <2>0, Leaves, TraceAssumption
    <3>2. CASE Cardinality(traces) <= MaxStoredTraces
      BY <2>3, <3>2 DEF Count, LimitInv
    <3>3. CASE Cardinality(traces) > MaxStoredTraces
      <4>1. /\ pc'[c] = "selecting"
            /\ excess'[c] = Cardinality(traces) - MaxStoredTraces
            /\ traces' = traces
        BY <2>3, <3>3 DEF Count, TypeOK
      <4>2. Cardinality(traces') - excess'[c] <= MaxStoredTraces
        BY <3>1, <4>1
      <4> QED BY <4>1, <4>2 DEF LimitInv, WillEnforce
    <3> QED BY <3>1, <3>2, <3>3
  <2>4. ASSUME NEW c \in Callers, NEW ids \in SUBSET Stamps, Select(c, ids)
        PROVE  LimitInv'
    <3>1. /\ UNCHANGED <<traces, excess, swallowed>>
          /\ ids \subseteq traces
          /\ Cardinality(ids) = Smaller(excess[c], Cardinality(traces))
          /\ excess[c] > 0 /\ excess[c] \in Int
          /\ oldest_ids'[c] = ids
          /\ pc'[c] = IF ids = {} THEN "idle" ELSE "deleting"
      BY <2>4 DEF Select, AreOldest, TypeOK
    <3>2. /\ Cardinality(traces) \in Nat
          /\ Cardinality(traces \ ids) = Cardinality(traces) - Cardinality(ids)
          /\ MaxStoredTraces \in Nat
      BY <3>1, Leaves, TraceAssumption
    <3>3. ASSUME WillEnforce(c) PROVE LimitInv'
      <4>1. Cardinality(traces) - excess[c] <= MaxStoredTraces
        BY <2>4, <3>3 DEF WillEnforce, Select
      <4>2. Cardinality(traces \ ids) <= MaxStoredTraces
        BY <3>1, <3>2, <4>1 DEF Smaller
      <4>3. CASE ids = {}
        BY <2>0, <3>1, <4>2, <4>3 DEF LimitInv
      <4>4. CASE ids # {}
        BY <3>1, <4>2, <4>4 DEF LimitInv, WillEnforce
      <4> QED BY <4>3, <4>4
    <3>4. ASSUME NEW d \in Callers, d # c, WillEnforce(d) PROVE WillEnforce(d)'
      <4>1. pc'[d] = pc[d] /\ oldest_ids'[d] = oldest_ids[d]
        BY <2>4, <3>4 DEF Select, TypeOK
      <4> QED BY <2>0, <3>1, <3>4, <4>1, OthersOnlyHelp
    <3> QED BY <3>1, <3>3, <3>4 DEF LimitInv
  <2>5. ASSUME NEW c \in Callers, Delete(c)
        PROVE  LimitInv'
    <3>1. /\ UNCHANGED <<excess, oldest_ids, swallowed>>
          /\ traces' = traces \ oldest_ids[c]
          /\ oldest_ids[c] \in SUBSET Stamps
      BY <2>5 DEF Delete, TypeOK
    <3>2. CASE Cardinality(traces) <= MaxStoredTraces
      <4>1. Cardinality(traces') <= MaxStoredTraces
        BY <3>1, <3>2, Leaves, TraceAssumption
      <4> QED BY <4>1 DEF LimitInv
    <3>3. ASSUME WillEnforce(c) PROVE LimitInv'
      BY <2>5, <3>1, <3>3 DEF LimitInv, WillEnforce, Delete
    <3>4. ASSUME NEW d \in Callers, d # c, WillEnforce(d) PROVE WillEnforce(d)'
      <4>1. pc'[d] = pc[d]
        BY <2>5, <3>4 DEF Delete, TypeOK
      <4> QED BY <3>1, <3>4, <4>1, OthersOnlyHelp
    <3> QED BY <3>1, <3>2, <3>3, <3>4 DEF LimitInv
  <2>6. ASSUME NEW c \in Callers, EnforcementFails(c)
        PROVE  LimitInv'
    BY <2>6 DEF EnforcementFails, LimitInv
  <2>7. CASE UNCHANGED vars
    BY <2>7 DEF vars, LimitInv, WillEnforce
  <2> QED BY <2>1, <2>2, <2>3, <2>4, <2>5, <2>6, <2>7 DEF Next
<1>3. LimitInv => LimitHolds
  BY DEF LimitInv, LimitHolds, Quiet, WillEnforce
<1> QED BY <1>1, <1>2, <1>3, TypeCorrect, PTL DEF Spec

-----------------------------------------------------------------------------
\* What a caller knows as long as nobody else has committed: its count is the
\* count, and the rows it selected are the oldest ones over the limit.
Knows(c) ==
    /\ pc[c] = "selecting" => excess[c] = Cardinality(traces) - MaxStoredTraces
    /\ pc[c] = "deleting" =>
          /\ oldest_ids[c] \subseteq traces
          /\ Cardinality(oldest_ids[c]) = Cardinality(traces) - MaxStoredTraces
          /\ \A a \in oldest_ids[c], b \in traces \ oldest_ids[c] : a < b

CalmInv == \A c \in Callers : calm[c] => Knows(c)

\* A caller alone on the database while it enforces the limit keeps exactly
\* the newest rows (trace_service.py:45).
THEOREM NewestCorrect == Spec => KeepsTheNewest
<1>1. Init => CalmInv
  BY DEF Init, CalmInv
<1>2. TypeOK /\ CalmInv /\ [Next]_vars => CalmInv'
  <2> SUFFICES ASSUME TypeOK, CalmInv, [Next]_vars, NEW c \in Callers, calm'[c]
               PROVE  Knows(c)'
    BY DEF CalmInv
  <2>0. {} \in SUBSET Stamps /\ Cardinality(traces) \in Nat /\ MaxStoredTraces \in Nat
    BY Leaves, TraceAssumption
  <2>1. CASE calm[c] /\ UNCHANGED <<traces, pc, excess, oldest_ids>>
    BY <2>1 DEF CalmInv, Knows
  <2>2. ASSUME NEW d \in Callers,
               \/ \E new \in SUBSET Stamps : Insert(d, new)
               \/ Delete(d)
        PROVE  Knows(c)'
    BY <2>2 DEF Insert, Delete
  <2>3. ASSUME NEW d \in Callers, Refresh(d) \/ EnforcementFails(d)
        PROVE  Knows(c)'
    <3>1. calm[c] /\ UNCHANGED <<traces, excess, oldest_ids>>
      BY <2>3 DEF Refresh, EnforcementFails
    <3>2. pc'[c] = pc[c] \/ pc'[c] \in {"counting", "idle"}
      BY <2>3 DEF Refresh, EnforcementFails, TypeOK
    <3> QED BY <3>1, <3>2 DEF CalmInv, Knows
  <2>4. ASSUME NEW d \in Callers, Count(d)
        PROVE  Knows(c)'
    <3>1. CASE d = c
      BY <2>4, <3>1 DEF Count, Knows, TypeOK
    <3>2. CASE d # c
      <4>1. calm[c] /\ pc'[c] = pc[c] /\ excess'[c] = excess[c]
        BY <2>4, <3>2 DEF Count, TypeOK
      <4> QED BY <2>4, <4>1 DEF Count, CalmInv, Knows
    <3> QED BY <3>1, <3>2
  <2>5. ASSUME NEW d \in Callers, NEW ids \in SUBSET Stamps, Select(d, ids)
        PROVE  Knows(c)'
    <3>1. calm[c] /\ UNCHANGED <<traces, excess>>
      BY <2>5 DEF Select
    <3>2. CASE d = c
      <4>1. /\ ids \subseteq traces
            /\ Cardinality(ids) = Smaller(excess[c], Cardinality(traces))
            /\ \A a \in ids, b \in traces \ ids : a < b
            /\ excess[c] = Cardinality(traces) - MaxStoredTraces
            /\ oldest_ids'[c] = ids
            /\ pc'[c] # "selecting"
        BY <2>5, <3>1, <3>2 DEF Select, AreOldest, TypeOK, CalmInv, Knows
      <4>2. Cardinality(ids) = Cardinality(traces) - MaxStoredTraces
        BY <2>0, <4>1 DEF Smaller
      <4> QED BY <3>1, <4>1, <4>2 DEF Knows
    <3>3. CASE d # c
      <4>1. pc'[c] = pc[c] /\ oldest_ids'[c] = oldest_ids[c]
        BY <2>5, <3>3 DEF Select, TypeOK
      <4> QED BY <3>1, <4>1 DEF CalmInv, Knows
    <3> QED BY <3>2, <3>3
  <2>6. CASE UNCHANGED vars
    BY <2>1, <2>6 DEF vars
  <2> QED BY <2>2, <2>3, <2>4, <2>5, <2>6 DEF Next
<1>3. TypeOK /\ CalmInv /\ [Next]_vars =>
        [\A c \in Callers :
          (calm[c] /\ pc[c] = "deleting" /\ pc'[c] = "idle" /\ traces' # traces) =>
             /\ Cardinality(traces') = MaxStoredTraces
             /\ \A kept \in traces', gone \in traces \ traces' : gone < kept]_vars
  <2> SUFFICES ASSUME TypeOK, CalmInv, Next, NEW c \in Callers, calm[c],
                      pc[c] = "deleting", pc'[c] = "idle", traces' # traces
               PROVE  /\ Cardinality(traces') = MaxStoredTraces
                      /\ \A kept \in traces', gone \in traces \ traces' : gone < kept
    BY DEF vars
  <2>1. Delete(c)
    <3>1. PICK d \in Callers : \/ \E new \in SUBSET Stamps : Insert(d, new)
                               \/ Delete(d)
      BY DEF Next, Refresh, Count, Select, EnforcementFails
    <3>2. d = c
      BY <3>1 DEF Insert, Delete, TypeOK
    <3> QED BY <3>1, <3>2 DEF Insert
  <2>2. /\ traces' = traces \ oldest_ids[c]
        /\ oldest_ids[c] \in SUBSET Stamps
        /\ Knows(c)
    BY <2>1 DEF Delete, TypeOK, CalmInv
  <2>3. oldest_ids[c] = traces \ traces'
    BY <2>2 DEF Knows
  <2>4. /\ Cardinality(traces) \in Nat
        /\ Cardinality(traces') = Cardinality(traces) - Cardinality(oldest_ids[c])
    BY <2>2, Leaves DEF Knows
  <2>5. Cardinality(traces') = MaxStoredTraces
    BY <2>2, <2>4, TraceAssumption DEF Knows
  <2> QED BY <2>2, <2>3, <2>5 DEF Knows
<1> QED BY <1>1, <1>2, <1>3, TypeCorrect, PTL DEF Spec, KeepsTheNewest
=============================================================================
