----------------------------- MODULE TraceStore -----------------------------
(***************************************************************************)
(* The table of request traces and its retention limit:                    *)
(* backend/app/services/trace_service.py.                                  *)
(*                                                                         *)
(* Every caller that records traces enforces the limit itself, after its   *)
(* insert: it counts the rows, selects the oldest of them and deletes the  *)
(* ones selected.  Each of these statements is awaited, and the database   *)
(* (SQLite, one write at a time, every read sees the last commit) answers  *)
(* the callers in any order.  A trace is its started_at stamp: rows are    *)
(* inserted when a request ends, so not in the order of their stamps.      *)
(***************************************************************************)
EXTENDS Integers, FiniteSets

CONSTANTS
    Singles,            \* callers of record_trace (proxy, benchmark)
    Bulks,              \* callers of record_traces_bulk (a load-test tier)
    MaxStoredTraces,    \* settings.MAX_STORED_TRACES (5000)
    Stamps              \* started_at stamps; bound: as many traces ever

ASSUME TraceAssumption ==
    /\ Singles \cap Bulks = {}
    /\ MaxStoredTraces \in Nat
    /\ Stamps \in SUBSET Nat
    /\ IsFiniteSet(Stamps)

VARIABLES
    traces,             \* committed rows
    unused,             \* stamps no request has used yet
    pc,                 \* pc[c]: where caller c awaits
    own,                \* own[c]: what c has inserted in this call
    excess,             \* excess[c]: rows over the limit, as c counted them
    oldest_ids,         \* oldest_ids[c]: the rows c is going to delete
    swallowed,          \* history: an exception kept a caller from enforcing
    calm                \* history: no commit since c counted, but its own

vars == <<traces, unused, pc, own, excess, oldest_ids, swallowed, calm>>

Callers == Singles \cup Bulks
Smaller(a, b) == IF a <= b THEN a ELSE b

Init ==
    /\ traces = {}
    /\ unused = Stamps
    /\ pc = [c \in Callers |-> "idle"]
    /\ own = [c \in Callers |-> {}]
    /\ excess = [c \in Callers |-> 0]
    /\ oldest_ids = [c \in Callers |-> {}]
    /\ swallowed = FALSE
    /\ calm = [c \in Callers |-> FALSE]

-----------------------------------------------------------------------------
\* The commit of the new rows: one for record_trace, which then refreshes it,
\* a batch for record_traces_bulk.
Insert(c, new) ==
    /\ pc[c] = "idle"
    /\ new \in SUBSET unused \ {{}}
    /\ c \in Singles => Cardinality(new) = 1
    /\ traces' = traces \cup new
    /\ unused' = unused \ new
    /\ own' = [own EXCEPT ![c] = new]
    /\ pc' = [pc EXCEPT ![c] = IF c \in Singles THEN "refreshing" ELSE "counting"]
    /\ calm' = [d \in Callers |-> FALSE]
    /\ UNCHANGED <<excess, oldest_ids, swallowed>>

\* db.refresh(trace) selects the row by its key, and raises when another
\* caller's enforcement has deleted it: the limit is then not enforced.  The
\* callers log the exception.
Refresh(c) ==
    /\ pc[c] = "refreshing"
    /\ pc' = [pc EXCEPT ![c] = IF own[c] \subseteq traces THEN "counting" ELSE "idle"]
    /\ swallowed' = (swallowed \/ ~(own[c] \subseteq traces))
    /\ UNCHANGED <<traces, unused, own, excess, oldest_ids, calm>>

\* Slip: the limit itself counts as an excess.
CountInclusive(c) ==
    /\ pc[c] = "counting"
    /\ excess' = [excess EXCEPT ![c] = Cardinality(traces) - MaxStoredTraces]
    /\ pc' = [pc EXCEPT ![c] = IF Cardinality(traces) > MaxStoredTraces + 1
                               THEN "selecting" ELSE "idle"]
    /\ calm' = [calm EXCEPT ![c] = TRUE]
    /\ UNCHANGED <<traces, unused, own, oldest_ids, swallowed>>

\* select count(id): nothing to do up to the limit.
Count(c) ==
    /\ pc[c] = "counting"
    /\ excess' = [excess EXCEPT ![c] = Cardinality(traces) - MaxStoredTraces]
    /\ pc' = [pc EXCEPT ![c] = IF Cardinality(traces) > MaxStoredTraces
                               THEN "selecting" ELSE "idle"]
    /\ calm' = [calm EXCEPT ![c] = TRUE]
    /\ UNCHANGED <<traces, unused, own, oldest_ids, swallowed>>

\* order_by(started_at).limit(n) over the rows there are.
AreOldest(ids, n) ==
    /\ Cardinality(ids) = Smaller(n, Cardinality(traces))
    /\ \A a \in ids, b \in traces \ ids : a < b

\* Slip: the newest rows are selected (started_at.desc()).
SelectNewest(c, ids) ==
    /\ pc[c] = "selecting"
    /\ ids \in SUBSET traces
    /\ Cardinality(ids) = Smaller(excess[c], Cardinality(traces))
    /\ \A a \in ids, b \in traces \ ids : a > b
    /\ oldest_ids' = [oldest_ids EXCEPT ![c] = ids]
    /\ pc' = [pc EXCEPT ![c] = IF ids = {} THEN "idle" ELSE "deleting"]
    /\ UNCHANGED <<traces, unused, own, excess, swallowed, calm>>

\* The ids of the oldest rows, as many as were counted before.
Select(c, ids) ==
    /\ pc[c] = "selecting"
    /\ ids \in SUBSET traces
    /\ AreOldest(ids, excess[c])
    /\ oldest_ids' = [oldest_ids EXCEPT ![c] = ids]
    /\ pc' = [pc EXCEPT ![c] = IF ids = {} THEN "idle" ELSE "deleting"]
    /\ UNCHANGED <<traces, unused, own, excess, swallowed, calm>>

\* The delete and its commit.  The write lock is held in between, and until
\* the commit everybody reads the rows as they were: one step.
Delete(c) ==
    /\ pc[c] = "deleting"
    /\ traces' = traces \ oldest_ids[c]
    /\ pc' = [pc EXCEPT ![c] = "idle"]
    /\ calm' = [d \in Callers |-> FALSE]
    /\ UNCHANGED <<unused, own, excess, oldest_ids, swallowed>>

\* A statement raises (the database stays locked for 30 s, say); the exception
\* is logged and the caller goes on.
EnforcementFails(c) ==
    /\ pc[c] \in {"counting", "selecting", "deleting"}
    /\ pc' = [pc EXCEPT ![c] = "idle"]
    /\ swallowed' = TRUE
    /\ UNCHANGED <<traces, unused, own, excess, oldest_ids, calm>>

Next ==
    \E c \in Callers :
        \/ \E new \in SUBSET Stamps : Insert(c, new)
        \/ Refresh(c)
        \/ Count(c)
        \/ \E ids \in SUBSET Stamps : Select(c, ids)
        \/ Delete(c)
        \/ EnforcementFails(c)

Spec == Init /\ [][Next]_vars

-----------------------------------------------------------------------------
(***************************************************************************)
(* Properties.                                                             *)
(***************************************************************************)

\* Every variable holds a value the code could store in it.  A caller only
\* selects with a positive limit: SQLite takes a negative one for no limit, and
\* the whole table would go.
TypeOK ==
    /\ traces \in SUBSET Stamps
    /\ unused \in SUBSET Stamps
    /\ pc \in [Callers -> {"idle", "refreshing", "counting", "selecting", "deleting"}]
    /\ own \in [Callers -> SUBSET Stamps]
    /\ excess \in [Callers -> Int]
    /\ oldest_ids \in [Callers -> SUBSET Stamps]
    /\ swallowed \in BOOLEAN
    /\ calm \in [Callers -> BOOLEAN]
    /\ \A c \in Callers : pc[c] = "selecting" => excess[c] > 0

Quiet == \A c \in Callers : pc[c] = "idle"

\* "Enforce MAX_STORED_TRACES" (trace_service.py:45): when no call is under
\* way and no enforcement has failed, the table is within its limit, however
\* the counts, selects and deletes of the callers interleaved.
LimitHolds == (Quiet /\ ~swallowed) => Cardinality(traces) <= MaxStoredTraces

\* A caller during whose enforcement nobody else commits keeps exactly the
\* newest rows: it stops at the limit, and removes no row newer than one it
\* keeps.
KeepsTheNewest ==
    [][\A c \in Callers :
         (calm[c] /\ pc[c] = "deleting" /\ pc'[c] = "idle" /\ traces' # traces) =>
             /\ Cardinality(traces') = MaxStoredTraces
             /\ \A kept \in traces', gone \in traces \ traces' : gone < kept]_vars
=============================================================================
