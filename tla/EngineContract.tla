--------------------------- MODULE EngineContract ---------------------------
(***************************************************************************)
(* What one call of run_load_test promises to the rest of the backend,     *)
(* without tiers, workers, retries or clocks.  The run is booked in the    *)
(* module-level dictionary _ACTIVE_RUNS for exactly as long as it runs;    *)
(* result rows are only added while it runs; the watchdog may condemn the  *)
(* runtime, which lowers the flag for good; and once the run is over the   *)
(* dictionary entry can only come back as FALSE (a stop request or a late  *)
(* watchdog verdict), never as TRUE.                                       *)
(*                                                                         *)
(* LoadTestEngine implements this module; RunLifecycle is built on it.     *)
(***************************************************************************)
EXTENDS Naturals

CONSTANT MaxRows        \* bound: result rows one run may commit

VARIABLES
    phase,              \* where the call of run_load_test is
    flag,               \* _ACTIVE_RUNS.get(run_id): "absent", "on", "off"
    aborted,            \* the watchdog condemned the runtime
    rows                \* load_test_results rows committed for the run

contractVars == <<phase, flag, aborted, rows>>

Phases == {"boot", "running", "closing", "returned", "raised"}
Flags  == {"absent", "on", "off"}

ContractTypeOK ==
    /\ phase \in Phases
    /\ flag \in Flags
    /\ aborted \in BOOLEAN
    /\ rows \in 0..MaxRows

ContractInit ==
    /\ phase = "boot"
    /\ flag \in {"absent", "off"}    \* "off": a stop overtook the engine
    /\ aborted = FALSE
    /\ rows = 0

-----------------------------------------------------------------------------
\* The first statement of run_load_test, whatever the entry was before.
Start ==
    /\ phase = "boot"
    /\ phase' = "running"
    /\ flag' = "on"
    /\ UNCHANGED <<aborted, rows>>

\* stop_run: callable at any time, by anyone, for any run id.
StopRun ==
    /\ flag' = "off"
    /\ UNCHANGED <<phase, aborted, rows>>

\* A tier's results are committed in one transaction.
CommitRows ==
    /\ phase = "running"
    /\ rows' \in rows..MaxRows
    /\ UNCHANGED <<phase, flag, aborted>>

\* The watchdog's verdict; it may also arrive just after the run was closed.
Condemn ==
    /\ phase # "boot"
    /\ ~aborted
    /\ aborted' = TRUE
    /\ flag' = "off"
    /\ UNCHANGED <<phase, rows>>

\* The finally block: the entry is popped.
Close ==
    /\ phase = "running"
    /\ phase' = "closing"
    /\ flag' = "absent"
    /\ UNCHANGED <<aborted, rows>>

\* The HTTP client is closed and the call returns or raises.
Leave ==
    /\ phase = "closing"
    /\ phase' \in {"returned", "raised"}
    /\ UNCHANGED <<flag, aborted, rows>>

ContractNext == Start \/ StopRun \/ CommitRows \/ Condemn \/ Close \/ Leave

ContractSpec == ContractInit /\ [][ContractNext]_contractVars

\* A run that was started is never left half-way: this is what the callers
\* rely on when they await run_load_test.
ContractFairness ==
    /\ WF_contractVars(Start)
    /\ WF_contractVars(Close)
    /\ WF_contractVars(Leave)

ContractFairSpec == ContractSpec /\ ContractFairness
=============================================================================
