------------------------------- MODULE Pages -------------------------------
(***************************************************************************)
(* The pages of the frontend on which a user calculates or composes: the   *)
(* GPU sizer, the vLLM optimizer, the form of a test plan, and the forms   *)
(* that start a load test and a benchmark.                                 *)
(*                                                                         *)
(* A page's state is created when its route is opened and dropped when     *)
(* another one is, so a behaviour is one visit of one page.  The optimizer *)
(* may be opened by the link of a finished load test.                      *)
(***************************************************************************)
EXTENDS GpuSizer, VllmOptimizer, PlanForm, RunForms

CONSTANTS
    Routes,             \* the pages that are visited
    Links,              \* the links the optimizer is opened by, NoLink included
    MaxChanges          \* bound on the user's inputs of a visit

ASSUME PagesAssumption ==
    /\ MaxChanges \in Nat
    /\ \A link \in Links : {link.prompt, link.completion, link.users} \subseteq Nat

VARIABLES
    page,               \* the route, or the tab of one
    changes             \* the user's inputs so far

pagesVars == <<page, changes, sizerVars, optimizerVars, formVars, runFormVars>>

PagesInit ==
    /\ page \in Routes /\ changes = 0
    /\ SizerInit /\ FormInit
    /\ RunFormsInit(IF page = "/benchmark" THEN BenchmarkSetup ELSE LoadTestSetup)
    /\ \E link \in IF page = "/vllm-optimizer" THEN Links ELSE {NoLink} : OptimizerInit(link)

\* An input of the user.
Input == changes < MaxChanges /\ changes' = changes + 1

Next ==
    \/ /\ page = "/gpu-sizer" /\ UNCHANGED <<page, optimizerVars, formVars, runFormVars>>
       /\ \/ Input /\ Size
          \/ UNCHANGED changes /\ SizerSettles
    \/ /\ page = "/vllm-optimizer" /\ UNCHANGED <<page, sizerVars, formVars, runFormVars>>
       /\ \/ Input /\ (Configure \/ Consult)
          \/ UNCHANGED changes /\ Settle
    \/ /\ page = "/load-test: plans"
       /\ UNCHANGED <<page, sizerVars, optimizerVars, runFormVars>>
       /\ \/ Input /\ (EditPlan \/ Probe)
          \/ UNCHANGED changes /\ (ProbeAnswers \/ PromptsAreRead)
    \/ /\ page \in {"/load-test: setup", "/benchmark"}
       /\ UNCHANGED <<page, sizerVars, optimizerVars, formVars>>
       /\ \/ Input /\ SetUp
          \/ UNCHANGED changes /\ Answered

Spec == PagesInit /\ [][Next]_pagesVars

-----------------------------------------------------------------------------
\* While the GPU sizer is open: a card that is marked as one that meets a target
\* of several users has the memory the page itself asks for that target (the
\* budget of the cards and the recommendation are computed apart).
MarkedCardsSuffice == page = "/gpu-sizer" => TargetIsCovered

\* While a plan is edited: whatever was typed, loaded or imported, preview,
\* warnings, exports and server read the same numbers from it, and preview and
\* engine make the same load of them where they follow one rule (OneCurve says
\* where, and where they do not).
PlanIsReadAlike == page = "/load-test: plans" => PlanNumbersAgree

=============================================================================
