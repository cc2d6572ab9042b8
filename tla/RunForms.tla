------------------------------ MODULE RunForms ------------------------------
(***************************************************************************)
(* The form that starts a load test (pages/LoadTest.jsx) and the one that  *)
(* starts a benchmark (pages/Benchmark.jsx): a runtime, a model from the   *)
(* list the runtime answers with, numbers, and for a benchmark a prompt    *)
(* that may be kept as a template, or lengths of contexts.                 *)
(*                                                                         *)
(* A step is one input of the user, or an answer: both pages go on while   *)
(* they wait for one.  The runtimes are known when a page opens; the list  *)
(* of earlier runs, temperatures and texts are left out, and of a model    *)
(* only its runtime is kept.  What becomes of a run is for RunLifecycle,   *)
(* BenchmarkRun and RunView to say.                                        *)
(***************************************************************************)
EXTENDS Integers

CONSTANTS
    Runtimes,           \* the runtimes, DefaultRuntime the first of them
    DefaultRuntime,
    TypedNumbers        \* positive numbers a user may type

ASSUME RunFormsAssumption ==
    DefaultRuntime \in Runtimes /\ TypedNumbers \subseteq Nat \ {0}

VARIABLES
    setup,              \* config, with the text of the lengths parsed
    modelsOf,           \* availableModels: whose they are, or nobody's
    focus,              \* the number field that is being typed into
    templates,          \* the templates on the page
    picked,             \* selectedTemplateId
    stored,             \* the templates on the server
    awaited,            \* the answers that are awaited
    busy,               \* the store's loading flag: is the start button off
    unsure,             \* has the user acted while an answer was awaited, or seen an old list
    started             \* what the latest run was started with

runFormVars ==
    <<setup, modelsOf, focus, templates, picked, stored, awaited, busy, unsure, started>>

Nobody   == "nobody"
NoNumber == -1          \* the field is empty
Typed    == "typed"     \* a model whose name was typed

-----------------------------------------------------------------------------
(***************************************************************************)
(* The numbers of the forms, and what a field that is left empty or at     *)
(* zero is set to.                                                         *)
(***************************************************************************)
LoadTestNumbers ==
    [target_users |-> 10, duration_seconds |-> 60, rampup_step_users |-> 2,
     rampup_step_seconds |-> 10, max_tokens |-> 256, request_timeout |-> 120]

BenchmarkNumbers(scaling) == [max_tokens |-> IF scaling THEN 256 ELSE 512, num_runs |-> 3]

FieldNumbers(s) == IF s.kind = "load test" THEN LoadTestNumbers ELSE BenchmarkNumbers(s.scaling)

\* The fields that are on the page.
ShownFields(s) ==
    DOMAIN s.n \ (IF s.kind = "load test"
                  THEN IF s.pattern = "rampup" THEN {} ELSE {"rampup_step_users", "rampup_step_seconds"}
                  ELSE IF s.scaling THEN {"num_runs"} ELSE {})

\* Presets of context lengths, and the numbers a typed text may hold.
CONTEXT_PRESETS == {{100, 500, 1000, 2000}, {256, 512, 1024, 2048, 4096}, {500, 1000, 2000, 4000}}
TypedLengths == {{}, {0}, {0, 300}}

Template(id, tokens) == [id |-> id, tokens |-> tokens]
BuiltinMedium == Template(0, 512)

ModelsAnswer(r) == [kind |-> "models", of |-> r]
Answer(kind) == [kind |-> kind]

\* A list of templates is asked for when the page opens and after each change;
\* then says what is done with it.
ListAnswer(then, id) == [kind |-> "list", then |-> then, id |-> id]

LoadTestSetup ==
    [kind |-> "load test", runtime |-> Nobody, model |-> Nobody, pattern |-> "rampup", n |-> LoadTestNumbers]

BenchmarkSetup ==
    [kind |-> "benchmark", runtime |-> Nobody, model |-> Nobody, scaling |-> FALSE, prompt |-> FALSE,
     template |-> NoNumber, lengths |-> {100, 500, 1000, 2000}, n |-> BenchmarkNumbers(FALSE)]

RunFormsInit(form) ==
    /\ setup = form
    /\ modelsOf = Nobody /\ focus = Nobody /\ templates = {} /\ picked = 0
    /\ stored = {BuiltinMedium, Template(1, 300)}
    /\ awaited = {Answer("default")} \cup {a \in {ListAnswer("nothing", 0)} : setup.kind = "benchmark"}
    /\ busy = FALSE /\ unsure = FALSE /\ started = Answer("none")

-----------------------------------------------------------------------------
(***************************************************************************)
(* Inputs.  Anything but typing on, and starting with the Enter key, takes *)
(* the focus from a number field first.                                    *)
(***************************************************************************)
Ventures == unsure' = (unsure \/ awaited # {})

Sets(s) == setup' = s /\ Ventures /\ UNCHANGED <<modelsOf, templates, picked, stored, awaited, busy, started>>

Elsewhere == focus = Nobody /\ UNCHANGED focus

\* Slip: the model stays when the runtime is changed.
KeepModel(r) ==
    /\ setup' = [setup EXCEPT !.runtime = r]
    /\ awaited' = awaited \cup {ModelsAnswer(r)}
    /\ UNCHANGED <<modelsOf, focus, templates, picked, stored, busy, started>>

\* The model is cleared, but the models on offer stay until the answer.
HandleRuntimeChange(r) ==
    /\ setup' = [setup EXCEPT !.runtime = r, !.model = Nobody]
    /\ awaited' = awaited \cup {ModelsAnswer(r)}
    /\ UNCHANGED <<modelsOf, focus, templates, picked, stored, busy, started>>

ChooseRuntime == focus = Nobody /\ Ventures /\ \E r \in Runtimes \cup {Nobody} : HandleRuntimeChange(r)

\* From the list, or by its name when there is none.
ChooseModel ==
    /\ Elsewhere
    /\ \/ modelsOf # Nobody /\ Sets([setup EXCEPT !.model = modelsOf])
       \/ modelsOf = Nobody /\ \E m \in {Typed, Nobody} : Sets([setup EXCEPT !.model = m])

ChooseTraffic ==
    /\ Elsewhere /\ setup.kind = "load test"
    /\ \E p \in {"rampup", "constant", "spike", "stress"} : Sets([setup EXCEPT !.pattern = p])

TypeNumber ==
    \E f \in ShownFields(setup), v \in TypedNumbers \cup {0, NoNumber} :
        focus \in {Nobody, f} /\ focus' = f /\ Sets([setup EXCEPT !.n[f] = v])

LeaveNumber ==
    /\ focus # Nobody /\ focus' = Nobody
    /\ setup' = [setup EXCEPT !.n[focus] = IF @ < 1 THEN FieldNumbers(setup)[focus] ELSE @]
    /\ UNCHANGED <<modelsOf, templates, picked, stored, awaited, busy, unsure, started>>

ChooseTestType ==
    /\ Elsewhere /\ setup.kind = "benchmark"
    /\ \E scaling \in BOOLEAN : Sets([setup EXCEPT !.scaling = scaling])

\* Whether there is one.
EditPrompt ==
    /\ Elsewhere /\ setup.kind = "benchmark" /\ ~setup.scaling
    /\ \E prompt \in BOOLEAN : Sets([setup EXCEPT !.prompt = prompt])

\* A text without a positive number changes nothing but itself.
EditLengths ==
    /\ Elsewhere /\ setup.kind = "benchmark" /\ setup.scaling
    /\ \E text \in CONTEXT_PRESETS \cup TypedLengths :
           LET parsed == {x \in text : x > 0}
           IN  Sets([setup EXCEPT !.lengths = IF parsed = {} THEN @ ELSE parsed])

WithTemplate(t) ==
    setup' = [setup EXCEPT !.prompt = TRUE, !.template = t.id, !.n.max_tokens = t.tokens]

HandleTemplateSelect ==
    /\ Elsewhere /\ Ventures /\ setup.kind = "benchmark" /\ ~setup.scaling
    /\ \E t \in templates : picked' = t.id /\ WithTemplate(t)
    /\ UNCHANGED <<modelsOf, templates, stored, awaited, busy, started>>

HandleSaveTemplateSubmit ==
    /\ Elsewhere /\ Ventures /\ setup.kind = "benchmark" /\ ~setup.scaling /\ setup.prompt
    /\ awaited' = awaited \cup {[kind |-> "save", tokens |-> setup.n.max_tokens]}
    /\ UNCHANGED <<setup, modelsOf, templates, picked, stored, busy, started>>

\* Whether the template is the picked one is looked at before the answer.
HandleDeleteTemplate ==
    /\ Elsewhere /\ Ventures /\ setup.kind = "benchmark" /\ ~setup.scaling
    /\ \E t \in templates \ {BuiltinMedium} :
           awaited' = awaited \cup {[kind |-> "delete", id |-> t.id, picked |-> picked = t.id]}
    /\ UNCHANGED <<setup, modelsOf, templates, picked, stored, busy, started>>

\* The browser does not send a form with a number below the field's minimum, or
\* without a text that is required; an empty number it sends.
SentByBrowser(s) ==
    /\ \A f \in ShownFields(s) : s.n[f] = NoNumber \/ s.n[f] >= 1
    /\ s.kind = "benchmark" /\ ~s.scaling => s.prompt

\* By the button, or by the Enter key with the focus still in a field.
HandleSubmit ==
    /\ ~busy /\ setup.runtime # Nobody /\ setup.model # Nobody /\ SentByBrowser(setup)
    /\ busy' = TRUE /\ Ventures
    /\ awaited' = awaited \cup {[kind |-> "create", setup |-> setup, unsure |-> unsure']}
    /\ UNCHANGED <<setup, modelsOf, focus, templates, picked, stored, started>>

-----------------------------------------------------------------------------
(***************************************************************************)
(* Answers.                                                                *)
(***************************************************************************)
\* The page's own first choice of a runtime comes late, and whatever the user
\* has chosen meanwhile.
DefaultArrives ==
    /\ Answer("default") \in awaited
    /\ setup' = [setup EXCEPT !.runtime = DefaultRuntime, !.model = Nobody]
    /\ awaited' = (awaited \ {Answer("default")}) \cup {ModelsAnswer(DefaultRuntime)}
    /\ UNCHANGED <<modelsOf, focus, templates, picked, stored, busy, unsure, started>>

\* A runtime that cannot be asked has no models.  The first model is chosen,
\* whichever runtime is chosen by now.
ModelsArrive ==
    \E a \in {b \in awaited : b.kind = "models"} :
        /\ awaited' = awaited \ {a} /\ modelsOf' \in {a.of, Nobody}
        /\ setup' = IF modelsOf' = Nobody THEN setup ELSE [setup EXCEPT !.model = modelsOf']
        /\ UNCHANGED <<focus, templates, picked, stored, busy, unsure, started>>

\* A template is saved, and the list is asked for; or it is not.
TemplateIsSaved ==
    \E a \in {b \in awaited : b.kind = "save"}, id \in 2..3 :
        /\ id \notin {t.id : t \in stored} \cup {picked, setup.template}
        /\ \/ /\ stored' = stored \cup {Template(id, a.tokens)}
              /\ awaited' = (awaited \ {a}) \cup {ListAnswer("pick", id)}
           \/ awaited' = awaited \ {a} /\ UNCHANGED stored
        /\ UNCHANGED <<setup, modelsOf, focus, templates, picked, busy, unsure, started>>

TemplateIsDeleted ==
    \E a \in {b \in awaited : b.kind = "delete"} :
        /\ \/ /\ \E t \in stored : t.id = a.id
              /\ stored' = {t \in stored : t.id # a.id}
              /\ awaited' = (awaited \ {a})
                     \cup {ListAnswer(IF a.picked THEN "reset" ELSE "nothing", a.id)}
           \/ awaited' = awaited \ {a} /\ UNCHANGED stored
        /\ UNCHANGED <<setup, modelsOf, focus, templates, picked, busy, unsure, started>>

\* The list, or the old one if it cannot be had.  A saved template is then
\* picked, without its text; a deleted one gives way to the built-in one.
ListArrives ==
    \E a \in {b \in awaited : b.kind = "list"} :
        /\ awaited' = awaited \ {a} /\ templates' \in {stored, templates}
        /\ unsure' = (unsure \/ templates' # stored)
        /\ CASE a.then = "nothing" -> UNCHANGED <<picked, setup>>
             [] a.then = "pick"    -> picked' = a.id /\ setup' = [setup EXCEPT !.template = a.id]
             [] a.then = "reset"   -> picked' = 0 /\ WithTemplate(BuiltinMedium)
        /\ UNCHANGED <<modelsOf, focus, stored, busy, started>>

\* The server refuses an empty number, and takes any other.
RunIsCreated ==
    \E a \in {b \in awaited : b.kind = "create"} :
        /\ awaited' = awaited \ {a} /\ busy' = FALSE
        /\ IF \E f \in DOMAIN a.setup.n : a.setup.n[f] = NoNumber THEN UNCHANGED started
           ELSE started' \in {started, [kind |-> "run", setup |-> a.setup, unsure |-> a.unsure]}
        /\ UNCHANGED <<setup, modelsOf, focus, templates, picked, stored, unsure>>

SetUp ==
    \/ ChooseRuntime \/ ChooseModel \/ ChooseTraffic \/ TypeNumber \/ ChooseTestType \/ EditPrompt
    \/ EditLengths \/ HandleTemplateSelect \/ HandleSaveTemplateSubmit \/ HandleDeleteTemplate
    \/ HandleSubmit

Answered ==
    \/ LeaveNumber \/ DefaultArrives \/ ModelsArrive \/ TemplateIsSaved \/ TemplateIsDeleted
    \/ ListArrives \/ RunIsCreated

-----------------------------------------------------------------------------
\* A run is started with numbers that mean something: no field is sent at zero
\* or empty, hidden or typed into and left by the Enter key alone.
StartedWithNumbers(s) ==
    /\ \A f \in DOMAIN s.n : s.n[f] >= 1
    /\ s.kind = "benchmark" => /\ s.scaling \/ s.prompt
                               /\ s.lengths # {} /\ \A x \in s.lengths : x > 0

\* For a user who waits for the answers and gets the lists: the model is one of the runtime's, or
\* was typed for it, and a template that is named exists.
StartedAsShown ==
    /\ started.kind = "run" =>
          /\ StartedWithNumbers(started.setup)
          /\ started.unsure \/ started.setup.model \in {Typed, started.setup.runtime}
    /\ ~unsure /\ awaited = {} /\ setup.kind = "benchmark" =>
          setup.template \in {NoNumber} \cup {t.id : t \in stored}

=============================================================================
