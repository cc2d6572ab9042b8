---------------------------- MODULE Pages_proofs ----------------------------
(***************************************************************************)
(* What a load test or a benchmark is started with, for any runtimes, any  *)
(* numbers that are typed, any number of inputs and any order of answers;  *)
(* what the optimizer recommends, commands, exports and estimates, for any *)
(* models and recipes of the registries; the cards the sizer marks; and    *)
(* what the readers of a test plan make of it, for plans of any size.      *)
(* The pages share no variable.                                            *)
(***************************************************************************)
EXTENDS Pages, FiniteSetTheorems, SequenceTheorems, WellFoundedInduction, TLAPS

\* The forms, and what they ask the server for.
LoadFields == {"target_users", "duration_seconds", "rampup_step_users",
               "rampup_step_seconds", "max_tokens", "request_timeout"}
BenchFields == {"max_tokens", "num_runs"}

Owners   == Runtimes \cup {Nobody}
NamedModels  == Owners \cup {Typed}
Patterns == {"rampup", "constant", "spike", "stress"}

LoadSetups ==
    [kind : {"load test"}, runtime : Owners, model : NamedModels, pattern : Patterns,
     n : [LoadFields -> Int]]

BenchSetups ==
    [kind : {"benchmark"}, runtime : Owners, model : NamedModels, scaling : BOOLEAN,
     prompt : BOOLEAN, template : Nat \cup {NoNumber}, lengths : SUBSET Nat,
     n : [BenchFields -> Int]]

SavedTemplates == [id : Nat, tokens : Nat \ {0}]

\* The lengths of contexts are never empty, nor zero.
LengthsOK(s) == s.kind = "benchmark" => s.lengths # {} /\ \A x \in s.lengths : x > 0

\* Every number but the one that is typed into means something.
SetupOK(s, f) ==
    /\ s \in LoadSetups \cup BenchSetups
    /\ f \in {Nobody} \cup ShownFields(s)
    /\ \A g \in DOMAIN s.n \ {f} : s.n[g] >= 1
    /\ LengthsOK(s)

\* What the browser lets through: a number is empty, or means something.
SentOK(s) ==
    /\ s \in LoadSetups \cup BenchSetups
    /\ \A g \in DOMAIN s.n : s.n[g] = NoNumber \/ s.n[g] >= 1
    /\ LengthsOK(s)
    /\ s.kind = "benchmark" => s.scaling \/ s.prompt

LEMMA Fields ==
  ASSUME NEW s \in LoadSetups \cup BenchSetups
  PROVE  /\ s.kind = "load test" => s \in LoadSetups /\ DOMAIN s.n = LoadFields
         /\ s.kind # "load test" => s \in BenchSetups /\ DOMAIN s.n = BenchFields /\ s.kind = "benchmark"
         /\ ShownFields(s) \subseteq DOMAIN s.n
         /\ Nobody \notin DOMAIN s.n
         /\ \A f \in DOMAIN s.n : s.n[f] \in Int
         /\ \A f \in ShownFields(s) : FieldNumbers(s)[f] \in Nat \ {0}
<1>1. CASE s \in LoadSetups
  <2>1. s.kind = "load test" /\ s.n \in [LoadFields -> Int]
    BY <1>1 DEF LoadSetups
  <2>2. \A f \in LoadFields : LoadTestNumbers[f] \in Nat \ {0}
    BY DEF LoadFields, LoadTestNumbers
  <2>3. DOMAIN s.n = LoadFields /\ \A f \in DOMAIN s.n : s.n[f] \in Int
    BY <2>1
  <2>4. ShownFields(s) \subseteq LoadFields
    BY <2>1, <2>3 DEF ShownFields
  <2>5. Nobody \notin LoadFields
    BY DEF LoadFields, Nobody
  <2> QED BY <1>1, <2>1, <2>2, <2>3, <2>4, <2>5 DEF FieldNumbers
<1>2. CASE s \in BenchSetups
  <2>1. s.kind = "benchmark" /\ s.n \in [BenchFields -> Int]
    BY <1>2 DEF BenchSetups
  <2>2. \A f \in BenchFields : BenchmarkNumbers(s.scaling)[f] \in Nat \ {0}
    BY DEF BenchFields, BenchmarkNumbers
  <2>3. DOMAIN s.n = BenchFields /\ \A f \in DOMAIN s.n : s.n[f] \in Int
    BY <2>1
  <2>4. ShownFields(s) \subseteq BenchFields
    BY <2>1, <2>3 DEF ShownFields
  <2>5. Nobody \notin BenchFields
    BY DEF BenchFields, Nobody
  <2> QED BY <1>2, <2>1, <2>2, <2>3, <2>4, <2>5 DEF FieldNumbers
<1> QED BY <1>1, <1>2

\* What a choice, a number or a template does to a form that is in order.
LEMMA Chosen ==
  ASSUME NEW s, NEW f, SetupOK(s, f), NEW r \in Owners, NEW m \in NamedModels
  PROVE  /\ SetupOK([s EXCEPT !.model = m], f)
         /\ SetupOK([s EXCEPT !.runtime = r, !.model = m], f)
<1>1. CASE s \in LoadSetups
  <2>1. [s EXCEPT !.model = m] \in LoadSetups /\ [s EXCEPT !.runtime = r, !.model = m] \in LoadSetups
    BY <1>1 DEF LoadSetups
  <2> QED BY <1>1, <2>1 DEF LoadSetups, SetupOK, ShownFields, LengthsOK
<1>2. CASE s \in BenchSetups
  <2>1. [s EXCEPT !.model = m] \in BenchSetups /\ [s EXCEPT !.runtime = r, !.model = m] \in BenchSetups
    BY <1>2 DEF BenchSetups
  <2> QED BY <1>2, <2>1 DEF BenchSetups, SetupOK, ShownFields, LengthsOK
<1> QED BY <1>1, <1>2 DEF SetupOK

LEMMA PatternChosen ==
  ASSUME NEW s, SetupOK(s, Nobody), s.kind = "load test", NEW p \in Patterns
  PROVE  SetupOK([s EXCEPT !.pattern = p], Nobody)
<1>1. s \in LoadSetups
  BY Fields DEF SetupOK
<1>2. [s EXCEPT !.pattern = p] \in LoadSetups
  BY <1>1 DEF LoadSetups
<1> QED BY <1>1, <1>2 DEF LoadSetups, SetupOK, LengthsOK

LEMMA NumberTyped ==
  ASSUME NEW s, NEW f, NEW g \in ShownFields(s), SetupOK(s, f), f \in {Nobody, g}, NEW v \in Int
  PROVE  /\ SetupOK([s EXCEPT !.n[g] = v], g)
         /\ v >= 1 => SetupOK([s EXCEPT !.n[g] = v], Nobody)
<1> DEFINE new == [s EXCEPT !.n[g] = v]
<1>1. g \in DOMAIN s.n /\ Nobody \notin DOMAIN s.n /\ \A h \in DOMAIN s.n : s.n[h] \in Int
  BY Fields DEF SetupOK
<1>2. new \in LoadSetups \cup BenchSetups /\ new.n = [s.n EXCEPT ![g] = v] /\ LengthsOK(new) /\ ShownFields(new) = ShownFields(s)
  <2>1. CASE s \in LoadSetups
    <3>1. [s.n EXCEPT ![g] = v] \in [LoadFields -> Int]
      BY <2>1 DEF LoadSetups
    <3> QED BY <2>1, <3>1 DEF LoadSetups, ShownFields, LengthsOK, SetupOK
  <2>2. CASE s \in BenchSetups
    <3>1. [s.n EXCEPT ![g] = v] \in [BenchFields -> Int]
      BY <2>2 DEF BenchSetups
    <3> QED BY <2>2, <3>1 DEF BenchSetups, ShownFields, LengthsOK, SetupOK
  <2> QED BY <2>1, <2>2 DEF SetupOK
<1>3. \A h \in DOMAIN s.n \ {g} : new.n[h] >= 1
  BY <1>1, <1>2 DEF SetupOK
<1>4. DOMAIN new.n = DOMAIN s.n /\ new.n[g] = v
  BY <1>1, <1>2
<1> HIDE DEF new
<1>5. SetupOK(new, g) /\ (v >= 1 => SetupOK(new, Nobody))
  BY <1>2, <1>3, <1>4 DEF SetupOK
<1> QED BY <1>5 DEF new

LEMMA BenchmarkEdited ==
  ASSUME NEW s, NEW f, SetupOK(s, f), s.kind = "benchmark",
         NEW scaling \in BOOLEAN, NEW prompt \in BOOLEAN, NEW lengths \in SUBSET Nat,
         lengths # {}, \A x \in lengths : x > 0
  PROVE  /\ f = Nobody => SetupOK([s EXCEPT !.scaling = scaling], f)
         /\ SetupOK([s EXCEPT !.prompt = prompt], f)
         /\ SetupOK([s EXCEPT !.lengths = lengths], f)
<1>1. s \in BenchSetups /\ DOMAIN s.n = BenchFields
  BY Fields DEF SetupOK
<1>2. /\ [s EXCEPT !.scaling = scaling] \in BenchSetups
      /\ [s EXCEPT !.prompt = prompt] \in BenchSetups
      /\ [s EXCEPT !.lengths = lengths] \in BenchSetups
  BY <1>1 DEF BenchSetups
<1>3. f = Nobody => SetupOK([s EXCEPT !.scaling = scaling], f)
  BY <1>1, <1>2 DEF SetupOK, LengthsOK, BenchSetups
<1>4. SetupOK([s EXCEPT !.prompt = prompt], f)
  BY <1>1, <1>2 DEF SetupOK, LengthsOK, ShownFields, BenchSetups
<1>5. SetupOK([s EXCEPT !.lengths = lengths], f)
  BY <1>1, <1>2 DEF SetupOK, LengthsOK, ShownFields, BenchSetups
<1> QED BY <1>3, <1>4, <1>5

LEMMA TemplateNamed ==
  ASSUME NEW s, NEW f, SetupOK(s, f), s.kind = "benchmark", NEW id \in Nat
  PROVE  SetupOK([s EXCEPT !.template = id], f)
<1>1. s \in BenchSetups /\ DOMAIN s.n = BenchFields
  BY Fields DEF SetupOK
<1>2. [s EXCEPT !.template = id] \in BenchSetups
  BY <1>1 DEF BenchSetups
<1> QED BY <1>1, <1>2 DEF SetupOK, LengthsOK, ShownFields, BenchSetups

LEMMA TemplateChosen ==
  ASSUME NEW s, NEW f, SetupOK(s, f), s.kind = "benchmark", NEW t \in SavedTemplates
  PROVE  SetupOK([s EXCEPT !.prompt = TRUE, !.template = t.id, !.n.max_tokens = t.tokens], f)
<1>1. s \in BenchSetups /\ DOMAIN s.n = BenchFields
  BY Fields DEF SetupOK
<1> DEFINE new == [s EXCEPT !.prompt = TRUE, !.template = t.id, !.n.max_tokens = t.tokens]
<1>2. [s.n EXCEPT !.max_tokens = t.tokens] \in [BenchFields -> Int]
  BY <1>1 DEF BenchSetups, SavedTemplates, BenchFields
<1>3. new \in BenchSetups /\ new.n = [s.n EXCEPT !.max_tokens = t.tokens] /\ new.scaling = s.scaling
      /\ new.lengths = s.lengths /\ new.kind = s.kind
  BY <1>1, <1>2 DEF BenchSetups, SavedTemplates
<1>4. \A h \in DOMAIN new.n \ {f} : new.n[h] >= 1
  BY <1>1, <1>2, <1>3 DEF SetupOK, BenchFields, SavedTemplates
<1>5. ShownFields(new) = ShownFields(s)
  BY <1>1, <1>2, <1>3 DEF ShownFields
<1> HIDE DEF new
<1>6. SetupOK(new, f)
  BY <1>3, <1>4, <1>5 DEF SetupOK, LengthsOK
<1> QED BY <1>6 DEF new

-----------------------------------------------------------------------------
(***************************************************************************)
(* The forms, and what is awaited.                                         *)
(***************************************************************************)
ModelsAnswers == [kind : {"models"}, of : Owners]
ListAnswers   == [kind : {"list"}, then : {"nothing", "pick", "reset"}, id : Nat]
SaveAnswers   == [kind : {"save"}, tokens : Nat \ {0}]
DeleteAnswers == [kind : {"delete"}, id : Nat \ {0}, picked : BOOLEAN]
CreateAnswers ==
    [kind : {"create"}, setup : {s \in LoadSetups \cup BenchSetups : SentOK(s)}, unsure : BOOLEAN]

\* Only a benchmark waits for answers about templates.
Answers(kind) ==
    {Answer("default")} \cup ModelsAnswers \cup CreateAnswers
        \cup (IF kind = "benchmark" THEN ListAnswers \cup SaveAnswers \cup DeleteAnswers ELSE {})

\* The template that is named is the picked one, and only the built-in one has
\* id 0, by which it is found again after a deletion.
TemplatesOK ==
    /\ templates \subseteq SavedTemplates /\ stored \subseteq SavedTemplates /\ picked \in Nat
    /\ BuiltinMedium \in stored
    /\ \A t \in templates \cup stored : t.id = 0 => t = BuiltinMedium

FormInv ==
    /\ SetupOK(setup, focus)
    /\ modelsOf \in Owners
    /\ TemplatesOK
    /\ setup.kind = "benchmark" => setup.template \in {NoNumber, picked}
    /\ unsure \in BOOLEAN
    /\ awaited \subseteq Answers(setup.kind)

\* An input that only edits the form.
LEMMA EditKeepsForm ==
  ASSUME FormInv, unsure' \in BOOLEAN, UNCHANGED <<modelsOf, templates, picked, stored, awaited>>,
         SetupOK(setup', focus'), setup'.kind = setup.kind,
         setup.kind = "benchmark" => setup'.template = setup.template
  PROVE  FormInv'
BY DEF FormInv, TemplatesOK

\* Every kind of answer has its own fields.
LEMMA AnswerKinds ==
  ASSUME NEW kind, NEW a \in Answers(kind)
  PROVE  /\ a.kind = "models" => a \in ModelsAnswers
         /\ a.kind = "create" => a \in CreateAnswers
         /\ a.kind \in {"list", "save", "delete"} => kind = "benchmark"
         /\ a.kind = "list" => a \in ListAnswers
         /\ a.kind = "save" => a \in SaveAnswers
         /\ a.kind = "delete" => a \in DeleteAnswers
<1>1. /\ Answer("default").kind = "default"
      /\ \A b \in ModelsAnswers : b.kind = "models"
      /\ \A b \in CreateAnswers : b.kind = "create"
  BY DEF Answer, ModelsAnswers, CreateAnswers
<1>2. /\ \A b \in ListAnswers : b.kind = "list"
      /\ \A b \in SaveAnswers : b.kind = "save"
      /\ \A b \in DeleteAnswers : b.kind = "delete"
  BY DEF ListAnswers, SaveAnswers, DeleteAnswers
<1>3. \/ a = Answer("default") \/ a \in ModelsAnswers \/ a \in CreateAnswers
      \/ kind = "benchmark" /\ (a \in ListAnswers \/ a \in SaveAnswers \/ a \in DeleteAnswers)
  BY DEF Answers
<1>4. CASE a = Answer("default") \/ a \in ModelsAnswers \/ a \in CreateAnswers
  BY <1>1, <1>4
<1>5. CASE kind = "benchmark" /\ (a \in ListAnswers \/ a \in SaveAnswers \/ a \in DeleteAnswers)
  BY <1>2, <1>5
<1> QED BY <1>3, <1>4, <1>5

\* The lists the form offers hold lengths that mean something.
LEMMA OfferedLengths ==
  ASSUME NEW text \in CONTEXT_PRESETS \cup TypedLengths
  PROVE  {x \in text : x > 0} \in SUBSET Nat
<1>1. \A x \in text : x \in Nat
  BY DEF CONTEXT_PRESETS, TypedLengths
<1> QED BY <1>1

LEMMA InputKeepsForm ==
  ASSUME RunFormsAssumption, FormInv, SetUp
  PROVE  FormInv' /\ setup'.kind = setup.kind
<1> USE DEF FormInv
<1>1. unsure' \in BOOLEAN
  BY DEF SetUp, ChooseRuntime, ChooseModel, ChooseTraffic, TypeNumber, ChooseTestType, EditPrompt,
         EditLengths, HandleTemplateSelect, HandleSaveTemplateSubmit, HandleDeleteTemplate,
         HandleSubmit, Sets, Ventures
<1>2. setup \in LoadSetups \cup BenchSetups
  BY DEF SetupOK
<1>3. CASE ChooseRuntime
  <2>1. PICK r \in Owners : HandleRuntimeChange(r)
    BY <1>3 DEF ChooseRuntime, Owners
  <2>2. SetupOK(setup', focus') /\ setup'.kind = setup.kind
    BY <1>2, <2>1, Chosen DEF HandleRuntimeChange, NamedModels, Owners, LoadSetups, BenchSetups
  <2>3. awaited' \subseteq Answers(setup'.kind)
    BY <2>1, <2>2 DEF HandleRuntimeChange, Answers, ModelsAnswer, ModelsAnswers
  <2>4. setup.kind = "benchmark" => setup'.template = setup.template
    BY <1>2, <2>1, Fields DEF HandleRuntimeChange, BenchSetups
  <2> QED BY <1>1, <2>1, <2>2, <2>3, <2>4 DEF HandleRuntimeChange, TemplatesOK
<1>4. CASE ChooseModel
  <2>1. PICK m \in NamedModels : Sets([setup EXCEPT !.model = m]) /\ UNCHANGED focus
    BY <1>4 DEF ChooseModel, Elsewhere, NamedModels, Owners
  <2>2. SetupOK(setup', focus') /\ setup'.kind = setup.kind
    BY <1>2, <2>1, Chosen DEF Sets, NamedModels, Owners, LoadSetups, BenchSetups
  <2>3. setup.kind = "benchmark" => setup'.template = setup.template
    BY <1>2, <2>1, Fields DEF Sets, BenchSetups
  <2> QED BY <1>1, <2>1, <2>2, <2>3, EditKeepsForm DEF Sets
<1>5. CASE ChooseTraffic
  <2>1. PICK p \in Patterns : Sets([setup EXCEPT !.pattern = p])
    BY <1>5 DEF ChooseTraffic, Patterns
  <2>2. setup.kind = "load test" /\ focus = Nobody /\ focus' = Nobody
    BY <1>5 DEF ChooseTraffic, Elsewhere
  <2>3. SetupOK(setup', focus') /\ setup'.kind = setup.kind
    BY <1>2, <2>1, <2>2, PatternChosen, Fields DEF Sets, LoadSetups
  <2> QED BY <1>1, <2>1, <2>2, <2>3, EditKeepsForm DEF Sets
<1>6. CASE TypeNumber
  <2>1. PICK g \in ShownFields(setup), v \in TypedNumbers \cup {0, NoNumber} :
            focus \in {Nobody, g} /\ focus' = g /\ Sets([setup EXCEPT !.n[g] = v])
    BY <1>6 DEF TypeNumber
  <2>2. v \in Int
    BY <2>1 DEF RunFormsAssumption, NoNumber
  <2>3. SetupOK(setup', focus')
    BY <2>1, <2>2, NumberTyped DEF Sets
  <2>4. setup'.kind = setup.kind /\ (setup.kind = "benchmark" => setup'.template = setup.template)
    BY <1>2, <2>1, Fields DEF Sets, LoadSetups, BenchSetups
  <2> QED BY <1>1, <2>1, <2>3, <2>4, EditKeepsForm DEF Sets
<1>7. CASE ChooseTestType \/ EditPrompt \/ EditLengths
  <2>1. /\ setup.kind = "benchmark" /\ setup \in BenchSetups /\ focus = Nobody /\ focus' = Nobody
        /\ UNCHANGED <<modelsOf, templates, picked, stored, awaited>>
    BY <1>2, <1>7, Fields DEF ChooseTestType, EditPrompt, EditLengths, Elsewhere, Sets
  <2>2. {1} \in SUBSET Nat /\ {1} # {} /\ \A x \in {1} : x > 0
    OBVIOUS
  <2>3. CASE ChooseTestType
    <3>1. PICK b \in BOOLEAN : setup' = [setup EXCEPT !.scaling = b]
      BY <2>3 DEF ChooseTestType, Sets
    <3>2. SetupOK(setup', focus')
      BY <2>1, <2>2, <3>1, BenchmarkEdited
    <3> QED BY <1>1, <2>1, <3>1, <3>2, EditKeepsForm DEF BenchSetups
  <2>4. CASE EditPrompt
    <3>1. PICK b \in BOOLEAN : setup' = [setup EXCEPT !.prompt = b]
      BY <2>4 DEF EditPrompt, Sets
    <3>2. SetupOK(setup', focus')
      BY <2>1, <2>2, <3>1, BenchmarkEdited
    <3> QED BY <1>1, <2>1, <3>1, <3>2, EditKeepsForm DEF BenchSetups
  <2>5. CASE EditLengths
    <3>1. PICK text \in CONTEXT_PRESETS \cup TypedLengths :
              setup' = [setup EXCEPT !.lengths = IF {x \in text : x > 0} = {} THEN @ ELSE {x \in text : x > 0}]
      BY <2>5 DEF EditLengths, Sets
    <3> DEFINE parsed == {x \in text : x > 0}
    <3>2. CASE parsed = {}
      <4>1. setup' = setup
        BY <2>1, <3>1, <3>2 DEF BenchSetups
      <4> QED BY <1>1, <2>1, <4>1, EditKeepsForm
    <3>3. CASE parsed # {}
      <4>1. parsed \in SUBSET Nat /\ \A x \in parsed : x > 0
        BY OfferedLengths
      <4>2. setup' = [setup EXCEPT !.lengths = parsed]
        BY <3>1, <3>3
      <4> HIDE DEF parsed
      <4>3. SetupOK(setup', focus')
        BY <2>1, <2>2, <3>3, <4>1, <4>2, BenchmarkEdited
      <4> QED BY <1>1, <2>1, <4>2, <4>3, EditKeepsForm DEF BenchSetups
    <3> QED BY <3>2, <3>3
  <2> QED BY <1>7, <2>3, <2>4, <2>5
<1>8. CASE HandleTemplateSelect
  <2>1. PICK t \in templates : picked' = t.id /\ WithTemplate(t)
    BY <1>8 DEF HandleTemplateSelect
  <2>2. /\ setup.kind = "benchmark" /\ setup \in BenchSetups /\ t \in SavedTemplates /\ focus' = focus
        /\ UNCHANGED <<modelsOf, templates, stored, awaited>>
    BY <1>2, <1>8, Fields DEF HandleTemplateSelect, Elsewhere, TemplatesOK
  <2>3. SetupOK(setup', focus')
    <3>1. SetupOK([setup EXCEPT !.prompt = TRUE, !.template = t.id, !.n.max_tokens = t.tokens], focus)
      BY <2>2, TemplateChosen
    <3> QED BY <2>1, <2>2, <3>1, Zenon DEF WithTemplate
  <2>4. setup'.kind = setup.kind /\ setup'.template = picked' /\ picked' \in Nat
    BY <2>1, <2>2 DEF WithTemplate, BenchSetups, SavedTemplates
  <2> QED BY <1>1, <2>2, <2>3, <2>4 DEF TemplatesOK
<1>9. CASE HandleSaveTemplateSubmit
  <2>1. /\ setup.kind = "benchmark" /\ setup \in BenchSetups /\ focus = Nobody /\ focus' = focus
        /\ UNCHANGED <<setup, modelsOf, templates, picked, stored>>
        /\ awaited' = awaited \cup {[kind |-> "save", tokens |-> setup.n.max_tokens]}
    BY <1>2, <1>9, Fields DEF HandleSaveTemplateSubmit, Elsewhere
  <2>2. setup.n["max_tokens"] \in Nat \ {0}
    <3>1. "max_tokens" \in DOMAIN setup.n /\ focus # "max_tokens"
      BY <2>1, Fields DEF BenchFields, Nobody
    <3>2. setup.n["max_tokens"] \in Int /\ setup.n["max_tokens"] >= 1
      BY <2>1, <3>1, Fields DEF SetupOK
    <3> QED BY <3>2
  <2>3. [kind |-> "save", tokens |-> setup.n.max_tokens] \in SaveAnswers
    BY <2>2 DEF SaveAnswers
  <2> QED BY <1>1, <2>1, <2>3 DEF Answers, TemplatesOK
<1>10. CASE HandleDeleteTemplate
  <2>1. PICK t \in templates \ {BuiltinMedium} :
            awaited' = awaited \cup {[kind |-> "delete", id |-> t.id, picked |-> picked = t.id]}
    BY <1>10 DEF HandleDeleteTemplate
  <2>2. /\ setup.kind = "benchmark" /\ focus' = focus
        /\ UNCHANGED <<setup, modelsOf, templates, picked, stored>>
    BY <1>10 DEF HandleDeleteTemplate, Elsewhere
  <2>3. t.id \in Nat \ {0} /\ (picked = t.id) \in BOOLEAN
    BY <2>1 DEF TemplatesOK, SavedTemplates
  <2>4. [kind |-> "delete", id |-> t.id, picked |-> picked = t.id] \in DeleteAnswers
    BY <2>3, Zenon DEF DeleteAnswers
  <2> QED BY <1>1, <2>1, <2>2, <2>4 DEF Answers, TemplatesOK
<1>11. CASE HandleSubmit
  <2>1. /\ UNCHANGED <<setup, modelsOf, focus, templates, picked, stored>> /\ SentByBrowser(setup)
        /\ awaited' = awaited \cup {[kind |-> "create", setup |-> setup, unsure |-> unsure']}
    BY <1>11 DEF HandleSubmit
  <2>2. SentOK(setup)
    <3>1. \A g \in DOMAIN setup.n : setup.n[g] = NoNumber \/ setup.n[g] >= 1
      BY <1>2, <2>1, Fields DEF SetupOK, SentByBrowser
    <3>2. setup.kind = "benchmark" => setup.scaling \/ setup.prompt
      BY <2>1 DEF SentByBrowser
    <3> QED BY <1>2, <3>1, <3>2, Zenon DEF SetupOK, SentOK
  <2>3. [kind |-> "create", setup |-> setup, unsure |-> unsure'] \in CreateAnswers
    BY <1>1, <1>2, <2>2 DEF CreateAnswers
  <2> QED BY <1>1, <2>1, <2>3 DEF Answers, TemplatesOK
<1> QED BY <1>3, <1>4, <1>5, <1>6, <1>7, <1>8, <1>9, <1>10, <1>11 DEF SetUp

\* An answer.
LEMMA AnswerKeepsForm ==
  ASSUME RunFormsAssumption, FormInv, Answered
  PROVE  FormInv' /\ setup'.kind = setup.kind
<1> USE DEF FormInv
<1>1. unsure' \in BOOLEAN
  BY DEF Answered, LeaveNumber, DefaultArrives, ModelsArrive, TemplateIsSaved, TemplateIsDeleted,
         ListArrives, RunIsCreated
<1>2. setup \in LoadSetups \cup BenchSetups
  BY DEF SetupOK
<1>3. CASE LeaveNumber
  <2>1. /\ focus # Nobody /\ focus' = Nobody
        /\ setup' = [setup EXCEPT !.n[focus] = IF @ < 1 THEN FieldNumbers(setup)[focus] ELSE @]
        /\ UNCHANGED <<modelsOf, templates, picked, stored, awaited>>
    BY <1>3 DEF LeaveNumber
  <2>2. /\ focus \in ShownFields(setup) /\ setup.n[focus] \in Int
        /\ FieldNumbers(setup)[focus] \in Nat \ {0}
    BY <1>2, <2>1, Fields DEF SetupOK
  <2>3. PICK v \in Int : v >= 1 /\ setup' = [setup EXCEPT !.n[focus] = v]
    <3> DEFINE v == IF setup.n[focus] < 1 THEN FieldNumbers(setup)[focus] ELSE setup.n[focus]
    <3>1. v \in Int /\ v >= 1
      BY <2>2
    <3>2. setup' = [setup EXCEPT !.n[focus] = v]
      BY <2>1
    <3> HIDE DEF v
    <3> QED BY <3>1, <3>2
  <2>4. SetupOK(setup', focus')
    BY <2>1, <2>2, <2>3, NumberTyped
  <2>5. setup'.kind = setup.kind /\ (setup.kind = "benchmark" => setup'.template = setup.template)
    BY <1>2, <2>3, Fields DEF LoadSetups, BenchSetups
  <2> QED BY <1>1, <2>1, <2>4, <2>5, EditKeepsForm
<1>4. CASE DefaultArrives
  <2>1. /\ setup' = [setup EXCEPT !.runtime = DefaultRuntime, !.model = Nobody]
        /\ awaited' = (awaited \ {Answer("default")}) \cup {ModelsAnswer(DefaultRuntime)}
        /\ UNCHANGED <<modelsOf, focus, templates, picked, stored>>
    BY <1>4 DEF DefaultArrives
  <2>2. SetupOK(setup', focus')
    BY <2>1, Chosen DEF NamedModels, Owners, RunFormsAssumption
  <2>3. setup'.kind = setup.kind /\ (setup.kind = "benchmark" => setup'.template = setup.template)
    BY <1>2, <2>1, Fields DEF LoadSetups, BenchSetups
  <2>4. awaited' \subseteq Answers(setup'.kind)
    BY <2>1, <2>3 DEF Answers, ModelsAnswer, ModelsAnswers, Owners, RunFormsAssumption
  <2> QED BY <1>1, <2>1, <2>2, <2>3, <2>4 DEF TemplatesOK
<1>5. CASE ModelsArrive
  <2>1. PICK a \in {b \in awaited : b.kind = "models"} :
            /\ awaited' = awaited \ {a} /\ modelsOf' \in {a.of, Nobody}
            /\ setup' = IF modelsOf' = Nobody THEN setup ELSE [setup EXCEPT !.model = modelsOf']
            /\ UNCHANGED <<focus, templates, picked, stored>>
    BY <1>5 DEF ModelsArrive
  <2>2. modelsOf' \in Owners
    BY <2>1, AnswerKinds DEF ModelsAnswers, Owners
  <2>3. SetupOK(setup', focus')
    BY <2>1, <2>2, Chosen DEF NamedModels
  <2>4. setup'.kind = setup.kind /\ (setup.kind = "benchmark" => setup'.template = setup.template)
    BY <1>2, <2>1, Fields DEF LoadSetups, BenchSetups
  <2> QED BY <1>1, <2>1, <2>2, <2>3, <2>4 DEF TemplatesOK
<1>6. CASE TemplateIsSaved
  <2>1. PICK a \in {b \in awaited : b.kind = "save"}, id \in 2..3 :
            /\ \/ /\ stored' = stored \cup {Template(id, a.tokens)}
                  /\ awaited' = (awaited \ {a}) \cup {ListAnswer("pick", id)}
               \/ awaited' = awaited \ {a} /\ UNCHANGED stored
            /\ UNCHANGED <<setup, modelsOf, focus, templates, picked>>
    BY <1>6 DEF TemplateIsSaved
  <2>2. setup.kind = "benchmark" /\ a.tokens \in Nat \ {0}
    BY <2>1, AnswerKinds DEF SaveAnswers
  <2>3. Template(id, a.tokens) \in SavedTemplates /\ Template(id, a.tokens).id # 0
    BY <2>1, <2>2 DEF Template, SavedTemplates
  <2>4. ListAnswer("pick", id) \in Answers("benchmark")
    BY <2>1 DEF Answers, ListAnswer, ListAnswers
  <2>5. awaited' \subseteq Answers("benchmark")
    BY <2>1, <2>2, <2>4
  <2>6. TemplatesOK'
    BY <2>1, <2>3 DEF TemplatesOK
  <2> QED BY <1>1, <2>1, <2>2, <2>5, <2>6
<1>7. CASE TemplateIsDeleted
  <2>1. PICK a \in {b \in awaited : b.kind = "delete"} :
            /\ stored' = {t \in stored : t.id # a.id} \/ UNCHANGED stored
            /\ \/ awaited' = awaited \ {a}
               \/ \E then \in {"reset", "nothing"} :
                      awaited' = (awaited \ {a}) \cup {ListAnswer(then, a.id)}
            /\ UNCHANGED <<setup, modelsOf, focus, templates, picked>>
    BY <1>7 DEF TemplateIsDeleted
  <2>2. setup.kind = "benchmark" /\ a.id \in Nat \ {0}
    BY <2>1, AnswerKinds DEF DeleteAnswers
  <2>3. \A then \in {"reset", "nothing"} : ListAnswer(then, a.id) \in Answers("benchmark")
    BY <2>2 DEF Answers, ListAnswer, ListAnswers
  <2>4. awaited' \subseteq Answers("benchmark")
    BY <2>1, <2>2, <2>3
  <2>5. TemplatesOK'
    BY <2>1, <2>2 DEF TemplatesOK, BuiltinMedium, Template
  <2> QED BY <1>1, <2>1, <2>2, <2>4, <2>5
<1>8. CASE ListArrives
  <2>1. PICK a \in {b \in awaited : b.kind = "list"} :
            /\ awaited' = awaited \ {a} /\ templates' \in {stored, templates}
            /\ CASE a.then = "nothing" -> UNCHANGED <<picked, setup>>
                 [] a.then = "pick"    -> picked' = a.id /\ setup' = [setup EXCEPT !.template = a.id]
                 [] a.then = "reset"   -> picked' = 0 /\ WithTemplate(BuiltinMedium)
            /\ UNCHANGED <<modelsOf, focus, stored>>
    BY <1>8 DEF ListArrives
  <2>2. /\ setup.kind = "benchmark" /\ setup \in BenchSetups
        /\ a.then \in {"nothing", "pick", "reset"} /\ a.id \in Nat
    <3>1. setup.kind = "benchmark" /\ a \in ListAnswers
      BY <2>1, AnswerKinds
    <3> QED BY <1>2, <3>1, Fields DEF ListAnswers
  <2>3. CASE a.then = "nothing"
    BY <1>1, <2>1, <2>3 DEF TemplatesOK
  <2>4. CASE a.then = "pick"
    <3>1. picked' = a.id /\ setup' = [setup EXCEPT !.template = a.id]
      BY <2>1, <2>4
    <3>2. SetupOK([setup EXCEPT !.template = a.id], focus)
      BY <2>2, TemplateNamed
    <3>3. SetupOK(setup', focus')
      BY <2>1, <3>1, <3>2
    <3>4. setup'.kind = setup.kind /\ setup'.template = picked'
      BY <2>2, <3>1 DEF BenchSetups
    <3>5. TemplatesOK'
      BY <2>1, <2>2, <3>1 DEF TemplatesOK
    <3> QED BY <1>1, <2>1, <2>2, <3>3, <3>4, <3>5
  <2>5. CASE a.then = "reset"
    <3>1. picked' = 0 /\ WithTemplate(BuiltinMedium)
      BY <2>1, <2>5
    <3>2. BuiltinMedium \in SavedTemplates /\ BuiltinMedium.id = 0
      BY DEF BuiltinMedium, Template, SavedTemplates
    <3>3. SetupOK([setup EXCEPT !.prompt = TRUE, !.template = BuiltinMedium.id,
                                !.n.max_tokens = BuiltinMedium.tokens], focus)
      BY <2>2, <3>2, TemplateChosen
    <3>4. SetupOK(setup', focus')
      BY <2>1, <3>1, <3>3, Zenon DEF WithTemplate
    <3>5. setup'.kind = setup.kind /\ setup'.template = picked'
      BY <2>2, <3>1, <3>2 DEF WithTemplate, BenchSetups
    <3>6. TemplatesOK'
      BY <2>1, <3>1 DEF TemplatesOK
    <3> QED BY <1>1, <2>1, <2>2, <3>4, <3>5, <3>6
  <2> QED BY <2>2, <2>3, <2>4, <2>5
<1>9. CASE RunIsCreated
  BY <1>1, <1>9 DEF RunIsCreated, TemplatesOK
<1> QED BY <1>3, <1>4, <1>5, <1>6, <1>7, <1>8, <1>9 DEF Answered

-----------------------------------------------------------------------------
(***************************************************************************)
(* A user who waits for the answers: at most one change is under way, and  *)
(* what the form says is what the runtime and the server said.             *)
(***************************************************************************)
ModelCalm ==
    ~unsure =>
        /\ setup.model \in {Nobody, Typed, setup.runtime}
        /\ \A a \in awaited : a.kind = "models" =>
               a.of = setup.runtime /\ Answer("default") \notin awaited
        /\ modelsOf \in {Nobody, setup.runtime} \/ \E a \in awaited : a.kind = "models"

StoredIds == {t.id : t \in stored}

TemplateCalm ==
    ~unsure /\ setup.kind = "benchmark" =>
        /\ setup.template \in {NoNumber} \cup StoredIds
              \/ \E a \in awaited : a.kind = "list" /\ a.then = "reset"
        /\ templates = stored \/ \E a \in awaited : a.kind = "list"
        /\ \A a \in awaited :
              /\ a.kind \in {"save", "delete"} => awaited = {a}
              /\ a.kind = "list" /\ a.then = "pick" => a.id \in StoredIds
              /\ a.kind = "delete" /\ setup.template = a.id => a.picked

\* The model of a run is of its runtime, or the user did not wait.
AsShown(run) == run.unsure \/ run.setup.model \in {Typed, run.setup.runtime}

StartInv ==
    /\ \A a \in awaited : a.kind = "create" => AsShown(a)
    /\ started.kind = "run" => StartedWithNumbers(started.setup) /\ AsShown(started)

\* What an input leaves of the form's choices.
LEMMA InputKeepsChoices ==
  ASSUME FormInv, SetUp, ~unsure'
  PROVE  /\ ~unsure /\ awaited = {}
         /\ ChooseRuntime \/ ChooseModel \/ (setup'.runtime = setup.runtime /\ setup'.model = setup.model)
         /\ setup.kind = "benchmark" => HandleTemplateSelect \/ setup'.template = setup.template
         /\ ChooseRuntime \/ \A a \in awaited' : a.kind \in {"save", "delete", "create"}
         /\ UNCHANGED <<modelsOf, templates, stored, started>>
<1>1. ~unsure /\ awaited = {}
  BY DEF SetUp, ChooseRuntime, ChooseModel, ChooseTraffic, TypeNumber, ChooseTestType, EditPrompt,
         EditLengths, HandleTemplateSelect, HandleSaveTemplateSubmit, HandleDeleteTemplate,
         HandleSubmit, Sets, Ventures
<1>2. UNCHANGED <<modelsOf, templates, stored, started>>
  BY DEF SetUp, ChooseRuntime, ChooseModel, ChooseTraffic, TypeNumber, ChooseTestType, EditPrompt,
         EditLengths, HandleTemplateSelect, HandleSaveTemplateSubmit, HandleDeleteTemplate,
         HandleSubmit, HandleRuntimeChange, Sets
<1>3. setup \in LoadSetups \cup BenchSetups
  BY DEF FormInv, SetupOK
<1>4. setup.kind = "benchmark" => setup \in BenchSetups
  BY <1>3, Fields
<1>5. CASE ChooseRuntime
  BY <1>1, <1>2, <1>4, <1>5 DEF ChooseRuntime, HandleRuntimeChange, BenchSetups
<1>6. CASE ChooseModel
  BY <1>1, <1>2, <1>4, <1>6 DEF ChooseModel, Sets, BenchSetups
<1>7. CASE ChooseTraffic
  <2>1. setup \in LoadSetups /\ setup.kind # "benchmark"
    BY <1>3, <1>7, Fields DEF ChooseTraffic
  <2> QED BY <1>1, <1>2, <1>7, <2>1 DEF ChooseTraffic, Sets, LoadSetups
<1>8. CASE TypeNumber
  <2>1. PICK g \in ShownFields(setup), v \in TypedNumbers \cup {0, NoNumber} :
            setup' = [setup EXCEPT !.n[g] = v] /\ awaited' = awaited
    BY <1>8 DEF TypeNumber, Sets
  <2>2. setup'.runtime = setup.runtime /\ setup'.model = setup.model
    BY <1>3, <2>1 DEF LoadSetups, BenchSetups
  <2>3. setup.kind = "benchmark" => setup'.template = setup.template
    BY <1>4, <2>1 DEF BenchSetups
  <2> QED BY <1>1, <1>2, <2>1, <2>2, <2>3
<1>9. CASE ChooseTestType \/ EditPrompt \/ EditLengths
  <2>1. setup \in BenchSetups /\ awaited' = awaited
    BY <1>3, <1>9, Fields DEF ChooseTestType, EditPrompt, EditLengths, Sets
  <2>2. /\ setup'.runtime = setup.runtime /\ setup'.model = setup.model
        /\ setup'.template = setup.template
    BY <1>9, <2>1 DEF ChooseTestType, EditPrompt, EditLengths, Sets, BenchSetups
  <2> QED BY <1>1, <1>2, <2>1, <2>2
<1>10. CASE HandleTemplateSelect
  <2>1. PICK t \in templates : WithTemplate(t)
    BY <1>10 DEF HandleTemplateSelect
  <2>2. setup \in BenchSetups /\ awaited' = awaited
    BY <1>3, <1>10, Fields DEF HandleTemplateSelect
  <2>3. setup'.runtime = setup.runtime /\ setup'.model = setup.model
    BY <2>1, <2>2 DEF WithTemplate, BenchSetups
  <2> QED BY <1>1, <1>2, <1>10, <2>2, <2>3
<1>11. CASE HandleSaveTemplateSubmit \/ HandleDeleteTemplate \/ HandleSubmit
  BY <1>1, <1>2, <1>11 DEF HandleSaveTemplateSubmit, HandleDeleteTemplate, HandleSubmit
<1> QED BY <1>5, <1>6, <1>7, <1>8, <1>9, <1>10, <1>11 DEF SetUp

LEMMA InputKeepsCalm ==
  ASSUME FormInv, FormInv', setup'.kind = setup.kind, ModelCalm, TemplateCalm, SetUp
  PROVE  ModelCalm' /\ TemplateCalm'
<1>1. CASE unsure'
  BY <1>1 DEF ModelCalm, TemplateCalm
<1>2. CASE ~unsure'
  <2>1. /\ ~unsure /\ awaited = {} /\ UNCHANGED <<modelsOf, templates, stored>>
        /\ ChooseRuntime \/ ChooseModel \/ (setup'.runtime = setup.runtime /\ setup'.model = setup.model)
        /\ setup.kind = "benchmark" => HandleTemplateSelect \/ setup'.template = setup.template
        /\ ChooseRuntime \/ \A a \in awaited' : a.kind \in {"save", "delete", "create"}
    BY <1>2, InputKeepsChoices
  <2>2. setup.model \in {Nobody, Typed, setup.runtime} /\ modelsOf \in {Nobody, setup.runtime}
    BY <2>1 DEF ModelCalm
  <2>3. setup \in LoadSetups \cup BenchSetups
    BY DEF FormInv, SetupOK
  <2>4. CASE ChooseRuntime
    <3>1. PICK r : /\ setup' = [setup EXCEPT !.runtime = r, !.model = Nobody]
                   /\ awaited' = {ModelsAnswer(r)}
      BY <2>1, <2>4 DEF ChooseRuntime, HandleRuntimeChange
    <3>2. setup'.runtime = r /\ setup'.model = Nobody
      BY <2>3, <3>1 DEF LoadSetups, BenchSetups
    <3>3. ModelCalm'
      BY <3>1, <3>2 DEF ModelCalm, ModelsAnswer, Answer
    <3>4. setup.kind = "benchmark" => setup'.template = setup.template
      BY <2>3, <3>1, Fields DEF BenchSetups
    <3>5. TemplateCalm'
      BY <2>1, <3>1, <3>4 DEF TemplateCalm, ModelsAnswer, StoredIds
    <3> QED BY <3>3, <3>5
  <2>5. CASE ~ChooseRuntime
    <3>1. setup'.runtime = setup.runtime /\ setup'.model \in {Nobody, Typed, setup.runtime}
      <4>1. CASE ChooseModel
        BY <2>2, <2>3, <4>1 DEF ChooseModel, Sets, LoadSetups, BenchSetups
      <4> QED BY <2>1, <2>2, <2>5, <4>1
    <3>2. ModelCalm'
      BY <2>1, <2>2, <2>5, <3>1 DEF ModelCalm
    <3>3. TemplateCalm'
      <4> SUFFICES ASSUME setup.kind = "benchmark"
                   PROVE  TemplateCalm'
        BY DEF TemplateCalm
      <4>1. templates = stored /\ setup.template \in {NoNumber} \cup StoredIds
        BY <2>1 DEF TemplateCalm
      <4>2. setup'.template \in {NoNumber} \cup StoredIds
        <5>1. CASE HandleTemplateSelect
          <6>1. PICK t \in stored : WithTemplate(t)
            BY <4>1, <5>1 DEF HandleTemplateSelect
          <6>2. setup'.template = t.id
            BY <2>3, <6>1, Fields DEF WithTemplate, BenchSetups
          <6> QED BY <6>1, <6>2 DEF StoredIds
        <5> QED BY <2>1, <4>1, <5>1
      <4>3. \A a, b \in awaited' : a = b
        BY <2>1, <2>5 DEF SetUp, ChooseModel, ChooseTraffic, TypeNumber, ChooseTestType, EditPrompt,
                          EditLengths, HandleTemplateSelect, HandleSaveTemplateSubmit,
                          HandleDeleteTemplate, HandleSubmit, Sets
      <4>4. \A a \in awaited' : a.kind = "delete" /\ setup'.template = a.id => a.picked
        <5> SUFFICES ASSUME NEW a \in awaited', a.kind = "delete", setup'.template = a.id
                     PROVE  a.picked
          OBVIOUS
        <5>1. HandleDeleteTemplate
          BY <2>1, <2>5 DEF SetUp, ChooseModel, ChooseTraffic, TypeNumber, ChooseTestType, EditPrompt,
                            EditLengths, HandleTemplateSelect, HandleSaveTemplateSubmit,
                            HandleSubmit, Sets
        <5>2. PICK t \in templates : a = [kind |-> "delete", id |-> t.id, picked |-> picked = t.id]
          BY <2>1, <5>1 DEF HandleDeleteTemplate
        <5>3. setup.template = t.id /\ t.id \in Nat
          BY <5>1, <5>2 DEF HandleDeleteTemplate, FormInv, TemplatesOK, SavedTemplates
        <5>4. picked = t.id
          BY <5>3 DEF FormInv, NoNumber
        <5> QED BY <5>2, <5>4
      <4> QED BY <2>1, <2>5, <4>1, <4>2, <4>3, <4>4 DEF TemplateCalm, StoredIds
    <3> QED BY <3>2, <3>3
  <2> QED BY <2>4, <2>5
<1> QED BY <1>1, <1>2 DEF FormInv

LEMMA AnswerKeepsCalm ==
  ASSUME FormInv, FormInv', setup'.kind = setup.kind, ModelCalm, TemplateCalm, Answered
  PROVE  ModelCalm' /\ TemplateCalm'
<1>1. setup \in LoadSetups \cup BenchSetups /\ (setup.kind = "benchmark" => setup \in BenchSetups)
  <2>1. setup \in LoadSetups \cup BenchSetups
    BY DEF FormInv, SetupOK
  <2> QED BY <2>1, Fields
<1>2. unsure => unsure'
  BY DEF Answered, LeaveNumber, DefaultArrives, ModelsArrive, TemplateIsSaved, TemplateIsDeleted,
         ListArrives, RunIsCreated
<1> SUFFICES ASSUME ~unsure, ~unsure'
             PROVE  ModelCalm' /\ TemplateCalm'
  BY <1>2 DEF FormInv, ModelCalm, TemplateCalm
<1>3. CASE LeaveNumber
  <2>1. PICK v : setup' = [setup EXCEPT !.n[focus] = v]
    BY <1>3 DEF LeaveNumber
  <2>2. setup'.runtime = setup.runtime /\ setup'.model = setup.model
    BY <1>1, <2>1 DEF LoadSetups, BenchSetups
  <2>3. setup.kind = "benchmark" => setup'.template = setup.template
    BY <1>1, <2>1 DEF BenchSetups
  <2>4. UNCHANGED <<modelsOf, templates, stored, awaited>>
    BY <1>3 DEF LeaveNumber
  <2> QED BY <2>2, <2>3, <2>4 DEF ModelCalm, TemplateCalm, StoredIds
<1>4. CASE DefaultArrives
  <2>1. /\ setup' = [setup EXCEPT !.runtime = DefaultRuntime, !.model = Nobody]
        /\ awaited' = (awaited \ {Answer("default")}) \cup {ModelsAnswer(DefaultRuntime)}
        /\ Answer("default") \in awaited /\ UNCHANGED <<modelsOf, templates, stored>>
    BY <1>4 DEF DefaultArrives
  <2>2. setup'.runtime = DefaultRuntime /\ setup'.model = Nobody
    BY <1>1, <2>1 DEF LoadSetups, BenchSetups
  <2>3. setup.kind = "benchmark" => setup'.template = setup.template
    BY <1>1, <2>1 DEF BenchSetups
  <2>4. \A a \in awaited : a.kind # "models"
    BY <2>1 DEF ModelCalm
  <2>5. ModelsAnswer(DefaultRuntime).kind = "models" /\ ModelsAnswer(DefaultRuntime).of = DefaultRuntime
    BY DEF ModelsAnswer
  <2>6. Answer("default").kind = "default"
    BY DEF Answer
  <2>7. ModelCalm'
    BY <2>1, <2>2, <2>4, <2>5, <2>6 DEF ModelCalm
  <2>8. TemplateCalm'
    BY <2>1, <2>3, <2>5, <2>6 DEF TemplateCalm, StoredIds
  <2> QED BY <2>7, <2>8
<1>5. CASE ModelsArrive
  <2>1. PICK a \in {b \in awaited : b.kind = "models"} :
            /\ awaited' = awaited \ {a} /\ modelsOf' \in {a.of, Nobody}
            /\ setup' = IF modelsOf' = Nobody THEN setup ELSE [setup EXCEPT !.model = modelsOf']
            /\ UNCHANGED <<templates, stored>>
    BY <1>5 DEF ModelsArrive
  <2>2. setup'.runtime = setup.runtime /\ setup'.model \in {setup.model, modelsOf'}
    BY <1>1, <2>1 DEF LoadSetups, BenchSetups
  <2>3. setup.kind = "benchmark" => setup'.template = setup.template
    BY <1>1, <2>1 DEF BenchSetups
  <2>4. ModelCalm'
    BY <2>1, <2>2 DEF ModelCalm
  <2>5. TemplateCalm'
    BY <2>1, <2>3 DEF TemplateCalm, StoredIds
  <2> QED BY <2>4, <2>5
<1>6. CASE TemplateIsSaved
  <2>1. PICK a \in {b \in awaited : b.kind = "save"}, id \in 2..3 :
            /\ \/ /\ stored' = stored \cup {Template(id, a.tokens)}
                  /\ awaited' = (awaited \ {a}) \cup {ListAnswer("pick", id)}
               \/ awaited' = awaited \ {a} /\ UNCHANGED stored
            /\ UNCHANGED <<setup, modelsOf, templates>>
    BY <1>6 DEF TemplateIsSaved
  <2>2. setup.kind = "benchmark"
    BY <2>1, AnswerKinds DEF FormInv
  <2>3. awaited = {a}
    BY <2>1, <2>2 DEF TemplateCalm
  <2>4. /\ ListAnswer("pick", id).kind = "list" /\ ListAnswer("pick", id).then = "pick"
        /\ ListAnswer("pick", id).id = id /\ Template(id, a.tokens).id = id
    BY DEF ListAnswer, Template
  <2>5. ModelCalm'
    BY <2>1, <2>3, <2>4 DEF ModelCalm
  <2>6. TemplateCalm'
    BY <2>1, <2>2, <2>3, <2>4 DEF TemplateCalm, StoredIds
  <2> QED BY <2>5, <2>6
<1>7. CASE TemplateIsDeleted
  <2>1. PICK a \in {b \in awaited : b.kind = "delete"} :
            /\ \/ /\ stored' = {t \in stored : t.id # a.id}
                  /\ awaited' = (awaited \ {a})
                         \cup {ListAnswer(IF a.picked THEN "reset" ELSE "nothing", a.id)}
               \/ awaited' = awaited \ {a} /\ UNCHANGED stored
            /\ UNCHANGED <<setup, modelsOf, templates>>
    BY <1>7 DEF TemplateIsDeleted
  <2>2. setup.kind = "benchmark"
    BY <2>1, AnswerKinds DEF FormInv
  <2>3. awaited = {a} /\ (setup.template = a.id => a.picked)
    BY <2>1, <2>2 DEF TemplateCalm
  <2>4. \A then : ListAnswer(then, a.id).kind = "list" /\ ListAnswer(then, a.id).then = then
    BY DEF ListAnswer
  <2>5. ModelCalm'
    BY <2>1, <2>3, <2>4 DEF ModelCalm
  <2>6. setup.template \in {NoNumber} \cup StoredIds
    BY <2>1, <2>2, <2>3 DEF TemplateCalm
  <2>7. TemplateCalm'
    <3>1. CASE awaited' = awaited \ {a} /\ UNCHANGED stored
      BY <2>1, <2>2, <2>3, <2>6, <3>1 DEF TemplateCalm, StoredIds
    <3>2. CASE /\ stored' = {t \in stored : t.id # a.id} /\ a.picked
               /\ awaited' = (awaited \ {a}) \cup {ListAnswer("reset", a.id)}
      BY <2>1, <2>3, <2>4, <3>2 DEF TemplateCalm
    <3>3. CASE /\ stored' = {t \in stored : t.id # a.id} /\ ~a.picked
               /\ awaited' = (awaited \ {a}) \cup {ListAnswer("nothing", a.id)}
      <4>1. setup'.template \in {NoNumber} \cup StoredIds'
        BY <2>1, <2>3, <2>6, <3>3 DEF StoredIds
      <4> QED BY <2>3, <2>4, <3>3, <4>1 DEF TemplateCalm
    <3> QED BY <2>1, <3>1, <3>2, <3>3
  <2> QED BY <2>5, <2>7
<1>8. CASE ListArrives
  <2>1. PICK a \in {b \in awaited : b.kind = "list"} :
            /\ awaited' = awaited \ {a} /\ unsure' = (unsure \/ templates' # stored)
            /\ CASE a.then = "nothing" -> UNCHANGED <<picked, setup>>
                 [] a.then = "pick"    -> picked' = a.id /\ setup' = [setup EXCEPT !.template = a.id]
                 [] a.then = "reset"   -> picked' = 0 /\ WithTemplate(BuiltinMedium)
            /\ UNCHANGED <<modelsOf, stored>>
    BY <1>8 DEF ListArrives
  <2>2. setup.kind = "benchmark" /\ setup \in BenchSetups /\ a \in ListAnswers
    BY <1>1, <2>1, AnswerKinds DEF FormInv
  <2>3. a.then \in {"nothing", "pick", "reset"}
    BY <2>2 DEF ListAnswers
  <2>4. templates' = stored'
    BY <2>1
  <2>5. setup'.runtime = setup.runtime /\ setup'.model = setup.model
    BY <2>1, <2>2, <2>3 DEF WithTemplate, BenchSetups
  <2>6. ModelCalm'
    BY <2>1, <2>5 DEF ModelCalm
  <2>7. \A b \in awaited : b.kind \notin {"save", "delete"}
    BY <2>1, <2>2 DEF TemplateCalm
  <2>8. \/ setup'.template \in {NoNumber} \cup StoredIds'
        \/ \E b \in awaited' : b.kind = "list" /\ b.then = "reset"
    <3>1. CASE a.then = "nothing"
      BY <2>1, <2>2, <3>1 DEF TemplateCalm, StoredIds
    <3>2. CASE a.then = "pick"
      <4>1. setup'.template = a.id
        BY <2>1, <2>2, <3>2 DEF BenchSetups
      <4> QED BY <2>1, <2>2, <3>2, <4>1 DEF TemplateCalm, StoredIds
    <3>3. CASE a.then = "reset"
      <4>1. setup'.template = BuiltinMedium.id
        BY <2>1, <2>2, <3>3 DEF WithTemplate, BenchSetups
      <4>2. BuiltinMedium \in stored'
        BY <2>1 DEF FormInv, TemplatesOK
      <4> QED BY <4>1, <4>2 DEF StoredIds
    <3> QED BY <2>3, <3>1, <3>2, <3>3
  <2>9. TemplateCalm'
    BY <2>1, <2>2, <2>4, <2>7, <2>8 DEF TemplateCalm, StoredIds
  <2> QED BY <2>6, <2>9
<1>9. CASE RunIsCreated
  <2>1. PICK a \in {b \in awaited : b.kind = "create"} :
            awaited' = awaited \ {a} /\ UNCHANGED <<setup, modelsOf, templates, stored>>
    BY <1>9 DEF RunIsCreated
  <2>2. ModelCalm' /\ TemplateCalm'
    BY <2>1 DEF ModelCalm, TemplateCalm, StoredIds
  <2> QED BY <2>2
<1> QED BY <1>3, <1>4, <1>5, <1>6, <1>7, <1>8, <1>9 DEF Answered

\* A run is started with what was sent, if no number was empty.
LEMMA StartKept ==
  ASSUME RunFormsAssumption, FormInv, ModelCalm, StartInv, SetUp \/ Answered
  PROVE  StartInv'
<1>1. CASE SetUp
  <2>1. started' = started
    BY <1>1 DEF SetUp, ChooseRuntime, ChooseModel, ChooseTraffic, TypeNumber, ChooseTestType, EditPrompt,
         EditLengths, HandleTemplateSelect, HandleSaveTemplateSubmit, HandleDeleteTemplate,
         HandleSubmit, HandleRuntimeChange, Sets
  <2>2. CASE HandleSubmit
    <3>1. /\ awaited' = awaited \cup {[kind |-> "create", setup |-> setup, unsure |-> unsure']}
          /\ setup.model # Nobody /\ unsure' = (unsure \/ awaited # {})
      BY <2>2 DEF HandleSubmit, Ventures
    <3>2. unsure' \/ setup.model \in {Typed, setup.runtime}
      BY <3>1 DEF ModelCalm
    <3>3. AsShown([kind |-> "create", setup |-> setup, unsure |-> unsure'])
      BY <3>2, Zenon DEF AsShown
    <3> QED BY <2>1, <3>1, <3>3 DEF StartInv
  <2>3. CASE ~HandleSubmit
    <3>1. \A a \in awaited' : a.kind = "create" => a \in awaited
      <4>1. CASE ChooseRuntime
        <5>1. PICK r : awaited' = awaited \cup {ModelsAnswer(r)}
          BY <4>1 DEF ChooseRuntime, HandleRuntimeChange
        <5>2. ModelsAnswer(r).kind = "models"
          BY DEF ModelsAnswer
        <5> QED BY <5>1, <5>2
      <4>2. CASE HandleSaveTemplateSubmit \/ HandleDeleteTemplate
        BY <4>2 DEF HandleSaveTemplateSubmit, HandleDeleteTemplate
      <4>3. CASE \/ ChooseModel \/ ChooseTraffic \/ TypeNumber \/ ChooseTestType \/ EditPrompt
                 \/ EditLengths \/ HandleTemplateSelect
        BY <4>3 DEF ChooseModel, ChooseTraffic, TypeNumber, ChooseTestType, EditPrompt,
                    EditLengths, HandleTemplateSelect, Sets
      <4> QED BY <1>1, <2>3, <4>1, <4>2, <4>3 DEF SetUp
    <3> QED BY <2>1, <3>1 DEF StartInv
  <2> QED BY <2>2, <2>3
<1>2. CASE Answered
  <2>1. CASE RunIsCreated
    <3>1. PICK a \in {b \in awaited : b.kind = "create"} :
              /\ awaited' = awaited \ {a}
              /\ IF \E f \in DOMAIN a.setup.n : a.setup.n[f] = NoNumber THEN UNCHANGED started
                 ELSE started' \in {started, [kind |-> "run", setup |-> a.setup, unsure |-> a.unsure]}
      BY <2>1 DEF RunIsCreated
    <3>2. SentOK(a.setup) /\ AsShown(a)
      BY <3>1, AnswerKinds DEF FormInv, CreateAnswers, StartInv
    <3>3. CASE started' = started
      BY <3>1, <3>3 DEF StartInv
    <3>4. CASE /\ started' = [kind |-> "run", setup |-> a.setup, unsure |-> a.unsure]
               /\ \A f \in DOMAIN a.setup.n : a.setup.n[f] # NoNumber
      <4>1. StartedWithNumbers(a.setup)
        BY <3>2, <3>4 DEF SentOK, LengthsOK, StartedWithNumbers
      <4>2. started'.setup = a.setup /\ started'.unsure = a.unsure
        BY <3>4
      <4>3. StartedWithNumbers(started'.setup) /\ AsShown(started')
        BY <3>2, <4>1, <4>2 DEF AsShown
      <4> QED BY <3>1, <4>3 DEF StartInv
    <3> QED BY <3>1, <3>3, <3>4
  <2>2. CASE ~RunIsCreated
    <3>1. started' = started
      BY <1>2, <2>2 DEF Answered, LeaveNumber, DefaultArrives, ModelsArrive, TemplateIsSaved,
                        TemplateIsDeleted, ListArrives
    <3>2. \A a \in awaited' : a.kind = "create" => a \in awaited
      <4>1. CASE DefaultArrives \/ ModelsArrive
        <5>1. ModelsAnswer(DefaultRuntime).kind = "models"
          BY DEF ModelsAnswer
        <5> QED BY <4>1, <5>1 DEF DefaultArrives, ModelsArrive
      <4>2. CASE TemplateIsSaved \/ TemplateIsDeleted
        <5>1. \A then, id : ListAnswer(then, id).kind = "list"
          BY DEF ListAnswer
        <5>2. awaited' \subseteq awaited \/ \E then, id : awaited' \subseteq awaited \cup {ListAnswer(then, id)}
          BY <4>2 DEF TemplateIsSaved, TemplateIsDeleted
        <5> QED BY <5>1, <5>2
      <4>3. CASE LeaveNumber \/ ListArrives
        BY <4>3 DEF LeaveNumber, ListArrives
      <4> QED BY <1>2, <2>2, <4>1, <4>2, <4>3 DEF Answered
    <3> QED BY <3>1, <3>2 DEF StartInv
  <2> QED BY <2>1, <2>2
<1> QED BY <1>1, <1>2

\* The benchmark's form is in order when its page opens.
LEMMA BenchmarkStarts == SetupOK(BenchmarkSetup, Nobody)
<1>1. ASSUME NEW n \in [BenchFields -> Int], \A f \in BenchFields : n[f] >= 1, NEW o \in Owners,
             NEW b \in BOOLEAN, NEW t \in Nat \cup {NoNumber},
             NEW l \in SUBSET Nat, l # {}, \A x \in l : x > 0
      PROVE  SetupOK([kind |-> "benchmark", runtime |-> o, model |-> o, scaling |-> b, prompt |-> b,
                      template |-> t, lengths |-> l, n |-> n], Nobody)
  <2> DEFINE s == [kind |-> "benchmark", runtime |-> o, model |-> o, scaling |-> b, prompt |-> b,
                   template |-> t, lengths |-> l, n |-> n]
  <2>1. s \in BenchSetups
    BY <1>1 DEF BenchSetups, NamedModels
  <2>2. s.n = n /\ s.lengths = l
    OBVIOUS
  <2> HIDE DEF s
  <2>3. SetupOK(s, Nobody)
    BY <1>1, <2>1, <2>2 DEF SetupOK, LengthsOK
  <2> QED BY <2>3 DEF s
<1>2. BenchmarkNumbers(FALSE) \in [BenchFields -> Int] /\ \A f \in BenchFields : BenchmarkNumbers(FALSE)[f] >= 1
  BY DEF BenchFields, BenchmarkNumbers
<1>3. /\ {100, 500, 1000, 2000} \in SUBSET Nat /\ {100, 500, 1000, 2000} # {}
      /\ \A x \in {100, 500, 1000, 2000} : x > 0
  OBVIOUS
<1>4. Nobody \in Owners /\ NoNumber \in Nat \cup {NoNumber} /\ FALSE \in BOOLEAN
  BY DEF Owners
<1> DEFINE lengths == {100, 500, 1000, 2000}
           numbers == BenchmarkNumbers(FALSE)
<1> HIDE DEF lengths, numbers
<1>5. /\ numbers \in [BenchFields -> Int] /\ \A f \in BenchFields : numbers[f] >= 1
      /\ lengths \in SUBSET Nat /\ lengths # {} /\ \A x \in lengths : x > 0
  <2>1. numbers \in [BenchFields -> Int] /\ \A f \in BenchFields : numbers[f] >= 1
    BY <1>2, Zenon DEF numbers
  <2>2. lengths \in SUBSET Nat /\ lengths # {} /\ \A x \in lengths : x > 0
    BY <1>3 DEF lengths
  <2> QED BY <2>1, <2>2
<1>6. SetupOK([kind |-> "benchmark", runtime |-> Nobody, model |-> Nobody, scaling |-> FALSE,
               prompt |-> FALSE, template |-> NoNumber, lengths |-> lengths, n |-> numbers], Nobody)
  BY <1>1, <1>4, <1>5
<1> QED BY <1>6 DEF BenchmarkSetup, lengths, numbers

\* A run starts with numbers that mean something, whatever is typed, left and
\* answered in between; and for a user who waits for the answers the model is
\* one of the runtime's and the template one of the server's (LoadTest.jsx and
\* Benchmark.jsx, handleSubmit).
THEOREM StartedCorrect == Spec => []StartedAsShown
<1> DEFINE Inv == FormInv /\ ModelCalm /\ TemplateCalm /\ StartInv
<1>1. PagesInit => Inv
  <2> SUFFICES ASSUME PagesInit
               PROVE  Inv
    OBVIOUS
  <2>1. /\ setup \in {LoadTestSetup, BenchmarkSetup}
        /\ modelsOf = Nobody /\ focus = Nobody /\ templates = {} /\ picked = 0
        /\ stored = {BuiltinMedium, Template(1, 300)}
        /\ awaited = {Answer("default")} \cup {a \in {ListAnswer("nothing", 0)} : setup.kind = "benchmark"}
        /\ unsure = FALSE /\ started = Answer("none")
    BY DEF PagesInit, RunFormsInit
  <2>2. SetupOK(setup, focus) /\ setup.model = Nobody
    <3>1. CASE setup = LoadTestSetup
      <4>1. \A f \in LoadFields : LoadTestNumbers[f] >= 1
        BY DEF LoadFields, LoadTestNumbers
      <4>2. LoadTestNumbers \in [LoadFields -> Int]
        BY DEF LoadFields, LoadTestNumbers
      <4>3. LoadTestSetup \in LoadSetups
        BY <4>2 DEF LoadTestSetup, LoadSetups, Owners, NamedModels, Patterns
      <4>4. LoadTestSetup.n = LoadTestNumbers /\ LoadTestSetup.kind = "load test" /\ LoadTestSetup.model = Nobody
        BY DEF LoadTestSetup
      <4> HIDE DEF LoadTestSetup
      <4>5. SetupOK(LoadTestSetup, Nobody)
        BY <4>1, <4>2, <4>3, <4>4 DEF SetupOK, LengthsOK
      <4> QED BY <2>1, <3>1, <4>4, <4>5
    <3>2. CASE setup = BenchmarkSetup
      <4>1. SetupOK(BenchmarkSetup, Nobody)
        BY BenchmarkStarts
      <4>2. BenchmarkSetup.model = Nobody
        BY DEF BenchmarkSetup
      <4> QED BY <2>1, <3>2, <4>1, <4>2
    <3> QED BY <2>1, <3>1, <3>2
  <2>3. setup.kind = "benchmark" => setup.template = NoNumber
    <3>1. LoadTestSetup.kind = "load test" /\ BenchmarkSetup.template = NoNumber
      BY DEF BenchmarkSetup, LoadTestSetup
    <3> QED BY <2>1, <3>1
  <2>4. TemplatesOK
    BY <2>1 DEF TemplatesOK, BuiltinMedium, Template, SavedTemplates
  <2>5. awaited \subseteq Answers(setup.kind)
    BY <2>1 DEF Answers, ListAnswer, ListAnswers
  <2>6. FormInv
    BY <2>1, <2>2, <2>3, <2>4, <2>5 DEF FormInv, Owners
  <2>7. \A a \in awaited : a.kind \in {"default", "list"} /\ (a.kind = "list" => a.then = "nothing")
    BY <2>1 DEF Answer, ListAnswer
  <2>8. setup.kind = "benchmark" => \E a \in awaited : a.kind = "list"
    <3>1. ListAnswer("nothing", 0).kind = "list"
      BY DEF ListAnswer
    <3> QED BY <2>1, <3>1
  <2>9. started.kind # "run"
    BY <2>1 DEF Answer
  <2> QED BY <2>1, <2>2, <2>3, <2>6, <2>7, <2>8, <2>9 DEF ModelCalm, TemplateCalm, StartInv
<1>2. Inv /\ [Next]_pagesVars => Inv'
  <2> SUFFICES ASSUME Inv, [Next]_pagesVars
               PROVE  Inv'
    OBVIOUS
  <2>1. SetUp \/ Answered \/ UNCHANGED runFormVars
    BY DEF Next, pagesVars
  <2>2. CASE SetUp \/ Answered
    <3>1. FormInv' /\ setup'.kind = setup.kind
      BY <2>2, RunFormsAssumption, InputKeepsForm, AnswerKeepsForm
    <3> QED BY <2>2, <3>1, RunFormsAssumption, InputKeepsCalm, AnswerKeepsCalm, StartKept
  <2>3. CASE UNCHANGED runFormVars
    BY <2>3 DEF runFormVars, FormInv, TemplatesOK, ModelCalm, TemplateCalm, StartInv, StoredIds
  <2> QED BY <2>1, <2>2, <2>3
<1>3. Inv => StartedAsShown
  BY DEF StartInv, AsShown, TemplateCalm, StoredIds, StartedAsShown, FormInv
<1> QED BY <1>1, <1>2, <1>3, PTL DEF Spec

-----------------------------------------------------------------------------
(***************************************************************************)
(* What the optimizer commands and recommends.                             *)
(***************************************************************************)
\* What the optimizer needs of a model: that what is recommended for it can be
\* served.
Servable(m) ==
    /\ m.maxContext \in Int /\ m.recommendedContext \in Int /\ m.attentionHeads \in Int
    /\ m.recommendedContext <= m.maxContext
    /\ m.attentionHeads % GetRecommendedGpuForModel(m).suggestedTp = 0

\* The parallelism that is recommended, by the number of parameters.
SuggestedTp(n) == IF n <= 3500 THEN 1 ELSE IF n <= 7200 THEN 2 ELSE 8

LEMMA TpByParams ==
  ASSUME NEW m, m.params \in Int
  PROVE  GetRecommendedGpuForModel(m).suggestedTp = SuggestedTp(m.params)
BY DEF GetRecommendedGpuForModel, SuggestedTp

LEMMA CatalogIsServable ==
  ASSUME NEW m \in GLOBAL_MODEL_CATALOG
  PROVE  Servable(m) /\ m.maxContext >= 8192
<1>1. /\ m.maxContext \in Int /\ m.recommendedContext \in Int /\ m.attentionHeads \in Int
      /\ m.recommendedContext <= m.maxContext /\ m.maxContext >= 8192 /\ m.params \in Int
      /\ m.attentionHeads % SuggestedTp(m.params) = 0
  BY DEF GLOBAL_MODEL_CATALOG, LlamaModels, QwenModels, DistilledModels, OtherModels,
         Model, Vision, SuggestedTp
<1> QED BY <1>1, TpByParams DEF Servable

LEMMA PresetsHaveSizes ==
  ASSUME NEW n \in ModelNames \cup ConnectedNames
  PROVE  ParseModelName(n).params \in Int
<1>1. CASE n.preset = "none"
  BY <1>1, NamesAssumption DEF ParseModelName
<1>2. CASE n.preset # "none"
  <2>1. \E p \in MODEL_PRESETS : p.name = n.preset
    BY <1>2, NamesAssumption
  <2>2. Named(MODEL_PRESETS, n.preset) \in MODEL_PRESETS
    BY <2>1 DEF Named
  <2>3. \A p \in MODEL_PRESETS : p.params \in Int
    BY DEF MODEL_PRESETS, Preset
  <2> QED BY <1>2, <2>2, <2>3 DEF ParseModelName
<1> QED BY <1>1, <1>2

LEMMA NamedIsServable ==
  ASSUME NEW n \in ModelNames \cup ConnectedNames
  PROVE  Servable(NamedModel(n))
<1> DEFINE p == ParseModelName(n)
           m == NamedModel(n)
<1>1. /\ m.maxContext = 32768 /\ m.recommendedContext = 4096 /\ m.attentionHeads = 32
      /\ m.params = p.params
  BY DEF NamedModel, Model
<1>2. p.params \in Int
  BY PresetsHaveSizes
<1>3. 32 % SuggestedTp(p.params) = 0
  BY DEF SuggestedTp
<1> HIDE DEF p, m
<1> QED BY <1>1, <1>2, <1>3, TpByParams DEF Servable, m

\* The command passes what a version must not be given only where
\* generateVllmCommand asks for the version.
LEMMA CommandByVersion ==
  ASSUME version \in VLLM_VERSIONS
  PROVE  CommandIsAccepted
<1> SUFFICES ASSUME NEW f \in DOMAIN PassedFlags, PassedFlags[f],
                    f \in version.omitFromCli \cup version.unsupportedFlags
             PROVE  f = "cpuOffloadGb"
  BY DEF CommandIsAccepted, GenerateVllmCommand
<1>1. f \notin {"maxNumPartialPrefills", "maxLongPartialPrefills"}
  BY DEF PassedFlags
<1>2. CASE f \in {"enablePrefixCaching", "enableChunkedPrefill", "numSchedulerSteps"}
  <2>1. /\ PassedFlags["enablePrefixCaching"] => OldEngineOnly
        /\ PassedFlags["enableChunkedPrefill"] => OldEngineOnly
        /\ PassedFlags["numSchedulerSteps"] => OldEngineOnly
    BY DEF PassedFlags
  <2>2. OldEngineOnly
    BY <1>2, <2>1
  <2> QED BY <1>2, <2>2 DEF VLLM_VERSIONS, Version, OldEngineOnly, IsLegacy
<1>3. CASE f \in {"kvCacheDtype", "enableSpeculative", "maxNumBatchedTokens"}
  <2>1. /\ PassedFlags["kvCacheDtype"] => ~IsLegacy
        /\ PassedFlags["enableSpeculative"] => ~IsLegacy
        /\ PassedFlags["maxNumBatchedTokens"] => ~IsLegacy
    BY DEF PassedFlags
  <2>2. ~IsLegacy
    BY <1>3, <2>1
  <2> QED BY <1>3, <2>2 DEF VLLM_VERSIONS, Version, IsLegacy
<1> QED BY <1>1, <1>2, <1>3 DEF VLLM_VERSIONS, Version

\* What is recommended stays servable: the page's parts between two inputs.
OptimizerInv ==
    /\ version \in VLLM_VERSIONS
    /\ Servable(model) /\ \A m \in connected : Servable(m)
    /\ {"maxModelLen", "tensorParallelSize"} \subseteq DOMAIN flags
    /\ {"length", "tp"} \subseteq DOMAIN by
    /\ flags.maxModelLen \in Int /\ profile \in Nat
    /\ editing = "length" => by.length = "user"
    /\ RecommendedIsServable

\* A recipe that came from its control left a flag behind only if it has an
\* argument of its own, which overrides the flag.
RecipeInv ==
    /\ recipe \in QUANTIZATION_RECIPES
    /\ {"quantization", "loadFormat"} \subseteq DOMAIN flags
    /\ "recipe" \in DOMAIN by
    /\ flags.loadFormat = "auto"
    /\ by.recipe = "control" => HasArgument(recipe) \/ flags.quantization = "none"

\* Nothing that the invariant is about changes.
Beside ==
    /\ version' \in VLLM_VERSIONS
    /\ UNCHANGED <<model, connected>> /\ profile' \in {profile, 0}
    /\ by'.length = by.length /\ by'.tp = by.tp /\ DOMAIN by' = DOMAIN by
    /\ flags'.maxModelLen = flags.maxModelLen /\ DOMAIN flags' = DOMAIN flags
    /\ flags'.tensorParallelSize = flags.tensorParallelSize
    /\ editing' = editing \/ editing' # "length"

LEMMA BesideKeeps ==
  ASSUME OptimizerInv, Beside
  PROVE  OptimizerInv'
BY DEF OptimizerInv, Beside, RecommendedIsServable, ValidTp, Smaller

\* A flag that is neither the length nor the parallelism.
LEMMA FlagBeside ==
  ASSUME OptimizerInv, NEW f, f \notin {"maxModelLen", "tensorParallelSize"},
         NEW v, UpdateFlag(f, v)
  PROVE  Beside
BY DEF OptimizerInv, UpdateFlag, Beside, sideVars

LEMMA ToggleBeside ==
  ASSUME OptimizerInv, NEW f, f \notin {"maxModelLen", "tensorParallelSize"}, Toggle(f)
  PROVE  Beside
BY DEF OptimizerInv, Toggle, UpdateFlag, Beside, sideVars

LEMMA LengthIsWhole ==
  ASSUME NEW p \in Nat, NEW c \in Nat
  PROVE  /\ SafeContext(p + c) \in Int /\ SafeContext(p + c) <= 32768
         /\ Smaller(32768, p + c) <= SafeContext(p + c)
BY DEF SafeContext, Larger, Smaller

\* The controls of flags.
LEMMA ControlsBeside ==
  ASSUME OptimizerInv,
         \/ MemoryControls \/ SchedulerControls \/ LogControls \/ ChoosePipeline
         \/ SpeculativeControls \/ NameControls \/ LoraControls \/ ToolControls
  PROVE  Beside
<1> HIDE DEF OptimizerInv, Beside
<1>1. CASE MemoryControls
  <2>1. ASSUME NEW v, \/ UpdateFlag("gpuMemoryUtilization", v) \/ UpdateFlag("kvCacheDtype", v)
                      \/ UpdateFlag("cpuOffloadGb", v)
        PROVE  Beside
    BY <2>1, FlagBeside
  <2> QED BY <1>1, <2>1, ToggleBeside DEF MemoryControls
<1>2. CASE SchedulerControls \/ LogControls \/ ChoosePipeline
  BY <1>2, ToggleBeside DEF SchedulerControls, LogControls, ChoosePipeline
<1>3. CASE SpeculativeControls \/ NameControls
  BY <1>3, FlagBeside, ToggleBeside DEF SpeculativeControls, NameControls
<1>4. CASE LoraControls \/ ToolControls
  BY <1>4, FlagBeside, ToggleBeside DEF LoraControls, ToolControls
<1> QED BY <1>1, <1>2, <1>3, <1>4

\* The inputs and answers that touch neither model, length nor parallelism.
LEMMA OthersBeside ==
  ASSUME OptimizerInv, OptimizerAssumption,
         \/ SelectVersion \/ SelectGpu \/ SwitchToAwq \/ ChooseConcurrency \/ ChooseScalingMode
         \/ \E r \in Recipes : SelectRecipe(r) \/ ClickDot(r)
         \/ \E n \in TriedUsers \cup {0} : TypeConcurrency(n)
         \/ PruneUnsupportedFlags \/ Consult
         \/ LeaveConcurrency \/ RecentRunsArrive \/ Recheck
  PROVE  Beside
<1> USE DEF OptimizerInv, Beside
<1>1. CASE SelectVersion \/ SelectGpu \/ SwitchToAwq \/ ChooseConcurrency \/ ChooseScalingMode
  BY <1>1, OptimizerAssumption DEF SelectVersion, SelectGpu, SwitchToAwq, ChooseConcurrency,
     ChooseScalingMode, sideVars
<1>2. ASSUME NEW r \in Recipes, SelectRecipe(r) \/ ClickDot(r) PROVE Beside
  BY <1>2 DEF SelectRecipe, ClickDot, sideVars
<1>3. CASE \E n \in TriedUsers \cup {0} : TypeConcurrency(n)
  BY <1>3 DEF TypeConcurrency, sideVars
<1>4. CASE PruneUnsupportedFlags
  BY <1>4 DEF PruneUnsupportedFlags, Pruned
<1>5. CASE Consult
  BY <1>5 DEF Consult, ToggleRunPicker, CloseRunPicker, DropProfile, TypeHelp, AnalyzeHelpOutput,
     LoadSample, ClearHelp, ParseStartupLog, engineVars
<1>6. CASE LeaveConcurrency \/ RecentRunsArrive \/ Recheck
  BY <1>6 DEF LeaveConcurrency, RecentRunsArrive, Recheck, engineVars, sideVars
<1> QED BY <1>1, <1>2, <1>3, <1>4, <1>5, <1>6

\* Another model is chosen, by itself or with a run's traffic.
LEMMA AdoptKeeps ==
  ASSUME OptimizerInv, NEW m, Servable(m), NEW length \in Int, Adopt(m, length),
         UNCHANGED <<version, connected, editing>>, Idle, profile' \in Nat,
         DOMAIN by' = DOMAIN by, by'.length = "control" => length <= m.maxContext,
         by'.length = "traffic" => Smaller(32768, profile') <= length /\ length <= 32768
  PROVE  OptimizerInv'
<1>1. /\ flags'.maxModelLen = length /\ DOMAIN flags' = DOMAIN flags
      /\ flags'.tensorParallelSize = GetRecommendedGpuForModel(m).suggestedTp /\ model' = m
  BY DEF Adopt, OptimizerInv
<1>2. RecommendedIsServable'
  BY <1>1 DEF RecommendedIsServable, ValidTp, Servable
<1> QED BY <1>1, <1>2 DEF OptimizerInv, Idle

LEMMA ModelsKeep ==
  ASSUME OptimizerInv, OptimizerAssumption,
         \/ \E m \in Models \cup connected : HandleSelectModel(m)
         \/ \E n \in ModelNames : HandleCustomModelSubmit(n)
         \/ \E run \in Runs : ApplyRunTrafficProfile(run)
  PROVE  OptimizerInv'
<1>1. ASSUME NEW m \in Models \cup connected, HandleSelectModel(m) PROVE OptimizerInv'
  <2>1. Servable(m)
    BY OptimizerAssumption, CatalogIsServable DEF OptimizerInv
  <2>2. /\ Smaller(flags.maxModelLen, m.maxContext) \in Int
        /\ Smaller(flags.maxModelLen, m.maxContext) <= m.maxContext
    BY <2>1 DEF OptimizerInv, Servable, Smaller
  <2>3. by'.length = "control" /\ DOMAIN by' = DOMAIN by
    BY <1>1 DEF HandleSelectModel, OptimizerInv
  <2>4. profile' = profile /\ profile \in Nat
    BY <1>1 DEF HandleSelectModel, sideVars, OptimizerInv
  <2> QED BY <1>1, <2>1, <2>2, <2>3, <2>4, AdoptKeeps DEF HandleSelectModel, sideVars
<1>2. ASSUME NEW n \in ModelNames, HandleCustomModelSubmit(n) PROVE OptimizerInv'
  <2>1. Servable(NamedModel(n))
    BY NamedIsServable
  <2>2. /\ by'.length # "control" /\ DOMAIN by' = DOMAIN by
        /\ profile' = profile /\ profile \in Nat
        /\ by'.length = "traffic" =>
               Smaller(32768, profile) <= flags.maxModelLen /\ flags.maxModelLen <= 32768
    BY <1>2 DEF HandleCustomModelSubmit, OptimizerInv, RecommendedIsServable, sideVars
  <2> QED BY <1>2, <2>1, <2>2, AdoptKeeps DEF HandleCustomModelSubmit, sideVars, OptimizerInv
<1>3. ASSUME NEW run \in Runs, ApplyRunTrafficProfile(run) PROVE OptimizerInv'
  <2> DEFINE prompt == Or(run.prompt, IF run.loadTest THEN 512 ELSE 250)
             completion == Or(run.completion, IF run.loadTest THEN 256 ELSE 128)
             length == SafeContext(prompt + completion)
             match == Matched(run.model)
  <2>1. prompt \in Nat /\ completion \in Nat
    BY OptimizerAssumption DEF Or
  <2>2. /\ length \in Int /\ length <= 32768
        /\ Smaller(32768, prompt + completion) <= length /\ prompt + completion \in Nat
    BY <2>1, LengthIsWhole
  <2>3. \A m \in match : Servable(m)
    BY OptimizerAssumption, CatalogIsServable DEF Matched
  <2>4. /\ Idle /\ UNCHANGED <<version, connected, editing>>
        /\ DOMAIN by' = DOMAIN by /\ by'.length = "traffic" /\ profile' = prompt + completion
        /\ \/ \E m \in match : Adopt(m, length)
           \/ /\ match = {} /\ flags' = [flags EXCEPT !.maxModelLen = length]
              /\ UNCHANGED <<model, gpu>> /\ by'.tp = by.tp
    BY <1>3 DEF ApplyRunTrafficProfile, OptimizerInv
  <2> HIDE DEF prompt, completion, length, match
  <2>5. CASE \E m \in match : Adopt(m, length)
    BY <2>2, <2>3, <2>4, <2>5, AdoptKeeps
  <2>6. CASE match = {} /\ flags' = [flags EXCEPT !.maxModelLen = length] /\ model' = model /\ by'.tp = by.tp
    BY <2>2, <2>4, <2>6 DEF OptimizerInv, RecommendedIsServable, ValidTp, Idle
  <2> QED BY <2>4, <2>5, <2>6
<1> QED BY <1>1, <1>2, <1>3

\* The length and the parallelism are set, by hand or as recommended.
LEMMA LengthKeeps ==
  ASSUME OptimizerInv, OptimizerAssumption,
         \/ SlideLength \/ ChooseLength \/ LeaveLength
         \/ \E n \in TriedLengths \cup {0} : TypeLength(n)
  PROVE  OptimizerInv'
<1> USE DEF OptimizerInv, RecommendedIsServable, ValidTp, sideVars
<1>1. CASE SlideLength
  BY <1>1, OptimizerAssumption DEF SlideLength, Positions, Servable, Idle
<1>2. CASE ChooseLength
  BY <1>2 DEF ChooseLength, Idle
<1>3. CASE LeaveLength
  BY <1>3 DEF LeaveLength
<1>4. ASSUME NEW n \in TriedLengths \cup {0}, TypeLength(n) PROVE OptimizerInv'
  BY <1>4, OptimizerAssumption DEF TypeLength
<1> QED BY <1>1, <1>2, <1>3, <1>4

LEMMA ParallelismKeeps ==
  ASSUME OptimizerInv,
         TakeRecommendedGpu \/ ChooseParallelism \/ TakeValidParallelism \/ ResetToRecommended
  PROVE  OptimizerInv'
<1> USE DEF OptimizerInv, RecommendedIsServable, ValidTp, sideVars
<1>1. CASE TakeRecommendedGpu
  BY <1>1 DEF TakeRecommendedGpu, RecommendedGpuInfo, Servable
<1>2. CASE ChooseParallelism
  BY <1>2 DEF ChooseParallelism
<1>3. CASE TakeValidParallelism
  BY <1>3 DEF TakeValidParallelism
<1>4. CASE ResetToRecommended
  BY <1>4 DEF ResetToRecommended, RecommendedGpuInfo, Servable, DEFAULT_VLLM_FLAGS, Idle
<1> QED BY <1>1, <1>2, <1>3, <1>4

LEMMA RecipeIsNamed ==
  ASSUME NEW name \in {"fp8", "int4_awq"}
  PROVE  /\ Named(QUANTIZATION_RECIPES, name) \in QUANTIZATION_RECIPES
         /\ HasArgument(Named(QUANTIZATION_RECIPES, name))
<1>1. \E r \in QUANTIZATION_RECIPES : r.name = name
  BY DEF QUANTIZATION_RECIPES, Recipe
<1>2. Named(QUANTIZATION_RECIPES, name) \in QUANTIZATION_RECIPES /\ Named(QUANTIZATION_RECIPES, name).name = name
  BY <1>1 DEF Named
<1>3. \A r \in QUANTIZATION_RECIPES : r.name = name => HasArgument(r)
  BY DEF QUANTIZATION_RECIPES, Recipe, HasArgument
<1> QED BY <1>2, <1>3

\* The model the page opens with is in the registry.
LEMMA StartIsListed == Named(GLOBAL_MODEL_CATALOG, "Llama-3.1-8B") \in GLOBAL_MODEL_CATALOG
<1> DEFINE llama == Model("Llama-3.1-8B",  803, 32, 32, 8, 128, 131072, 8192, 55)
<1>1. llama.name = "Llama-3.1-8B"
  BY DEF Model
<1>2. llama \in LlamaModels
  BY DEF LlamaModels
<1> HIDE DEF llama
<1>3. \E m \in GLOBAL_MODEL_CATALOG : m.name = "Llama-3.1-8B"
  BY <1>1, <1>2 DEF GLOBAL_MODEL_CATALOG
<1> QED BY <1>3 DEF Named

\* The page opens with the model of the link, or with one that is fixed.
LEMMA OptimizerStarts ==
  ASSUME OptimizerAssumption, NEW link, link.prompt \in Nat, link.completion \in Nat,
         OptimizerInit(link)
  PROVE  OptimizerInv /\ RecipeInv
<1> DEFINE taken == link.from /\ (link.prompt # 0 \/ link.completion # 0)
           match == IF taken THEN Matched(link.model) ELSE {}
           start == Named(GLOBAL_MODEL_CATALOG, "Llama-3.1-8B")
           first == IF match = {} THEN start ELSE CHOOSE m \in match : TRUE
           tokens == Or(link.prompt, 512) + Or(link.completion, 256)
           length == SafeContext(tokens)
<1>1. start \in GLOBAL_MODEL_CATALOG
  BY StartIsListed
<1>2. length \in Int /\ length <= 32768 /\ tokens \in Nat /\ Smaller(32768, tokens) <= length
  <2>1. Or(link.prompt, 512) \in Nat /\ Or(link.completion, 256) \in Nat
    BY DEF Or
  <2> QED BY <2>1, LengthIsWhole
<1>3. \A m \in match : Servable(m)
  BY OptimizerAssumption, CatalogIsServable DEF Matched
<1>4. /\ version \in VLLM_VERSIONS /\ connected = {} /\ editing = "none" /\ model = first
      /\ recipe = Named(QUANTIZATION_RECIPES, "fp8") /\ profile = IF taken THEN tokens ELSE 0
      /\ by = [length |-> IF taken THEN "traffic" ELSE "control",
               tp |-> "recommended", recipe |-> "control"]
      /\ flags = [DEFAULT_VLLM_FLAGS EXCEPT
            !.maxModelLen = IF taken THEN length ELSE @,
            !.tensorParallelSize = IF match = {} THEN @ ELSE GetRecommendedGpuForModel(first).suggestedTp]
  BY Zenon DEF OptimizerInit
<1>5. match # {} => taken
  OBVIOUS
<1>6. Servable(start) /\ start.maxContext >= 8192
  BY <1>1, CatalogIsServable
<1>7. match # {} => first \in match
  OBVIOUS
<1>8. match = {} => first = start
  OBVIOUS
<1> HIDE DEF taken, match, start, first, tokens, length
<1>9. /\ {"maxModelLen", "tensorParallelSize", "quantization", "loadFormat"} \subseteq DOMAIN flags
      /\ flags.loadFormat = "auto"
      /\ flags.maxModelLen = IF taken THEN length ELSE 4096
      /\ flags.tensorParallelSize =
            IF match = {} THEN 1 ELSE GetRecommendedGpuForModel(first).suggestedTp
  BY <1>4 DEF DEFAULT_VLLM_FLAGS
<1>10. Servable(first)
  BY <1>3, <1>6, <1>7, <1>8
<1>11. RecommendedIsServable
  BY <1>2, <1>4, <1>5, <1>6, <1>8, <1>9, <1>10 DEF RecommendedIsServable, ValidTp, Servable
<1>12. OptimizerInv
  BY <1>2, <1>4, <1>9, <1>10, <1>11 DEF OptimizerInv
<1>13. RecipeInv
  BY <1>4, <1>9, RecipeIsNamed DEF RecipeInv
<1> QED BY <1>12, <1>13

\* Whatever is chosen, typed, applied, reset and pruned, the page keeps a
\* version of the registry and a configuration that can be served.
LEMMA OptimizerCorrect == Spec => []OptimizerInv
<1>1. PagesInit => OptimizerInv
  BY OptimizerStarts, OptimizerAssumption, PagesAssumption DEF PagesInit, NoLink
<1>2. OptimizerInv /\ [Next]_pagesVars => OptimizerInv'
  <2> SUFFICES ASSUME OptimizerInv, [Next]_pagesVars
               PROVE  OptimizerInv'
    OBVIOUS
  <2>1. Configure \/ Consult \/ Settle \/ UNCHANGED optimizerVars
    BY DEF Next, pagesVars
  <2>2. CASE UNCHANGED optimizerVars
    BY <2>2, BesideKeeps DEF optimizerVars, engineVars, sideVars, Beside, OptimizerInv
  <2>3. CASE ConnectedModelsArrive
    BY <2>3, NamedIsServable
       DEF ConnectedModelsArrive, OptimizerInv, RecommendedIsServable, ValidTp, engineVars
  <2> QED BY <2>1, <2>2, <2>3, OptimizerAssumption, BesideKeeps, ControlsBeside, OthersBeside,
             ModelsKeep, LengthKeeps, ParallelismKeeps
          DEF Configure, Settle
<1> QED BY <1>1, <1>2, PTL DEF Spec

\* No sequence of choices makes the command pass a flag the chosen version must
\* not be given, offloading excepted (utils/vllmOptimizer.js,
\* generateVllmCommand).
THEOREM CommandCorrect == Spec => []CommandIsAccepted
<1>1. OptimizerInv => CommandIsAccepted
  BY CommandByVersion DEF OptimizerInv
<1> QED BY <1>1, OptimizerCorrect, PTL

\* For all of the catalog, whatever is typed and whatever the runs' traffic was:
\* a recommended parallelism shares out the heads, a context from the slider, the
\* list of models or a reset is no longer than the model's, and one from traffic
\* holds a request of the traffic shown, within 32768 (VllmOptimizer.jsx, applyRunTrafficProfile,
\* handleSelectModel, resetToRecommended).
THEOREM RecommendedCorrect == Spec => []RecommendedIsServable
<1>1. OptimizerInv => RecommendedIsServable
  BY DEF OptimizerInv
<1> QED BY <1>1, OptimizerCorrect, PTL

-----------------------------------------------------------------------------
(***************************************************************************)
(* What the optimizer exports.                                             *)
(***************************************************************************)
\* Nothing that the invariant is about changes.
RecipeStays ==
    /\ recipe' = recipe /\ by'.recipe = by.recipe /\ DOMAIN by' = DOMAIN by
    /\ flags'.quantization = flags.quantization /\ flags'.loadFormat = flags.loadFormat
    /\ DOMAIN flags' = DOMAIN flags

LEMMA ToggleRecipeStays ==
  ASSUME RecipeInv, NEW f, f \notin {"quantization", "loadFormat"},
         Toggle(f) \/ \E v : UpdateFlag(f, v)
  PROVE  RecipeStays
<1>1. CASE Toggle(f)
  BY <1>1 DEF RecipeInv, Toggle, UpdateFlag, RecipeStays
<1>2. CASE \E v : UpdateFlag(f, v)
  BY <1>2 DEF RecipeInv, UpdateFlag, RecipeStays
<1> QED BY <1>1, <1>2

LEMMA ControlsRecipeStays ==
  ASSUME RecipeInv,
         \/ MemoryControls \/ SchedulerControls \/ LogControls \/ ChoosePipeline
         \/ SpeculativeControls \/ NameControls \/ LoraControls \/ ToolControls
  PROVE  RecipeStays
<1> HIDE DEF RecipeInv, RecipeStays
<1>1. CASE MemoryControls
  BY <1>1, ToggleRecipeStays DEF MemoryControls
<1>2. CASE SchedulerControls \/ LogControls \/ ChoosePipeline
  BY <1>2, ToggleRecipeStays DEF SchedulerControls, LogControls, ChoosePipeline
<1>3. CASE SpeculativeControls \/ NameControls
  BY <1>3, ToggleRecipeStays DEF SpeculativeControls, NameControls
<1>4. CASE LoraControls \/ ToolControls
  BY <1>4, ToggleRecipeStays DEF LoraControls, ToolControls
<1> QED BY <1>1, <1>2, <1>3, <1>4

LEMMA OthersRecipeStays ==
  ASSUME RecipeInv,
         \/ SelectVersion \/ SelectGpu \/ TakeRecommendedGpu
         \/ \E m \in Models \cup connected : HandleSelectModel(m)
         \/ \E n \in ModelNames : HandleCustomModelSubmit(n)
         \/ ChooseConcurrency \/ \E n \in TriedUsers \cup {0} : TypeConcurrency(n)
         \/ ChooseScalingMode
         \/ SlideLength \/ ChooseLength \/ \E n \in TriedLengths \cup {0} : TypeLength(n)
         \/ ChooseParallelism \/ TakeValidParallelism
         \/ \E run \in Runs : ApplyRunTrafficProfile(run)
         \/ PruneUnsupportedFlags \/ Consult \/ Settle
  PROVE  RecipeStays
<1> USE DEF RecipeInv, RecipeStays
<1>1. CASE SelectVersion \/ SelectGpu \/ ChooseConcurrency \/ ChooseScalingMode
  BY <1>1 DEF SelectVersion, SelectGpu, ChooseConcurrency, ChooseScalingMode
<1>2. CASE TakeRecommendedGpu \/ ChooseParallelism \/ TakeValidParallelism
  BY <1>2 DEF TakeRecommendedGpu, ChooseParallelism, TakeValidParallelism
<1>3. ASSUME NEW m, NEW length, Adopt(m, length)
      PROVE  /\ flags'.quantization = flags.quantization /\ flags'.loadFormat = flags.loadFormat
             /\ DOMAIN flags' = DOMAIN flags
  BY <1>3 DEF Adopt
<1>4. CASE \/ \E m \in Models \cup connected : HandleSelectModel(m)
           \/ \E n \in ModelNames : HandleCustomModelSubmit(n)
  BY <1>3, <1>4 DEF HandleSelectModel, HandleCustomModelSubmit
<1>5. CASE \E run \in Runs : ApplyRunTrafficProfile(run)
  <2>1. PICK run \in Runs : ApplyRunTrafficProfile(run)
    BY <1>5
  <2> DEFINE length == SafeContext(Or(run.prompt, IF run.loadTest THEN 512 ELSE 250)
                                   + Or(run.completion, IF run.loadTest THEN 256 ELSE 128))
  <2>2. /\ \/ \E m \in Matched(run.model) : Adopt(m, length)
           \/ flags' = [flags EXCEPT !.maxModelLen = length]
        /\ recipe' = recipe /\ by'.recipe = by.recipe /\ DOMAIN by' = DOMAIN by
    BY <2>1 DEF ApplyRunTrafficProfile
  <2> HIDE DEF length
  <2> QED BY <1>3, <2>2
<1>6. CASE \E n \in TriedUsers \cup {0} : TypeConcurrency(n)
  BY <1>6 DEF TypeConcurrency
<1>7. CASE SlideLength \/ ChooseLength \/ \E n \in TriedLengths \cup {0} : TypeLength(n)
  BY <1>7 DEF SlideLength, ChooseLength, TypeLength
<1>8. CASE PruneUnsupportedFlags
  BY <1>8 DEF PruneUnsupportedFlags, Pruned
<1>9. CASE Consult
  BY <1>9 DEF Consult, ToggleRunPicker, CloseRunPicker, DropProfile, TypeHelp, AnalyzeHelpOutput,
     LoadSample, ClearHelp, ParseStartupLog, engineVars
<1>10. CASE Settle
  BY <1>10 DEF Settle, LeaveConcurrency, LeaveLength, ConnectedModelsArrive, RecentRunsArrive,
     Recheck, engineVars
<1> QED BY <1>1, <1>2, <1>4, <1>5, <1>6, <1>7, <1>8, <1>9, <1>10

LEMMA RecipesNamed ==
  ASSUME NEW r \in QUANTIZATION_RECIPES
  PROVE  /\ HasArgument(r) \/ QuantizationOf(r) = "none"
         /\ ~HasArgument(r) => r.quantization = "none" /\ r.format = "auto"
BY DEF QUANTIZATION_RECIPES, Recipe, HasArgument, QuantizationOf

\* The recipe is chosen, or everything starts again.
LEMMA RecipeChosen ==
  ASSUME RecipeInv, OptimizerAssumption,
         \/ \E r \in Recipes : SelectRecipe(r) \/ ClickDot(r)
         \/ SwitchToAwq \/ ResetToRecommended
  PROVE  RecipeInv'
<1> USE DEF RecipeInv
<1>1. ASSUME NEW r \in Recipes, SelectRecipe(r) \/ ClickDot(r) PROVE RecipeInv'
  <2>1. r \in QUANTIZATION_RECIPES
    BY OptimizerAssumption
  <2> QED BY <1>1, <2>1, RecipesNamed DEF SelectRecipe, ClickDot
<1>2. CASE SwitchToAwq
  BY <1>2, RecipeIsNamed DEF SwitchToAwq
<1>3. CASE ResetToRecommended
  BY <1>3, RecipesNamed DEF ResetToRecommended, DEFAULT_VLLM_FLAGS
<1> QED BY <1>1, <1>2, <1>3

\* The command, the compose file and the environment start the same engine
\* (utils/vllmOptimizer.js: generateVllmCommand, generateDockerCompose and
\* generateEnvSnippet), whatever was chosen, pruned and reset before.
THEOREM ExportsCorrect == Spec => []ExportsAgree
<1>1. PagesInit => RecipeInv
  BY OptimizerStarts, OptimizerAssumption, PagesAssumption DEF PagesInit, NoLink
<1>2. RecipeInv /\ [Next]_pagesVars => RecipeInv'
  <2> SUFFICES ASSUME RecipeInv, [Next]_pagesVars
               PROVE  RecipeInv'
    OBVIOUS
  <2>1. Configure \/ Consult \/ Settle \/ UNCHANGED optimizerVars
    BY DEF Next, pagesVars
  <2>2. ASSUME RecipeStays PROVE RecipeInv'
    BY <2>2 DEF RecipeStays, RecipeInv
  <2>3. CASE UNCHANGED optimizerVars
    BY <2>3 DEF optimizerVars, engineVars, RecipeInv
  <2> QED BY <2>1, <2>2, <2>3, OptimizerAssumption, ControlsRecipeStays, OthersRecipeStays,
             RecipeChosen
          DEF Configure
<1>3. RecipeInv => ExportsAgree
  <2> SUFFICES ASSUME RecipeInv
               PROVE  ExportsAgree
    OBVIOUS
  <2>1. by.recipe = "control" => CliQuantization = recipe.quantization
    BY RecipesNamed DEF RecipeInv, CliQuantization
  <2>2. recipe.name \in {"fp8", "int4_awq", "int4_gptq"} => EnvQuantization = recipe.quantization
    BY DEF EnvQuantization
  <2>3. \A f \in {"enablePrefixCaching", "enableChunkedPrefill", "cpuOffloadGb", "loadFormat"} :
           ~IsLegacy => (f \in GenerateVllmCommand <=> f \in GenerateDockerCompose)
    <3>1. /\ PassedFlags["enablePrefixCaching"] <=> OldEngineOnly /\ flags.enablePrefixCaching
          /\ PassedFlags["enableChunkedPrefill"] <=> OldEngineOnly /\ flags.enableChunkedPrefill
          /\ PassedFlags["cpuOffloadGb"] <=> flags.cpuOffloadGb > 0
          /\ PassedFlags["loadFormat"] <=> recipe.format # "auto" \/ flags.loadFormat # "auto"
      BY DEF PassedFlags
    <3>2. {"enablePrefixCaching", "enableChunkedPrefill", "cpuOffloadGb", "loadFormat"}
             \subseteq DOMAIN PassedFlags
      BY DEF PassedFlags
    <3> QED BY <3>1, <3>2 DEF GenerateVllmCommand, GenerateDockerCompose, OldEngineOnly, RecipeInv
  <2>4. "tensorParallelSize" \in GenerateVllmCommand => DockerGpus = flags.tensorParallelSize
    <3>1. PassedFlags["tensorParallelSize"] => mode = "tp"
      BY DEF PassedFlags
    <3> QED BY <3>1 DEF GenerateVllmCommand, DockerGpus
  <2> QED BY <2>1, <2>2, <2>3, <2>4 DEF ExportsAgree
<1> QED BY <1>1, <1>2, <1>3, PTL DEF Spec

-----------------------------------------------------------------------------
(***************************************************************************)
(* Numbers.                                                                *)
(***************************************************************************)
\* A quotient is the whole number just below.
LEMMA Quotient ==
  ASSUME NEW a \in Int, NEW b \in Nat \ {0}
  PROVE  /\ a \div b \in Int
         /\ b * (a \div b) <= a
         /\ a < b * (a \div b) + b
OBVIOUS

\* Multiplying by a natural number keeps the order.
LEMMA Products ==
  ASSUME NEW a \in Int, NEW b \in Int, a <= b, NEW n \in Nat
  PROVE  n * a \in Int /\ n * b \in Int /\ n * a <= n * b
<1>1. PICK d \in Nat : b = a + d
  OBVIOUS
<1>2. n * b = n * a + n * d /\ n * d \in Nat
  BY <1>1
<1> QED BY <1>2

\* More than the quotient is what does not go into the dividend: the form in
\* which the pages' divisions are compared.
LEMMA OverQuotient ==
  ASSUME NEW a \in Int, NEW b \in Nat \ {0}, NEW c \in Int
  PROVE  c > a \div b <=> b * c > a
<1> DEFINE q == a \div b
<1>1. q \in Int /\ b * q <= a /\ a < b * q + b
  BY Quotient
<1> HIDE DEF q
<1>2. ASSUME c > q PROVE b * c > a
  <2>1. b * (q + 1) <= b * c /\ b * (q + 1) = b * q + b
    BY <1>1, <1>2, Products
  <2> QED BY <1>1, <2>1
<1>3. ASSUME ~(c > q) PROVE ~(b * c > a)
  BY <1>1, <1>3, Products
<1> QED BY <1>2, <1>3 DEF q

-----------------------------------------------------------------------------
(***************************************************************************)
(* What the sizer says of a model, and the cards it marks.                 *)
(***************************************************************************)
\* A model's cache is never nothing: a token takes at least 2048 elements.
ArchOK(a) ==
    /\ a.layers \in Nat /\ a.kvHeads \in Nat /\ a.headDim \in Nat
    /\ a.layers * a.kvHeads * a.headDim >= 2048

\* The cache of a request is whole, and something for a block of tokens.
LEMMA KvIsWhole ==
  ASSUME NEW a, ArchOK(a), NEW bytes \in {1, 2}, NEW tokens \in Nat
  PROVE  /\ KvUnits(a, bytes, tokens) \in Nat
         /\ tokens >= 16 => KvUnits(a, bytes, tokens) > 0
<1> DEFINE e == a.layers * a.kvHeads * a.headDim
           k == e \div 2048
           t == tokens \div 16
<1>1. e \in Nat /\ e >= 2048
  BY DEF ArchOK
<1> HIDE DEF e
<1>2. k \in Nat /\ k >= 1 /\ t \in Nat /\ (tokens >= 16 => t >= 1)
  BY <1>1
<1> HIDE DEF k, t
<1>3. k * bytes * 625 \in Nat /\ k * bytes * 625 >= 16
  BY <1>2
<1> DEFINE b == k * bytes * 625
<1>4. b * t \in Nat /\ (t >= 1 => b * t >= b)
  <2>1. b \in Nat
    BY <1>3
  <2> HIDE DEF b
  <2>2. t >= 1 => b * 1 <= b * t
    BY <1>2, <2>1, Products
  <2> QED BY <1>2, <2>1, <2>2
<1>5. (b * t) \div 16 \in Nat /\ (t >= 1 => (b * t) \div 16 > 0)
  BY <1>3, <1>4
<1>6. KvUnits(a, bytes, tokens) = (b * t) \div 16
  BY DEF KvUnits, b, k, t, e
<1> QED BY <1>2, <1>5, <1>6

\* What the sizer needs of a name.
NameOK(n) ==
  /\ ParseModelName(n).params \in Nat /\ ParseModelName(n).precision \in Nat
  /\ ArchOK(ParseModelName(n).arch)

\* All that parseModelName finds is sized: presets, families, and names.
LEMMA PresetsAreSized ==
  ASSUME NEW p \in MODEL_PRESETS
  PROVE  p.params \in Nat /\ p.precision \in Nat /\ ArchOK(p.arch)
BY DEF MODEL_PRESETS, Preset, Arch, ArchOK

LEMMA FamiliesAreSized ==
  ASSUME NEW family, NEW size \in Nat
  PROVE  ArchOK(FamilyArch(family, size))
<1>1. ASSUME NEW l \in {28, 32, 40, 42, 46, 64, 80}, NEW h \in {4, 8, 16}, NEW d \in {128, 256}
      PROVE  ArchOK(Arch(l, h, d))
  BY <1>1 DEF ArchOK, Arch
<1> QED BY <1>1 DEF FamilyArch

LEMMA NamesAreSized ==
  ASSUME NEW n, n.size \in Nat, n.precision \in Nat,
         n.preset = "none" \/ \E p \in MODEL_PRESETS : p.name = n.preset
  PROVE  NameOK(n)
<1>1. CASE n.preset = "none"
  BY <1>1, FamiliesAreSized DEF ParseModelName, NameOK
<1>2. CASE n.preset # "none"
  <2>1. Named(MODEL_PRESETS, n.preset) \in MODEL_PRESETS
    BY <1>2 DEF Named
  <2> QED BY <1>2, <2>1, PresetsAreSized DEF ParseModelName, NameOK
<1> QED BY <1>1, <1>2

LEMMA PresetNamesAreSized ==
  ASSUME NEW p \in MODEL_PRESETS
  PROVE  NameOK(PresetName(p))
<1>1. p.params \in Nat /\ p.precision \in Nat
  BY PresetsAreSized
<1>2. PresetName(p).preset = p.name /\ PresetName(p).size \in Nat /\ PresetName(p).precision \in Nat
  BY <1>1 DEF PresetName, Name
<1> QED BY <1>2, NamesAreSized


\* The fields of the sizer, between two inputs.
SizerInv ==
    /\ NameOK(modelInput)
    /\ params \in Nat /\ precision \in Nat /\ contextTokens \in Nat /\ targetUsers \in Nat
    /\ offered \subseteq ConnectedNames

LEMMA SizerStarts ==
  ASSUME SizerInit
  PROVE  SizerInv
<1>1. \E p \in MODEL_PRESETS : p.name = "llama3.1:8b-q4"
  BY DEF MODEL_PRESETS, Preset
<1>2. Named(MODEL_PRESETS, "llama3.1:8b-q4") \in MODEL_PRESETS
  BY <1>1 DEF Named
<1> QED BY <1>2, PresetNamesAreSized DEF SizerInit, SizerInv

\* Any input, and any answer, leaves the fields numbers and the name sized.
LEMMA SizerKeeps ==
  ASSUME SizerInv, NamesAssumption, SizerAssumption, Size \/ SizerSettles \/ UNCHANGED sizerVars
  PROVE  SizerInv'
<1> USE DEF SizerInv
<1>1. ASSUME NEW name \in ModelNames \cup offered, HandleModelInputChange(name) PROVE SizerInv'
  <2>1. NameOK(name)
    BY NamesAssumption, NamesAreSized
  <2> QED BY <1>1, <2>1 DEF HandleModelInputChange, NameOK
<1>2. ASSUME NEW p \in MODEL_PRESETS, HandleSelectPreset(p) PROVE SizerInv'
  BY <1>2, PresetsAreSized, PresetNamesAreSized DEF HandleSelectPreset
<1>3. ASSUME NEW n \in TriedSizes \cup {0}, TypeParams(n) PROVE SizerInv'
  BY <1>3, SizerAssumption DEF TypeParams
<1>4. ASSUME NEW n \in TriedUsers \cup {0}, TypeTargetUsers(n) PROVE SizerInv'
  BY <1>4, SizerAssumption DEF TypeTargetUsers
<1>5. CASE ChoosePrecision \/ ChooseContext
  BY <1>5 DEF ChoosePrecision, ChooseContext, PRECISION_OPTIONS, CONTEXT_LENGTH_OPTIONS
<1>6. CASE SizerSettles
  BY <1>6 DEF SizerSettles, ConnectedArrive, TelemetryArrives, LeaveParams, LeaveTargetUsers, Larger
<1>7. CASE UNCHANGED sizerVars
  BY <1>7 DEF sizerVars
<1> QED BY <1>1, <1>2, <1>3, <1>4, <1>5, <1>6, <1>7 DEF Size

\* What the sizer needs of a card.
SizedCard(card) == card.vramGb \in Nat /\ card.vramGb >= 12 /\ card.maxBatch \in Nat

\* The smallest card has 12 gigabytes: its reserve of a tenth, and the gigabyte
\* of the runtime, are more than the gigabyte and a half that is recommended.
LEMMA CardsAreSized ==
  ASSUME NEW card \in GPU_CATALOG
  PROVE  SizedCard(card)
BY DEF GPU_CATALOG, DesktopGpus, CloudGpus, Gpu, SizedCard

\* A card that is marked has as many slots as there are users, so that the
\* cache they need fits the card's room; what is added to it for the
\* recommendation is less than what was kept back from the room.
LEMMA MarkedIsCovered ==
  ASSUME SizerInv
  PROVE  TargetIsCovered
<1> DEFINE weights == SizerWeights
           kv == SizerKvPerUser
<1>1. weights \in Int
  BY DEF SizerInv, SizerWeights
<1>2. kv \in Nat \ {0}
  <2>1. KvUnits(ParseModelName(modelInput).arch, 2, ((contextTokens + 15) \div 16) * 16) \in Nat
    BY KvIsWhole DEF SizerInv, NameOK
  <2> QED BY <2>1 DEF SizerKvPerUser, CalcKvCachePerUser, Larger, Gb
<1> HIDE DEF weights, kv
<1>3. SUFFICES ASSUME NEW card \in GPU_CATALOG, MeetsTarget(card), targetUsers > 1
               PROVE  TotalRecommendedVram <= Gb(100 * card.vramGb)
  BY DEF TargetIsCovered
<1> DEFINE room == EngineRoom(Gb(100 * card.vramGb)) - weights
           slots == room \div kv
<1>4. card.vramGb \in Nat /\ card.vramGb >= 12 /\ card.maxBatch \in Nat
  BY CardsAreSized DEF SizedCard
<1>5. EngineRoom(Gb(100 * card.vramGb)) + Gb(150) <= Gb(100 * card.vramGb)
      /\ EngineRoom(Gb(100 * card.vramGb)) \in Nat
  BY <1>4 DEF EngineRoom, Gb, Larger
<1>6. targetUsers \in Nat /\ room \in Int
  BY <1>1, <1>5 DEF SizerInv
<1>7. slots \in Int
  BY <1>2, <1>6, Quotient
<1>8. slots >= targetUsers
  <2>1. /\ EvaluateGpuConcurrency(card, weights, kv).fits = (room > Gb(50))
        /\ room > Gb(50) => EvaluateGpuConcurrency(card, weights, kv).maxConcurrentStreams
                               = Larger(1, Smaller(slots, card.maxBatch))
    BY DEF EvaluateGpuConcurrency
  <2>2. Larger(1, Smaller(slots, card.maxBatch)) >= targetUsers
    BY <1>3, <2>1 DEF MeetsTarget, weights, kv
  <2> HIDE DEF slots
  <2> QED BY <1>3, <1>4, <1>6, <1>7, <2>2 DEF Larger, Smaller
<1>9. kv * targetUsers <= room
  BY <1>2, <1>6, <1>8, OverQuotient
<1>10. TotalRecommendedVram = weights + kv * targetUsers + Gb(150)
  BY Zenon DEF TotalRecommendedVram, weights, kv
<1> QED BY <1>1, <1>2, <1>4, <1>5, <1>6, <1>9, <1>10 DEF Gb

\* A card that is marked as one that meets a target of several users has the
\* memory the page asks for that target (GpuSizer.jsx, totalRecommendedVram,
\* against utils/gpuSizer.js, evaluateGpuConcurrency), for any names, sizes and
\* numbers of users.
THEOREM MarkedCorrect == Spec => []MarkedCardsSuffice
<1>1. PagesInit => SizerInv
  BY SizerStarts DEF PagesInit
<1>2. SizerInv /\ [Next]_pagesVars => SizerInv'
  <2>1. [Next]_pagesVars => Size \/ SizerSettles \/ UNCHANGED sizerVars
    BY Zenon DEF Next, pagesVars
  <2> QED BY <2>1, SizerKeeps, NamesAssumption, SizerAssumption
<1>3. SizerInv => MarkedCardsSuffice
  BY MarkedIsCovered DEF MarkedCardsSuffice
<1> QED BY <1>1, <1>2, <1>3, PTL DEF Spec

-----------------------------------------------------------------------------
(***************************************************************************)
(* The users the optimizer says fit.                                       *)
(***************************************************************************)
\* What the estimates need of a model.
SizedModel(m) ==
    /\ m.params \in Nat /\ m.visionTokens \in Nat
    /\ m.maxContext \in Nat /\ m.maxContext >= 256
    /\ m.recommendedContext \in Nat /\ m.recommendedContext >= 256
    /\ ArchOK(ArchOf(m))

\* The flags that are numbers.
CountedFlags == {"maxLoras", "maxLoraRank", "cpuOffloadGb", "gpuMemoryUtilization",
                 "imagesPerPrompt", "tensorParallelSize"}

\* What the estimates are computed from are numbers, and no field that has been
\* left is blank.
CapacityInv ==
    /\ SizedModel(model) /\ \A m \in connected : SizedModel(m)
    /\ gpu.vramGb \in Nat /\ recipe.bytesPerParam \in Nat
    /\ CountedFlags \cup {"maxModelLen"} \subseteq DOMAIN flags
    /\ \A f \in CountedFlags : flags[f] \in Nat
    /\ flags.maxModelLen \in Nat
    /\ flags.maxModelLen >= 256 \/ (editing = "length" /\ flags.maxModelLen = 0)
    /\ concurrency \in Nat
    /\ editing = "concurrency" \/ concurrency >= 1

\* The memory a request needs is never nothing, so that the safe maximum divides
\* the memory there is by it.
LEMMA CapacityFollows ==
  ASSUME CapacityInv
  PROVE  CapacityAgrees
<1> SUFFICES ASSUME Idle
             PROVE  CapacityAgrees
  BY DEF CapacityAgrees
<1>1. /\ concurrency \in Nat /\ concurrency >= 1
      /\ flags.maxModelLen \in Nat /\ flags.maxModelLen >= 256
      /\ \A f \in CountedFlags : flags[f] \in Nat
      /\ SizedModel(model)
  BY DEF CapacityInv, Idle
<1>2. /\ flags.maxLoras \in Nat /\ flags.maxLoraRank \in Nat /\ flags.cpuOffloadGb \in Nat
      /\ flags.gpuMemoryUtilization \in Nat /\ flags.imagesPerPrompt \in Nat
      /\ flags.tensorParallelSize \in Nat
  BY <1>1 DEF CountedFlags
<1>3. KvPerUserGb \in Nat \ {0}
  <2>1. VisionTokens \in Nat
    BY <1>1, <1>2 DEF VisionTokens, SizedModel
  <2>2. BytesPerKvToken \in {1, 2}
    BY DEF BytesPerKvToken
  <2> QED BY <1>1, <2>1, <2>2, KvIsWhole DEF KvPerUserGb, KvPerUser, SizedModel
<1>4. UsableForKv \in Int /\ AvailableEngineBudgetGb \in Int /\ WeightsGb \in Int /\ RuntimeOverheadGb \in Int
  <2>1. AvailableEngineBudgetGb \in Int
    BY <1>2 DEF AvailableEngineBudgetGb, EffectiveGpuVram, Gb, CapacityInv
  <2>2. WeightsGb \in Int
    BY <1>1, <1>2 DEF WeightsGb, Gb, Larger, CapacityInv, SizedModel
  <2>3. CalcLoraBuffer \in Int
    <3>1. flags.maxLoras * flags.maxLoraRank * 7 + 355 \in Int
      BY <1>2
    <3> QED BY <3>1 DEF CalcLoraBuffer, Gb
  <2>4. CalcDraftModelVram \in Int
    BY DEF CalcDraftModelVram, Gb
  <2>5. RuntimeOverheadGb \in Int
    BY <2>3, <2>4 DEF RuntimeOverheadGb, Gb
  <2> QED BY <2>1, <2>2, <2>5 DEF UsableForKv
<1> DEFINE usable == UsableForKv
           kv == KvPerUserGb
<1>5. IsVramExceeded <=> kv * concurrency > usable
  <2>1. kv * concurrency \in Int
    BY <1>1, <1>3
  <2> DEFINE used == kv * concurrency
  <2>2. TotalUsedVramGb = WeightsGb + used + RuntimeOverheadGb
    BY DEF TotalUsedVramGb
  <2> HIDE DEF used
  <2> QED BY <1>4, <2>1, <2>2 DEF IsVramExceeded, UsableForKv, used
<1>6. MaxSafeConcurrency = IF usable <= 0 THEN 0 ELSE usable \div kv
  <2>1. usable \div kv \in Int
    BY <1>3, <1>4, Quotient
  <2>2. ~(kv <= 0)
    BY <1>3
  <2>3. MaxSafeConcurrency = IF usable <= 0 THEN 0 ELSE (usable \div kv) * 1
    BY <2>2 DEF MaxSafeConcurrency, ReplicaCount
  <2> QED BY <2>1, <2>3
<1> HIDE DEF usable, kv
<1>7. kv \in Nat \ {0} /\ usable \in Int
  BY <1>3, <1>4 DEF kv, usable
<1>8. IsVramExceeded <=> concurrency > MaxSafeConcurrency
  <2>1. CASE usable <= 0
    <3>1. kv * 1 <= kv * concurrency /\ kv * concurrency \in Int
      BY <1>1, <1>7, Products
    <3> QED BY <1>1, <1>5, <1>6, <1>7, <2>1, <3>1
  <2>2. CASE usable > 0
    BY <1>1, <1>5, <1>6, <1>7, <2>2, OverQuotient
  <2> QED BY <1>7, <2>1, <2>2
<1>9. MaxSafeConcurrency \in Int
  BY <1>6, <1>7, Quotient
<1>10. VramBadge = "exceeded" => {u \in ChartPoints : u >= concurrency} \subseteq Saturated
  <2>1. VramBadge = "exceeded" => IsVramExceeded
    BY DEF VramBadge
  <2>2. ChartPoints \subseteq Nat
    BY DEF ChartPoints
  <2> DEFINE safe == MaxSafeConcurrency
  <2>3. Saturated = {u \in ChartPoints : u > safe}
    BY DEF Saturated
  <2>4. safe \in Int /\ (IsVramExceeded => concurrency > safe)
    BY <1>8, <1>9
  <2> HIDE DEF safe
  <2>5. concurrency \in Nat
    BY <1>1
  <2>6. ASSUME IsVramExceeded, NEW u \in ChartPoints, u >= concurrency PROVE u > safe
    BY <2>2, <2>4, <2>5, <2>6
  <2> QED BY <2>1, <2>3, <2>6
<1>11. flags.maxModelLen \in DOMAIN ContextCurve /\ VisionTokens = 0
          => ContextCurve[flags.maxModelLen] = MaxSafeConcurrency
  <2>1. SUFFICES ASSUME flags.maxModelLen \in DOMAIN ContextCurve, VisionTokens = 0
                 PROVE  ContextCurve[flags.maxModelLen] = MaxSafeConcurrency
    OBVIOUS
  <2>2. KvPerUser(flags.maxModelLen) = kv
    BY <1>1, <2>1 DEF kv, KvPerUserGb
  <2>3. ContextCurve[flags.maxModelLen] =
           IF usable > 0 /\ kv > 0 THEN (usable \div kv) * 1 ELSE 0
    BY <2>1, <2>2 DEF ContextCurve, usable, ReplicaCount
  <2>4. usable \div kv \in Int
    BY <1>7, Quotient
  <2> QED BY <1>6, <1>7, <2>3, <2>4
<1> QED BY <1>8, <1>10, <1>11 DEF CapacityAgrees

\* Models, cards and recipes of the registries, and models by name.
LEMMA CatalogIsSized ==
  ASSUME NEW m \in GLOBAL_MODEL_CATALOG
  PROVE  SizedModel(m)
<1>1. /\ m.params \in Nat /\ m.visionTokens \in Nat
      /\ m.maxContext \in Nat /\ m.maxContext >= 256
      /\ m.recommendedContext \in Nat /\ m.recommendedContext >= 256
  BY DEF GLOBAL_MODEL_CATALOG, LlamaModels, QwenModels, DistilledModels, OtherModels, Model, Vision
<1>2. m.layers \in 16..80 /\ m.kvHeads \in {4, 8, 16} /\ m.headDim \in {64, 128, 256}
  BY DEF GLOBAL_MODEL_CATALOG, LlamaModels, QwenModels, DistilledModels, OtherModels, Model, Vision
<1>3. m.layers * m.kvHeads * m.headDim >= 2048
  BY <1>2
<1> QED BY <1>1, <1>2, <1>3 DEF SizedModel, ArchOK, ArchOf, Arch

LEMMA NamedIsSized ==
  ASSUME NamesAssumption, NEW n \in ModelNames \cup ConnectedNames
  PROVE  SizedModel(NamedModel(n))
<1> DEFINE p == ParseModelName(n)
           m == NamedModel(n)
<1>1. /\ m.maxContext = 32768 /\ m.recommendedContext = 4096 /\ m.visionTokens = 0
      /\ m.params = p.params
      /\ m.layers = p.arch.layers /\ m.kvHeads = p.arch.kvHeads /\ m.headDim = p.arch.headDim
  BY DEF NamedModel, Model
<1>2. NameOK(n)
  BY NamesAssumption, NamesAreSized
<1>3. p.params \in Nat /\ ArchOK(p.arch)
  BY <1>2 DEF NameOK
<1> HIDE DEF p, m
<1> QED BY <1>1, <1>3 DEF SizedModel, ArchOK, ArchOf, Arch, m

LEMMA GpuNamed ==
  ASSUME NEW name \in {"RTX-4070-Ti-Super", "L4", "L40S", "A100", "H100", "RTX-3090-4090"}
  PROVE  Named(GPU_CATALOG, name).vramGb \in Nat
<1>1. \E g \in GPU_CATALOG : g.name = name
  BY DEF GPU_CATALOG, DesktopGpus, CloudGpus, Gpu
<1>2. Named(GPU_CATALOG, name) \in GPU_CATALOG
  BY <1>1, Zenon DEF Named
<1> QED BY <1>2, CardsAreSized, Zenon DEF SizedCard

LEMMA RecommendedIsSized ==
  ASSUME NEW m, m.params \in Nat
  PROVE  /\ GetRecommendedGpuForModel(m).gpu.vramGb \in Nat
         /\ GetRecommendedGpuForModel(m).suggestedTp \in Nat
BY GpuNamed DEF GetRecommendedGpuForModel

LEMMA RecipesAreSized ==
  ASSUME NEW r \in QUANTIZATION_RECIPES
  PROVE  r.bytesPerParam \in Nat
BY DEF QUANTIZATION_RECIPES, Recipe

\* The context a run's traffic asks for.
LEMMA ContextIsWhole ==
  ASSUME NEW tokens \in Nat
  PROVE  SafeContext(tokens) \in Nat /\ SafeContext(tokens) >= 256
BY DEF SafeContext, Larger, Smaller

\* Whatever link opens the page.
LEMMA CapacityStarts ==
  ASSUME OptimizerAssumption, NEW link, {link.prompt, link.completion, link.users} \subseteq Nat,
         OptimizerInit(link)
  PROVE  CapacityInv
<1> DEFINE taken == link.from /\ (link.prompt # 0 \/ link.completion # 0)
           match == IF taken THEN Matched(link.model) ELSE {}
           start == Named(GLOBAL_MODEL_CATALOG, "Llama-3.1-8B")
           first == IF match = {} THEN start ELSE CHOOSE m \in match : TRUE
           length == SafeContext(Or(link.prompt, 512) + Or(link.completion, 256))
           users == IF taken THEN Or(link.users, 10) ELSE 10
<1>1. start \in GLOBAL_MODEL_CATALOG
  BY StartIsListed
<1>2. length \in Nat /\ length >= 256
  <2>1. Or(link.prompt, 512) + Or(link.completion, 256) \in Nat
    BY DEF Or
  <2> QED BY <2>1, ContextIsWhole
<1>3. users \in Nat /\ users >= 1
  BY DEF Or
<1>4. SizedModel(first)
  BY <1>1, OptimizerAssumption, CatalogIsSized DEF Matched
<1>5. /\ connected = {} /\ editing = "none" /\ model = first /\ concurrency = users
      /\ recipe = Named(QUANTIZATION_RECIPES, "fp8")
      /\ gpu = IF match = {} THEN Named(GPU_CATALOG, "RTX-3090-4090")
               ELSE GetRecommendedGpuForModel(first).gpu
      /\ flags = [DEFAULT_VLLM_FLAGS EXCEPT
            !.maxModelLen = IF taken THEN length ELSE @,
            !.tensorParallelSize = IF match = {} THEN @ ELSE GetRecommendedGpuForModel(first).suggestedTp]
  BY Zenon DEF OptimizerInit
<1>6. recipe.bytesPerParam \in Nat
  <2>1. \E r \in QUANTIZATION_RECIPES : r.name = "fp8"
    BY DEF QUANTIZATION_RECIPES, Recipe
  <2> QED BY <1>5, <2>1, RecipesAreSized DEF Named
<1>7. /\ GetRecommendedGpuForModel(first).gpu.vramGb \in Nat
      /\ GetRecommendedGpuForModel(first).suggestedTp \in Nat
  BY <1>4, RecommendedIsSized DEF SizedModel
<1>8. gpu.vramGb \in Nat
  BY <1>5, <1>7, GpuNamed, Zenon
<1> HIDE DEF taken, match, start, first, length, users
<1>9. /\ CountedFlags \cup {"maxModelLen"} \subseteq DOMAIN flags
      /\ \A f \in CountedFlags : flags[f] \in Nat
      /\ flags.maxModelLen \in Nat /\ flags.maxModelLen >= 256
  <2> DEFINE rec == GetRecommendedGpuForModel(first).suggestedTp
  <2>1. rec \in Nat
    BY <1>7
  <2>2. flags = [DEFAULT_VLLM_FLAGS EXCEPT
            !.maxModelLen = IF taken THEN length ELSE @,
            !.tensorParallelSize = IF match = {} THEN @ ELSE rec]
    BY <1>5
  <2> HIDE DEF rec
  <2> QED BY <1>2, <2>1, <2>2 DEF DEFAULT_VLLM_FLAGS, CountedFlags
<1>10. connected = {} /\ editing = "none" /\ model = first /\ concurrency = users
  BY <1>5
<1> QED BY <1>3, <1>4, <1>6, <1>8, <1>9, <1>10 DEF CapacityInv

\* A flag is set to another value of its kind; nothing else changes.
LEMMA FlagKeepsCapacity ==
  ASSUME CapacityInv, NEW f, f # "maxModelLen", NEW v, f \in CountedFlags => v \in Nat,
         UpdateFlag(f, v)
  PROVE  CapacityInv'
<1>1. /\ flags'.maxModelLen = flags.maxModelLen /\ DOMAIN flags' = DOMAIN flags
      /\ \A g \in CountedFlags : flags'[g] = IF g = f THEN v ELSE flags[g]
      /\ UNCHANGED <<model, gpu, recipe, concurrency, editing, connected>>
  BY DEF UpdateFlag, CapacityInv, sideVars
<1> QED BY <1>1 DEF CapacityInv

LEMMA ToggleKeepsCapacity ==
  ASSUME CapacityInv, NEW f, f \notin CountedFlags \cup {"maxModelLen"}, Toggle(f)
  PROVE  CapacityInv'
BY FlagKeepsCapacity DEF Toggle

\* The controls of flags.
LEMMA ControlsKeepCapacity ==
  ASSUME CapacityInv, OptimizerAssumption,
         \/ MemoryControls \/ SchedulerControls \/ LogControls \/ ChoosePipeline
         \/ SpeculativeControls \/ NameControls \/ LoraControls \/ ToolControls
  PROVE  CapacityInv'
<1> HIDE DEF CapacityInv
<1>1. CASE MemoryControls
  <2>1. ASSUME NEW v \in Nat, UpdateFlag("gpuMemoryUtilization", v) \/ UpdateFlag("cpuOffloadGb", v)
        PROVE  CapacityInv'
    BY <2>1, FlagKeepsCapacity
  <2>2. ASSUME NEW v, UpdateFlag("kvCacheDtype", v) PROVE CapacityInv'
    BY <2>2, FlagKeepsCapacity DEF CountedFlags
  <2>3. "swapSpace" \notin CountedFlags \cup {"maxModelLen"}
    BY DEF CountedFlags
  <2>4. \A low, high, step : Positions(low, high, step) \subseteq Nat
    BY OptimizerAssumption DEF Positions
  <2> QED BY <1>1, <2>1, <2>2, <2>3, <2>4, ToggleKeepsCapacity DEF MemoryControls
<1>2. CASE SchedulerControls \/ LogControls \/ ChoosePipeline
  BY <1>2, ToggleKeepsCapacity DEF SchedulerControls, LogControls, ChoosePipeline, CountedFlags
<1>3. CASE SpeculativeControls \/ NameControls
  BY <1>3, FlagKeepsCapacity, ToggleKeepsCapacity DEF SpeculativeControls, NameControls, CountedFlags
<1>4. CASE LoraControls
  <2>1. ASSUME NEW v \in Nat, UpdateFlag("maxLoras", v) \/ UpdateFlag("maxLoraRank", v)
        PROVE  CapacityInv'
    BY <2>1, FlagKeepsCapacity
  <2>2. {"enableLora", "loraModules"} \cap (CountedFlags \cup {"maxModelLen"}) = {}
    BY DEF CountedFlags
  <2> QED BY <1>4, <2>1, <2>2, ToggleKeepsCapacity DEF LoraControls
<1>5. CASE ToolControls
  BY <1>5, ToggleKeepsCapacity DEF ToolControls, CountedFlags
<1> QED BY <1>1, <1>2, <1>3, <1>4, <1>5

\* Another model is chosen, with the card and the parallelism recommended for it.
LEMMA AdoptKeepsCapacity ==
  ASSUME CapacityInv, NEW m, SizedModel(m), NEW length \in Nat, length >= 256, Adopt(m, length),
         UNCHANGED <<recipe, connected, editing>>, Idle,
         concurrency' \in Nat, concurrency' >= 1
  PROVE  CapacityInv'
<1>1. /\ GetRecommendedGpuForModel(m).gpu.vramGb \in Nat
      /\ GetRecommendedGpuForModel(m).suggestedTp \in Nat
  BY RecommendedIsSized DEF SizedModel
<1>2. /\ flags'.maxModelLen = length /\ DOMAIN flags' = DOMAIN flags
      /\ \A f \in CountedFlags : flags'[f] = IF f = "tensorParallelSize"
              THEN GetRecommendedGpuForModel(m).suggestedTp ELSE flags[f]
      /\ model' = m /\ gpu' = GetRecommendedGpuForModel(m).gpu
  BY DEF Adopt, CapacityInv, CountedFlags
<1> QED BY <1>1, <1>2 DEF CapacityInv

\* A model of the registry, a name, or a recent run's traffic.
LEMMA ModelsKeepCapacity ==
  ASSUME CapacityInv, OptimizerAssumption, NamesAssumption,
         \/ \E m \in Models \cup connected : HandleSelectModel(m)
         \/ \E n \in ModelNames : HandleCustomModelSubmit(n)
         \/ \E run \in Runs : ApplyRunTrafficProfile(run)
  PROVE  CapacityInv'
<1>1. Idle /\ editing' = editing /\ recipe' = recipe /\ connected' = connected
  BY DEF HandleSelectModel, HandleCustomModelSubmit, ApplyRunTrafficProfile, sideVars
<1>2. flags.maxModelLen \in Nat /\ flags.maxModelLen >= 256 /\ concurrency \in Nat /\ concurrency >= 1
  BY <1>1 DEF CapacityInv, Idle
<1>3. ASSUME NEW m \in Models \cup connected, HandleSelectModel(m) PROVE CapacityInv'
  <2>1. SizedModel(m)
    BY OptimizerAssumption, CatalogIsSized DEF CapacityInv
  <2>2. /\ Smaller(flags.maxModelLen, m.maxContext) \in Nat
        /\ Smaller(flags.maxModelLen, m.maxContext) >= 256
    BY <1>2, <2>1 DEF SizedModel, Smaller
  <2> QED BY <1>1, <1>2, <1>3, <2>1, <2>2, AdoptKeepsCapacity DEF HandleSelectModel
<1>4. ASSUME NEW n \in ModelNames, HandleCustomModelSubmit(n) PROVE CapacityInv'
  BY <1>1, <1>2, <1>4, NamedIsSized, AdoptKeepsCapacity DEF HandleCustomModelSubmit
<1>5. ASSUME NEW run \in Runs, ApplyRunTrafficProfile(run) PROVE CapacityInv'
  <2> DEFINE prompt == Or(run.prompt, IF run.loadTest THEN 512 ELSE 250)
             completion == Or(run.completion, IF run.loadTest THEN 256 ELSE 128)
             length == SafeContext(prompt + completion)
             users == Or(run.safeMax, Or(run.reached, Or(run.target, 10)))
             match == Matched(run.model)
  <2>1. prompt + completion \in Nat
    BY OptimizerAssumption DEF Or
  <2>2. length \in Nat /\ length >= 256
    BY <2>1, ContextIsWhole
  <2>3. users \in Nat /\ users >= 1
    BY OptimizerAssumption DEF Or
  <2>4. \A m \in match : SizedModel(m)
    BY OptimizerAssumption, CatalogIsSized DEF Matched
  <2>5. /\ concurrency' = users
        /\ \/ \E m \in match : Adopt(m, length)
           \/ /\ flags' = [flags EXCEPT !.maxModelLen = length]
              /\ UNCHANGED <<model, gpu>>
    BY <1>5 DEF ApplyRunTrafficProfile
  <2> HIDE DEF length, match, users
  <2>6. CASE \E m \in match : Adopt(m, length)
    BY <1>1, <2>2, <2>3, <2>4, <2>5, <2>6, AdoptKeepsCapacity
  <2>7. CASE flags' = [flags EXCEPT !.maxModelLen = length] /\ UNCHANGED <<model, gpu>>
    <3>1. /\ flags'.maxModelLen = length /\ DOMAIN flags' = DOMAIN flags
          /\ \A f \in CountedFlags : flags'[f] = flags[f]
      BY <2>7 DEF CapacityInv, CountedFlags
    <3> QED BY <1>1, <2>2, <2>3, <2>5, <2>7, <3>1 DEF CapacityInv
  <2> QED BY <2>5, <2>6, <2>7
<1> QED BY <1>3, <1>4, <1>5

\* The length is set: by the slider, a button or the field, which makes up for
\* nothing when it is left.
LEMMA LengthKeepsCapacity ==
  ASSUME CapacityInv, OptimizerAssumption,
         \/ SlideLength \/ ChooseLength \/ LeaveLength
         \/ \E n \in TriedLengths \cup {0} : TypeLength(n)
  PROVE  CapacityInv'
<1>1. UNCHANGED <<model, gpu, recipe, concurrency, connected>>
  BY DEF SlideLength, ChooseLength, LeaveLength, TypeLength, sideVars
<1>2. \E n \in Nat : /\ flags' = [flags EXCEPT !.maxModelLen = n]
                     /\ n >= 256 \/ (editing' = "length" /\ n = 0)
                     /\ editing' = "concurrency" <=> editing = "concurrency"
  <2>1. CASE SlideLength
    BY <2>1, OptimizerAssumption DEF SlideLength, Positions
  <2>2. CASE ChooseLength
    BY <2>2 DEF ChooseLength
  <2>3. CASE LeaveLength
    <3>1. flags' = [flags EXCEPT !.maxModelLen = IF flags.maxModelLen < 1 THEN 2048 ELSE flags.maxModelLen]
      BY <2>3 DEF LeaveLength
    <3> QED BY <2>3, <3>1 DEF LeaveLength, CapacityInv
  <2>4. ASSUME NEW n \in TriedLengths \cup {0}, TypeLength(n)
        PROVE  /\ flags' = [flags EXCEPT !.maxModelLen = n] /\ n \in Nat
               /\ editing' = "length" /\ editing # "concurrency" /\ (n >= 256 \/ n = 0)
    BY <2>4, OptimizerAssumption DEF TypeLength
  <2> QED BY <2>1, <2>2, <2>3, <2>4
<1>3. PICK n \in Nat : /\ flags' = [flags EXCEPT !.maxModelLen = n]
                       /\ n >= 256 \/ (editing' = "length" /\ n = 0)
                       /\ editing' = "concurrency" <=> editing = "concurrency"
  BY <1>2
<1>4. /\ flags'.maxModelLen = n /\ DOMAIN flags' = DOMAIN flags
      /\ \A f \in CountedFlags : flags'[f] = flags[f]
  BY <1>3 DEF CapacityInv, CountedFlags
<1> QED BY <1>1, <1>3, <1>4 DEF CapacityInv

\* The card and the parallelism, by hand or as recommended.
LEMMA ParallelismKeepsCapacity ==
  ASSUME CapacityInv,
         TakeRecommendedGpu \/ ChooseParallelism \/ TakeValidParallelism \/ ResetToRecommended
  PROVE  CapacityInv'
<1>1. RecommendedGpuInfo.gpu.vramGb \in Nat /\ RecommendedGpuInfo.suggestedTp \in Nat
  BY RecommendedIsSized DEF RecommendedGpuInfo, CapacityInv, SizedModel
<1>2. ASSUME NEW n \in Nat, flags' = [flags EXCEPT !.tensorParallelSize = n], gpu'.vramGb \in Nat,
             UNCHANGED <<model, recipe, concurrency, editing, connected>>
      PROVE  CapacityInv'
  <2>1. /\ flags'.maxModelLen = flags.maxModelLen /\ DOMAIN flags' = DOMAIN flags
        /\ \A f \in CountedFlags : flags'[f] = IF f = "tensorParallelSize" THEN n ELSE flags[f]
    BY <1>2 DEF CapacityInv, CountedFlags
  <2> QED BY <1>2, <2>1 DEF CapacityInv
<1>3. CASE TakeRecommendedGpu
  BY <1>1, <1>2, <1>3 DEF TakeRecommendedGpu, sideVars
<1>4. CASE ChooseParallelism \/ TakeValidParallelism
  BY <1>2, <1>4 DEF ChooseParallelism, TakeValidParallelism, sideVars, CapacityInv
<1>5. CASE ResetToRecommended
  <2>1. /\ flags' = [DEFAULT_VLLM_FLAGS EXCEPT
              !.maxModelLen = model.recommendedContext, !.quantization = QuantizationOf(recipe),
              !.tensorParallelSize = RecommendedGpuInfo.suggestedTp]
        /\ gpu' = RecommendedGpuInfo.gpu
        /\ UNCHANGED <<model, recipe, concurrency, editing, connected>>
    BY <1>5 DEF ResetToRecommended, sideVars
  <2>2. model.recommendedContext \in Nat /\ model.recommendedContext >= 256
    BY DEF CapacityInv, SizedModel
  <2>3. /\ CountedFlags \cup {"maxModelLen"} \subseteq DOMAIN flags'
        /\ \A f \in CountedFlags : flags'[f] \in Nat
        /\ flags'.maxModelLen = model.recommendedContext
    BY <1>1, <2>1 DEF DEFAULT_VLLM_FLAGS, CountedFlags
  <2> QED BY <1>1, <2>1, <2>2, <2>3 DEF CapacityInv
<1> QED BY <1>3, <1>4, <1>5

\* The inputs and answers that change no flag that is a number.
LEMMA OthersKeepCapacity ==
  ASSUME CapacityInv, OptimizerAssumption, NamesAssumption,
         \/ SelectVersion \/ SelectGpu \/ SwitchToAwq \/ ChooseConcurrency \/ ChooseScalingMode
         \/ \E r \in Recipes : SelectRecipe(r) \/ ClickDot(r)
         \/ \E n \in TriedUsers \cup {0} : TypeConcurrency(n)
         \/ PruneUnsupportedFlags \/ Consult
         \/ LeaveConcurrency \/ ConnectedModelsArrive \/ RecentRunsArrive \/ Recheck
         \/ UNCHANGED optimizerVars
  PROVE  CapacityInv'
<1> USE DEF CapacityInv, sideVars, engineVars
<1>1. CASE SelectGpu
  BY <1>1, OptimizerAssumption, CardsAreSized DEF SelectGpu, SizedCard
<1>2. CASE SelectVersion \/ ChooseScalingMode \/ ChooseConcurrency \/ LeaveConcurrency
  BY <1>2 DEF SelectVersion, ChooseScalingMode, ChooseConcurrency, LeaveConcurrency, Larger
<1>3. CASE SwitchToAwq
  <2>1. Named(QUANTIZATION_RECIPES, "int4_awq") \in QUANTIZATION_RECIPES
    <3>1. \E r \in QUANTIZATION_RECIPES : r.name = "int4_awq"
      BY DEF QUANTIZATION_RECIPES, Recipe
    <3> QED BY <3>1 DEF Named
  <2> QED BY <1>3, <2>1, RecipesAreSized DEF SwitchToAwq
<1>4. ASSUME NEW r \in Recipes, SelectRecipe(r) \/ ClickDot(r) PROVE CapacityInv'
  <2>1. r.bytesPerParam \in Nat
    BY OptimizerAssumption, RecipesAreSized
  <2>2. /\ flags'.maxModelLen = flags.maxModelLen /\ DOMAIN flags' = DOMAIN flags
        /\ \A f \in CountedFlags : flags'[f] = flags[f]
        /\ recipe' = r /\ UNCHANGED <<model, gpu, concurrency, editing, connected>>
    BY <1>4 DEF SelectRecipe, ClickDot, CountedFlags
  <2> QED BY <2>1, <2>2
<1>5. ASSUME NEW n \in TriedUsers \cup {0}, TypeConcurrency(n) PROVE CapacityInv'
  BY <1>5, OptimizerAssumption DEF TypeConcurrency
<1>6. CASE PruneUnsupportedFlags
  <2>1. /\ flags'.maxModelLen = flags.maxModelLen /\ DOMAIN flags' = DOMAIN flags
        /\ \A f \in CountedFlags : flags'[f] = flags[f] \/ flags'[f] = 0
        /\ UNCHANGED <<model, gpu, recipe, concurrency, editing, connected>>
    BY <1>6 DEF PruneUnsupportedFlags, Pruned, CountedFlags
  <2> QED BY <2>1
<1>7. CASE Consult \/ RecentRunsArrive \/ Recheck \/ UNCHANGED optimizerVars
  <2>1. UNCHANGED <<model, gpu, recipe, concurrency, flags, editing, connected>>
    BY <1>7 DEF Consult, ToggleRunPicker, CloseRunPicker, DropProfile, TypeHelp, AnalyzeHelpOutput,
       LoadSample, ClearHelp, ParseStartupLog, RecentRunsArrive, Recheck, optimizerVars
  <2> QED BY <2>1
<1>8. CASE ConnectedModelsArrive
  BY <1>8, NamedIsSized DEF ConnectedModelsArrive
<1> HIDE DEF CapacityInv, sideVars, engineVars
<1> QED BY <1>1, <1>2, <1>3, <1>4, <1>5, <1>6, <1>7, <1>8

\* The memory bar, the badge, the chart of the users, the curve of the contexts
\* and the safe maximum agree on how many users fit (utils/vllmOptimizer.js),
\* whatever is chosen, typed, applied, pruned and reset.
THEOREM CapacityCorrect == Spec => []CapacityAgrees
<1>1. PagesInit => CapacityInv
  <2>1. PagesInit => \E link \in Links \cup {NoLink} : OptimizerInit(link)
    BY Zenon DEF PagesInit
  <2>2. NoLink.prompt = 0 /\ NoLink.completion = 0 /\ NoLink.users = 0
    BY Zenon DEF NoLink
  <2>3. \A link \in Links \cup {NoLink} : {link.prompt, link.completion, link.users} \subseteq Nat
    BY <2>2, PagesAssumption
  <2> QED BY <2>1, <2>3, CapacityStarts, OptimizerAssumption
<1>2. CapacityInv /\ [Next]_pagesVars => CapacityInv'
  <2> SUFFICES ASSUME CapacityInv, [Next]_pagesVars
               PROVE  CapacityInv'
    OBVIOUS
  <2>1. Configure \/ Consult \/ Settle \/ UNCHANGED optimizerVars
    BY Zenon DEF Next, pagesVars
  <2> QED BY <2>1, OptimizerAssumption, NamesAssumption, ControlsKeepCapacity, OthersKeepCapacity,
             ModelsKeepCapacity, LengthKeepsCapacity, ParallelismKeepsCapacity
          DEF Configure, Settle
<1>3. CapacityInv => CapacityAgrees
  BY CapacityFollows
<1> QED BY <1>1, <1>2, <1>3, PTL DEF Spec

(***************************************************************************)
(* Lists, and those of their things that a reader of the plan looks at.    *)
(***************************************************************************)
\* A set of numbers has a least one, and so a set that goes on from each of its
\* numbers holds them all.
LEMMA LeastNumber ==
  ASSUME NEW S \in SUBSET Nat, S # {}
  PROVE  \E n \in S : \A m \in S : n <= m
<1>1. PICK n \in S : \A m \in S : <<m, n>> \notin OpToRel(<, Nat)
  BY WFMin, NatLessThanWellFounded, Zenon
<1>2. \A m \in S : ~(m < n)
  BY <1>1, Zenon DEF OpToRel
<1> QED BY <1>2

LEMMA SetInduction ==
  ASSUME NEW S, 0 \in S, \A n \in Nat : n \in S => n + 1 \in S
  PROVE  \A n \in Nat : n \in S
<1>1. SUFFICES ASSUME NEW k \in Nat, k \notin S PROVE FALSE
  OBVIOUS
<1> DEFINE T == {n \in Nat : n \notin S}
<1>2. PICK n \in T : \A m \in T : n <= m
  BY <1>1, LeastNumber
<1>3. n # 0 /\ n - 1 \in Nat /\ n - 1 \notin T
  BY <1>2
<1> QED BY <1>2, <1>3

\* The step of Those at a place, and the function that takes it everywhere.
ThoseStep(s, chosen, at, i) ==
    IF i = 0 THEN <<>>
    ELSE IF s[i] \in chosen THEN Append(at[i - 1], s[i]) ELSE at[i - 1]

AreThose(s, chosen, at) == at = [i \in 0..Len(s) |-> ThoseStep(s, chosen, at, i)]

\* Those takes one such function, and there is one.
LEMMA ThoseUnfold ==
  ASSUME NEW s, NEW chosen
  PROVE  Those(s, chosen) = (CHOOSE at : AreThose(s, chosen, at))[Len(s)]
BY Zenon DEF Those, AreThose, ThoseStep

LEMMA ThoseExist ==
  ASSUME NEW s, NEW chosen, Len(s) \in Nat
  PROVE  \E at : AreThose(s, chosen, at)
<1> DEFINE Done == {k \in Nat : \E at : at = [i \in 0..k |-> ThoseStep(s, chosen, at, i)]}
<1>1. 0 \in Done
  <2> DEFINE first == [i \in 0..0 |-> ThoseStep(s, chosen, <<>>, 0)]
  <2>1. first = [i \in 0..0 |-> ThoseStep(s, chosen, first, i)]
    BY DEF ThoseStep
  <2> HIDE DEF first
  <2>2. \E at : at = [i \in 0..0 |-> ThoseStep(s, chosen, at, i)]
    BY <2>1
  <2> QED BY <2>2
<1>2. ASSUME NEW k \in Nat, k \in Done
      PROVE  k + 1 \in Done
  <2>1. PICK f : f = [i \in 0..k |-> ThoseStep(s, chosen, f, i)]
    BY <1>2
  <2> DEFINE g == [i \in 0..(k + 1) |-> ThoseStep(s, chosen, f, i)]
  <2>2. \A i \in 0..k : g[i] = f[i]
    <3>1. \A i \in 0..k : f[i] = ThoseStep(s, chosen, f, i)
      BY <2>1
    <3> QED BY <3>1
  <2>3. ASSUME NEW i \in 0..(k + 1)
        PROVE  ThoseStep(s, chosen, g, i) = ThoseStep(s, chosen, f, i)
    <3>1. CASE i = 0
      BY <3>1 DEF ThoseStep
    <3>2. CASE i # 0
      <4> HIDE DEF g
      <4>1. g[i - 1] = f[i - 1]
        BY <2>2, <3>2
      <4> QED BY <3>2, <4>1 DEF ThoseStep
    <3> QED BY <3>1, <3>2
  <2>4. g = [i \in 0..(k + 1) |-> ThoseStep(s, chosen, g, i)]
    BY <2>3
  <2> HIDE DEF g
  <2>5. \E h : h = [i \in 0..(k + 1) |-> ThoseStep(s, chosen, h, i)]
    BY <2>4
  <2> QED BY <2>5
<1> HIDE DEF Done
<1>3. Len(s) \in Done
  BY <1>1, <1>2, SetInduction
<1> QED BY <1>3 DEF Done, AreThose

\* What a list holds when something is put behind it.
LEMMA AppendAdds ==
  ASSUME NEW S, NEW s \in Seq(S), NEW x \in S
  PROVE  Append(s, x) \in Seq(S) /\ ToSet(Append(s, x)) = ToSet(s) \cup {x}
<1>1. /\ Append(s, x) \in Seq(S) /\ Len(Append(s, x)) = Len(s) + 1
      /\ \A i \in 1..Len(s) : Append(s, x)[i] = s[i]
      /\ Append(s, x)[Len(s) + 1] = x
  BY AppendProperties
<1>2. /\ Len(s) \in Nat /\ DOMAIN s = 1..Len(s)
      /\ DOMAIN Append(s, x) = 1..Len(Append(s, x))
  BY <1>1, LenProperties
<1>3. DOMAIN Append(s, x) = DOMAIN s \cup {Len(s) + 1}
  BY <1>1, <1>2
<1> QED BY <1>1, <1>2, <1>3 DEF ToSet

\* Those are the chosen of the list.
LEMMA ThoseAre ==
  ASSUME NEW S, NEW s \in Seq(S), NEW chosen
  PROVE  Those(s, chosen) \in Seq(S) /\ ToSet(Those(s, chosen)) = ToSet(s) \cap chosen
<1> DEFINE at == CHOOSE at : AreThose(s, chosen, at)
           Before(i) == {s[j] : j \in 1..i}
           Right(i) == at[i] \in Seq(S) /\ ToSet(at[i]) = Before(i) \cap chosen
           Rights == {i \in Nat : i <= Len(s) => Right(i)}
<1>1. Len(s) \in Nat /\ DOMAIN s = 1..Len(s) /\ \A i \in 1..Len(s) : s[i] \in S
  BY LenProperties, ElementOfSeq
<1>2. AreThose(s, chosen, at)
  BY <1>1, ThoseExist
<1>3. Those(s, chosen) = at[Len(s)]
  BY ThoseUnfold
<1> HIDE DEF at
<1>4. \A i \in 0..Len(s) : at[i] = ThoseStep(s, chosen, at, i)
  BY <1>2, Zenon DEF AreThose
<1>5. 0 \in Rights
  <2>1. at[0] = <<>>
    BY <1>1, <1>4 DEF ThoseStep
  <2>2. <<>> \in Seq(S) /\ ToSet(<<>>) = {}
    BY EmptySeq DEF ToSet
  <2>3. Before(0) = {}
    OBVIOUS
  <2> QED BY <2>1, <2>2, <2>3
<1>6. ASSUME NEW k \in Nat, k \in Rights
      PROVE  k + 1 \in Rights
  <2> SUFFICES ASSUME k + 1 <= Len(s)
               PROVE  Right(k + 1)
    OBVIOUS
  <2>1. Right(k)
    BY <1>1, <1>6
  <2>2. /\ k + 1 \in 1..Len(s) /\ k + 1 # 0 /\ (k + 1) - 1 = k /\ s[k + 1] \in S
        /\ Before(k + 1) = Before(k) \cup {s[k + 1]}
    BY <1>1
  <2> HIDE DEF Before
  <2>3. at[k + 1] = IF s[k + 1] \in chosen THEN Append(at[k], s[k + 1]) ELSE at[k]
    BY <1>1, <1>4, <2>2 DEF ThoseStep
  <2>4. ToSet(Append(at[k], s[k + 1])) = ToSet(at[k]) \cup {s[k + 1]} /\ Append(at[k], s[k + 1]) \in Seq(S)
    BY <2>1, <2>2, AppendAdds
  <2> QED BY <2>1, <2>2, <2>3, <2>4
<1> HIDE DEF Rights
<1>7. Len(s) \in Rights
  BY <1>1, <1>5, <1>6, SetInduction
<1>8. Right(Len(s))
  BY <1>1, <1>7 DEF Rights
<1>9. Before(Len(s)) = ToSet(s)
  BY <1>1 DEF ToSet
<1> QED BY <1>3, <1>8, <1>9

\* What is in a list, and what an empty one is.
LEMMA Listed ==
  ASSUME NEW S, NEW s \in Seq(S)
  PROVE  /\ s = <<>> <=> ToSet(s) = {}
         /\ s # <<>> => s[1] \in ToSet(s) /\ Last(s) \in ToSet(s)
         /\ ToSet(s) \subseteq S
         /\ Len(s) <= 1 /\ s # <<>> => ToSet(s) = {s[1]}
<1>1. Len(s) \in Nat /\ DOMAIN s = 1..Len(s) /\ \A i \in 1..Len(s) : s[i] \in S
  BY LenProperties, ElementOfSeq
<1>2. s = <<>> <=> Len(s) = 0
  BY EmptySeq
<1>3. s # <<>> => 1 \in DOMAIN s /\ Len(s) \in DOMAIN s
  BY <1>1, <1>2
<1>4. Len(s) <= 1 /\ s # <<>> => DOMAIN s = {1}
  BY <1>1, <1>2
<1>5. ToSet(s) = {s[i] : i \in DOMAIN s} /\ Last(s) = s[Len(s)]
  BY DEF ToSet, Last
<1>6. s = <<>> => ToSet(s) = {}
  BY <1>1, <1>2, <1>5
<1> QED BY <1>1, <1>3, <1>4, <1>5, <1>6

(***************************************************************************)
(* What a plan consists of, whatever was typed, loaded or imported.        *)
(***************************************************************************)
\* The kinds of timers, and the fields of groups, elements and plans.
Timers == {"uniform", "constant", "gaussian"}
GroupNumbers == {"target_users", "duration_seconds", "rampup_step_users", "rampup_step_seconds",
                 "rampdown_seconds", "temperature", "top_p", "max_tokens", "request_timeout"}
GroupFields == {"id", "on", "ready", "pattern", "streaming", "n"}
ElementNumbers == {"min_ms", "max_ms", "delay_ms", "deviation_ms", "data", "max_tokens", "temperature"}
ElementFields == ElementNumbers \cup {"type", "on", "timer", "entries"}

\* The numbers of a group, and of an element, are none below zero.
IsGroup(g) == DOMAIN g = GroupFields /\ g.pattern \in Patterns /\ g.n \in [GroupNumbers -> Nat]
IsElement(e) == /\ DOMAIN e = ElementFields /\ e.timer \in Timers
                /\ \A f \in ElementNumbers : e[f] \in Nat

PlanFields == {"named", "serialize", "groups", "elements", "assertions", "listeners"}

\* Lists of groups, of elements, and any.
GroupList(s)   == \E S : s \in Seq(S) /\ \A g \in S : IsGroup(g)
ElementList(s) == \E S : s \in Seq(S) /\ \A e \in S : IsElement(e)
AnyList(s)     == \E S : s \in Seq(S)

IsPlan(p) ==
    /\ DOMAIN p = PlanFields
    /\ GroupList(p.groups) /\ ElementList(p.elements) /\ AnyList(p.assertions)

\* The inductive invariant: the form always holds a plan.
FormTypeInv == IsPlan(plan)

\* The enabled things of a list.
LEMMA OnAre ==
  ASSUME NEW S, NEW s \in Seq(S)
  PROVE  On(s) \in Seq(S) /\ ToSet(On(s)) = {t \in ToSet(s) : t.on}
<1> DEFINE chosen == {t \in ToSet(s) : t.on}
<1>1. On(s) = Those(s, chosen)
  BY DEF On
<1>2. ToSet(s) \cap chosen = chosen
  OBVIOUS
<1> HIDE DEF chosen
<1>3. Those(s, chosen) \in Seq(S) /\ ToSet(Those(s, chosen)) = ToSet(s) \cap chosen
  BY ThoseAre
<1> QED BY <1>1, <1>2, <1>3 DEF chosen

\* The enabled groups of a plan.
LEMMA GroupsOn ==
  ASSUME FormTypeInv
  PROVE  /\ \A g \in ToSet(On(plan.groups)) : IsGroup(g) /\ g.on
         /\ On(plan.groups) = <<>> <=> ToSet(On(plan.groups)) = {}
<1>1. PICK S : plan.groups \in Seq(S) /\ \A g \in S : IsGroup(g)
  BY DEF FormTypeInv, IsPlan, GroupList, ElementList
<1>2. ToSet(plan.groups) \subseteq S
  BY <1>1, Listed
<1>3. On(plan.groups) \in Seq(S) /\ ToSet(On(plan.groups)) = {t \in ToSet(plan.groups) : t.on}
  BY <1>1, OnAre
<1>4. On(plan.groups) = <<>> <=> ToSet(On(plan.groups)) = {}
  BY <1>3, Listed
<1> QED BY <1>1, <1>2, <1>3, <1>4

\* The enabled elements of some types.
LEMMA ElementsAre ==
  ASSUME FormTypeInv
  PROVE  \E S : /\ \A e \in S : IsElement(e)
                /\ plan.elements \in Seq(S) /\ On(plan.elements) \in Seq(S)
                /\ \A types : /\ Elements(types) \in Seq(S)
                              /\ ToSet(Elements(types)) =
                                     {e \in ToSet(plan.elements) : e.on /\ e.type \in types}
<1>1. PICK S : plan.elements \in Seq(S) /\ \A e \in S : IsElement(e)
  BY DEF FormTypeInv, IsPlan, GroupList, ElementList
<1>2. On(plan.elements) \in Seq(S) /\ ToSet(On(plan.elements)) = {t \in ToSet(plan.elements) : t.on}
  BY <1>1, OnAre
<1>3. ASSUME NEW types
      PROVE  /\ Elements(types) \in Seq(S)
             /\ ToSet(Elements(types)) = {e \in ToSet(plan.elements) : e.on /\ e.type \in types}
  <2> DEFINE chosen == {e \in ToSet(plan.elements) : e.type \in types}
  <2>1. Elements(types) = Those(On(plan.elements), chosen)
    BY DEF Elements
  <2>2. ToSet(On(plan.elements)) \cap chosen = {e \in ToSet(plan.elements) : e.on /\ e.type \in types}
    BY <1>2
  <2> HIDE DEF chosen
  <2>3. Elements(types) \in Seq(S) /\ ToSet(Elements(types)) = ToSet(On(plan.elements)) \cap chosen
    BY <1>2, <2>1, ThoseAre
  <2> QED BY <2>2, <2>3
<1> QED BY <1>1, <1>2, <1>3

\* Whole steps within a time, and how many of them reach a target.
LEMMA WholeSteps ==
  ASSUME NEW n \in Nat, NEW d \in Nat \ {0}, NEW t \in Nat
  PROVE  t \div d \in Nat /\ (n * d <= t => t \div d >= n)
<1>1. t \div d \in Int /\ d * (t \div d) <= t /\ t < d * (t \div d) + d
  BY SMT
<1>2. t \div d \in Nat
  BY <1>1, SMT
<1>3. ASSUME n * d <= t, t \div d < n
      PROVE  FALSE
  <2> DEFINE q == t \div d
             r == n - q
  <2>1. q \in Nat /\ r \in Nat \ {0} /\ n = q + r
    BY <1>2, <1>3
  <2> HIDE DEF q, r
  <2>2. n * d = q * d + r * d /\ r * d >= d /\ q * d = d * q
    BY <2>1, SMT
  <2>3. t < d * q + d
    BY <1>1 DEF q
  <2> QED BY <1>3, <2>1, <2>2, <2>3, SMT
<1> QED BY <1>2, <1>3

LEMMA StepsReach ==
  ASSUME NEW target \in Nat, NEW users \in Nat \ {0}, NEW k \in Nat, k >= Steps(target, users)
  PROVE  Steps(target, users) \in Nat /\ k * users >= target
<1> DEFINE q == (target + users - 1) \div users
<1>1. target + users - 1 \in Nat
  OBVIOUS
<1>2. q \in Nat /\ target + users - 1 < users * q + users
  BY <1>1, SMT
<1>3. Steps(target, users) = q
  BY DEF Steps
<1> HIDE DEF q
<1>4. users * q >= target /\ k >= q
  BY <1>2, <1>3
<1>5. k * users >= users * q
  BY <1>2, <1>4, SMT
<1>6. k * users \in Nat /\ users * q \in Nat
  BY <1>2, SMT
<1> QED BY <1>2, <1>3, <1>4, <1>5, <1>6

\* The numbers the engine is given.
LEMMA AppliedNumbers ==
  ASSUME NEW g, IsGroup(g)
  PROVE  LET x == Applied(g)
             s == Schedule(g)
         IN  /\ x.target_users = s.target /\ s.target \in Nat \ {0}
             /\ x.duration_seconds = Else(g.n.duration_seconds, 60)
             /\ x.rampup_step_users = s.stepUsers /\ s.stepUsers \in Nat \ {0}
             /\ x.rampup_step_seconds = s.stepSeconds /\ s.stepSeconds \in Nat \ {0}
             /\ x.request_timeout = Else(g.n.request_timeout, 120)
             /\ Budgets("max_tokens") = <<>> => x.max_tokens = Sent(g).max_tokens
             /\ Budgets("temperature") = <<>> => x.temperature = Sent(g).temperature
             /\ s.duration \in Nat /\ s.duration >= 10 /\ x.duration_seconds \in Nat
             /\ s.duration >= x.duration_seconds
             /\ x.duration_seconds >= 10 => s.duration = x.duration_seconds
<1> DEFINE x == Applied(g)
           s == Schedule(g)
<1>1. \A f \in GroupNumbers : g.n[f] \in Nat
  BY DEF IsGroup
<1>2. /\ x.target_users = Sent(g).target_users /\ x.duration_seconds = Sent(g).duration_seconds
      /\ x.rampup_step_users = Sent(g).rampup_step_users
      /\ x.rampup_step_seconds = Sent(g).rampup_step_seconds
      /\ x.request_timeout = Sent(g).request_timeout
      /\ Budgets("max_tokens") = <<>> => x.max_tokens = Sent(g).max_tokens
      /\ Budgets("temperature") = <<>> => x.temperature = Sent(g).temperature
  BY DEF Applied, Sent
<1>3. /\ Sent(g).target_users = Else(g.n.target_users, 10)
      /\ Sent(g).duration_seconds = Else(g.n.duration_seconds, 60)
      /\ Sent(g).rampup_step_users = Else(g.n.rampup_step_users, 5)
      /\ Sent(g).rampup_step_seconds = Else(g.n.rampup_step_seconds, 10)
      /\ Sent(g).request_timeout = Else(g.n.request_timeout, 120)
  BY DEF Sent
<1>4. /\ s.target = Else(g.n.target_users, 10)
      /\ s.duration = AtLeast(10, Else(g.n.duration_seconds, 60))
      /\ s.stepUsers = AtLeast(1, Else(g.n.rampup_step_users, 5))
      /\ s.stepSeconds = AtLeast(1, Else(g.n.rampup_step_seconds, 10))
  BY DEF Schedule
<1>5. /\ g.n.target_users \in Nat /\ g.n.duration_seconds \in Nat
      /\ g.n.rampup_step_users \in Nat /\ g.n.rampup_step_seconds \in Nat
  BY <1>1 DEF GroupNumbers
<1> HIDE DEF x, s
<1>6. /\ x.target_users = s.target /\ s.target \in Nat \ {0}
      /\ x.rampup_step_users = s.stepUsers /\ s.stepUsers \in Nat \ {0}
      /\ x.rampup_step_seconds = s.stepSeconds /\ s.stepSeconds \in Nat \ {0}
  BY <1>2, <1>3, <1>4, <1>5 DEF Else, AtLeast
<1>7. /\ s.duration \in Nat /\ s.duration >= 10 /\ x.duration_seconds \in Nat
      /\ s.duration >= x.duration_seconds
      /\ x.duration_seconds >= 10 => s.duration = x.duration_seconds
  BY <1>2, <1>3, <1>4, <1>5 DEF Else, AtLeast
<1> QED BY <1>2, <1>3, <1>6, <1>7 DEF x, s

\* Preview and engine at any second of a group's time, not only those compared.
LEMMA CurvesAgree ==
  ASSUME NEW g, IsGroup(g), NEW sec \in Nat, sec < Applied(g).duration_seconds
  PROVE  LET s == Schedule(g)
             drawn == UsersAt(s, sec)
             run == ServerUsers(g.pattern, Applied(g), sec)
         IN  /\ g.pattern \in {"constant", "rampup"} => drawn = run
             /\ g.pattern = "stress" => run \in {0, drawn}
             /\ g.pattern = "spike" => drawn # s.target \/ run = s.target
<1> DEFINE s == Schedule(g)
           x == Applied(g)
           k == sec \div s.stepSeconds + 1
           climbed == (sec \div s.stepSeconds + 1) * s.stepUsers
<1>1. /\ x.target_users = s.target /\ s.target \in Nat \ {0}
      /\ x.rampup_step_users = s.stepUsers /\ s.stepUsers \in Nat \ {0}
      /\ x.rampup_step_seconds = s.stepSeconds /\ s.stepSeconds \in Nat \ {0}
      /\ s.duration \in Nat /\ s.duration >= 10 /\ x.duration_seconds \in Nat
      /\ s.duration >= x.duration_seconds
      /\ x.duration_seconds >= 10 => s.duration = x.duration_seconds
  BY AppliedNumbers
<1>2. s.pattern = g.pattern
  BY DEF Schedule
<1>3. sec < x.duration_seconds
  OBVIOUS
<1> HIDE DEF s, x
<1>4. ~(sec > s.duration) /\ sec <= s.duration /\ ~(sec >= x.duration_seconds)
  BY <1>1, <1>3
<1>5. k \in Nat /\ climbed \in Nat
  <2>1. sec \div s.stepSeconds \in Nat
    BY <1>1, WholeSteps
  <2> QED BY <1>1, <2>1, SMT
<1>6. CASE g.pattern = "constant"
  BY <1>2, <1>3, <1>4, <1>6, <1>1 DEF UsersAt, ServerUsers, s, x
<1>7. CASE g.pattern = "rampup"
  <2>1. UsersAt(s, sec) = IF sec < Steps(s.target, s.stepUsers) * s.stepSeconds
                          THEN AtMost(s.target, climbed) ELSE s.target
    BY <1>1, <1>2, <1>4, <1>7 DEF UsersAt
  <2>2. ServerUsers(g.pattern, x, sec) = AtMost(s.target, climbed)
    BY <1>1, <1>3, <1>4, <1>7 DEF ServerUsers
  <2>3. ASSUME ~(sec < Steps(s.target, s.stepUsers) * s.stepSeconds)
        PROVE  AtMost(s.target, climbed) = s.target
    <3>1. Steps(s.target, s.stepUsers) \in Nat
      <4>1. s.target + s.stepUsers - 1 \in Nat
        BY <1>1
      <4> QED BY <1>1, <4>1, WholeSteps DEF Steps
    <3> DEFINE n == Steps(s.target, s.stepUsers)
    <3> HIDE DEF n
    <3>2. n \in Nat /\ n * s.stepSeconds \in Nat /\ n * s.stepSeconds <= sec
      BY <1>1, <2>3, <3>1, SMT DEF n
    <3>3. sec \div s.stepSeconds >= n /\ sec \div s.stepSeconds \in Nat
      BY <1>1, <3>2, WholeSteps
    <3>4. k >= n
      BY <3>2, <3>3
    <3>5. climbed >= s.target
      BY <1>1, <1>5, <3>4, StepsReach DEF n
    <3> HIDE DEF climbed
    <3> QED BY <1>1, <1>5, <3>5 DEF AtMost
  <2> QED BY <1>7, <2>1, <2>2, <2>3 DEF s, x
<1>8. CASE g.pattern = "stress"
  <2>1. UsersAt(s, sec) = AtMost((130 * s.target + 50) \div 100, climbed)
    BY <1>1, <1>2, <1>4, <1>8 DEF UsersAt
  <2>2. ServerUsers(g.pattern, x, sec) =
            IF climbed <= AtMost(MAX_CONCURRENT_USERS, s.target) THEN climbed ELSE 0
    BY <1>1, <1>3, <1>4, <1>8 DEF ServerUsers
  <2> HIDE DEF climbed
  <2>3. climbed <= AtMost(MAX_CONCURRENT_USERS, s.target) => climbed <= s.target
    BY <1>1, <1>5 DEF AtMost, MAX_CONCURRENT_USERS
  <2>4. (130 * s.target + 50) \div 100 \in Nat /\ s.target <= (130 * s.target + 50) \div 100
    BY <1>1
  <2>5. climbed <= s.target => AtMost((130 * s.target + 50) \div 100, climbed) = climbed
    BY <1>1, <1>5, <2>4 DEF AtMost
  <2> QED BY <1>8, <2>1, <2>2, <2>3, <2>5 DEF s, x
<1>9. CASE g.pattern = "spike"
  <2> DEFINE low == AtLeast(1, (15 * s.target + 50) \div 100)
             peak == (30 * s.duration + 50) \div 100 <= sec /\ sec <= (60 * s.duration + 50) \div 100
             warm == sec < 10 /\ 5 * sec < x.duration_seconds
  <2>1. UsersAt(s, sec) = IF peak THEN s.target ELSE low
    BY <1>1, <1>2, <1>4, <1>9 DEF UsersAt
  <2>2. ServerUsers(g.pattern, x, sec) = IF warm THEN AtMost(5, s.target) ELSE s.target
    BY <1>1, <1>3, <1>4, <1>9 DEF ServerUsers
  <2>3. peak => ~warm
    BY <1>1
  <2>4. low = s.target => AtMost(5, s.target) = s.target
    BY <1>1 DEF AtLeast, AtMost
  <2> HIDE DEF low, peak, warm
  <2> QED BY <1>9, <2>1, <2>2, <2>3, <2>4 DEF s, x
<1>10. g.pattern \in Patterns
  BY DEF IsGroup
<1> QED BY <1>6, <1>7, <1>8, <1>9, <1>10 DEF Patterns, s, x

\* The numbers of a group that runs.
LEMMA GroupsAreReadAlike ==
  ASSUME FormTypeInv, NEW g \in ToSet(On(plan.groups))
  PROVE  OneReading(g)
<1>1. /\ IsGroup(g) /\ g.pattern \in Patterns
      /\ \A f \in GroupNumbers : g.n[f] \in Nat
  BY GroupsOn DEF IsGroup
<1> DEFINE s == Schedule(g)
           j == JmxThreads(g)
<1>2. /\ s.target = j.num_threads /\ s.target = Else(g.n.target_users, 10)
      /\ s.maxTokens = j.max_tokens /\ SamplerPreview(g).max_tokens = j.max_tokens
      /\ SamplerPreview(g).temperature = j.temperature
      /\ s.pattern = g.pattern
  BY DEF Schedule, JmxThreads, SamplerPreview, Sent
<1>3. /\ s.duration = AtLeast(10, Else(g.n.duration_seconds, 60))
      /\ j.duration = Else(g.n.duration_seconds, 60)
  BY DEF Schedule, JmxThreads, Sent
<1>4. Else(g.n.duration_seconds, 60) \in Nat
  BY <1>1 DEF Else, GroupNumbers
<1>5. (j.duration >= 10 => s.duration = j.duration) /\ s.duration \in Nat /\ s.duration >= 10
  BY <1>3, <1>4 DEF AtLeast
<1>6. LET x == Applied(g)
      IN  /\ s.target = x.target_users /\ j.response_timeout = 1000 * x.request_timeout
          /\ x.duration_seconds >= 10 => s.duration = x.duration_seconds
          /\ j.duration = x.duration_seconds
          /\ Budgets("max_tokens") = <<>> => x.max_tokens = s.maxTokens
          /\ Budgets("temperature") = <<>> => x.temperature = j.temperature
  <2>1. /\ j.response_timeout = 1000 * Else(g.n.request_timeout, 120)
        /\ s.maxTokens = Sent(g).max_tokens /\ j.temperature = Sent(g).temperature
    BY DEF JmxThreads, Sent, Schedule
  <2> QED BY <1>1, <1>3, <2>1, AppliedNumbers
<1>7. g = plan.groups[1] => K6.target = s.target /\ K6.max_tokens = s.maxTokens
  BY DEF K6, Schedule, Sent
<1>8. ASSUME g.pattern \in {"constant", "rampup"}, j.ramp_time <= s.duration
      PROVE  UsersAt(s, j.ramp_time) = j.num_threads
  <2> DEFINE users == AtLeast(1, Else(g.n.rampup_step_users, 5))
             seconds == AtLeast(1, Else(g.n.rampup_step_seconds, 10))
             target == Else(g.n.target_users, 10)
  <2>1. users \in Nat \ {0} /\ seconds \in Nat \ {0} /\ target \in Nat
    BY <1>1 DEF Else, GroupNumbers, AtLeast
  <2>2. /\ s.stepUsers = users /\ s.stepSeconds = seconds /\ s.target = target
        /\ j.num_threads = target
        /\ j.ramp_time = IF g.pattern = "constant" THEN 0 ELSE Steps(target, users) * seconds
    BY DEF Schedule, JmxThreads, Sent
  <2> HIDE DEF users, seconds, target, s, j
  <2>3. Steps(target, users) \in Int /\ Steps(target, users) * seconds \in Int
    BY <2>1 DEF Steps
  <2>4. j.ramp_time \in Int /\ ~(j.ramp_time > s.duration) /\ j.ramp_time <= s.duration
    BY <1>5, <1>8, <2>2, <2>3
  <2>5. CASE g.pattern = "constant"
    BY <1>2, <1>5, <2>2, <2>4, <2>5 DEF UsersAt
  <2>6. CASE g.pattern = "rampup"
    BY <1>2, <1>5, <2>2, <2>3, <2>4, <2>6 DEF UsersAt
  <2> QED BY <1>8, <2>5, <2>6
<1>9. ASSUME NEW d \in JmxDurations(g), d >= j.response_timeout
      PROVE  "timeout-sla-mismatch" \in Warnings \/ d \in {2000, 3500}
  <2>1. PICK a \in ToSet(On(plan.assertions)) :
            /\ a.type \in {"latency", "p99_latency"} /\ About(a, g)
            /\ d = Else(a.limit, IF a.type = "latency" THEN 2000 ELSE 3500)
    BY <1>9 DEF JmxDurations
  <2>2. j.response_timeout = 1000 * Else(g.n.request_timeout, 120)
    BY DEF JmxThreads, Sent
  <2>3. CASE a.limit = 0
    BY <2>1, <2>3 DEF Else
  <2>4. CASE a.limit # 0
    <3>1. a.limit >= 1000 * Else(g.n.request_timeout, 120)
      BY <1>9, <2>1, <2>2, <2>4 DEF Else
    <3> QED BY <2>1, <2>4, <3>1 DEF Warnings
  <2> QED BY <2>3, <2>4
<1>10. OneCurve(g)
  <2>1. \A sec \in Moments(s) : sec \in Nat
    BY <1>5 DEF Moments
  <2> QED BY <1>1, <2>1, CurvesAgree DEF OneCurve
<1> QED BY <1>2, <1>6, <1>7, <1>8, <1>9, <1>10 DEF OneReading

\* A timer that has its numbers.
LEMMA PausesAgree ==
  ASSUME NEW e, IsElement(e), e.min_ms > 0, e.delay_ms > 0, e.max_ms >= e.min_ms
  PROVE  JmxPause(e) = ServerPause(e)
<1>1. /\ e.min_ms \in Nat /\ e.max_ms \in Nat /\ e.delay_ms \in Nat
      /\ e.timer \in Timers
  BY DEF IsElement, ElementNumbers
<1>2. Else(e.min_ms, 200) = e.min_ms /\ Else(e.max_ms, 800) = e.max_ms
  BY <1>1 DEF Else
<1>3. \A default : Else(e.delay_ms, default) = e.delay_ms
  BY <1>1 DEF Else
<1>4. AtLeast(e.min_ms, e.max_ms) = e.max_ms
  BY <1>1 DEF AtLeast
<1>5. CASE e.timer = "constant"
  BY <1>3, <1>5 DEF JmxPause, ServerPause
<1>6. CASE e.timer = "gaussian"
  BY <1>3, <1>6 DEF JmxPause, ServerPause
<1>7. CASE e.timer = "uniform"
  BY <1>2, <1>4, <1>7 DEF JmxPause, ServerPause
<1> QED BY <1>1, <1>5, <1>6, <1>7 DEF Timers

\* The warnings that keep a plan from being valid.
LEMMA ValidityIsWarned ==
  ASSUME FormTypeInv, plan.named
  PROVE  ValidForm <=> Warnings \cap {"no-active-groups", "missing-target"} = {}
<1> DEFINE groups == ToSet(On(plan.groups))
<1>1. "no-active-groups" \in Warnings <=> groups = {}
  BY DEF Warnings
<1>2. "missing-target" \in Warnings <=> \E g \in groups : ~g.ready
  BY DEF Warnings
<1>3. On(plan.groups) = <<>> <=> groups = {}
  BY GroupsOn
<1> QED BY <1>1, <1>2, <1>3 DEF ValidForm

\* With one element of variables, a name stands for what that element says.
LEMMA NamesAreReadAlike ==
  ASSUME FormTypeInv, Len(Variables) <= 1, NEW name
  PROVE  PreviewValue(name) = ServerValue(name)
<1>1. PICK S : Variables \in Seq(S)
  BY ElementsAre DEF Variables
<1> DEFINE chosen == {e \in ToSet(Variables) : name \in DOMAIN e.entries}
           knowing == Those(Variables, chosen)
<1>2. ToSet(Variables) \cap chosen = chosen
  OBVIOUS
<1>3. ServerValue(name) = IF knowing = <<>> THEN "unresolved" ELSE knowing[1].entries[name]
  BY DEF ServerValue
<1> HIDE DEF chosen
<1>4. knowing \in Seq(S) /\ ToSet(knowing) = chosen
  BY <1>1, <1>2, ThoseAre
<1> HIDE DEF knowing
<1>5. (knowing = <<>> <=> chosen = {}) /\ (knowing # <<>> => knowing[1] \in chosen)
  BY <1>4, Listed
<1>6. CASE Variables = <<>>
  <2>1. ToSet(Variables) = {}
    BY <1>1, <1>6, Listed
  <2>2. chosen = {}
    BY <2>1 DEF chosen
  <2> QED BY <1>3, <1>5, <1>6, <2>2 DEF PreviewValue
<1>7. CASE Variables # <<>>
  <2>1. ToSet(Variables) = {Variables[1]}
    BY <1>1, <1>7, Listed
  <2>2. chosen = IF name \in DOMAIN Variables[1].entries THEN {Variables[1]} ELSE {}
    BY <2>1 DEF chosen
  <2> QED BY <1>3, <1>5, <1>7, <2>2 DEF PreviewValue
<1> QED BY <1>6, <1>7

\* With one data set, the prompts are those it holds.
LEMMA PromptsAreReadAlike ==
  ASSUME FormTypeInv, Len(Elements({"csv_data_set"})) <= 1, ServerPrompts > 0
  PROVE  JmxPrompts = ServerPrompts
<1> DEFINE sets == Elements({"csv_data_set"})
           chosen == {e \in ToSet(plan.elements) : e.data > 0}
           full == Those(sets, chosen)
<1>1. PICK S : sets \in Seq(S) /\ \A e \in S : IsElement(e)
  BY ElementsAre
<1>2. /\ ServerPrompts = IF full = <<>> THEN 0 ELSE Last(full).data
      /\ JmxPrompts = IF sets = <<>> THEN 1 ELSE AtLeast(1, sets[1].data)
  BY DEF ServerPrompts, JmxPrompts
<1> HIDE DEF sets
<1>3. full \in Seq(S) /\ ToSet(full) = ToSet(sets) \cap chosen
  BY <1>1, ThoseAre
<1> HIDE DEF full
<1>4. full # <<>> /\ Last(full) \in ToSet(sets) /\ ServerPrompts = Last(full).data
  <2>1. full # <<>>
    BY <1>2
  <2>2. Last(full) \in ToSet(full)
    BY <1>3, <2>1, Listed
  <2> QED BY <1>2, <1>3, <2>1, <2>2
<1>5. sets # <<>> /\ ToSet(sets) = {sets[1]}
  <2>1. sets # <<>>
    BY <1>1, <1>4, Listed
  <2>2. Len(sets) <= 1
    BY DEF sets
  <2> QED BY <1>1, <2>1, <2>2, Listed
<1>6. Last(full) = sets[1] /\ sets[1] \in S
  BY <1>1, <1>4, <1>5, Listed
<1>7. sets[1].data \in Nat
  BY <1>1, <1>6 DEF IsElement, ElementNumbers
<1> QED BY <1>2, <1>4, <1>5, <1>6, <1>7 DEF AtLeast

\* One step of the fold over the elements, in their order, and the function that
\* takes it for every part of them.
Collects(es, at, d) ==
    IF d = {} THEN <<>> ELSE WithElementOf(at[d \ {Max(d)}], es[Max(d)])

AreCollected(es, at) == at = [d \in SUBSET DOMAIN es |-> Collects(es, at, d)]

\* The server takes a list of elements as such a function does, and there is one.
LEMMA FoldUnfolds ==
  ASSUME NEW es
  PROVE  FoldLeft(WithElementOf, <<>>, es) = (CHOOSE at : AreCollected(es, at))[DOMAIN es]
BY Zenon DEF FoldLeft, MapThenFoldSet, AreCollected, Collects

\* A set of places has a last one.
LEMMA LastPlace ==
  ASSUME NEW n \in Nat, NEW d \in SUBSET (1..n), d # {}
  PROVE  Max(d) \in d
<1> DEFINE free == {k \in Nat : \A i \in d : i <= k}
<1>1. n \in free /\ free \in SUBSET Nat
  OBVIOUS
<1>2. PICK k \in free : \A l \in free : k <= l
  BY <1>1, LeastNumber
<1>3. k \in d
  <2>1. SUFFICES ASSUME k \notin d PROVE FALSE
    OBVIOUS
  <2>2. k # 0
    <3>1. PICK i \in d : TRUE
      OBVIOUS
    <3> QED BY <1>2, <3>1
  <2>3. k - 1 \in free
    BY <1>2, <2>1, <2>2
  <2> QED BY <1>2, <2>3
<1>4. \E i \in d : \A j \in d : i >= j
  BY <1>2, <1>3
<1> QED BY <1>4 DEF Max

LEMMA FoldExists ==
  ASSUME NEW es, IsFiniteSet(DOMAIN es),
         \A d \in SUBSET DOMAIN es : d # {} => Max(d) \in d
  PROVE  \E at : AreCollected(es, at)
<1> DEFINE Parts(k) == {d \in SUBSET DOMAIN es : Cardinality(d) <= k}
           Done == {k \in Nat : \E f : f = [d \in Parts(k) |-> Collects(es, f, d)]}
<1>1. \A d \in SUBSET DOMAIN es : IsFiniteSet(d) /\ Cardinality(d) \in Nat
  BY FS_Subset, FS_CardinalityType
<1>2. 0 \in Done
  <2>1. \A d \in Parts(0) : d = {}
    BY <1>1, FS_EmptySet
  <2>2. [d \in Parts(0) |-> <<>>] = [d \in Parts(0) |-> Collects(es, [t \in Parts(0) |-> <<>>], d)]
    BY <2>1 DEF Collects
  <2> QED BY <2>2
<1>3. ASSUME NEW k \in Nat, k \in Done
      PROVE  k + 1 \in Done
  <2>1. PICK f : f = [d \in Parts(k) |-> Collects(es, f, d)]
    BY <1>3
  <2> DEFINE g == [d \in Parts(k + 1) |-> Collects(es, f, d)]
  <2>2. \A d \in Parts(k) : d \in Parts(k + 1) /\ g[d] = f[d]
    <3>1. Parts(k) \subseteq Parts(k + 1)
      BY <1>1
    <3>2. \A d \in Parts(k) : f[d] = Collects(es, f, d)
      BY <2>1
    <3> QED BY <3>1, <3>2
  <2>3. ASSUME NEW d \in Parts(k + 1)
        PROVE  Collects(es, g, d) = Collects(es, f, d)
    <3>1. CASE d = {}
      BY <3>1 DEF Collects
    <3>2. CASE d # {}
      <4>1. Max(d) \in d
        BY <3>2
      <4>2. /\ d \in SUBSET DOMAIN es /\ Cardinality(d) \in Nat
            /\ Cardinality(d) <= k + 1 /\ IsFiniteSet(d)
        BY <1>1
      <4>3. Cardinality(d \ {Max(d)}) = Cardinality(d) - 1
        BY <4>1, <4>2, FS_RemoveElement
      <4>4. d \ {Max(d)} \in Parts(k)
        BY <4>2, <4>3
      <4>5. g[d \ {Max(d)}] = f[d \ {Max(d)}]
        BY <2>2, <4>4
      <4> QED BY <3>2, <4>5 DEF Collects
    <3> QED BY <3>1, <3>2
  <2>4. g = [d \in Parts(k + 1) |-> Collects(es, g, d)]
    BY <2>3
  <2> HIDE DEF g
  <2>5. \E h : h = [d \in Parts(k + 1) |-> Collects(es, h, d)]
    BY <2>4
  <2> QED BY <2>5
<1> HIDE DEF Done
<1>4. Cardinality(DOMAIN es) \in Done
  BY <1>1, <1>2, <1>3, SetInduction
<1>5. Parts(Cardinality(DOMAIN es)) = SUBSET DOMAIN es
  BY <1>1, FS_Subset
<1> QED BY <1>4, <1>5 DEF Done, AreCollected

\* The name of an entry that has none.
IsBlank(name) == name = ""

\* A name that an element with headers brings is in its rows of the JMeter file.
LEMMA HeadersAdd ==
  ASSUME NEW headers, NEW e, e.type \in {"header_manager", "auth_header"},
         NEW blank, IsBlank(blank),
         NEW k \in DOMAIN WithElementOf(headers, e), k # blank
  PROVE  \/ <<k, WithElementOf(headers, e)[k]>> \in HeaderRows(e)
         \/ k \in DOMAIN headers /\ WithElementOf(headers, e)[k] = headers[k]
<1>1. HeaderRows(e) = {<<x, e.entries[x]>> :
                           x \in DOMAIN e.entries \ (IF e.type = "auth_header" THEN {blank} ELSE {})}
  BY Zenon DEF HeaderRows, IsBlank
<1>2. \E keep : Filled(e.entries) = Restrict(e.entries, keep) /\ keep \subseteq DOMAIN e.entries
  BY Zenon DEF Filled
<1>3. CASE e.type = "auth_header"
  <2>1. WithElementOf(headers, e) = Over(e.entries, headers)
    BY <1>3 DEF WithElementOf
  <2> QED BY <1>1, <1>3, <2>1 DEF Over
<1>4. CASE e.type = "header_manager"
  <2>1. WithElementOf(headers, e) = Over(Filled(e.entries), headers)
    BY <1>4 DEF WithElementOf
  <2>2. PICK keep : Filled(e.entries) = Restrict(e.entries, keep) /\ keep \subseteq DOMAIN e.entries
    BY <1>2
  <2> QED BY <1>1, <1>4, <2>1, <2>2 DEF Over, Restrict
<1> QED BY <1>3, <1>4

\* Without variables, what the server collects is in the JMeter file.
LEMMA HeadersAreReadAlike ==
  ASSUME FormTypeInv, Variables = <<>>, NEW blank, IsBlank(blank),
         NEW k \in DOMAIN Collected, k # blank
  PROVE  <<k, Collected[k]>> \in JmxHeaders
<1> DEFINE both == {"header_manager", "auth_header"}
           es == Elements({"auth_header", "header_manager", "user_defined_variables"})
           at == CHOOSE at : AreCollected(es, at)
           Right(d) == \A x \in DOMAIN at[d] : x # blank => <<x, at[d][x]>> \in JmxHeaders
           Parts(l) == {d \in SUBSET DOMAIN es : Cardinality(d) <= l}
           Rights == {l \in Nat : \A d \in Parts(l) : Right(d)}
<1>1. PICK S : /\ es \in Seq(S) /\ Elements({"user_defined_variables"}) \in Seq(S)
               /\ \A types : ToSet(Elements(types)) = {e \in ToSet(plan.elements) : e.on /\ e.type \in types}
  BY ElementsAre
<1>2. ToSet(Elements({"user_defined_variables"})) = {}
  BY <1>1, Listed DEF Variables
<1>3. \A e \in ToSet(es) : e \in ToSet(Elements(both)) /\ e.type \in both
  BY <1>1, <1>2
<1>4. PICK n \in Nat : DOMAIN es = 1..n
  BY <1>1, LenProperties
<1>5. Collected = at[DOMAIN es]
  BY FoldUnfolds DEF Collected
<1> HIDE DEF es
<1>6. AreCollected(es, at)
  <2>1. IsFiniteSet(DOMAIN es)
    BY <1>4, FS_Interval
  <2>2. \A d \in SUBSET DOMAIN es : d # {} => Max(d) \in d
    BY <1>4, LastPlace
  <2> QED BY <2>1, <2>2, FoldExists
<1> HIDE DEF at
<1>7. \A d \in SUBSET DOMAIN es : at[d] = Collects(es, at, d)
  BY <1>6, Zenon DEF AreCollected
<1>8. \A i \in DOMAIN es : es[i] \in ToSet(es)
  BY DEF ToSet
<1>9. \A d \in SUBSET DOMAIN es : IsFiniteSet(d) /\ Cardinality(d) \in Nat
  <2>1. IsFiniteSet(DOMAIN es)
    BY <1>4, FS_Interval
  <2> QED BY <2>1, FS_Subset, FS_CardinalityType
<1>10. Right({})
  <2>1. at[{}] = <<>>
    BY <1>7 DEF Collects
  <2>2. DOMAIN <<>> = {}
    OBVIOUS
  <2> QED BY <2>1, <2>2
<1>11. 0 \in Rights
  <2>1. \A d \in Parts(0) : d = {}
    BY <1>9, FS_EmptySet
  <2> QED BY <1>10, <2>1
<1>12. ASSUME NEW l \in Nat, l \in Rights
       PROVE  l + 1 \in Rights
  <2>1. ASSUME NEW d \in Parts(l + 1), d # {}
        PROVE  Right(d)
    <3> DEFINE m == Max(d)
               rest == d \ {m}
    <3>1. m \in d
      BY <1>4, <2>1, LastPlace
    <3>2. rest \in Parts(l)
      <4>1. /\ d \in SUBSET DOMAIN es /\ Cardinality(d) \in Nat
            /\ Cardinality(d) <= l + 1 /\ IsFiniteSet(d)
        BY <1>9
      <4>2. Cardinality(rest) = Cardinality(d) - 1
        BY <3>1, <4>1, FS_RemoveElement
      <4> QED BY <4>1, <4>2
    <3>3. Right(rest)
      BY <1>12, <3>2
    <3>4. at[d] = WithElementOf(at[rest], es[m])
      BY <1>7, <2>1 DEF Collects
    <3>5. es[m] \in ToSet(Elements(both)) /\ es[m].type \in both
      BY <1>3, <1>8, <3>1
    <3>6. HeaderRows(es[m]) \subseteq JmxHeaders
      BY <3>5 DEF JmxHeaders
    <3> HIDE DEF m, rest
    <3> QED BY <3>3, <3>4, <3>5, <3>6, HeadersAdd
  <2> HIDE DEF Right
  <2>2. \A d \in Parts(l + 1) : Right(d)
    BY <1>10, <2>1
  <2> QED BY <2>2
<1> HIDE DEF Rights
<1>13. Cardinality(DOMAIN es) \in Rights
  BY <1>9, <1>11, <1>12, SetInduction
<1>14. Right(DOMAIN es)
  BY <1>9, <1>13 DEF Rights
<1> QED BY <1>5, <1>14

\* So names, prompts and headers mean the same, and numbers too.
LEMMA MeaningsAgree ==
  ASSUME FormTypeInv
  PROVE  OneMeaning
<1>1. ASSUME Len(Variables) <= 1, NEW name \in EntryNames
      PROVE  /\ PreviewValue(name) = ServerValue(name)
             /\ ServerValue(name) = "text" => JmxValue(name) = "text"
  <2>1. PreviewValue(name) = ServerValue(name)
    BY <1>1, NamesAreReadAlike
  <2>2. PICK blank : IsBlank(blank)
    BY Zenon DEF IsBlank
  <2>3. JmxValue(name) = IF name = ApiKey /\ PreviewValue(name) \in {blank, "unresolved"}
                         THEN "default key" ELSE PreviewValue(name)
    BY <2>2, Zenon DEF JmxValue, IsBlank
  <2>4. "text" # blank
    BY <2>2, Zenon DEF IsBlank
  <2> QED BY <2>1, <2>3, <2>4, Zenon
<1>2. PICK blank : IsBlank(blank)
  BY Zenon DEF IsBlank
<1>3. Variables = <<>> => \A k \in DOMAIN Collected \ {blank} : <<k, Collected[k]>> \in JmxHeaders
  BY <1>2, HeadersAreReadAlike
<1>4. /\ Len(Variables) <= 1 =>
          \A name \in EntryNames :
              /\ PreviewValue(name) = ServerValue(name)
              /\ ServerValue(name) = "text" => JmxValue(name) = "text"
  BY <1>1
<1>5. Len(Elements({"csv_data_set"})) <= 1 /\ ServerPrompts > 0 => JmxPrompts = ServerPrompts
  BY PromptsAreReadAlike
<1> QED BY <1>2, <1>3, <1>4, <1>5, Zenon DEF OneMeaning, IsBlank

\* A plan is read alike by all.
LEMMA NumbersAgree ==
  ASSUME FormTypeInv
  PROVE  PlanNumbersAgree
<1>1. OneMeaning
  BY MeaningsAgree
<1>2. \A g \in ToSet(On(plan.groups)) : OneReading(g)
  BY GroupsAreReadAlike
<1>3. \A e \in ToSet(On(plan.elements)) : IsElement(e)
  <2>1. PICK S : (\A e \in S : IsElement(e)) /\ On(plan.elements) \in Seq(S)
    BY ElementsAre
  <2> QED BY <2>1, Listed
<1>4. \A e \in ToSet(On(plan.elements)) :
          e.type = "think_time" /\ e.min_ms > 0 /\ e.delay_ms > 0 /\ e.max_ms >= e.min_ms =>
              JmxPause(e) = ServerPause(e)
  BY <1>3, PausesAgree
<1>5. plan.named => (ValidForm <=> Warnings \cap {"no-active-groups", "missing-target"} = {})
  BY ValidityIsWarned
<1> QED BY <1>1, <1>2, <1>4, <1>5, Zenon DEF PlanNumbersAgree

(***************************************************************************)
(* What the inputs make of the plan.                                       *)
(***************************************************************************)
\* What a list becomes by an input.
LEMMA ListChanges ==
  ASSUME NEW S, NEW s \in Seq(S), NEW x \in S
  PROVE  /\ Append(s, x) \in Seq(S)
         /\ \A i \in DOMAIN s : /\ s[i] \in S
                                /\ [s EXCEPT ![i] = x] \in Seq(S)
                                /\ RemoveAt(s, i) \in Seq(S)
                                /\ InsertAt(s, i + 1, x) \in Seq(S)
<1>1. Len(s) \in Nat /\ DOMAIN s = 1..Len(s) /\ \A i \in 1..Len(s) : s[i] \in S
  BY LenProperties, ElementOfSeq
<1>2. Append(s, x) \in Seq(S)
  BY AppendProperties
<1>3. ASSUME NEW i \in DOMAIN s
      PROVE  /\ s[i] \in S /\ [s EXCEPT ![i] = x] \in Seq(S)
             /\ RemoveAt(s, i) \in Seq(S) /\ InsertAt(s, i + 1, x) \in Seq(S)
  <2>1. i \in 1..Len(s) /\ i \in Int /\ i - 1 \in Int /\ i + 1 \in Int /\ Len(s) \in Int /\ 1 \in Int
    BY <1>1
  <2>2. [s EXCEPT ![i] = x] \in Seq(S)
    BY <2>1, ExceptSeq
  <2>3. \A m, n \in Int : 1 <= m /\ n <= Len(s) => SubSeq(s, m, n) \in Seq(S)
    BY <1>1, SubSeqProperties
  <2>4. /\ SubSeq(s, 1, i - 1) \in Seq(S) /\ SubSeq(s, i + 1, Len(s)) \in Seq(S)
        /\ SubSeq(s, 1, i) \in Seq(S) /\ SubSeq(s, 1, (i + 1) - 1) \in Seq(S)
    BY <2>1, <2>3
  <2>5. RemoveAt(s, i) \in Seq(S)
    BY <2>4, ConcatProperties DEF RemoveAt
  <2>6. <<x>> \in Seq(S)
    OBVIOUS
  <2>7. SubSeq(s, 1, (i + 1) - 1) \o <<x>> \in Seq(S)
    BY <2>4, <2>6, ConcatProperties
  <2>8. InsertAt(s, i + 1, x) \in Seq(S)
    BY <2>4, <2>7, ConcatProperties DEF InsertAt
  <2> QED BY <1>1, <2>2, <2>5, <2>8
<1> QED BY <1>2, <1>3

LEMMA GroupListChanges ==
  ASSUME NEW s, GroupList(s), NEW x, IsGroup(x)
  PROVE  /\ GroupList(Append(s, x))
         /\ \A i \in DOMAIN s : /\ IsGroup(s[i]) /\ GroupList([s EXCEPT ![i] = x])
                                /\ GroupList(RemoveAt(s, i)) /\ GroupList(InsertAt(s, i + 1, x))
<1>1. PICK S : s \in Seq(S) /\ \A g \in S : IsGroup(g)
  BY DEF GroupList
<1> DEFINE T == S \cup {x}
<1>2. s \in Seq(T) /\ x \in T /\ \A g \in T : IsGroup(g)
  BY <1>1
<1> HIDE DEF T
<1>3. /\ Append(s, x) \in Seq(T)
      /\ \A i \in DOMAIN s : /\ s[i] \in T /\ [s EXCEPT ![i] = x] \in Seq(T)
                             /\ RemoveAt(s, i) \in Seq(T) /\ InsertAt(s, i + 1, x) \in Seq(T)
  BY <1>2, ListChanges
<1> QED BY <1>2, <1>3 DEF GroupList

LEMMA ElementListChanges ==
  ASSUME NEW s, ElementList(s), NEW x, IsElement(x)
  PROVE  /\ ElementList(Append(s, x))
         /\ \A i \in DOMAIN s : /\ IsElement(s[i]) /\ ElementList([s EXCEPT ![i] = x])
                                /\ ElementList(RemoveAt(s, i))
<1>1. PICK S : s \in Seq(S) /\ \A g \in S : IsElement(g)
  BY DEF ElementList
<1> DEFINE T == S \cup {x}
<1>2. s \in Seq(T) /\ x \in T /\ \A g \in T : IsElement(g)
  BY <1>1
<1> HIDE DEF T
<1>3. /\ Append(s, x) \in Seq(T)
      /\ \A i \in DOMAIN s : /\ s[i] \in T /\ [s EXCEPT ![i] = x] \in Seq(T)
                             /\ RemoveAt(s, i) \in Seq(T)
  BY <1>2, ListChanges
<1> QED BY <1>2, <1>3 DEF ElementList

LEMMA AnyListChanges ==
  ASSUME NEW s, AnyList(s), NEW x
  PROVE  /\ AnyList(Append(s, x))
         /\ \A i \in DOMAIN s : AnyList([s EXCEPT ![i] = x]) /\ AnyList(RemoveAt(s, i))
<1>1. PICK S : s \in Seq(S)
  BY DEF AnyList
<1> DEFINE T == S \cup {x}
<1>2. s \in Seq(T) /\ x \in T
  BY <1>1
<1> HIDE DEF T
<1>3. /\ Append(s, x) \in Seq(T)
      /\ \A i \in DOMAIN s : [s EXCEPT ![i] = x] \in Seq(T) /\ RemoveAt(s, i) \in Seq(T)
  BY <1>2, ListChanges
<1> QED BY <1>3 DEF AnyList

\* What a plan becomes by one.
LEMMA PlanChanges ==
  ASSUME NEW p, IsPlan(p)
  PROVE  /\ \A s : GroupList(s) => IsPlan([p EXCEPT !.groups = s])
         /\ \A s : ElementList(s) => IsPlan([p EXCEPT !.elements = s])
         /\ \A s : AnyList(s) => IsPlan([p EXCEPT !.assertions = s])
         /\ \A x : /\ IsPlan([p EXCEPT !.named = x]) /\ IsPlan([p EXCEPT !.serialize = x])
                   /\ IsPlan([p EXCEPT !.listeners = x])
BY DEF IsPlan, PlanFields

LEMMA GroupChanges ==
  ASSUME IsPlan(plan), NEW i \in DOMAIN plan.groups
  PROVE  /\ IsGroup(plan.groups[i])
         /\ \A x : /\ IsPlan([plan EXCEPT !.groups[i].on = x])
                   /\ IsPlan([plan EXCEPT !.groups[i].ready = x])
                   /\ IsPlan([plan EXCEPT !.groups[i].streaming = x])
         /\ \A x \in Patterns : IsPlan([plan EXCEPT !.groups[i].pattern = x])
         /\ \A f, x : x \in Nat => IsPlan([plan EXCEPT !.groups[i].n[f] = x])
<1> DEFINE g == plan.groups[i]
<1>1. GroupList(plan.groups)
  BY DEF IsPlan
<1>2. ASSUME NEW x, IsGroup(x)
      PROVE  IsPlan([plan EXCEPT !.groups[i] = x])
  <2>1. GroupList([plan.groups EXCEPT ![i] = x])
    BY <1>1, <1>2, GroupListChanges
  <2>2. [plan EXCEPT !.groups[i] = x] = [plan EXCEPT !.groups = [plan.groups EXCEPT ![i] = x]]
    OBVIOUS
  <2> QED BY <2>1, <2>2, PlanChanges
<1>3. IsGroup(DEFAULT_THREAD_GROUP)
  BY DEF DEFAULT_THREAD_GROUP, TG, Numbers, IsGroup, GroupFields, GroupNumbers, Patterns
<1>4. IsGroup(g)
  BY <1>1, <1>3, GroupListChanges
<1> HIDE DEF g
<1>5. ASSUME NEW x
      PROVE  IsGroup([g EXCEPT !.on = x]) /\ IsGroup([g EXCEPT !.ready = x])
             /\ IsGroup([g EXCEPT !.streaming = x])
  BY <1>4 DEF IsGroup, GroupFields
<1>6. \A x \in Patterns : IsGroup([g EXCEPT !.pattern = x])
  BY <1>4 DEF IsGroup, GroupFields
<1>7. \A f, x : x \in Nat => IsGroup([g EXCEPT !.n[f] = x])
  BY <1>4 DEF IsGroup, GroupFields
<1>8. \A x : /\ [plan EXCEPT !.groups[i].on = x] = [plan EXCEPT !.groups[i] = [g EXCEPT !.on = x]]
             /\ [plan EXCEPT !.groups[i].ready = x] = [plan EXCEPT !.groups[i] = [g EXCEPT !.ready = x]]
             /\ [plan EXCEPT !.groups[i].streaming = x] = [plan EXCEPT !.groups[i] = [g EXCEPT !.streaming = x]]
             /\ [plan EXCEPT !.groups[i].pattern = x] = [plan EXCEPT !.groups[i] = [g EXCEPT !.pattern = x]]
  BY DEF g
<1>9. \A f, x : [plan EXCEPT !.groups[i].n[f] = x] = [plan EXCEPT !.groups[i] = [g EXCEPT !.n[f] = x]]
  BY DEF g
<1> QED BY <1>2, <1>4, <1>5, <1>6, <1>7, <1>8, <1>9 DEF g

LEMMA ElementChanges ==
  ASSUME IsPlan(plan), NEW i \in DOMAIN plan.elements
  PROVE  /\ IsElement(plan.elements[i])
         /\ \A x : IsElement(x) => IsPlan(WithElement(i, x))
         /\ \A f, x : (f \in ElementNumbers => x \in Nat) /\ (f = "timer" => x \in Timers)
                          => IsPlan([plan EXCEPT !.elements[i][f] = x])
<1> DEFINE e == plan.elements[i]
<1>1. ElementList(plan.elements)
  BY DEF IsPlan
<1>2. ASSUME NEW x, IsElement(x)
      PROVE  IsPlan([plan EXCEPT !.elements[i] = x])
  <2>1. ElementList([plan.elements EXCEPT ![i] = x])
    BY <1>1, <1>2, ElementListChanges
  <2>2. [plan EXCEPT !.elements[i] = x] = [plan EXCEPT !.elements = [plan.elements EXCEPT ![i] = x]]
    OBVIOUS
  <2> QED BY <2>1, <2>2, PlanChanges
<1>3. IsElement(e)
  <2>1. PICK S : plan.elements \in Seq(S) /\ \A x \in S : IsElement(x)
    BY <1>1 DEF ElementList
  <2>2. e \in S
    BY <2>1, LenProperties, ElementOfSeq
  <2> QED BY <2>1, <2>2
<1> HIDE DEF e
<1>4. ASSUME NEW f, NEW x, f \in ElementNumbers => x \in Nat, f = "timer" => x \in Timers
      PROVE  IsElement([e EXCEPT ![f] = x])
  BY <1>3, <1>4 DEF IsElement, ElementFields, ElementNumbers
<1>5. \A f, x : [plan EXCEPT !.elements[i][f] = x] = [plan EXCEPT !.elements[i] = [e EXCEPT ![f] = x]]
  BY DEF e
<1> QED BY <1>2, <1>3, <1>4, <1>5 DEF e, WithElement

\* What a plan is made of from the beginning.
LEMMA NewParts ==
  /\ IsGroup(DEFAULT_THREAD_GROUP)
  /\ \A type : IsElement(Element(type)) /\ IsElement(Entries(type))
  /\ \A timer \in Timers, a, b, c, d \in Nat : IsElement(Timer(timer, a, b, c, d))
  /\ \A id, pattern \in Patterns, a, b, c, d, e, f, g \in Nat :
         IsGroup(TG(id, pattern, Numbers(a, b, c, d, e, f, g)))
<1>1. \A id, pattern \in Patterns, a, b, c, d, e, f, g \in Nat :
         IsGroup(TG(id, pattern, Numbers(a, b, c, d, e, f, g)))
  BY DEF TG, Numbers, IsGroup, GroupFields, GroupNumbers
<1>2. IsGroup(DEFAULT_THREAD_GROUP)
  BY DEF DEFAULT_THREAD_GROUP, TG, Numbers, IsGroup, GroupFields, GroupNumbers, Patterns
<1>3. ASSUME NEW type
      PROVE  IsElement(Element(type)) /\ DOMAIN Element(type) = ElementFields
  BY DEF Element, IsElement, ElementFields, ElementNumbers, Timers
<1>4. ASSUME NEW type
      PROVE  IsElement(Entries(type))
  <2>1. \E x : Entries(type) = [Element(type) EXCEPT !.entries = x]
    BY Zenon DEF Entries
  <2> QED BY <1>3, <2>1 DEF IsElement, ElementFields, ElementNumbers
<1>5. ASSUME NEW timer \in Timers, NEW a \in Nat, NEW b \in Nat, NEW c \in Nat, NEW d \in Nat
      PROVE  IsElement(Timer(timer, a, b, c, d))
  BY <1>3 DEF Timer, IsElement, ElementFields, ElementNumbers
<1> QED BY <1>1, <1>2, <1>3, <1>4, <1>5

\* The elements that can be added.
LEMMA NewElementsAre ==
  ASSUME NEW e \in NewElements
  PROVE  IsElement(e)
<1>1. PROMPT_SUITES[1] = 20
  BY DEF PROMPT_SUITES
<1>2. IsElement([Element("csv_data_set") EXCEPT !.data = PROMPT_SUITES[1]])
  BY <1>1 DEF Element, IsElement, ElementFields, ElementNumbers, Timers
<1>3. IsElement([Element("token_budget") EXCEPT !.max_tokens = 512, !.temperature = 50])
  BY DEF Element, IsElement, ElementFields, ElementNumbers, Timers
<1>4. IsElement(Timer("uniform", 200, 800, 400, 150))
  BY NewParts DEF Timers
<1> QED BY <1>2, <1>3, <1>4, NewParts DEF NewElements

\* Short lists.
LEMMA ListsOf ==
  ASSUME NEW S, NEW s \in Seq(S)
  PROVE  /\ (\A e \in S : IsGroup(e)) => GroupList(s)
         /\ (\A e \in S : IsElement(e)) => ElementList(s)
         /\ AnyList(s)
BY DEF GroupList, ElementList, AnyList

LEMMA ShortLists ==
  /\ GroupList(<<>>) /\ ElementList(<<>>)
  /\ \A x : IsGroup(x) => GroupList(<<x>>)
  /\ \A x, y : IsGroup(x) /\ IsGroup(y) => GroupList(<<x, y>>)
  /\ \A x : IsElement(x) => ElementList(<<x>>)
  /\ \A x, y : IsElement(x) /\ IsElement(y) => ElementList(<<x, y>>)
<1>1. GroupList(<<>>) /\ ElementList(<<>>)
  <2> DEFINE s == <<>>
             S == {}
  <2>1. s \in Seq(S)
    OBVIOUS
  <2>2. \A e \in S : IsGroup(e) /\ IsElement(e)
    OBVIOUS
  <2> HIDE DEF s, S
  <2>3. GroupList(s) /\ ElementList(s)
    BY <2>1, <2>2, ListsOf
  <2> QED BY <2>3 DEF s
<1>2. ASSUME NEW x, NEW y
      PROVE  /\ IsGroup(x) => GroupList(<<x>>)
             /\ IsGroup(x) /\ IsGroup(y) => GroupList(<<x, y>>)
             /\ IsElement(x) => ElementList(<<x>>)
             /\ IsElement(x) /\ IsElement(y) => ElementList(<<x, y>>)
  <2> DEFINE one == <<x>>
             two == <<x, y>>
             X == {x}
             Y == {x, y}
  <2>1. one \in Seq(X) /\ two \in Seq(Y)
    OBVIOUS
  <2>2. /\ IsGroup(x) => \A e \in X : IsGroup(e)
        /\ IsElement(x) => \A e \in X : IsElement(e)
        /\ IsGroup(x) /\ IsGroup(y) => \A e \in Y : IsGroup(e)
        /\ IsElement(x) /\ IsElement(y) => \A e \in Y : IsElement(e)
    OBVIOUS
  <2> HIDE DEF one, two, X, Y
  <2>3. /\ IsGroup(x) => GroupList(one)
        /\ IsGroup(x) /\ IsGroup(y) => GroupList(two)
        /\ IsElement(x) => ElementList(one)
        /\ IsElement(x) /\ IsElement(y) => ElementList(two)
    BY <2>1, <2>2, ListsOf
  <2> QED BY <2>3 DEF one, two
<1> QED BY <1>1, <1>2

LEMMA AnyShortLists ==
  /\ AnyList(<<>>)
  /\ \A x : AnyList(<<x>>)
  /\ \A x, y : AnyList(<<x, y>>)
  /\ \A x, y, z : AnyList(<<x, y, z>>)
  /\ \A x, y, z, u : AnyList(<<x, y, z, u>>)
<1>1. ASSUME NEW x, NEW y, NEW z, NEW u
      PROVE  /\ <<>> \in Seq({x}) /\ <<x>> \in Seq({x}) /\ <<x, y>> \in Seq({x, y})
             /\ <<x, y, z>> \in Seq({x, y, z}) /\ <<x, y, z, u>> \in Seq({x, y, z, u})
  OBVIOUS
<1>2. ASSUME NEW x, NEW y, NEW z, NEW u
      PROVE  /\ AnyList(<<>>) /\ AnyList(<<x>>) /\ AnyList(<<x, y>>)
             /\ AnyList(<<x, y, z>>) /\ AnyList(<<x, y, z, u>>)
  BY <1>1, ListsOf
<1> QED BY <1>2

LEMMA PlannedIs ==
  ASSUME NEW groups, NEW elements, NEW assertions,
         GroupList(groups), ElementList(elements), AnyList(assertions)
  PROVE  IsPlan(Planned(groups, elements, assertions))
BY DEF Planned, IsPlan, PlanFields

LEMMA BlueprintsAre ==
  ASSUME NEW b \in JMETER_BLUEPRINTS \cup {NewPlan}
  PROVE  IsPlan(b)
<1>1. IsPlan(Smoke)
  <2>1. IsGroup(TG(1, "constant", Numbers(1, 15, 1, 5, 70, 128, 30)))
    BY DEF TG, Numbers, IsGroup, GroupFields, GroupNumbers, Patterns
  <2>2. IsElement(Timer("constant", 500, 500, 500, 0))
    BY NewParts DEF Timers
  <2> QED BY <2>1, <2>2, ShortLists, AnyShortLists, PlannedIs DEF Smoke
<1>2. IsPlan(SteppedRamp)
  <2>1. IsGroup(TG(1, "rampup", Numbers(50, 120, 10, 20, 70, 256, 90)))
    BY DEF TG, Numbers, IsGroup, GroupFields, GroupNumbers, Patterns
  <2>2. IsElement(Timer("uniform", 200, 800, 0, 0))
    BY NewParts DEF Timers
  <2>3. IsElement([Element("csv_data_set") EXCEPT !.data = 5])
    BY DEF Element, IsElement, ElementFields, ElementNumbers, Timers
  <2>4. AnyList(<<Assertion("latency", 2500), Assertion("p99_latency", 4500),
                  Assertion("error_rate", 5), Assertion("ttft", 1200)>>)
    <3> DEFINE a == Assertion("latency", 2500)
               b2 == Assertion("p99_latency", 4500)
               c == Assertion("error_rate", 5)
               d == Assertion("ttft", 1200)
    <3> HIDE DEF a, b2, c, d
    <3>1. AnyList(<<a, b2, c, d>>)
      BY AnyShortLists
    <3> QED BY <3>1 DEF a, b2, c, d
  <2>5. /\ GroupList(<<TG(1, "rampup", Numbers(50, 120, 10, 20, 70, 256, 90))>>)
        /\ ElementList(<<Timer("uniform", 200, 800, 0, 0), [Element("csv_data_set") EXCEPT !.data = 5]>>)
    BY <2>1, <2>2, <2>3, ShortLists
  <2> QED BY <2>4, <2>5, PlannedIs DEF SteppedRamp
<1>3. IsPlan(SpikeSurge)
  <2>1. IsGroup(TG(1, "spike", Numbers(60, 90, 20, 10, 80, 256, 120)))
    BY DEF TG, Numbers, IsGroup, GroupFields, GroupNumbers, Patterns
  <2>2. IsElement(Timer("gaussian", 0, 0, 400, 150))
    BY NewParts DEF Timers
  <2> QED BY <2>1, <2>2, ShortLists, AnyShortLists, PlannedIs DEF SpikeSurge
<1>4. IsPlan(StressBreaking)
  <2>1. IsGroup(TG(1, "stress", Numbers(100, 180, 15, 25, 70, 512, 150)))
    BY DEF TG, Numbers, IsGroup, GroupFields, GroupNumbers, Patterns
  <2>2. IsElement([Element("token_budget") EXCEPT !.max_tokens = 512, !.temperature = 70])
    BY DEF Element, IsElement, ElementFields, ElementNumbers, Timers
  <2> QED BY <2>1, <2>2, ShortLists, AnyShortLists, PlannedIs DEF StressBreaking
<1>5. IsPlan(MultiGroupAb)
  <2>1. /\ IsGroup(TG(1, "constant", Numbers(25, 60, 5, 10, 50, 96, 60)))
        /\ IsGroup(TG(2, "rampup", Numbers(15, 60, 5, 15, 70, 512, 120)))
    BY DEF TG, Numbers, IsGroup, GroupFields, GroupNumbers, Patterns
  <2>2. IsElement(Timer("uniform", 300, 1000, 0, 0))
    BY NewParts DEF Timers
  <2> QED BY <2>1, <2>2, ShortLists, AnyShortLists, PlannedIs DEF MultiGroupAb
<1>6. IsPlan(NewPlan)
  BY NewParts, ShortLists, AnyShortLists, PlannedIs DEF NewPlan
<1> QED BY <1>1, <1>2, <1>3, <1>4, <1>5, <1>6 DEF JMETER_BLUEPRINTS

\* The inputs of a group.
LEMMA GroupInputsKeep ==
  ASSUME FormAssumption, IsPlan(plan), NEW i \in DOMAIN plan.groups,
         EditSchedule(i) \/ EditSampler(i) \/ EditInFullView(i)
  PROVE  IsPlan(plan')
<1>1. ASSUME NEW fields, \A f \in fields : f[2] \in Nat, EditNumber(i, fields)
      PROVE  IsPlan(plan')
  <2>1. PICK n \in TriedNumbers \cup {0}, f \in fields :
            plan' = [plan EXCEPT !.groups[i].n[f[1]] = Else(n, f[2])]
    BY <1>1, Zenon DEF EditNumber, Becomes
  <2>2. Else(n, f[2]) \in Nat
    BY <1>1, FormAssumption DEF Else
  <2> QED BY <2>1, <2>2, GroupChanges
<1>2. ASSUME EditPattern(i) PROVE IsPlan(plan')
  <2>1. PICK p \in Patterns : plan' = [plan EXCEPT !.groups[i].pattern = p]
    BY <1>2, Zenon DEF EditPattern, Becomes, Patterns
  <2> QED BY <2>1, GroupChanges
<1>3. ASSUME BindTarget(i) PROVE IsPlan(plan')
  <2>1. PICK x : plan' = [plan EXCEPT !.groups[i].ready = x]
    BY <1>3, Zenon DEF BindTarget, Becomes
  <2> QED BY <2>1, GroupChanges
<1>4. ASSUME Becomes([plan EXCEPT !.groups[i].streaming = ~@]) PROVE IsPlan(plan')
  <2>1. PICK x : plan' = [plan EXCEPT !.groups[i].streaming = x]
    BY <1>4, Zenon DEF Becomes
  <2> QED BY <2>1, GroupChanges
<1>5. ASSUME DuplicateGroup(i) PROVE IsPlan(plan')
  <2>1. plan' = [plan EXCEPT !.groups = InsertAt(@, i + 1, [@[i] EXCEPT !.id = NewId])]
    BY <1>5, Zenon DEF DuplicateGroup, Becomes
  <2>2. IsGroup([plan.groups[i] EXCEPT !.id = NewId])
    BY GroupChanges DEF IsGroup, GroupFields
  <2>3. GroupList(InsertAt(plan.groups, i + 1, [plan.groups[i] EXCEPT !.id = NewId]))
    BY <2>2, GroupListChanges DEF IsPlan
  <2> QED BY <2>1, <2>3, PlanChanges
<1>6. ASSUME RemoveGroup(i) PROVE IsPlan(plan')
  <2>1. plan' = [plan EXCEPT !.groups = RemoveAt(@, i)]
    BY <1>6, Zenon DEF RemoveGroup, Becomes
  <2>2. GroupList(RemoveAt(plan.groups, i))
    BY GroupChanges, GroupListChanges DEF IsPlan
  <2> QED BY <2>1, <2>2, PlanChanges
<1>7. CASE EditSchedule(i)
  <2>1. \A f \in {<<"target_users", 1>>, <<"duration_seconds", 10>>, <<"rampup_step_users", 1>>,
                  <<"rampup_step_seconds", 5>>, <<"rampdown_seconds", 0>>} : f[2] \in Nat
    OBVIOUS
  <2> QED BY <1>1, <1>2, <1>7, <2>1 DEF EditSchedule
<1>8. CASE EditSampler(i)
  <2>1. \A f \in {<<"max_tokens", 128>>, <<"temperature", 70>>, <<"top_p", 100>>,
                  <<"request_timeout", 120>>} : f[2] \in Nat
    OBVIOUS
  <2> QED BY <1>1, <1>3, <1>4, <1>8, <2>1 DEF EditSampler
<1>9. CASE EditInFullView(i)
  <2>1. \A f \in {<<"target_users", 1>>, <<"duration_seconds", 10>>, <<"rampup_step_users", 1>>,
                  <<"rampup_step_seconds", 5>>, <<"max_tokens", 128>>, <<"temperature", 70>>} : f[2] \in Nat
    OBVIOUS
  <2> QED BY <1>1, <1>2, <1>3, <1>5, <1>6, <1>9, <2>1 DEF EditInFullView
<1> QED BY <1>7, <1>8, <1>9

\* The inputs of an element.
LEMMA ElementInputsKeep ==
  ASSUME FormAssumption, IsPlan(plan), NEW i \in DOMAIN plan.elements,
         \/ RemoveConfigElement(i) \/ EditDataSet(i) \/ UploadPrompts(i) \/ EditTimer(i)
         \/ EditVariables(i) \/ EditHeaders(i) \/ EditAuthHeader(i) \/ EditTokenBudget(i)
  PROVE  IsPlan(plan')
<1>1. ASSUME NEW f \in ElementNumbers, NEW x \in Nat, plan' = [plan EXCEPT !.elements[i][f] = x]
      PROVE  IsPlan(plan')
  <2>1. f # "timer"
    BY DEF ElementNumbers
  <2> QED BY <1>1, <2>1, ElementChanges
<1>2. ASSUME NEW x, plan' = [plan EXCEPT !.elements[i].entries = x]
      PROVE  IsPlan(plan')
  <2>1. "entries" \notin ElementNumbers /\ "entries" # "timer"
    BY DEF ElementNumbers
  <2> QED BY <1>2, <2>1, ElementChanges
<1>3. CASE RemoveConfigElement(i)
  <2>1. plan' = [plan EXCEPT !.elements = RemoveAt(@, i)]
    BY <1>3, Zenon DEF RemoveConfigElement, Becomes
  <2>2. ElementList(RemoveAt(plan.elements, i))
    BY ElementChanges, ElementListChanges DEF IsPlan
  <2> QED BY <2>1, <2>2, PlanChanges
<1>4. CASE EditDataSet(i)
  <2>1. PICK n \in ToSet(PROMPT_SUITES) \cup {0, 1} : plan' = [plan EXCEPT !.elements[i].data = n]
    BY <1>4, Zenon DEF EditDataSet, Becomes
  <2>2. ToSet(PROMPT_SUITES) \subseteq Nat
    BY DEF PROMPT_SUITES, ToSet
  <2> QED BY <1>1, <2>1, <2>2 DEF ElementNumbers
<1>5. CASE UploadPrompts(i)
  BY <1>5 DEF UploadPrompts
<1>6. CASE EditTimer(i)
  <2> DEFINE e == plan.elements[i]
  <2>1. \/ \E t \in Timers : plan' = WithElement(i, [e EXCEPT !.timer = t])
        \/ \E n \in TriedNumbers \cup {0} :
              \/ plan' = WithElement(i, [e EXCEPT !.delay_ms = n])
              \/ plan' = WithElement(i, [e EXCEPT !.deviation_ms = n])
              \/ plan' = WithElement(i, [e EXCEPT !.min_ms = n])
              \/ plan' = WithElement(i, [e EXCEPT !.max_ms = n])
    BY <1>6, Zenon DEF EditTimer, Becomes, Timers
  <2>2. IsElement(e)
    BY ElementChanges
  <2> HIDE DEF e
  <2>3. \A t \in Timers : IsElement([e EXCEPT !.timer = t])
    BY <2>2 DEF IsElement, ElementFields, ElementNumbers
  <2>4. \A n \in Nat : /\ IsElement([e EXCEPT !.delay_ms = n]) /\ IsElement([e EXCEPT !.deviation_ms = n])
                       /\ IsElement([e EXCEPT !.min_ms = n]) /\ IsElement([e EXCEPT !.max_ms = n])
    BY <2>2 DEF IsElement, ElementFields, ElementNumbers
  <2> QED BY <2>1, <2>3, <2>4, ElementChanges, FormAssumption
<1>7. CASE EditVariables(i) \/ EditHeaders(i) \/ EditAuthHeader(i)
  <2>1. EditVariables(i) => \E x : plan' = [plan EXCEPT !.elements[i].entries = x]
    BY Zenon DEF EditVariables, Becomes
  <2>2. EditHeaders(i) => \E x : plan' = [plan EXCEPT !.elements[i].entries = x]
    BY Zenon DEF EditHeaders, Becomes
  <2>3. EditAuthHeader(i) => \E x : plan' = [plan EXCEPT !.elements[i].entries = x]
    BY Zenon DEF EditAuthHeader, Becomes
  <2> QED BY <1>2, <1>7, <2>1, <2>2, <2>3
<1>8. CASE EditTokenBudget(i)
  <2>1. PICK n \in TriedNumbers \cup {0}, f \in {"max_tokens", "temperature"} :
            plan' = [plan EXCEPT !.elements[i][f] = n]
    BY <1>8, Zenon DEF EditTokenBudget, Becomes
  <2> QED BY <1>1, <2>1, FormAssumption DEF ElementNumbers
<1> QED BY <1>3, <1>4, <1>5, <1>6, <1>7, <1>8

\* The other inputs.
LEMMA PlanInputsKeep ==
  ASSUME FormAssumption, IsPlan(plan),
         \/ Rename \/ ToggleSerialize \/ ToggleEnabled \/ AddGroup \/ EditListeners \/ ApplyImportJson
         \/ \E e \in NewElements : AddConfigElement(e)
         \/ \E a \in NewAssertions : AddAssertion(a)
         \/ \E i \in DOMAIN plan.assertions : RemoveAssertion(i) \/ EditAssertion(i)
         \/ \E b \in JMETER_BLUEPRINTS : LoadBlueprint(b)
  PROVE  IsPlan(plan')
<1>1. ASSUME NEW i \in DOMAIN plan.assertions, NEW f, NEW x,
             plan' = [plan EXCEPT !.assertions[i][f] = x]
      PROVE  IsPlan(plan')
  <2>1. AnyList([plan.assertions EXCEPT ![i] = [plan.assertions[i] EXCEPT ![f] = x]])
    BY AnyListChanges DEF IsPlan
  <2>2. plan' = [plan EXCEPT !.assertions = [plan.assertions EXCEPT ![i] = [plan.assertions[i] EXCEPT ![f] = x]]]
    BY <1>1
  <2> QED BY <2>1, <2>2, PlanChanges
<1>2. CASE Rename \/ ToggleSerialize \/ EditListeners
  <2>1. Rename => \E x : plan' = [plan EXCEPT !.named = x]
    BY Zenon DEF Rename, Becomes
  <2>2. ToggleSerialize => \E x : plan' = [plan EXCEPT !.serialize = x]
    BY Zenon DEF ToggleSerialize, Becomes
  <2>3. EditListeners => \E x : plan' = [plan EXCEPT !.listeners = x]
    BY Zenon DEF EditListeners, Becomes
  <2>4. \E x : \/ plan' = [plan EXCEPT !.named = x] \/ plan' = [plan EXCEPT !.serialize = x]
               \/ plan' = [plan EXCEPT !.listeners = x]
    BY <1>2, <2>1, <2>2, <2>3
  <2>5. \A x : /\ IsPlan([plan EXCEPT !.named = x]) /\ IsPlan([plan EXCEPT !.serialize = x])
               /\ IsPlan([plan EXCEPT !.listeners = x])
    BY PlanChanges, Zenon
  <2> QED BY <2>4, <2>5
<1>3. CASE ToggleEnabled
  <2>1. \/ \E i \in DOMAIN plan.groups : \E x : plan' = [plan EXCEPT !.groups[i].on = x]
        \/ \E i \in DOMAIN plan.elements : \E x : plan' = [plan EXCEPT !.elements[i].on = x]
        \/ \E i \in DOMAIN plan.assertions : \E x : plan' = [plan EXCEPT !.assertions[i].on = x]
    BY <1>3, Zenon DEF ToggleEnabled, Becomes
  <2>2. "on" \notin ElementNumbers /\ "on" # "timer"
    BY DEF ElementNumbers
  <2>3. \A i \in DOMAIN plan.groups : \A x : IsPlan([plan EXCEPT !.groups[i].on = x])
    BY GroupChanges
  <2>4. \A i \in DOMAIN plan.elements : \A x : IsPlan([plan EXCEPT !.elements[i].on = x])
    BY <2>2, ElementChanges
  <2>5. \A i \in DOMAIN plan.assertions : \A x : plan' = [plan EXCEPT !.assertions[i].on = x] => IsPlan(plan')
    BY <1>1
  <2>6. CASE \E i \in DOMAIN plan.groups : \E x : plan' = [plan EXCEPT !.groups[i].on = x]
    BY <2>3, <2>6
  <2>7. CASE \E i \in DOMAIN plan.elements : \E x : plan' = [plan EXCEPT !.elements[i].on = x]
    BY <2>4, <2>7
  <2>8. CASE \E i \in DOMAIN plan.assertions : \E x : plan' = [plan EXCEPT !.assertions[i].on = x]
    BY <2>5, <2>8
  <2> QED BY <2>1, <2>6, <2>7, <2>8
<1>4. CASE AddGroup
  <2>1. plan' = [plan EXCEPT !.groups = Append(@, [DEFAULT_THREAD_GROUP EXCEPT !.id = NewId])]
    BY <1>4, Zenon DEF AddGroup, Becomes
  <2>2. IsGroup([DEFAULT_THREAD_GROUP EXCEPT !.id = NewId])
    BY NewParts DEF IsGroup, GroupFields
  <2>3. GroupList(Append(plan.groups, [DEFAULT_THREAD_GROUP EXCEPT !.id = NewId]))
    BY <2>2, GroupListChanges DEF IsPlan
  <2> QED BY <2>1, <2>3, PlanChanges
<1>5. CASE ApplyImportJson
  <2>1. CASE plan' = Planned(<<>>, <<>>, <<>>)
    BY <2>1, ShortLists, AnyShortLists, PlannedIs
  <2>2. CASE \E n \in TriedNumbers \cup {0}, f \in DOMAIN DEFAULT_THREAD_GROUP.n, on \in BOOLEAN :
                plan' = Planned(<<[DEFAULT_THREAD_GROUP EXCEPT !.n[f] = n, !.on = on, !.ready = TRUE]>>,
                                <<Element("think_time")>>, <<>>)
    <3>1. PICK n \in TriedNumbers \cup {0}, f \in DOMAIN DEFAULT_THREAD_GROUP.n, on \in BOOLEAN :
              plan' = Planned(<<[DEFAULT_THREAD_GROUP EXCEPT !.n[f] = n, !.on = on, !.ready = TRUE]>>,
                              <<Element("think_time")>>, <<>>)
      BY <2>2
    <3>2. IsGroup([DEFAULT_THREAD_GROUP EXCEPT !.n[f] = n, !.on = on, !.ready = TRUE])
      <4> DEFINE g == [DEFAULT_THREAD_GROUP EXCEPT !.n[f] = n]
      <4>1. n \in Nat
        BY FormAssumption
      <4>2. IsGroup(g)
        BY <4>1, NewParts DEF IsGroup, GroupFields
      <4> HIDE DEF g
      <4>3. IsGroup([g EXCEPT !.on = on, !.ready = TRUE])
        BY <4>2 DEF IsGroup, GroupFields
      <4>4. [DEFAULT_THREAD_GROUP EXCEPT !.n[f] = n, !.on = on, !.ready = TRUE]
                = [g EXCEPT !.on = on, !.ready = TRUE]
        BY Zenon DEF g
      <4> QED BY <4>3, <4>4
    <3> QED BY <3>1, <3>2, NewParts, ShortLists, AnyShortLists, PlannedIs
  <2> QED BY <1>5, <2>1, <2>2, Zenon DEF ApplyImportJson, Becomes
<1>6. ASSUME NEW e \in NewElements, AddConfigElement(e) PROVE IsPlan(plan')
  <2>1. plan' = [plan EXCEPT !.elements = Append(@, e)]
    BY <1>6, Zenon DEF AddConfigElement, Becomes
  <2>2. ElementList(Append(plan.elements, e))
    BY <1>6, NewElementsAre, ElementListChanges DEF IsPlan
  <2> QED BY <2>1, <2>2, PlanChanges
<1>7. ASSUME NEW a, AddAssertion(a) PROVE IsPlan(plan')
  <2>1. plan' = [plan EXCEPT !.assertions = Append(@, a)]
    BY <1>7, Zenon DEF AddAssertion, Becomes
  <2>2. AnyList(Append(plan.assertions, a))
    BY AnyListChanges DEF IsPlan
  <2> QED BY <2>1, <2>2, PlanChanges
<1>8. ASSUME NEW i \in DOMAIN plan.assertions, RemoveAssertion(i) PROVE IsPlan(plan')
  <2>1. plan' = [plan EXCEPT !.assertions = RemoveAt(@, i)]
    BY <1>8, Zenon DEF RemoveAssertion, Becomes
  <2>2. AnyList(RemoveAt(plan.assertions, i))
    BY AnyListChanges DEF IsPlan
  <2> QED BY <2>1, <2>2, PlanChanges
<1>9. ASSUME NEW i \in DOMAIN plan.assertions, EditAssertion(i) PROVE IsPlan(plan')
  <2>1. \/ \E x : plan' = [plan EXCEPT !.assertions[i].limit = x]
        \/ \E x : plan' = [plan EXCEPT !.assertions[i].scope = x]
    BY <1>9, Zenon DEF EditAssertion, Becomes
  <2> QED BY <1>1, <2>1
<1>10. ASSUME NEW b \in JMETER_BLUEPRINTS, LoadBlueprint(b) PROVE IsPlan(plan')
  BY <1>10, BlueprintsAre DEF LoadBlueprint, Becomes
<1> QED BY <1>2, <1>3, <1>4, <1>5, <1>6, <1>7, <1>8, <1>9, <1>10

\* Whatever happens to the form, it holds a plan.
LEMMA FormKeeps ==
  ASSUME FormAssumption, FormTypeInv,
         EditPlan \/ Probe \/ ProbeAnswers \/ PromptsAreRead \/ UNCHANGED formVars
  PROVE  FormTypeInv'
<1> USE DEF FormTypeInv
<1>1. CASE EditPlan
  BY <1>1, GroupInputsKeep, ElementInputsKeep, PlanInputsKeep, FormAssumption DEF EditPlan
<1>2. CASE Probe \/ ProbeAnswers \/ UNCHANGED formVars
  BY <1>2 DEF Probe, ProbePlan, ProbeSingleSampler, ProbeAnswers, formVars
<1>3. CASE PromptsAreRead
  <2>1. PICK i : plan' = IF i \in DOMAIN plan.elements THEN [plan EXCEPT !.elements[i].data = 2]
                         ELSE [plan EXCEPT !.elements = Append(@, [Element("none") EXCEPT !.data = 2])]
    BY <1>3, Zenon DEF PromptsAreRead
  <2>2. CASE i \in DOMAIN plan.elements
    <3>1. "data" # "timer"
      OBVIOUS
    <3> QED BY <2>1, <2>2, <3>1, ElementChanges
  <2>3. CASE i \notin DOMAIN plan.elements
    <3>1. IsElement([Element("none") EXCEPT !.data = 2])
      BY NewParts DEF IsElement, ElementFields, ElementNumbers
    <3>2. ElementList(Append(plan.elements, [Element("none") EXCEPT !.data = 2]))
      BY <3>1, ElementListChanges DEF IsPlan
    <3> QED BY <2>1, <2>3, <3>2, PlanChanges
  <2> QED BY <2>2, <2>3
<1> QED BY <1>1, <1>2, <1>3

\* Whatever was typed, loaded, imported or uploaded, the preview, the warnings, the
\* exported files and the server read the same numbers, names, prompts and headers
\* from the plan (components/TestPlanBuilder.jsx, config_elements.py).
THEOREM ReadAlikeCorrect == Spec => []PlanIsReadAlike
<1>1. PagesInit => FormTypeInv
  BY BlueprintsAre, Zenon DEF PagesInit, FormInit, FormTypeInv
<1>2. FormTypeInv /\ [Next]_pagesVars => FormTypeInv'
  <2> SUFFICES ASSUME FormTypeInv, [Next]_pagesVars
               PROVE  FormTypeInv'
    OBVIOUS
  <2>1. EditPlan \/ Probe \/ ProbeAnswers \/ PromptsAreRead \/ UNCHANGED formVars
    BY Zenon DEF Next, pagesVars
  <2> QED BY <2>1, FormKeeps, FormAssumption
<1>3. FormTypeInv => PlanIsReadAlike
  BY NumbersAgree DEF PlanIsReadAlike
<1> QED BY <1>1, <1>2, <1>3, PTL DEF Spec

=============================================================================
