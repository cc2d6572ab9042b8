--------------------------- MODULE VllmOptimizer ---------------------------
(***************************************************************************)
(* The vLLM optimizer page (frontend/src/pages/VllmOptimizer.jsx with      *)
(* utils/vllmOptimizer.js): the user chooses a version of vLLM, a model, a *)
(* GPU, a recipe and some forty flags; the page estimates the memory, and  *)
(* writes the command and the files that start such an engine.             *)
(*                                                                         *)
(* Memory is in the unit of GpuSizing.  Estimates of speed, the charts     *)
(* drawn from them and what only decides what is on the screen (tabs,      *)
(* search text) are left out.  A step is one input of the user or an       *)
(* answer the page has waited for.                                         *)
(***************************************************************************)
EXTENDS GpuSizing

CONSTANTS
    Models, Gpus, Recipes, Versions,    \* what of the registries is chosen
    Runs,               \* recent runs whose traffic can be applied
    Helps,              \* help texts: the flags they print as --[no-]flag
    TriedValues,        \* positions of sliders one may try
    TriedLengths        \* context lengths one may type, in whole 256s

ASSUME OptimizerAssumption ==
    /\ Models \subseteq GLOBAL_MODEL_CATALOG /\ Gpus \subseteq GPU_CATALOG
    /\ Recipes \subseteq QUANTIZATION_RECIPES /\ Versions \subseteq VLLM_VERSIONS
    /\ TriedUsers \subseteq Nat /\ TriedValues \subseteq Nat
    /\ TriedLengths \subseteq {n \in Nat : n % 256 = 0}
    /\ \A run \in Runs : {run.prompt, run.completion, run.safeMax, run.reached, run.target} \subseteq Nat

VARIABLES
    version, model, gpu, recipe,        \* the selected ones
    concurrency, mode,                  \* mode: scalingMode
    flags,
    by,                 \* history: who set length, parallelism and recipe
    editing,            \* the number field that has the focus
    connected,          \* connectedModels
    profile,            \* tokens of a request in the traffic profile that is shown, or 0
    recent, fetching, loading, picker,  \* the list of runs to choose from
    help, diff, recheck,                \* help text, its analysis, timers set
    log                 \* parsedLogResult

engineVars == <<version, model, gpu, recipe, concurrency, mode, flags, by>>
pickerVars == <<recent, fetching, loading, picker>>
diffVars   == <<help, diff, recheck>>
sideVars   == <<connected, profile, pickerVars, diffVars, log>>
optimizerVars == <<engineVars, editing, sideVars>>

NoDiff  == [analyzed |-> FALSE, missing |-> {}]
NoHelp  == [text |-> FALSE, negatable |-> {}]
NoLog   == [parsed |-> FALSE, predicted |-> 0]
\* replicaCount: nothing on the page changes it.
ReplicaCount == 1

-----------------------------------------------------------------------------
(***************************************************************************)
(* Memory and capacity.                                                    *)
(***************************************************************************)
ArchOf(m) == Arch(m.layers, m.kvHeads, m.headDim)

\* What is offloaded to the CPU is not counted, but half a gigabyte stays.
WeightsGb == Larger(Gb(50), 64 * model.params * recipe.bytesPerParam - Gb(100 * flags.cpuOffloadGb))

VisionTokens == model.visionTokens * flags.imagesPerPrompt
BytesPerKvToken == IF flags.kvCacheDtype = "auto" THEN 2 ELSE 1
KvPerUser(tokens) == KvUnits(ArchOf(model), BytesPerKvToken, tokens)
KvPerUserGb == KvPerUser(flags.maxModelLen + VisionTokens)

CalcDraftModelVram ==
    IF ~flags.enableSpeculative THEN 0
    ELSE CASE flags.speculativeMode = "ngram" -> 0
           [] flags.speculativeMode = "eagle" -> Gb(45)
           [] OTHER -> Gb(220)

CalcLoraBuffer ==
    IF ~flags.enableLora THEN 0
    ELSE Gb((flags.maxLoras * flags.maxLoraRank * 7 + 355) \div 10)

RuntimeOverheadGb == Gb(135) + CalcDraftModelVram + CalcLoraBuffer

EffectiveGpuVram == gpu.vramGb * (IF mode = "tp" THEN flags.tensorParallelSize ELSE 1)
AvailableEngineBudgetGb == Gb(EffectiveGpuVram * flags.gpuMemoryUtilization)

TotalUsedVramGb == WeightsGb + KvPerUserGb * concurrency + RuntimeOverheadGb
IsVramExceeded  == TotalUsedVramGb > AvailableEngineBudgetGb

UsableForKv == AvailableEngineBudgetGb - WeightsGb - RuntimeOverheadGb

\* Slip: the runtime's overhead is forgotten.
MaxSafeBare ==
    LET usable == AvailableEngineBudgetGb - WeightsGb
    IN  IF usable <= 0 \/ KvPerUserGb <= 0 THEN 0 ELSE usable \div KvPerUserGb

\* calcMaxSafeConcurrency.
MaxSafeConcurrency ==
    IF UsableForKv <= 0 \/ KvPerUserGb <= 0 THEN 0
    ELSE (UsableForKv \div KvPerUserGb) * (IF mode = "replicas" THEN ReplicaCount ELSE 1)

\* buildContextScalingCurve: the users a context of so many tokens allows.  A
\* model's vision tokens are not in it.
ContextCurve ==
    LET usable == UsableForKv
    IN  [tokens \in {c \in {1024, 2048, 4096, 8192, 16384, 32768, 65536, 131072} : c <= model.maxContext} |->
            IF usable > 0 /\ KvPerUser(tokens) > 0
            THEN (usable \div KvPerUser(tokens)) * (IF mode = "replicas" THEN ReplicaCount ELSE 1)
            ELSE 0]

\* buildConcurrencyChartData: the points of the chart, and those past the knee.
ChartPoints == {1, 2, 4, 8, 12, 16, 24, 32, 48, 64}
Saturated == LET safe == MaxSafeConcurrency IN {u \in ChartPoints : u > safe}

\* The badge over the estimates.
VramBadge ==
    CASE IsVramExceeded -> "exceeded"
      [] ~IsVramExceeded /\ AvailableEngineBudgetGb - TotalUsedVramGb < Gb(200) -> "tight"
      [] OTHER -> "fits"

-----------------------------------------------------------------------------
(***************************************************************************)
(* What is generated.  A command is the set of the flags it passes.        *)
(***************************************************************************)
IsLegacy == version.id = "0.3.x"

\* Slip: the oldest version is forgotten, which is no V1 engine either.
NotV1 == ~version.isV1Engine

\* The flags only the old engine knows.
OldEngineOnly == ~version.isV1Engine /\ ~IsLegacy

\* generateVllmCommand: whether it passes a flag.
PassedFlags == [
    maxModelLen |-> TRUE, gpuMemoryUtilization |-> TRUE,
    blockSize |-> TRUE, maxNumSeqs |-> TRUE,
    maxNumBatchedTokens |-> ~IsLegacy,
    kvCacheDtype |-> flags.kvCacheDtype # "auto" /\ ~IsLegacy,
    swapSpace |-> flags.swapSpace,
    cpuOffloadGb |-> flags.cpuOffloadGb > 0,
    tensorParallelSize |-> mode = "tp" /\ flags.tensorParallelSize > 1,
    pipelineParallelSize |-> flags.pipelineParallelSize,
    distributedExecutorBackend |->
        /\ flags.distributedExecutorBackend # "mp"
        /\ flags.tensorParallelSize > 1 \/ flags.pipelineParallelSize,
    quantization |-> IF HasArgument(recipe) THEN recipe.quantization # "none"
                     ELSE flags.quantization # "none",
    enablePrefixCaching |-> OldEngineOnly /\ flags.enablePrefixCaching,
    enableChunkedPrefill |-> OldEngineOnly /\ flags.enableChunkedPrefill,
    numSchedulerSteps |-> OldEngineOnly /\ flags.numSchedulerSteps > 1,
    disableSlidingWindow |-> flags.disableSlidingWindow,
    disableLogStats |-> flags.disableLogStats,
    enableSpeculative |-> flags.enableSpeculative /\ ~IsLegacy,
    enforceEager |-> flags.enforceEager,
    servedModelName |-> flags.servedModelName,
    loadFormat |-> recipe.format # "auto" \/ flags.loadFormat # "auto",
    limitMmPerPrompt |-> flags.limitMmPerPrompt,
    enableLora |-> flags.enableLora,
    maxLoras |-> flags.enableLora /\ flags.maxLoras > 1,
    maxLoraRank |-> flags.enableLora /\ flags.maxLoraRank # 16,
    loraModules |-> flags.enableLora /\ flags.loraModules,
    guidedDecodingBackend |-> flags.guidedDecodingBackend,
    toolCallParser |-> flags.toolCallParser,
    enableAutoToolChoice |-> flags.enableAutoToolChoice,
    apiKey |-> flags.apiKey,
    trustRemoteCode |-> flags.trustRemoteCode]

GenerateVllmCommand ==
    LET passed == PassedFlags
    IN  {f \in DOMAIN passed : passed[f]}

\* The value of its --quantization: the recipe's, or else the flag's.
CliQuantization == IF HasArgument(recipe) THEN recipe.quantization ELSE flags.quantization

\* generateDockerCompose: its flags, and the GPUs it reserves.  It looks at the
\* engine alone, not at the version, and passes no --tensor-parallel-size.
GenerateDockerCompose ==
    {"maxModelLen", "gpuMemoryUtilization", "blockSize", "apiKey"}
    \cup {f \in {"enablePrefixCaching", "enableChunkedPrefill"} : ~version.isV1Engine /\ flags[f]}
    \cup {f \in {"cpuOffloadGb"} : flags.cpuOffloadGb > 0}
    \cup {f \in {"quantization"} : recipe.quantization # "none"}
    \cup {f \in {"loadFormat"} : recipe.format # "auto"}

DockerGpus == IF mode = "tp" THEN flags.tensorParallelSize ELSE ReplicaCount

\* generateEnvSnippet: its VLLM_QUANTIZATION, by what the recipe's id contains.
EnvQuantization ==
    IF recipe.name \in {"fp8", "int4_awq", "int4_gptq"} THEN recipe.quantization ELSE "none"

-----------------------------------------------------------------------------
(***************************************************************************)
(* Recommendations.                                                        *)
(***************************************************************************)
\* getRecommendedGpuForModel, by the number of parameters.
GetRecommendedGpuForModel(m) ==
    LET card(name, tp) == [gpu |-> Named(GPU_CATALOG, name), suggestedTp |-> tp]
    IN  CASE m.params <= 400 -> card("RTX-4070-Ti-Super", 1)
          [] m.params > 400  /\ m.params <= 900  -> card("L4", 1)
          [] m.params > 900  /\ m.params <= 1600 -> card("L40S", 1)
          [] m.params > 1600 /\ m.params <= 3500 -> card("A100", 1)
          [] m.params > 3500 /\ m.params <= 7200 -> card("H100", 2)
          [] m.params > 7200 -> card("H100", 8)

RecommendedGpuInfo == GetRecommendedGpuForModel(model)

\* validateTpConfig: an engine cannot start with heads it cannot share out.
ValidTp(tp) == model.attentionHeads % tp = 0

\* The flag a recipe stands for.
QuantizationOf(r) == IF r.name \in {"fp8", "int4_awq", "int4_gptq"} THEN r.quantization ELSE "none"

\* A context that holds half as much again as the traffic did, in whole 1024s.
SafeContext(tokens) == Larger(2048, Smaller(32768, ((3 * tokens + 2047) \div 2048) * 1024))

-----------------------------------------------------------------------------
(***************************************************************************)
(* The page opens, possibly by a link that brings a run's traffic; a run's *)
(* figure that is missing is 0.                                            *)
(***************************************************************************)
NoLink == [from |-> FALSE, model |-> "", prompt |-> 0, completion |-> 0, users |-> 0]

Or(n, default) == IF n = 0 THEN default ELSE n

\* The link a load test's result offers.
TrafficLink(run) ==
    [from |-> TRUE, model |-> run.model, prompt |-> run.prompt, completion |-> run.completion,
     users |-> Or(run.safeMax, run.reached)]

\* The catalog's models a text names.
Matched(text) == {m \in Models : m.name = text}

\* The parameters of the link are taken when it says where it comes from and
\* has at least one number of tokens.
OptimizerInit(link) ==
    LET taken == link.from /\ (link.prompt # 0 \/ link.completion # 0)
        tokens == Or(link.prompt, 512) + Or(link.completion, 256)
        match == IF taken THEN Matched(link.model) ELSE {}
        start == Named(GLOBAL_MODEL_CATALOG, "Llama-3.1-8B")
        first == IF match = {} THEN start ELSE CHOOSE m \in match : TRUE
        rec   == GetRecommendedGpuForModel(first)
    IN  /\ version \in {v \in VLLM_VERSIONS : v.id = "0.8.x"}
        /\ model = first
        /\ gpu = IF match = {} THEN Named(GPU_CATALOG, "RTX-3090-4090") ELSE rec.gpu
        /\ recipe = Named(QUANTIZATION_RECIPES, "fp8")
        /\ mode = "tp"
        /\ concurrency = IF taken THEN Or(link.users, 10) ELSE 10
        /\ flags = [DEFAULT_VLLM_FLAGS EXCEPT
              !.maxModelLen = IF taken THEN SafeContext(tokens) ELSE @,
              !.tensorParallelSize = IF match = {} THEN @ ELSE rec.suggestedTp]
        /\ by = [length |-> IF taken THEN "traffic" ELSE "control",
                 tp |-> "recommended", recipe |-> "control"]
        /\ editing = "none" /\ connected = {} /\ profile = IF taken THEN tokens ELSE 0
        /\ recent = {} /\ fetching = 0 /\ loading = FALSE /\ picker = FALSE
        /\ help = NoHelp /\ diff = NoDiff /\ recheck = {} /\ log = NoLog

-----------------------------------------------------------------------------
(***************************************************************************)
(* Choosing version, model, GPU and recipe.  While a number field has the  *)
(* focus nothing else is used: a click elsewhere leaves it first.          *)
(***************************************************************************)
Idle == editing = "none"

SelectVersion ==
    /\ Idle /\ version' \in Versions
    /\ UNCHANGED <<model, gpu, recipe, concurrency, mode, flags, by, editing, sideVars>>

\* A model the connected runtimes list, or one whose name is typed, has 32
\* heads and what its name says.
NamedModel(n) ==
    LET p == ParseModelName(n)
    IN  Model(n.name, p.params, p.arch.layers, 32, p.arch.kvHeads, p.arch.headDim,
              32768, 4096, p.precision)

\* The model becomes m, with the card and the parallelism recommended for it.
Adopt(m, length) ==
    LET rec == GetRecommendedGpuForModel(m)
    IN  /\ model' = m /\ gpu' = rec.gpu
        /\ flags' = [flags EXCEPT !.maxModelLen = length, !.tensorParallelSize = rec.suggestedTp]

\* Slip: the context is not cut to what the model can hold.
SelectModelAsItIs(m) ==
    /\ Idle /\ Adopt(m, flags.maxModelLen)
    /\ by' = [by EXCEPT !.length = "control", !.tp = "recommended"]
    /\ UNCHANGED <<version, recipe, concurrency, mode, editing, sideVars>>

HandleSelectModel(m) ==
    /\ Idle /\ Adopt(m, Smaller(flags.maxModelLen, m.maxContext))
    /\ by' = [by EXCEPT !.length = "control", !.tp = "recommended"]
    /\ UNCHANGED <<version, recipe, concurrency, mode, editing, sideVars>>

\* The context stays as long as it is, which for the model before may have been
\* more than this one holds.
HandleCustomModelSubmit(n) ==
    /\ Idle /\ Adopt(NamedModel(n), flags.maxModelLen)
    /\ by' = [by EXCEPT !.length = IF @ = "control" THEN "kept" ELSE @, !.tp = "recommended"]
    /\ UNCHANGED <<version, recipe, concurrency, mode, editing, sideVars>>

ConnectedModelsArrive ==
    /\ connected' = {NamedModel(n) : n \in ConnectedNames}
    /\ UNCHANGED <<engineVars, editing, profile, pickerVars, diffVars, log>>

SelectGpu ==
    /\ Idle /\ gpu' \in Gpus
    /\ UNCHANGED <<version, model, recipe, concurrency, mode, flags, by, editing, sideVars>>

TakeRecommendedGpu ==
    /\ Idle /\ gpu # RecommendedGpuInfo.gpu /\ gpu' = RecommendedGpuInfo.gpu
    /\ flags' = [flags EXCEPT !.tensorParallelSize = RecommendedGpuInfo.suggestedTp]
    /\ by' = [by EXCEPT !.tp = "recommended"]
    /\ UNCHANGED <<version, model, recipe, concurrency, mode, editing, sideVars>>

\* Slip: the flag of the recipe is not set with it.
SelectRecipeAlone(r) ==
    /\ Idle /\ recipe' = r /\ by' = [by EXCEPT !.recipe = "control"]
    /\ UNCHANGED <<version, model, gpu, concurrency, mode, flags, editing, sideVars>>

SelectRecipe(r) ==
    /\ Idle /\ recipe' = r /\ by' = [by EXCEPT !.recipe = "control"]
    /\ flags' = [flags EXCEPT !.quantization = QuantizationOf(r)]
    /\ UNCHANGED <<version, model, gpu, concurrency, mode, editing, sideVars>>

\* A dot of the quantization chart sets the recipe and not the flag.
ClickDot(r) ==
    /\ Idle /\ recipe' = r /\ by' = [by EXCEPT !.recipe = "chart"]
    /\ UNCHANGED <<version, model, gpu, concurrency, mode, flags, editing, sideVars>>

\* The button of the warning that the card has no FP8 cores.
SwitchToAwq ==
    /\ Idle /\ ~Fp8Native(gpu) /\ (recipe.name = "fp8" \/ flags.kvCacheDtype # "auto")
    /\ recipe' = Named(QUANTIZATION_RECIPES, "int4_awq")
    /\ by' = [by EXCEPT !.recipe = "chart"]
    /\ UNCHANGED <<version, model, gpu, concurrency, mode, flags, editing, sideVars>>

\* The number of users: the buttons, or typed (a blank field counts as 0).
ChooseConcurrency ==
    /\ Idle /\ concurrency' \in {1, 4, 8, 16, 32, 64}
    /\ UNCHANGED <<version, model, gpu, recipe, mode, flags, by, editing, sideVars>>

TypeConcurrency(n) ==
    /\ editing \in {"none", "concurrency"} /\ editing' = "concurrency" /\ concurrency' = n
    /\ UNCHANGED <<version, model, gpu, recipe, mode, flags, by, sideVars>>

LeaveConcurrency ==
    /\ editing = "concurrency" /\ editing' = "none" /\ concurrency' = Larger(1, concurrency)
    /\ UNCHANGED <<version, model, gpu, recipe, mode, flags, by, sideVars>>

ChooseScalingMode ==
    /\ Idle /\ mode' \in {"tp", "replicas"}
    /\ UNCHANGED <<version, model, gpu, recipe, concurrency, flags, by, editing, sideVars>>

-----------------------------------------------------------------------------
(***************************************************************************)
(* The flags.                                                              *)
(***************************************************************************)
UpdateFlag(f, v) ==
    /\ Idle /\ flags' = [flags EXCEPT ![f] = v]
    /\ UNCHANGED <<version, model, gpu, recipe, concurrency, mode, by, editing, sideVars>>

Toggle(f) == UpdateFlag(f, ~flags[f])

\* The positions of a slider that are tried.
Positions(low, high, step) == {v \in TriedValues : low <= v /\ v <= high /\ (v - low) % step = 0}

\* The slider of the context length ends at what the model can hold; its
\* buttons and its number field do not.
SlideLength ==
    /\ Idle
    /\ \E n \in Positions(512, model.maxContext, 256) : flags' = [flags EXCEPT !.maxModelLen = n]
    /\ by' = [by EXCEPT !.length = "control"]
    /\ UNCHANGED <<version, model, gpu, recipe, concurrency, mode, editing, sideVars>>

ChooseLength ==
    /\ Idle
    /\ \E n \in {2048, 4096, 8192, 16384} : flags' = [flags EXCEPT !.maxModelLen = n]
    /\ by' = [by EXCEPT !.length = "user"]
    /\ UNCHANGED <<version, model, gpu, recipe, concurrency, mode, editing, sideVars>>

TypeLength(n) ==
    /\ editing \in {"none", "length"} /\ editing' = "length"
    /\ flags' = [flags EXCEPT !.maxModelLen = n] /\ by' = [by EXCEPT !.length = "user"]
    /\ UNCHANGED <<version, model, gpu, recipe, concurrency, mode, sideVars>>

LeaveLength ==
    /\ editing = "length" /\ editing' = "none"
    /\ flags' = [flags EXCEPT !.maxModelLen = IF @ < 1 THEN 2048 ELSE @]
    /\ UNCHANGED <<version, model, gpu, recipe, concurrency, mode, by, sideVars>>

MemoryControls ==
    \/ \E v \in Positions(50, 98, 1) : UpdateFlag("gpuMemoryUtilization", v)
    \/ \E v \in {"auto", "fp8", "fp8_e5m2"} : UpdateFlag("kvCacheDtype", v)
    \/ \E v \in Positions(0, 48, 2) : UpdateFlag("cpuOffloadGb", v)
    \/ Toggle("swapSpace")

\* Caching and chunking are built into the new engine and not offered for it.
SchedulerControls ==
    \/ \E f \in {"enablePrefixCaching", "enableChunkedPrefill"} : ~version.isV1Engine /\ Toggle(f)

LogControls == \E f \in {"disableSlidingWindow", "disableLogStats"} : Toggle(f)

\* Parallelism chosen by hand, from the flag's own buttons.
ChooseParallelism ==
    /\ Idle
    /\ \E n \in {1, 2, 4, 8} : flags' = [flags EXCEPT !.tensorParallelSize = n]
    /\ by' = [by EXCEPT !.tp = "user"]
    /\ UNCHANGED <<version, model, gpu, recipe, concurrency, mode, editing, sideVars>>

\* The alert about heads that cannot be shared out offers those that can.
TakeValidParallelism ==
    /\ Idle /\ ~ValidTp(flags.tensorParallelSize)
    /\ \E n \in {t \in {1, 2, 4, 8} : ValidTp(t)} : flags' = [flags EXCEPT !.tensorParallelSize = n]
    /\ by' = [by EXCEPT !.tp = "recommended"]
    /\ UNCHANGED <<version, model, gpu, recipe, concurrency, mode, editing, sideVars>>

\* Whether the layers are split too, over two GPUs or four.
ChoosePipeline == Toggle("pipelineParallelSize")

SpeculativeControls ==
    \/ \E v \in {"draft_model", "ngram", "eagle"} : UpdateFlag("speculativeMode", v)
    \/ Toggle("enableSpeculative")
    \/ Toggle("enforceEager")

\* A text is typed, or emptied.
NameControls == \E f \in {"apiKey", "servedModelName"} : Toggle(f)

LoraControls ==
    \/ Toggle("enableLora")
    \/ flags.enableLora /\ \E v \in {1, 2, 4, 8} : UpdateFlag("maxLoras", v)
    \/ flags.enableLora /\ \E v \in {8, 16, 32, 64} : UpdateFlag("maxLoraRank", v)
    \/ flags.enableLora /\ Toggle("loraModules")

ToolControls ==
    \E f \in {"guidedDecodingBackend", "toolCallParser", "enableAutoToolChoice"} : Toggle(f)

\* All flags start again, with what the model and the recipe ask for.
ResetToRecommended ==
    /\ Idle
    /\ flags' = [DEFAULT_VLLM_FLAGS EXCEPT
           !.maxModelLen = model.recommendedContext, !.quantization = QuantizationOf(recipe),
           !.tensorParallelSize = RecommendedGpuInfo.suggestedTp]
    /\ gpu' = RecommendedGpuInfo.gpu
    /\ by' = [length |-> "control", tp |-> "recommended", recipe |-> "control"]
    /\ UNCHANGED <<version, model, recipe, concurrency, mode, editing, sideVars>>

-----------------------------------------------------------------------------
(***************************************************************************)
(* The traffic of a recent run.                                            *)
(***************************************************************************)
ToggleRunPicker ==
    /\ Idle /\ fetching' = fetching + 1 /\ loading' = TRUE /\ picker' = ~picker
    /\ UNCHANGED <<engineVars, editing, connected, profile, recent, diffVars, log>>

\* A list that cannot be fetched is empty.
RecentRunsArrive ==
    /\ fetching > 0 /\ fetching' = fetching - 1 /\ loading' = FALSE
    /\ recent' \in {{}, Runs}
    /\ UNCHANGED <<engineVars, editing, connected, profile, picker, diffVars, log>>

CloseRunPicker ==
    /\ picker /\ picker' = FALSE
    /\ UNCHANGED <<engineVars, editing, connected, profile, recent, fetching, loading, diffVars, log>>

ApplyRunTrafficProfile(run) ==
    LET prompt     == Or(run.prompt, IF run.loadTest THEN 512 ELSE 250)
        completion == Or(run.completion, IF run.loadTest THEN 256 ELSE 128)
        tokens     == prompt + completion
        length     == SafeContext(tokens)
        match      == Matched(run.model)
    IN  /\ Idle /\ picker /\ ~loading /\ run \in recent
        /\ \/ \E m \in match : Adopt(m, length)
           \/ /\ match = {} /\ flags' = [flags EXCEPT !.maxModelLen = length]
              /\ UNCHANGED <<model, gpu>>
        /\ by' = [by EXCEPT !.length = "traffic", !.tp = IF match = {} THEN @ ELSE "recommended"]
        /\ concurrency' = Or(run.safeMax, Or(run.reached, Or(run.target, 10)))
        /\ profile' = tokens /\ picker' = FALSE
        /\ UNCHANGED <<version, recipe, mode, editing, connected, recent, fetching, loading,
                       diffVars, log>>

\* "Reset to Defaults" hides the banner.
DropProfile ==
    /\ profile # 0 /\ profile' = 0
    /\ UNCHANGED <<engineVars, editing, connected, pickerVars, diffVars, log>>

-----------------------------------------------------------------------------
(***************************************************************************)
(* The help text of an installed vLLM, and the flags it does not know.     *)
(***************************************************************************)
\* analyzeHelpOutput.  Its pattern finds only flags printed as --[no-]flag.
Analysis(command, text) == [analyzed |-> TRUE, missing |-> command \ text.negatable]

SampleHelp == [text |-> TRUE, negatable |-> {}]

TypeHelp ==
    /\ Idle /\ help' \in Helps
    /\ UNCHANGED <<engineVars, editing, connected, profile, pickerVars, diff, recheck, log>>

AnalyzeHelpOutput ==
    /\ Idle /\ help.text /\ diff' = Analysis(GenerateVllmCommand, help)
    /\ UNCHANGED <<engineVars, editing, connected, profile, pickerVars, help, recheck, log>>

LoadSample ==
    /\ Idle /\ help' = SampleHelp /\ diff' = Analysis(GenerateVllmCommand, SampleHelp)
    /\ UNCHANGED <<engineVars, editing, connected, profile, pickerVars, recheck, log>>

ClearHelp ==
    /\ Idle /\ help.text /\ help' = NoHelp /\ diff' = NoDiff
    /\ UNCHANGED <<engineVars, editing, connected, profile, pickerVars, recheck, log>>

\* What pruning sets the flags to.
Pruned == [cpuOffloadGb |-> 0, pipelineParallelSize |-> FALSE, disableSlidingWindow |-> FALSE,
           disableLogStats |-> FALSE, enableSpeculative |-> FALSE, apiKey |-> FALSE,
           servedModelName |-> FALSE, numSchedulerSteps |-> 1, kvCacheDtype |-> "auto",
           swapSpace |-> FALSE]

\* The timer that analyses again keeps the command of before the pruning.
PruneUnsupportedFlags ==
    /\ Idle /\ diff.missing # {}
    /\ flags' = [f \in DOMAIN flags |->
                    IF f \in DOMAIN Pruned \cap diff.missing THEN Pruned[f] ELSE flags[f]]
    /\ recheck' = recheck \cup {[command |-> GenerateVllmCommand, help |-> help]}
    /\ UNCHANGED <<version, model, gpu, recipe, concurrency, mode, by, editing,
                   connected, profile, pickerVars, help, diff, log>>

Recheck ==
    /\ \E r \in recheck : /\ recheck' = recheck \ {r}
                          /\ diff' = IF r.help.text THEN Analysis(r.command, r.help) ELSE diff
    /\ UNCHANGED <<engineVars, editing, connected, profile, pickerVars, help, log>>

\* A start-up log that tells a number of blocks is compared with the estimate.
ParseStartupLog ==
    /\ Idle
    /\ log' = [parsed |-> TRUE, predicted |-> MaxSafeConcurrency * flags.maxModelLen]
    /\ UNCHANGED <<engineVars, editing, connected, profile, pickerVars, diffVars>>

-----------------------------------------------------------------------------
\* What the user does to the configuration.
Configure ==
    \/ SelectVersion \/ SelectGpu \/ TakeRecommendedGpu \/ SwitchToAwq
    \/ \E m \in Models \cup connected : HandleSelectModel(m)
    \/ \E n \in ModelNames : HandleCustomModelSubmit(n)
    \/ \E r \in Recipes : SelectRecipe(r) \/ ClickDot(r)
    \/ ChooseConcurrency \/ \E n \in TriedUsers \cup {0} : TypeConcurrency(n)
    \/ ChooseScalingMode
    \/ SlideLength \/ ChooseLength \/ \E n \in TriedLengths \cup {0} : TypeLength(n)
    \/ MemoryControls \/ SchedulerControls \/ LogControls
    \/ ChooseParallelism \/ TakeValidParallelism \/ ChoosePipeline
    \/ SpeculativeControls \/ NameControls \/ LoraControls \/ ToolControls
    \/ ResetToRecommended
    \/ \E run \in Runs : ApplyRunTrafficProfile(run)
    \/ PruneUnsupportedFlags

\* What he does beside it.
Consult ==
    \/ ToggleRunPicker \/ CloseRunPicker \/ DropProfile
    \/ TypeHelp \/ AnalyzeHelpOutput \/ LoadSample \/ ClearHelp \/ ParseStartupLog

\* What happens by itself: a field is left, an answer or a timer comes.
Settle ==
    \/ LeaveConcurrency \/ LeaveLength
    \/ ConnectedModelsArrive \/ RecentRunsArrive \/ Recheck

-----------------------------------------------------------------------------
(***************************************************************************)
(* Properties.                                                             *)
(***************************************************************************)
\* No sequence of choices makes the command pass a flag the chosen version
\* must not or cannot be given (vllmConstants.js: omitFromCli,
\* unsupportedFlags), however the flags were set before the version was chosen.
\* Offloading to the CPU is the exception of this code: the oldest version does
\* not know the flag and is passed it all the same.
CommandIsAccepted ==
    GenerateVllmCommand \cap (version.omitFromCli \cup version.unsupportedFlags)
        \subseteq {"cpuOffloadGb"}

\* The page's estimates agree on how many users fit: the memory used exceeds the
\* budget just when there are more users than the safe maximum, the chart of the
\* users is past its knee there, and the context curve, which counts no images,
\* gives the same maximum at the current length for a model that reads none.
CapacityAgrees ==
    Idle =>
      /\ IsVramExceeded <=> concurrency > MaxSafeConcurrency
      /\ VramBadge = "exceeded" => {u \in ChartPoints : u >= concurrency} \subseteq Saturated
      /\ flags.maxModelLen \in DOMAIN ContextCurve /\ VisionTokens = 0 =>
             ContextCurve[flags.maxModelLen] = MaxSafeConcurrency

\* After any changes of model, card, links and resets the parallelism shares out
\* the model's heads, unless its buttons were used.  A context that the slider, a
\* choice from the list or a reset left is no longer than the model's.  One the
\* page computed from a run's traffic has room for a request of the traffic that is
\* shown, up to 32768 tokens, and is never longer than that, whatever model was
\* typed in since; it is not compared with the model: all but gemma-2 hold it, and
\* gemma-2 may be given more than it holds.  Nothing is said of a length from the
\* buttons or the number field, nor of one that was kept when a model was typed in:
\* these may be longer than the model's.
RecommendedIsServable ==
    /\ by.tp = "recommended" => ValidTp(flags.tensorParallelSize)
    /\ by.length = "control" => flags.maxModelLen <= model.maxContext
    /\ by.length = "traffic" =>
          Smaller(32768, profile) <= flags.maxModelLen /\ flags.maxModelLen <= 32768

\* The command, the compose file and the environment start the same engine: the
\* same quantization (unless the recipe came from the chart, which leaves the
\* flag behind), the same optional flags for a version that knows them, and as
\* many GPUs reserved as the command uses.
ExportsAgree ==
    LET shared == {"enablePrefixCaching", "enableChunkedPrefill", "cpuOffloadGb", "loadFormat"}
    IN  /\ by.recipe = "control" =>
              /\ CliQuantization = recipe.quantization
              /\ HasArgument(recipe) /\ recipe.name \in {"fp8", "int4_awq", "int4_gptq"}
                     => CliQuantization = EnvQuantization
        /\ ~IsLegacy => GenerateVllmCommand \cap shared = GenerateDockerCompose \cap shared
        /\ "tensorParallelSize" \in GenerateVllmCommand => DockerGpus = flags.tensorParallelSize

=============================================================================
