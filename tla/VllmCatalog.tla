---------------------------- MODULE VllmCatalog ----------------------------
(***************************************************************************)
(* The registries of the vLLM optimizer (frontend/src/data/vllmConstants.js *)
(* and the tables of utils/gpuSizer.js): versions of vLLM, models, GPUs,   *)
(* quantization recipes and the flags a configuration starts with.         *)
(*                                                                         *)
(* Sizes are whole numbers: parameters in hundredths of a billion, bytes   *)
(* per parameter and gigabytes in hundredths, utilization in percent.      *)
(* Wording, links and speed ratings are left out.                          *)
(***************************************************************************)
EXTENDS Naturals

-----------------------------------------------------------------------------
(***************************************************************************)
(* vLLM versions: what must not, or cannot, be passed to them.             *)
(***************************************************************************)
Version(id, v1, omitFromCli, unsupportedFlags) ==
    [id |-> id, isV1Engine |-> v1,
     omitFromCli |-> omitFromCli, unsupportedFlags |-> unsupportedFlags]

VLLM_VERSIONS == {
    Version("0.8.x", TRUE,
            {"enablePrefixCaching", "enableChunkedPrefill", "numSchedulerSteps",
             "maxNumPartialPrefills", "maxLongPartialPrefills"}, {}),
    Version("0.6.x_0.7.x", FALSE, {}, {}),
    Version("0.4.x_0.5.x", FALSE, {}, {}),
    Version("0.3.x", FALSE, {},
            {"enablePrefixCaching", "enableChunkedPrefill", "kvCacheDtype",
             "enableSpeculative", "maxNumBatchedTokens", "cpuOffloadGb",
             "maxNumPartialPrefills"})}

-----------------------------------------------------------------------------
(***************************************************************************)
(* Models.                                                                 *)
(***************************************************************************)
Model(name, params, layers, heads, kvHeads, headDim, maxContext, recommended, precision) ==
    [name |-> name, params |-> params, layers |-> layers, attentionHeads |-> heads,
     kvHeads |-> kvHeads, headDim |-> headDim, maxContext |-> maxContext,
     recommendedContext |-> recommended, precision |-> precision,
     visionTokens |-> 0]

\* A model that reads images, of so many tokens each.
Vision(model, tokens) == [model EXCEPT !.visionTokens = tokens]

LlamaModels == {
    Model("Llama-3.1-8B",  803, 32, 32, 8, 128, 131072, 8192, 55),
    Model("Llama-3.1-70B", 7060, 80, 64, 8, 128, 131072, 8192, 55),
    Model("Llama-3.2-3B",  321, 28, 24, 8, 128, 131072, 8192, 55),
    Model("Llama-3.2-1B",  123, 16, 32, 8, 64, 131072, 8192, 55)}

QwenModels == {
    Model("Qwen2.5-7B",  761, 28, 28, 4, 128, 131072, 8192, 55),
    Model("Qwen2.5-14B", 1470, 48, 40, 8, 128, 131072, 8192, 55),
    Model("Qwen2.5-32B", 3250, 64, 40, 8, 128, 131072, 8192, 55),
    Model("Qwen2.5-72B", 7270, 80, 64, 8, 128, 131072, 8192, 55)}

DistilledModels == {
    Model("R1-Distill-Qwen-14B", 1470, 48, 40, 8, 128, 131072, 16384, 55),
    Model("R1-Distill-Qwen-32B", 3250, 64, 40, 8, 128, 131072, 16384, 55),
    Model("R1-Distill-Llama-70B", 7060, 80, 64, 8, 128, 131072, 16384, 55)}

OtherModels == {
    Model("Mistral-7B", 725, 32, 32, 8, 128, 32768, 8192, 55),
    Vision(Model("Qwen2-VL-7B", 761, 28, 28, 4, 128, 32768, 8192, 55), 1280),
    Vision(Model("Llama-3.2-11B-Vision", 1060, 32, 32, 8, 128, 131072, 8192, 55), 1600),
    Model("gemma-3-12b", 1200, 40, 16, 8, 256, 131072, 8192, 200),
    Model("gemma-2-9b",  924, 42, 16, 8, 256, 8192, 8192, 200),
    Model("gemma-2-27b", 2720, 46, 32, 16, 128, 8192, 8192, 200)}

GLOBAL_MODEL_CATALOG == LlamaModels \cup QwenModels \cup DistilledModels \cup OtherModels

Named(S, name) == CHOOSE x \in S : x.name = name

-----------------------------------------------------------------------------
(***************************************************************************)
(* GPUs.                                                                   *)
(***************************************************************************)
Gpu(name, category, vramGb, maxBatch) ==
    [name |-> name, category |-> category, vramGb |-> vramGb, maxBatch |-> maxBatch]

DesktopGpus == {
    Gpu("RTX-3060", "consumer", 12, 12),
    Gpu("RTX-4060-Ti", "consumer", 16, 16),
    Gpu("RTX-4070-Ti-Super", "consumer", 16, 24),
    Gpu("RTX-3090-4090", "consumer", 24, 36),
    Gpu("Dual-RTX-3090-4090", "consumer", 48, 64),
    Gpu("Mac-Studio-Max", "apple", 36, 20),
    Gpu("Mac-Studio-Ultra-64GB", "apple", 64, 36),
    Gpu("Mac-Studio-Ultra-128GB", "apple", 128, 64)}

CloudGpus == {
    Gpu("L4", "cloud", 24, 32),
    Gpu("A10G", "cloud", 24, 40),
    Gpu("L40S", "cloud", 48, 64),
    Gpu("A100", "cloud", 80, 128),
    Gpu("H100", "cloud", 80, 200)}

GPU_CATALOG == DesktopGpus \cup CloudGpus

\* getGpuArchitecture: by what the name contains, the newest family first (the
\* card sold as "3090 / 4090" is an Ada).
GetGpuArchitecture(gpu) ==
    IF gpu.name = "H100" THEN "Hopper / Blackwell"
    ELSE IF gpu.name \in {"RTX-4060-Ti", "RTX-4070-Ti-Super", "RTX-3090-4090",
                          "Dual-RTX-3090-4090", "L4", "L40S"} THEN "Ada Lovelace"
    ELSE IF gpu.name \in {"RTX-3060", "A10G", "A100"} THEN "Ampere"
    ELSE "Generic Accelerator"

Fp8Native(gpu) == GetGpuArchitecture(gpu) \in {"Hopper / Blackwell", "Ada Lovelace"}

-----------------------------------------------------------------------------
(***************************************************************************)
(* Quantization recipes: the value of --quantization they ask for, if any  *)
(* (gguf asks for a load format instead).                                  *)
(***************************************************************************)
Recipe(id, bytesPerParam, quantization, format) ==
    [name |-> id, bytesPerParam |-> bytesPerParam,
     quantization |-> quantization, format |-> format]

QUANTIZATION_RECIPES == {
    Recipe("fp16", 200, "none", "auto"),
    Recipe("fp8", 100, "fp8", "auto"),
    Recipe("int4_awq", 55, "awq", "auto"),
    Recipe("int4_gptq", 55, "gptq", "auto"),
    Recipe("compressed_tensors", 95, "compressed-tensors", "auto"),
    Recipe("gguf", 58, "none", "gguf")}

\* vllmArg is not the empty string.
HasArgument(recipe) == recipe.quantization # "none" \/ recipe.format # "auto"

-----------------------------------------------------------------------------
(***************************************************************************)
(* The flags a configuration starts with, those the page reads.  A text is *)
(* there or blank; a flag that only decides whether it is passed says so   *)
(* (there is swap space other than 4 GB, another backend than xgrammar, a  *)
(* parser, more than one pipeline); sizes of blocks and batches are left   *)
(* out.                                                                    *)
(***************************************************************************)
DEFAULT_VLLM_FLAGS == [
    gpuMemoryUtilization |-> 90, maxModelLen |-> 4096, kvCacheDtype |-> "auto",
    swapSpace |-> FALSE, cpuOffloadGb |-> 0, disableSlidingWindow |-> FALSE,
    enablePrefixCaching |-> TRUE, enableChunkedPrefill |-> TRUE,
    numSchedulerSteps |-> 1, disableLogStats |-> FALSE,
    tensorParallelSize |-> 1, pipelineParallelSize |-> FALSE,
    distributedExecutorBackend |-> "mp", enforceEager |-> FALSE,
    enableSpeculative |-> FALSE, speculativeMode |-> "draft_model",
    quantization |-> "none",
    trustRemoteCode |-> TRUE, servedModelName |-> FALSE, loadFormat |-> "auto",
    limitMmPerPrompt |-> TRUE, imagesPerPrompt |-> 1, apiKey |-> TRUE,
    enableLora |-> FALSE, maxLoras |-> 4, maxLoraRank |-> 32, loraModules |-> FALSE,
    guidedDecodingBackend |-> FALSE, toolCallParser |-> TRUE,
    enableAutoToolChoice |-> TRUE]

=============================================================================
