----------------------------- MODULE GpuSizing -----------------------------
(***************************************************************************)
(* The functions of frontend/src/utils/gpuSizer.js: what a model's name    *)
(* says of its size, what a request keeps in the cache, and how many       *)
(* requests a GPU or the connected host can hold.                          *)
(*                                                                         *)
(* Memory is counted in 640 000ths of a gigabyte, in which the weights     *)
(* (hundredths of billions times hundredths of bytes) and the cache        *)
(* (binary sizes) are both whole.  Estimates of speed are left out.        *)
(***************************************************************************)
EXTENDS Integers, VllmCatalog

CONSTANTS
    ModelNames,         \* names of models a user may type
    ConnectedNames,     \* names the connected runtimes list
    TriedUsers          \* numbers of users one may type

\* So many hundredths of a gigabyte.
Gb(hundredths) == hundredths * 6400

Larger(a, b)  == IF a < b THEN b ELSE a
Smaller(a, b) == IF a < b THEN a ELSE b

CONTEXT_LENGTH_OPTIONS == {2048, 4096, 8192, 16384, 32768}
PRECISION_OPTIONS == {200, 100, 75, 65, 55}

-----------------------------------------------------------------------------
(***************************************************************************)
(* Names of models.  A name is what the patterns of parseModelName find in *)
(* it: a preset, or a size (0 when there is none), a precision and a       *)
(* family; a blank name has nothing.                                       *)
(***************************************************************************)
Arch(layers, kvHeads, headDim) == [layers |-> layers, kvHeads |-> kvHeads, headDim |-> headDim]

Preset(name, params, precision, arch) ==
    [name |-> name, params |-> params, precision |-> precision, arch |-> arch]

MODEL_PRESETS == {
    Preset("llama3.1:8b-q4", 800, 55, Arch(32, 8, 128)),
    Preset("llama3.1:8b-fp16", 800, 200, Arch(32, 8, 128)),
    Preset("llama3.1:70b", 7000, 55, Arch(80, 8, 128)),
    Preset("qwen2.5:7b", 700, 55, Arch(28, 4, 128)),
    Preset("qwen2.5:14b", 1400, 55, Arch(40, 8, 128)),
    Preset("qwen3:14b-fp8", 1400, 100, Arch(40, 8, 128)),
    Preset("qwen2.5:32b", 3200, 55, Arch(64, 8, 128)),
    Preset("qwen2.5:72b", 7200, 55, Arch(80, 8, 128)),
    Preset("deepseek-r1:14b", 1400, 55, Arch(40, 8, 128)),
    Preset("deepseek-r1:32b", 3200, 55, Arch(64, 8, 128)),
    Preset("deepseek-r1:70b", 7000, 55, Arch(80, 8, 128)),
    Preset("mistral:7b", 700, 55, Arch(32, 8, 128)),
    Preset("gemma2:9b", 900, 55, Arch(42, 8, 256)),
    Preset("gemma2:27b", 2700, 55, Arch(46, 16, 128)),
    Preset("google/gemma-3-12b-it", 1200, 200, Arch(40, 8, 256)),
    Preset("gemma3:12b", 1200, 200, Arch(40, 8, 256)),
    Preset("phi3.5:3.8b", 380, 55, Arch(32, 32, 96))}

Name(text, preset, size, precision, family) ==
    [name |-> text, preset |-> preset, size |-> size,
     precision |-> precision, family |-> family]

\* A name has a size and a precision, or is a preset's.
ASSUME NamesAssumption ==
    \A n \in ModelNames \cup ConnectedNames :
        n.size \in Nat /\ n.precision \in Nat /\ (n.preset = "none" \/ \E p \in MODEL_PRESETS : p.name = n.preset)

Blank == Name("", "none", 0, 55, "other")
PresetName(p) == Name(p.name, p.name, p.params, p.precision, "other")

FamilyArch(family, params) ==
    CASE family = "qwen" ->
           IF params >= 7000 THEN Arch(80, 8, 128)
           ELSE IF params >= 3000 THEN Arch(64, 8, 128)
           ELSE IF params >= 1400 THEN Arch(40, 8, 128) ELSE Arch(28, 4, 128)
      [] family = "gemma" ->
           IF params >= 2500 THEN Arch(46, 16, 128) ELSE Arch(42, 8, 256)
      [] OTHER ->
           IF params >= 6500 THEN Arch(80, 8, 128)
           ELSE IF params >= 3000 THEN Arch(64, 8, 128)
           ELSE IF params >= 1200 THEN Arch(40, 8, 128) ELSE Arch(32, 8, 128)

\* A preset's name gives all; otherwise a size that is not found is 8 billion.
ParseModelName(n) ==
    IF n.preset # "none"
    THEN LET p == Named(MODEL_PRESETS, n.preset)
         IN  [params |-> p.params, precision |-> p.precision, arch |-> p.arch, detected |-> TRUE]
    ELSE LET params == IF n.size = 0 THEN 800 ELSE n.size
         IN  [params |-> params, precision |-> n.precision,
              arch |-> FamilyArch(n.family, params), detected |-> n.size # 0]

-----------------------------------------------------------------------------
(***************************************************************************)
(* Memory.                                                                 *)
(***************************************************************************)
\* 2 * layers * heads * dimension * bytes * tokens, in the module's unit; the
\* tokens come in blocks of 16.
KvUnits(arch, bytes, tokens) ==
    (((arch.layers * arch.kvHeads * arch.headDim) \div 2048) * bytes * 625 * (tokens \div 16)) \div 16

\* calcDetailedKvSpecs: whole blocks of 16 tokens, two bytes an element.
CalcKvCachePerUser(arch, contextTokens) ==
    Larger(Gb(5), KvUnits(arch, 2, ((contextTokens + 15) \div 16) * 16))

\* Slip: the engine's budget is the whole card.
EngineRoomWhole(vram) == Larger(0, vram - Gb(100))

\* What is left of a memory of vram for weights and cache: a tenth stays free
\* and a gigabyte is for the runtime.
EngineRoom(vram) == Larger(0, (vram \div 10) * 9 - Gb(100))

\* evaluateGpuConcurrency.
EvaluateGpuConcurrency(gpu, weights, kvPerUser) ==
    LET room  == EngineRoom(Gb(100 * gpu.vramGb)) - weights
        slots == room \div kvPerUser
        fits  == room > Gb(50)
    IN  [fits   |-> fits,
         status |-> IF ~fits THEN "spill" ELSE IF room < Gb(300) THEN "tight" ELSE "fits",
         slots  |-> IF fits THEN Larger(1, slots) ELSE 0,
         maxConcurrentStreams |->
             IF fits THEN Larger(1, Smaller(slots, gpu.maxBatch)) ELSE 0]

\* evaluateHostFit: the memory of all its NVIDIA cards together, or else the
\* system's RAM without the 4 GB of its operating system.
EvaluateHostFit(host, weights, kvPerUser) ==
    LET gpus  == host.kind = "gpus"
        room  == (IF gpus THEN EngineRoom(Gb(100 * host.gb))
                          ELSE Larger(0, Gb(100 * (host.gb - 4)))) - weights
        ample == room >= Gb(IF gpus THEN 200 ELSE 400)
        slots == room \div kvPerUser
    IN  CASE host.kind = "offline" -> [status |-> "unknown", streams |-> 0]
          [] host.kind # "offline" /\ room < 0 ->
               [status |-> "spill", streams |-> IF gpus THEN 1 ELSE 0]
          [] OTHER ->
               [status  |-> IF ample THEN "fits" ELSE "tight",
                streams |-> Larger(1, IF ample /\ ~gpus THEN Smaller(36, slots) ELSE slots)]

=============================================================================
