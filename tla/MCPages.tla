------------------------------ MODULE MCPages ------------------------------
(* The pages with a few models, cards and numbers. *)
EXTENDS Pages

MCModels   == {m \in GLOBAL_MODEL_CATALOG :
                  m.name \in {"Llama-3.1-8B", "Qwen2.5-72B", "gemma-2-9b", "Qwen2-VL-7B"}}
MCGpus     == {g \in GPU_CATALOG : g.name \in {"RTX-3060", "A100"}}
MCRecipes  == {r \in QUANTIZATION_RECIPES : r.name \in {"fp16", "fp8", "gguf"}}

MCNames     == {Blank, Name("acme-9b-fp16", "none", 900, 200, "gemma")}
MCConnected == {Name("qwen3-32b", "none", 3200, 55, "qwen")}

MCHosts == {[kind |-> "gpus", gb |-> 24], [kind |-> "ram", gb |-> 16]}

Run(name, loadTest, tokens, users) ==
    [model |-> name, loadTest |-> loadTest, prompt |-> tokens, completion |-> tokens,
     safeMax |-> 0, reached |-> users, target |-> 0]

MCRuns  == {Run("gemma-2-9b", TRUE, 9000, 20), Run("chat", FALSE, 0, 0)}
MCLinks == {NoLink, TrafficLink(Run("Qwen2-VL-7B", TRUE, 9000, 8))}

MCHelps == {NoHelp, [text |-> TRUE, negatable |-> {"apiKey", "trustRemoteCode"}]}
=============================================================================
