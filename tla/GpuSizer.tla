------------------------------ MODULE GpuSizer ------------------------------
(***************************************************************************)
(* The GPU sizer page (frontend/src/pages/GpuSizer.jsx): a form of a       *)
(* model's name, its size and precision, a context length and a number of  *)
(* users, from which the page says what memory is needed and which cards   *)
(* meet the target.                                                        *)
(*                                                                         *)
(* A step is one input of the user, or an answer the page has waited for.  *)
(***************************************************************************)
EXTENDS GpuSizing

CONSTANTS
    TriedSizes,         \* sizes a user may type
    Hosts               \* what telemetry may say of the connected host

ASSUME SizerAssumption == TriedSizes \subseteq Nat /\ TriedUsers \subseteq Nat

VARIABLES
    modelInput, params, precision, contextTokens, targetUsers,
    offered,            \* connectedModels
    sizing,             \* the number field that has the focus
    host                \* the store's currentTelemetry

sizerVars == <<modelInput, params, precision, contextTokens, targetUsers, offered, sizing, host>>

SizerInit ==
    /\ modelInput = PresetName(Named(MODEL_PRESETS, "llama3.1:8b-q4"))
    /\ params = 800 /\ precision = 55 /\ contextTokens = 4096 /\ targetUsers = 10
    /\ offered = {} /\ sizing = "none" /\ host = [kind |-> "offline", gb |-> 0]

-----------------------------------------------------------------------------
(***************************************************************************)
(* What the page computes.                                                 *)
(***************************************************************************)
SizerWeights == 64 * params * precision

\* Both the weights' size and the cache's layers follow the name, but the
\* layers are read from the name again.
SizerKvPerUser == CalcKvCachePerUser(ParseModelName(modelInput).arch, contextTokens)

TotalRecommendedVram == SizerWeights + SizerKvPerUser * targetUsers + Gb(150)

HostVerdict == EvaluateHostFit(host, SizerWeights, SizerKvPerUser)

\* A card that is marked as one that meets the target.
MeetsTarget(gpu) ==
    LET item == EvaluateGpuConcurrency(gpu, SizerWeights, SizerKvPerUser)
    IN  item.fits /\ item.maxConcurrentStreams >= targetUsers

-----------------------------------------------------------------------------
(***************************************************************************)
(* Inputs.  Leaving a number field gives it a number (onBlur); nothing     *)
(* else can be used before.                                                *)
(***************************************************************************)
ConnectedArrive ==
    /\ offered' = ConnectedNames
    /\ UNCHANGED <<modelInput, params, precision, contextTokens, targetUsers, sizing, host>>

TelemetryArrives ==
    /\ host' \in Hosts
    /\ UNCHANGED <<modelInput, params, precision, contextTokens, targetUsers, offered, sizing>>

\* handleModelInputChange, typed or chosen among the connected models: a name
\* without a size leaves size and precision as they are.
HandleModelInputChange(name) ==
    LET parsed == ParseModelName(name)
    IN  /\ sizing = "none"
        /\ modelInput' = name
        /\ params'    = IF parsed.detected THEN parsed.params ELSE params
        /\ precision' = IF parsed.detected THEN parsed.precision ELSE precision
        /\ UNCHANGED <<contextTokens, targetUsers, offered, sizing, host>>

HandleSelectPreset(p) ==
    /\ sizing = "none"
    /\ modelInput' = PresetName(p) /\ params' = p.params /\ precision' = p.precision
    /\ UNCHANGED <<contextTokens, targetUsers, offered, sizing, host>>

\* A blank field, or one that is no number, counts as 0.
TypeParams(n) ==
    /\ sizing \in {"none", "params"}
    /\ params' = n /\ sizing' = "params"
    /\ UNCHANGED <<modelInput, precision, contextTokens, targetUsers, offered, host>>

TypeTargetUsers(n) ==
    /\ sizing \in {"none", "targetUsers"}
    /\ targetUsers' = n /\ sizing' = "targetUsers"
    /\ UNCHANGED <<modelInput, params, precision, contextTokens, offered, host>>

LeaveParams ==
    /\ sizing = "params" /\ sizing' = "none"
    /\ params' = IF params < 10 THEN 700 ELSE params
    /\ UNCHANGED <<modelInput, precision, contextTokens, targetUsers, offered, host>>

LeaveTargetUsers ==
    /\ sizing = "targetUsers" /\ sizing' = "none"
    /\ targetUsers' = Larger(1, targetUsers)
    /\ UNCHANGED <<modelInput, params, precision, contextTokens, offered, host>>

ChoosePrecision ==
    /\ sizing = "none" /\ precision' \in PRECISION_OPTIONS
    /\ UNCHANGED <<modelInput, params, contextTokens, targetUsers, offered, sizing, host>>

ChooseContext ==
    /\ sizing = "none" /\ contextTokens' \in CONTEXT_LENGTH_OPTIONS
    /\ UNCHANGED <<modelInput, params, precision, targetUsers, offered, sizing, host>>

\* What the user does.
Size ==
    \/ \E name \in ModelNames \cup offered : HandleModelInputChange(name)
    \/ \E p \in MODEL_PRESETS : HandleSelectPreset(p)
    \/ \E n \in TriedSizes \cup {0} : TypeParams(n)
    \/ \E n \in TriedUsers \cup {0} : TypeTargetUsers(n)
    \/ ChoosePrecision \/ ChooseContext

\* What happens by itself.
SizerSettles == ConnectedArrive \/ TelemetryArrives \/ LeaveParams \/ LeaveTargetUsers

-----------------------------------------------------------------------------
\* A card that is marked to meet a target of several users has the memory the
\* page itself asks for that target: the budget of the cards
\* (evaluateGpuConcurrency) and the recommendation (GpuSizer.jsx) are computed
\* apart, with different reserves.  For one user the card's slots are rounded
\* up to one, and it need not be so.
TargetIsCovered ==
    \A gpu \in GPU_CATALOG :
        MeetsTarget(gpu) /\ targetUsers > 1 => TotalRecommendedVram <= Gb(100 * gpu.vramGb)

=============================================================================
