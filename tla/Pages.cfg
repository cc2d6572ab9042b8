SPECIFICATION Spec
CONSTANTS
    Routes = {"/gpu-sizer", "/vllm-optimizer", "/load-test: plans", "/load-test: setup", "/benchmark"}
    MaxChanges = 3
    ModelNames <- MCNames
    ConnectedNames <- MCConnected
    TriedUsers = {20}
    TriedSizes = {5, 3000}
    Hosts <- MCHosts
    Models <- MCModels
    Gpus <- MCGpus
    Recipes <- MCRecipes
    Versions <- VLLM_VERSIONS
    Runs <- MCRuns
    Links <- MCLinks
    Helps <- MCHelps
    TriedValues = {32, 60, 8192}
    TriedLengths = {24576}
    TriedNumbers = {30, 5000}
    MaxThreadGroups = 2
    MaxElements = 3
    Runtimes = {"r1", "r2"}
    DefaultRuntime = "r1"
    TypedNumbers = {30}
INVARIANTS
    MarkedCardsSuffice
    CommandIsAccepted
    CapacityAgrees
    RecommendedIsServable
    ExportsAgree
    PlanIsReadAlike
    StartedAsShown
CHECK_DEADLOCK FALSE
