CONSTANTS
    dev = dev
    prod = prod
    devWf = devWf
    prodWf = prodWf
    NoWorkflow = NoWorkflow
    Envs = {dev}
    Workflows = {devWf}
    EnvOf <- OneEnv
    ListOrder <- ListOne
    Handlers = {h1}
    Requests = {"deploy"}
    MaxId = 2
    MaxQueue = 3
    MaxRequeue = 1
    MaxFault = 0
    MaxRestart = 0
    LostAnswers = FALSE
SPECIFICATION Spec
INVARIANTS
    ConflictOnlyWhileRunning
CHECK_DEADLOCK FALSE
