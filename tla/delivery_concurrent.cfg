CONSTANTS
    dev = dev
    prod = prod
    devWf = devWf
    prodWf = prodWf
    NoWorkflow = NoWorkflow
    Envs = {dev}
    Workflows = {devWf}
    EnvOf <- OneEnv
    ListOrder <- ListOne
    Handlers = {h1, h2}
    Requests = {"deploy", "force", "delete"}
    MaxId = 2
    MaxQueue = 1
    MaxRequeue = 0
    MaxFault = 0
    MaxRestart = 0
    LostAnswers = FALSE
SYMMETRY HandlerSymmetry
SPECIFICATION Spec
INVARIANTS
    TypeOK
    FinishedIffEnded
PROPERTIES
    ReopenedByOwnRun
CHECK_DEADLOCK FALSE
