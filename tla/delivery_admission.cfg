CONSTANTS
    dev = dev
    prod = prod
    devWf = devWf
    prodWf = prodWf
    NoWorkflow = NoWorkflow
    Envs = {dev}
    Workflows = {devWf}
    EnvOf <- OneEnv
    ListOrder <- ListOne
    Handlers = {h1}
    Requests = {"deploy", "terminate", "resume", "recycle"}
    MaxId = 2
    MaxQueue = 3
    MaxRequeue = 0
    MaxFault = 1
    MaxRestart = 1
    LostAnswers = FALSE
SPECIFICATION Spec
PROPERTIES
    DeployWaitsForLast
CHECK_DEADLOCK FALSE
