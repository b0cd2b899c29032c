CONSTANTS
    dev = dev
    prod = prod
    devWf = devWf
    prodWf = prodWf
    NoWorkflow = NoWorkflow
    Envs = {dev}
    Workflows = {devWf}
    EnvOf <- OneEnv
    ListOrder <- ListOne
    Handlers = {h1}
    Requests = {"deploy"}
    MaxId = 1
    MaxQueue = 2
    MaxRequeue = 5
    MaxFault = 0
    MaxRestart = 0
    LostAnswers = FALSE
SPECIFICATION FairSpec
PROPERTIES
    CurrentRunsConverge
CHECK_DEADLOCK FALSE
