CONSTANTS
    dev = dev
    prod = prod
    devWf = devWf
    prodWf = prodWf
    NoWorkflow = NoWorkflow
    Envs = {dev}
    Workflows = {devWf}
    EnvOf <- OneEnv
    ListOrder <- ListOne
    Handlers = {h1}
    Requests = {"deploy"}
    MaxId = 2
    MaxQueue = 1
    MaxRequeue = 1
    MaxFault = 0
    MaxRestart = 1
    LostAnswers = FALSE
SPECIFICATION FairSpec
PROPERTIES
    QueueDrains
    ConvergesWithoutRequeue
CHECK_DEADLOCK FALSE
