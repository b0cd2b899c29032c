CONSTANTS
    dev = dev
    prod = prod
    devWf = devWf
    prodWf = prodWf
    NoWorkflow = NoWorkflow
    Envs = {dev, prod}
    Workflows = {devWf, prodWf}
    EnvOf <- TwoEnvs
    ListOrder <- ListTwo
    Handlers = {h1}
    Requests = {"deploy", "rollback", "rollbackTo", "terminate", "resume"}
    MaxId = 2
    MaxQueue = 1
    MaxRequeue = 0
    MaxFault = 1
    MaxRestart = 1
    LostAnswers = TRUE
SPECIFICATION Spec
INVARIANTS
    CompleteIsEarned
    SucceededIsEarned
    FinishedIffEnded
PROPERTIES
    ReopenedByOwnRun
CHECK_DEADLOCK FALSE
