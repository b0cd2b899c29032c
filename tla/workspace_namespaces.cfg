CONSTANTS
    p1 = p1
    p2 = p2
    None = None
    Projects = {p1}
    Targets = {t1}
    Envs = {e1, e2}
    Namespaces = {n1, n2}
    Apps = {a1}
    Users <- Members
    Handlers = {h1, h2}
    Requests = {"createEnv", "shareTargets", "updateEnv", "createProject", "createTarget", "createApp", "deleteWorkflow"}
    MaxFault = 1
SPECIFICATION Spec
INVARIANTS
    NamespaceOwned
