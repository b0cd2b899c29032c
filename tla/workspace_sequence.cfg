CONSTANTS
    p1 = p1
    p2 = p2
    None = None
    Projects = {p1}
    Targets = {t1, t2}
    Envs = {e1, e2}
    Namespaces = {n1, n2}
    Apps = {a1, a2}
    Users <- Members
    Handlers = {h1}
    Requests = {"createProject", "deleteProject", "createTarget", "deleteTarget", "createEnv", "updateEnv", "deleteEnv", "createApp", "deleteApp", "createBinding", "deleteBinding", "deploy", "recycle"}
    MaxFault = 1
SPECIFICATION Spec
INVARIANTS
    TypeOK
    ProjectExists
    DeployedIsBound
    TargetExclusive
    BoundEnvExists
    BindingHasWorkflow
