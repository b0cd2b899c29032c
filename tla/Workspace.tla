------------------------------ MODULE Workspace ------------------------------
(***************************************************************************)
(* The objects applications live in: projects, delivery targets,           *)
(* environments, the control plane namespaces the environments hold, and   *)
(* the applications' bindings to environments with their workflows         *)
(* (pkg/server/domain/service/{project,target,env,envbinding,              *)
(* application}.go and the handlers in interfaces/api that call them).     *)
(*                                                                         *)
(* Nothing in the datastore ties these objects together: each request      *)
(* first reads what its checks need and then writes, and a failing or      *)
(* concurrent request falls between the two.  A request is one action for  *)
(* its reads and one for each write; the datastore's Add refuses an object *)
(* that exists, its Put one that does not.                                 *)
(***************************************************************************)
EXTENDS Integers

CONSTANTS
    Projects, Targets, Envs, Namespaces, Apps,
    None,        \* no object
    Users,       \* for each user, the projects the user is a member of
    Handlers,    \* API requests that may be in flight at a time
    Requests,    \* the kinds of request the users make
    MaxFault     \* bound: calls that fail, requests that die

AllRequests ==
    {"createProject", "deleteProject", "createTarget", "deleteTarget",
     "createEnv", "shareTargets", "updateEnv", "deleteEnv",
     "createApp", "deleteApp", "createBinding", "deleteBinding",
     "deleteWorkflow", "deploy", "recycle"}

ASSUME WorkspaceAssumption ==
    /\ None \notin Projects \cup Targets \cup Envs \cup Namespaces \cup Apps
    /\ Users \subseteq SUBSET Projects
    /\ Requests \subseteq AllRequests
    /\ MaxFault \in Nat

VARIABLES
    projects,   \* the projects that exist
    targets,    \* the project of each target
    envs,       \* the environments
    label,      \* cluster: the environment a namespace is labelled with
    apps,       \* the project of each application
    bindings,   \* which application is bound to which environment
    workflows,  \* the workflows made for bindings
    crs,        \* cluster: the Application CRs VelaUX applied
    req,        \* the requests in flight
    faults

store == <<projects, targets, envs, apps, bindings, workflows>>
cluster == <<label, crs>>
vars == <<store, cluster, req, faults>>

Env == [project : Projects, ns : Namespaces, targets : SUBSET Targets]
NoEnv == [project |-> None, ns |-> None, targets |-> {}]
Idle == [op |-> "none", step |-> "idle", p |-> None, e |-> None, ns |-> None,
         a |-> None, ts |-> {}]

Init ==
    /\ projects = {}
    /\ targets = [t \in Targets |-> None]
    /\ envs = [e \in Envs |-> NoEnv]
    /\ label = [n \in Namespaces |-> None]
    /\ apps = [a \in Apps |-> None]
    /\ bindings = {}
    /\ workflows = {}
    /\ crs = {}
    /\ req = [h \in Handlers |-> Idle]
    /\ faults = 0

-----------------------------------------------------------------------------

EnvExists(e) == e \in Envs /\ envs[e] # NoEnv
AppExists(a) == apps[a] # None
AllExist(ts) == \A t \in ts : targets[t] # None

\* A request of kind op starts, and goes on to its first write with the objects
\* in r once its checks have passed.
Start(h, op) == op \in Requests /\ req[h] = Idle

Goes(h, op, step, r) ==
    req' = [req EXCEPT ![h] = [r EXCEPT !.op = op, !.step = step]]

At(h, step) == req[h].step = step
Then(h, step) == req' = [req EXCEPT ![h].step = step]
Done(h) == req' = [req EXCEPT ![h] = Idle]

Fault == faults < MaxFault /\ faults' = faults + 1

-----------------------------------------------------------------------------
(* Projects and targets *)

CreateProject(p) ==
    /\ "createProject" \in Requests
    /\ projects' = projects \cup {p}
    /\ UNCHANGED <<targets, envs, apps, bindings, workflows, cluster, req, faults>>

\* Mutant: the targets are not counted.
DeleteProjectCheckTargets(h, p) ==
    /\ Start(h, "deleteProject")
    /\ p \in projects
    /\ \A a \in Apps : apps[a] # p
    /\ \A e \in Envs : envs[e].project # p
    /\ Goes(h, "deleteProject", "dropProject", [Idle EXCEPT !.p = p])
    /\ UNCHANGED <<store, cluster, faults>>

\* A project that still has an application, target or environment is kept.
DeleteProjectCheck(h, p) ==
    /\ Start(h, "deleteProject")
    /\ p \in projects
    /\ \A a \in Apps : apps[a] # p
    /\ \A t \in Targets : targets[t] # p
    /\ \A e \in Envs : envs[e].project # p
    /\ Goes(h, "deleteProject", "dropProject", [Idle EXCEPT !.p = p])
    /\ UNCHANGED <<store, cluster, faults>>

DropProject(h) ==
    /\ At(h, "dropProject")
    /\ projects' = projects \ {req[h].p}
    /\ Done(h)
    /\ UNCHANGED <<targets, envs, apps, bindings, workflows, cluster, faults>>

CreateTargetCheck(h, t, p) ==
    /\ Start(h, "createTarget")
    /\ p \in projects
    /\ Goes(h, "createTarget", "addTarget", [Idle EXCEPT !.p = p, !.ts = {t}])
    /\ UNCHANGED <<store, cluster, faults>>

AddTarget(h) ==
    /\ At(h, "addTarget")
    /\ targets' = [t \in Targets |->
                     IF t \in req[h].ts /\ targets[t] = None THEN req[h].p ELSE targets[t]]
    /\ Done(h)
    /\ UNCHANGED <<projects, envs, apps, bindings, workflows, cluster, faults>>

\* The bindings whose environment exists: listing skips the others.
ValidBindings == {b \in bindings : EnvExists(b[2])}

\* The applications a user is shown: those of the user's projects.
Visible(user) == {a \in Apps : AppExists(a) /\ apps[a] \in user \cap projects}

\* listApp by target: if any binding delivers to it, every application the
\* user is shown.
ListedByTarget(user, t) ==
    IF \E b \in ValidBindings : t \in envs[b[2]].targets THEN Visible(user) ELSE {}

\* listApp by environment: without a single binding the filter is skipped and
\* every application the user is shown is listed.
ListedByEnv(user, e) ==
    {a \in Visible(user) : ValidBindings = {} \/ <<a, e>> \in ValidBindings}

\* A user without a project gets an empty list that is not nil, which
\* deleteTarget takes for applications.
DeleteTargetCheck(h, t, user) ==
    /\ Start(h, "deleteTarget")
    /\ user \cap projects # {}
    /\ ListedByTarget(user, t) = {}
    /\ targets[t] # None
    /\ Goes(h, "deleteTarget", "dropTarget", [Idle EXCEPT !.ts = {t}])
    /\ UNCHANGED <<store, cluster, faults>>

DropTarget(h) ==
    /\ At(h, "dropTarget")
    /\ targets' = [t \in Targets |-> IF t \in req[h].ts THEN None ELSE targets[t]]
    /\ Done(h)
    /\ UNCHANGED <<projects, envs, apps, bindings, workflows, cluster, faults>>

-----------------------------------------------------------------------------
(* Environments *)

\* Mutant: the targets of other environments are not compared.
checkEnvTargetOwnOnly(p, e, ts) == TRUE

\* No other environment of the project has one of the targets.
checkEnvTarget(p, e, ts) ==
    \A f \in Envs \ {e} : envs[f].project = p => envs[f].targets \cap ts = {}

\* shareTargets is a CreateEnv with AllowTargetConflict.
CreateEnvCheck(h, op, e, p, ns, ts) ==
    /\ op \in {"createEnv", "shareTargets"}
    /\ Start(h, op)
    /\ op = "createEnv" => checkEnvTarget(p, e, ts)
    /\ AllExist(ts)
    /\ Goes(h, op, "label", [Idle EXCEPT !.p = p, !.e = e, !.ns = ns, !.ts = ts])
    /\ UNCHANGED <<store, cluster, faults>>

\* Mutant: the namespace is labelled whoever holds it.
LabelNamespaceAnyway(h) ==
    LET r == req[h]
    IN  /\ At(h, "label")
        /\ ~ EnvExists(r.e)
        /\ label' = [label EXCEPT ![r.ns] = r.e]
        /\ Then(h, "addEnv")
        /\ UNCHANGED <<store, crs, faults>>

\* Label the namespace with the environment, unless another environment's
\* label is on it or the environment exists.
LabelNamespace(h) ==
    LET r == req[h]
    IN  /\ At(h, "label")
        /\ \/ /\ ~ EnvExists(r.e)
              /\ label[r.ns] \in {None, r.e}
              /\ label' = [label EXCEPT ![r.ns] = r.e]
              /\ Then(h, "addEnv")
           \/ /\ EnvExists(r.e) \/ label[r.ns] \notin {None, r.e}
              /\ UNCHANGED label
              /\ Done(h)
        /\ UNCHANGED <<store, crs, faults>>

AddEnv(h) ==
    LET r == req[h]
    IN  /\ At(h, "addEnv")
        /\ envs' = IF EnvExists(r.e) THEN envs
                   ELSE [envs EXCEPT ![r.e] =
                           [project |-> r.p, ns |-> r.ns, targets |-> r.ts]]
        /\ Done(h)
        /\ UNCHANGED <<projects, targets, apps, bindings, workflows, cluster, faults>>

\* An update without targets keeps the ones the environment was read with.
UpdateEnvCheck(h, e, ts) ==
    LET new == IF ts = {} THEN envs[e].targets ELSE ts
    IN  /\ Start(h, "updateEnv")
        /\ EnvExists(e)
        /\ checkEnvTarget(envs[e].project, e, ts)
        /\ envs[e].targets \ new # {} => \A c \in crs : c[2] # envs[e].ns
        /\ AllExist(ts)
        /\ Goes(h, "updateEnv", "putEnv",
                [Idle EXCEPT !.p = envs[e].project, !.e = e, !.ns = envs[e].ns, !.ts = new])
        /\ UNCHANGED <<store, cluster, faults>>

\* Put the environment as it was read, with its new targets.
PutEnv(h) ==
    LET r == req[h]
    IN  /\ At(h, "putEnv")
        /\ envs' = IF EnvExists(r.e)
                   THEN [envs EXCEPT ![r.e] =
                           [project |-> r.p, ns |-> r.ns, targets |-> r.ts]]
                   ELSE envs
        /\ Done(h)
        /\ UNCHANGED <<projects, targets, apps, bindings, workflows, cluster, faults>>

\* Mutant: the applications are not listed.
DeleteEnvCheckNone(h, e, user) ==
    /\ Start(h, "deleteEnv")
    /\ Goes(h, "deleteEnv", "unlabel", [Idle EXCEPT !.e = e])
    /\ UNCHANGED <<store, cluster, faults>>

\* Any application listed stands in the way.
DeleteEnvCheck(h, e, user) ==
    /\ Start(h, "deleteEnv")
    /\ ListedByEnv(user, e) = {}
    /\ Goes(h, "deleteEnv", "unlabel", [Idle EXCEPT !.e = e])
    /\ UNCHANGED <<store, cluster, faults>>

\* Clear the label, whosever it is; an error other than not found is dropped, as in the
\* code, and the environment deleted (that of a namespace that is gone is an Abort).
Unlabel(h) ==
    LET e == req[h].e
    IN  /\ At(h, "unlabel")
        /\ \/ /\ EnvExists(e)
              /\ label' = [label EXCEPT ![envs[e].ns] = None]
              /\ Then(h, "dropEnv")
              /\ UNCHANGED faults
           \/ /\ EnvExists(e)
              /\ Fault
              /\ Then(h, "dropEnv")
              /\ UNCHANGED label
           \/ /\ ~ EnvExists(e)
              /\ Done(h)
              /\ UNCHANGED <<label, faults>>
        /\ UNCHANGED <<store, crs>>

DropEnv(h) ==
    /\ At(h, "dropEnv")
    /\ envs' = [envs EXCEPT ![req[h].e] = NoEnv]
    /\ Done(h)
    /\ UNCHANGED <<projects, targets, apps, bindings, workflows, cluster, faults>>

-----------------------------------------------------------------------------
(* Applications and their bindings *)

\* Mutant: the request is taken to name an environment.
CreateAppCheckBinds(h, a, p, e) ==
    /\ Start(h, "createApp")
    /\ ~ AppExists(a)
    /\ p \in projects
    /\ Goes(h, "createApp", "bind", [Idle EXCEPT !.a = a, !.p = p, !.e = e])
    /\ UNCHANGED <<store, cluster, faults>>

CreateAppCheck(h, a, p, e) ==
    /\ Start(h, "createApp")
    /\ ~ AppExists(a)
    /\ p \in projects
    /\ Goes(h, "createApp", IF e = None THEN "addApp" ELSE "bind",
            [Idle EXCEPT !.a = a, !.p = p, !.e = e])
    /\ UNCHANGED <<store, cluster, faults>>

\* A new application's trigger needs the workflow of its environment, wherever
\* that comes from.
Triggered(h, made) ==
    IF <<req[h].a, req[h].e>> \in made THEN Then(h, "addApp") ELSE Done(h)

\* BatchCreateEnvBinding: add the binding.  A binding that exists, an
\* environment that does not and a failing call are only logged.
Bind(h) ==
    LET b == <<req[h].a, req[h].e>>
        ok == EnvExists(req[h].e) /\ b \notin bindings
    IN  /\ At(h, "bind")
        /\ \/ /\ ok
              /\ bindings' = bindings \cup {b}
              /\ Then(h, "workflow")
              /\ UNCHANGED faults
           \/ /\ IF ok THEN Fault ELSE UNCHANGED faults
              /\ Triggered(h, workflows)
              /\ UNCHANGED bindings
        /\ UNCHANGED <<projects, targets, envs, apps, workflows, cluster>>

\* BatchCreateEnvBinding: add the workflow.
Workflow(h) ==
    /\ At(h, "workflow")
    /\ \/ /\ workflows' = workflows \cup {<<req[h].a, req[h].e>>}
          /\ UNCHANGED faults
       \/ Fault /\ UNCHANGED workflows
    /\ Triggered(h, workflows')
    /\ UNCHANGED <<projects, targets, envs, apps, bindings, cluster>>

AddApp(h) ==
    LET r == req[h]
    IN  /\ At(h, "addApp")
        /\ apps' = IF AppExists(r.a) THEN apps ELSE [apps EXCEPT ![r.a] = r.p]
        /\ Done(h)
        /\ UNCHANGED <<projects, targets, envs, bindings, workflows, cluster, faults>>

CreateBindingCheck(h, a, e) ==
    /\ Start(h, "createBinding")
    /\ AppExists(a)
    /\ <<a, e>> \notin bindings
    /\ EnvExists(e)
    /\ Goes(h, "createBinding", "addWorkflow", [Idle EXCEPT !.a = a, !.e = e])
    /\ UNCHANGED <<store, cluster, faults>>

\* CreateEnvBinding makes the workflow first, and gives up on one that exists.
AddWorkflow(h) ==
    LET b == <<req[h].a, req[h].e>>
    IN  /\ At(h, "addWorkflow")
        /\ IF b \in workflows THEN Done(h) ELSE Then(h, "addBinding")
        /\ workflows' = workflows \cup {b}
        /\ UNCHANGED <<projects, targets, envs, apps, bindings, cluster, faults>>

AddBinding(h) ==
    /\ At(h, "addBinding")
    /\ bindings' = bindings \cup {<<req[h].a, req[h].e>>}
    /\ Done(h)
    /\ UNCHANGED <<projects, targets, envs, apps, workflows, cluster, faults>>

\* A binding whose environment is gone, or cannot be read, keeps its record and
\* loses its workflow.
DeleteBindingCheck(h, a, e) ==
    /\ Start(h, "deleteBinding")
    /\ AppExists(a)
    /\ <<a, e>> \in bindings
    /\ \E step \in {"unbind", "dropWorkflow"} :
          /\ \/ /\ step = "unbind"
                /\ EnvExists(e)
                /\ <<a, envs[e].ns>> \notin crs
                /\ UNCHANGED faults
             \/ /\ step = "dropWorkflow"
                /\ IF EnvExists(e) THEN Fault ELSE UNCHANGED faults
          /\ Goes(h, "deleteBinding", step, [Idle EXCEPT !.a = a, !.e = e])
    /\ UNCHANGED <<store, cluster>>

\* Mutant: the binding stays.
UnbindNothing(h) ==
    /\ At(h, "unbind")
    /\ Then(h, "dropWorkflow")
    /\ UNCHANGED <<store, cluster, faults>>

Unbind(h) ==
    /\ At(h, "unbind")
    /\ bindings' = bindings \ {<<req[h].a, req[h].e>>}
    /\ Then(h, "dropWorkflow")
    /\ UNCHANGED <<projects, targets, envs, apps, workflows, cluster, faults>>

DropWorkflow(h) ==
    /\ At(h, "dropWorkflow")
    /\ workflows' = workflows \ {<<req[h].a, req[h].e>>}
    /\ Done(h)
    /\ UNCHANGED <<projects, targets, envs, apps, bindings, cluster, faults>>

\* The request to delete a workflow asks nothing about its environment.
DeleteWorkflow(a, e) ==
    /\ "deleteWorkflow" \in Requests
    /\ AppExists(a)
    /\ <<a, e>> \in workflows
    /\ workflows' = workflows \ {<<a, e>>}
    /\ UNCHANGED <<projects, targets, envs, apps, bindings, cluster, req, faults>>

DeployCheck(h, a, e) ==
    /\ Start(h, "deploy")
    /\ AppExists(a)
    /\ <<a, e>> \in workflows
    /\ EnvExists(e)
    /\ <<a, e>> \in bindings
    /\ Goes(h, "deploy", "apply", [Idle EXCEPT !.a = a, !.ns = envs[e].ns])
    /\ UNCHANGED <<store, cluster, faults>>

ApplyCR(h) ==
    /\ At(h, "apply")
    /\ crs' = crs \cup {<<req[h].a, req[h].ns>>}
    /\ Done(h)
    /\ UNCHANGED <<store, label, faults>>

Recycle(a, e) ==
    /\ "recycle" \in Requests
    /\ AppExists(a)
    /\ <<a, e>> \in bindings
    /\ EnvExists(e)
    /\ crs' = crs \ {<<a, envs[e].ns>>}
    /\ UNCHANGED <<store, label, req, faults>>

\* GetEnvBindings of application a: only environments of the project p.
Listed(a, p) == {b \in ValidBindings : b[1] = a /\ envs[b[2]].project = p}

\* Mutant: a deployed application is deleted.
DeleteAppCheckAnyway(h, a) ==
    /\ Start(h, "deleteApp")
    /\ AppExists(a)
    /\ Goes(h, "deleteApp", "wipeWorkflows", [Idle EXCEPT !.a = a, !.p = apps[a]])
    /\ UNCHANGED <<store, cluster, faults>>

\* The application has no CR in the environments listed for it.
DeleteAppCheck(h, a) ==
    /\ Start(h, "deleteApp")
    /\ AppExists(a)
    /\ \A b \in Listed(a, apps[a]) : <<a, envs[b[2]].ns>> \notin crs
    /\ Goes(h, "deleteApp", "wipeWorkflows", [Idle EXCEPT !.a = a, !.p = apps[a]])
    /\ UNCHANGED <<store, cluster, faults>>

\* DeleteWorkflowByApp; the workflows it fails to delete are only logged.
WipeWorkflows(h) ==
    LET mine == {w \in workflows : w[1] = req[h].a}
    IN  /\ At(h, "wipeWorkflows")
        /\ \/ workflows' = workflows \ mine /\ UNCHANGED faults
           \/ Fault /\ \E gone \in SUBSET mine : workflows' = workflows \ gone
        /\ Then(h, "wipeBindings")
        /\ UNCHANGED <<projects, targets, envs, apps, bindings, cluster>>

\* BatchDeleteEnvBinding deletes the bindings listed for the application, each
\* with its workflow, up to the first Delete that fails; that is only logged.
WipeBindings(h) ==
    LET listed == Listed(req[h].a, req[h].p)
    IN  /\ At(h, "wipeBindings")
        /\ \/ /\ bindings' = bindings \ listed
              /\ workflows' = workflows \ listed
              /\ UNCHANGED faults
           \/ /\ Fault
              /\ \E gone \in SUBSET listed :
                    /\ bindings' = bindings \ gone
                    /\ \/ workflows' = workflows \ gone
                       \/ \E b \in gone : workflows' = workflows \ (gone \ {b})
        /\ Then(h, "dropApp")
        /\ UNCHANGED <<projects, targets, envs, apps, cluster>>

DropApp(h) ==
    /\ At(h, "dropApp")
    /\ apps' = [apps EXCEPT ![req[h].a] = None]
    /\ Done(h)
    /\ UNCHANGED <<projects, targets, envs, bindings, workflows, cluster, faults>>

\* A call fails and the request returns its error, or the server exits.
Abort(h) ==
    /\ req[h] # Idle
    /\ Fault
    /\ Done(h)
    /\ UNCHANGED <<store, cluster>>

-----------------------------------------------------------------------------

ProjectRequest(h) ==
    \/ \E p \in Projects : DeleteProjectCheck(h, p)
    \/ \E t \in Targets, p \in Projects : CreateTargetCheck(h, t, p)
    \/ \E t \in Targets, u \in Users : DeleteTargetCheck(h, t, u)

EnvRequest(h) ==
    \/ \E op \in {"createEnv", "shareTargets"}, e \in Envs, p \in Projects,
          n \in Namespaces, ts \in SUBSET Targets : CreateEnvCheck(h, op, e, p, n, ts)
    \/ \E e \in Envs, ts \in SUBSET Targets : UpdateEnvCheck(h, e, ts)
    \/ \E e \in Envs, u \in Users : DeleteEnvCheck(h, e, u)

AppRequest(h) ==
    \/ \E a \in Apps, p \in Projects, e \in Envs \cup {None} : CreateAppCheck(h, a, p, e)
    \/ \E a \in Apps, e \in Envs :
          \/ CreateBindingCheck(h, a, e)
          \/ DeleteBindingCheck(h, a, e)
          \/ DeployCheck(h, a, e)
    \/ \E a \in Apps : DeleteAppCheck(h, a)

ProjectWrite(h) == DropProject(h) \/ AddTarget(h) \/ DropTarget(h)

EnvWrite(h) ==
    LabelNamespace(h) \/ AddEnv(h) \/ PutEnv(h) \/ Unlabel(h) \/ DropEnv(h)

AppWrite(h) ==
    \/ Bind(h) \/ Workflow(h) \/ AddApp(h) \/ AddWorkflow(h) \/ AddBinding(h)
    \/ Unbind(h) \/ DropWorkflow(h) \/ ApplyCR(h)
    \/ WipeWorkflows(h) \/ WipeBindings(h) \/ DropApp(h)

Next ==
    \/ \E h \in Handlers :
          \/ ProjectRequest(h) \/ EnvRequest(h) \/ AppRequest(h)
          \/ ProjectWrite(h) \/ EnvWrite(h) \/ AppWrite(h)
          \/ Abort(h)
    \/ \E p \in Projects : CreateProject(p)
    \/ \E a \in Apps, e \in Envs : Recycle(a, e) \/ DeleteWorkflow(a, e)

Spec == Init /\ [][Next]_vars

-----------------------------------------------------------------------------
(* Properties *)

Optional(S) == S \cup {None}

EnvSteps == {"label", "addEnv", "putEnv", "unlabel", "dropEnv", "bind", "workflow",
             "addWorkflow", "addBinding", "unbind", "dropWorkflow"}
AppSteps == {"bind", "workflow", "addApp", "addWorkflow", "addBinding", "unbind",
             "dropWorkflow", "apply", "wipeWorkflows", "wipeBindings", "dropApp"}
PlaceSteps == {"label", "addEnv", "putEnv", "apply"}
ProjectSteps == {"dropProject", "addTarget", "label", "addEnv", "putEnv", "bind",
                 "workflow", "addApp", "wipeWorkflows", "wipeBindings", "dropApp"}
WriteSteps == EnvSteps \cup AppSteps \cup ProjectSteps \cup {"dropTarget"}

Request ==
    [op : Requests \cup {"none"}, step : WriteSteps \cup {"idle"},
     p : Optional(Projects), e : Optional(Envs), ns : Optional(Namespaces),
     a : Optional(Apps), ts : SUBSET Targets]

\* A request under way knows the objects its next write is about.
Knows(r) ==
    /\ r.step \in EnvSteps => r.e \in Envs
    /\ r.step \in AppSteps => r.a \in Apps
    /\ r.step \in PlaceSteps => r.ns \in Namespaces
    /\ r.step \in ProjectSteps => r.p \in Projects

\* Every variable has its type, and a request under way knows what it is about:
\* CreateApplication, for one, makes no binding unless it was given one.
TypeOK ==
    /\ projects \subseteq Projects
    /\ targets \in [Targets -> Optional(Projects)]
    /\ envs \in [Envs -> Env \cup {NoEnv}]
    /\ label \in [Namespaces -> Optional(Envs)]
    /\ apps \in [Apps -> Optional(Projects)]
    /\ bindings \subseteq Apps \X Envs
    /\ workflows \subseteq Apps \X Envs
    /\ crs \subseteq Apps \X Namespaces
    /\ req \in [Handlers -> Request]
    /\ \A h \in Handlers : Knows(req[h])
    /\ faults \in 0..MaxFault

\* env.go, "a namespace belongs to one environment": no two environments have
\* the same control plane namespace, so their CRs never meet.
NamespaceOwned ==
    \A e, f \in Envs : EnvExists(e) /\ EnvExists(f) /\ envs[e].ns = envs[f].ns => e = f

\* model/env.go, "In one project, a delivery target can only belong to one
\* env.": no deploy to one environment lands in what another delivers to.
TargetExclusive ==
    \A e, f \in Envs :
        e # f /\ EnvExists(e) /\ envs[e].project = envs[f].project
            => envs[e].targets \cap envs[f].targets = {}

\* interfaces/api/env.go, deleting an environment is prevented "if there's
\* still application in it": an application is bound only to environments
\* that exist.  A call that fails may leave the binding of an application that
\* was never made, or one of a deleted application; until one does there is none.
BoundEnvExists ==
    faults = 0 => \A b \in bindings : AppExists(b[1]) => EnvExists(b[2])

\* What an application is bound to can be deployed: between requests, as long
\* as no call has failed, every binding has its workflow, in whichever order
\* bindings and applications were made and deleted.
BindingHasWorkflow ==
    faults = 0 /\ (\A h \in Handlers : req[h] = Idle)
        => \A b \in bindings : AppExists(b[1]) => b \in workflows

\* bcode/001_application.go, an application or binding "cannot be deleted
\* because it has been deployed": a CR in the cluster always belongs to an
\* application bound to the environment that holds its namespace.
DeployedIsBound ==
    \A c \in crs : \E e \in Envs :
        AppExists(c[1]) /\ envs[e].ns = c[2] /\ <<c[1], e>> \in bindings

\* The project of an application or target exists: DeleteProject refuses to
\* leave them behind.
ProjectExists ==
    /\ \A a \in Apps : AppExists(a) => apps[a] \in projects
    /\ \A t \in Targets : targets[t] # None => targets[t] \in projects

=============================================================================
