---------------------------- MODULE SequenceProofs ----------------------------
(***************************************************************************)
(* What the checks of Workspace keep when requests are handled one at a    *)
(* time, in any order, each of which may fail or die between two writes:   *)
(* for any number of projects, environments, applications and faults.      *)
(*                                                                         *)
(* Each invariant is strengthened by what the request under way has        *)
(* checked: as long as no other request writes, it still holds when the    *)
(* request writes.                                                         *)
(***************************************************************************)
EXTENDS WorkspaceProofs

\* What is deleted is shown to the user who deletes it, and what is bound to is of the
\* application's project: the checks for deletion look no further.
Members == \A u \in Users : Projects \subseteq u
OneAtATime == \A g, h \in Handlers : g = h
WithinProject ==
    \A b \in bindings :
        AppExists(b[1]) /\ EnvExists(b[2]) => envs[b[2]].project = apps[b[1]]

\* The project a request is about to write into exists; the one it is about to delete
\* has nothing in it.
ProjectSeen(r) ==
    /\ r.step = "dropProject" =>
          /\ \A a \in Apps : apps[a] # r.p
          /\ \A t \in Targets : targets[t] # r.p
    /\ r.step \in {"addTarget", "bind", "workflow", "addApp"} => r.p \in projects

ProjectsKept == ProjectExists /\ \A h \in Handlers : ProjectSeen(req[h])

\* The application a is bound to an environment that has the namespace ns.
BoundIn(a, ns) == \E e \in Envs : AppExists(a) /\ envs[e].ns = ns /\ <<a, e>> \in bindings

\* What is about to be applied is bound; what is about to go is not deployed.
DeploySeen(r) ==
    /\ r.step = "apply" => BoundIn(r.a, r.ns)
    /\ r.step = "putEnv" => envs[r.e].ns = r.ns
    /\ r.step \in {"unlabel", "dropEnv"} =>
          \A a \in Apps : AppExists(a) /\ EnvExists(r.e) => <<a, r.e>> \notin bindings
    /\ r.step = "unbind" => <<r.a, envs[r.e].ns>> \notin crs
    /\ r.step \in {"wipeWorkflows", "wipeBindings", "dropApp"} => \A c \in crs : c[1] # r.a

DeploysKept == DeployedIsBound /\ \A h \in Handlers : DeploySeen(req[h])

\* A binding is of an application that exists or is about to.
Owned(b) ==
    \/ AppExists(b[1])
    \/ \E h \in Handlers : req[h].step \in {"workflow", "addApp"} /\ b = <<req[h].a, req[h].e>>

BindingSeen(r) ==
    /\ r.step \in {"addWorkflow", "addBinding"} => AppExists(r.a) /\ EnvExists(r.e)
    /\ r.step \in {"unlabel", "dropEnv"} => \A b \in bindings : b[2] # r.e
    /\ r.step \in {"wipeWorkflows", "wipeBindings"} => AppExists(r.a) /\ r.p = apps[r.a]
    /\ r.step = "dropApp" => \A b \in bindings : b[1] # r.a

BindingsKept ==
    faults = 0 =>
        /\ \A b \in bindings : EnvExists(b[2]) /\ Owned(b)
        /\ \A h \in Handlers : BindingSeen(req[h])

\* A binding has its workflow, or a request is about to add the one or delete the other.
Deployable(b) ==
    \/ b \in workflows
    \/ \E h \in Handlers : req[h].step = "workflow" /\ b = <<req[h].a, req[h].e>>
    \/ \E h \in Handlers : req[h].step = "wipeBindings" /\ b[1] = req[h].a

WorkflowSeen(r) ==
    /\ r.step = "addBinding" => <<r.a, r.e>> \in workflows
    /\ r.step = "dropWorkflow" => <<r.a, r.e>> \notin bindings

WorkflowsKept ==
    faults = 0 =>
        /\ \A b \in bindings : Deployable(b)
        /\ \A h \in Handlers : WorkflowSeen(req[h])

-----------------------------------------------------------------------------
(* The request under way *)

\* It goes on to its next write,
LEMMA ThenTo ==
  ASSUME TypeOK, NEW h \in Handlers, NEW step, Then(h, step)
  PROVE  /\ req'[h].step = step
         /\ req'[h].p = req[h].p /\ req'[h].e = req[h].e
         /\ req'[h].ns = req[h].ns /\ req'[h].a = req[h].a
BY DEF TypeOK, Then, Request

\* or ends.
LEMMA DoneTo ==
  ASSUME TypeOK, NEW h \in Handlers, Done(h)
  PROVE  req'[h].step = "idle"
BY DEF TypeOK, Done, Idle

\* What a check hands over.
LEMMA ChecksTo ==
  ASSUME TypeOK, NEW h \in Handlers
  PROVE  /\ \A p \in Projects : DeleteProjectCheck(h, p) =>
              req'[h].step = "dropProject" /\ req'[h].p = p
         /\ \A t \in Targets, p \in Projects : CreateTargetCheck(h, t, p) =>
              req'[h].step = "addTarget" /\ req'[h].p = p
         /\ \A t \in Targets, u \in Users : DeleteTargetCheck(h, t, u) => req'[h].step = "dropTarget"
         /\ \A op \in {"createEnv", "shareTargets"}, e \in Envs, p \in Projects, n \in Namespaces, ts \in SUBSET Targets :
              CreateEnvCheck(h, op, e, p, n, ts) => req'[h].step = "label"
         /\ \A e \in Envs, ts \in SUBSET Targets : UpdateEnvCheck(h, e, ts) =>
              req'[h].step = "putEnv" /\ req'[h].e = e /\ req'[h].ns = envs[e].ns
         /\ \A e \in Envs, u \in Users : DeleteEnvCheck(h, e, u) =>
              req'[h].step = "unlabel" /\ req'[h].e = e
         /\ \A a \in Apps, p \in Projects, e \in Envs \cup {None} : CreateAppCheck(h, a, p, e) =>
              req'[h].step \in {"addApp", "bind"} /\ req'[h].p = p /\ req'[h].a = a
         /\ \A a \in Apps, e \in Envs : CreateBindingCheck(h, a, e) =>
              req'[h].step = "addWorkflow" /\ req'[h].a = a /\ req'[h].e = e
         /\ \A a \in Apps, e \in Envs : DeleteBindingCheck(h, a, e) =>
              req'[h].step \in {"unbind", "dropWorkflow"} /\ req'[h].a = a /\ req'[h].e = e
         /\ \A a \in Apps, e \in Envs : DeployCheck(h, a, e) =>
              req'[h].step = "apply" /\ req'[h].a = a /\ req'[h].ns = envs[e].ns
         /\ \A a \in Apps : DeleteAppCheck(h, a) =>
              req'[h].step = "wipeWorkflows" /\ req'[h].a = a /\ req'[h].p = apps[a]
<1> USE DEF TypeOK, Goes, Idle
<1>1. \A p \in Projects : DeleteProjectCheck(h, p) =>
         req'[h].step = "dropProject" /\ req'[h].p = p
  BY DEF DeleteProjectCheck
<1>2. \A t \in Targets, p \in Projects : CreateTargetCheck(h, t, p) =>
         req'[h].step = "addTarget" /\ req'[h].p = p
  BY DEF CreateTargetCheck
<1>3. \A t \in Targets, u \in Users : DeleteTargetCheck(h, t, u) => req'[h].step = "dropTarget"
  BY DEF DeleteTargetCheck
<1>4. \A op \in {"createEnv", "shareTargets"}, e \in Envs, p \in Projects, n \in Namespaces, ts \in SUBSET Targets :
         CreateEnvCheck(h, op, e, p, n, ts) => req'[h].step = "label"
  BY DEF CreateEnvCheck
<1>5. \A e \in Envs, ts \in SUBSET Targets : UpdateEnvCheck(h, e, ts) =>
         req'[h].step = "putEnv" /\ req'[h].e = e /\ req'[h].ns = envs[e].ns
  BY DEF UpdateEnvCheck
<1>6. \A e \in Envs, u \in Users : DeleteEnvCheck(h, e, u) =>
         req'[h].step = "unlabel" /\ req'[h].e = e
  BY DEF DeleteEnvCheck
<1>7. \A a \in Apps, p \in Projects, e \in Envs \cup {None} : CreateAppCheck(h, a, p, e) =>
         req'[h].step \in {"addApp", "bind"} /\ req'[h].p = p /\ req'[h].a = a
  BY DEF CreateAppCheck
<1>8. \A a \in Apps, e \in Envs : CreateBindingCheck(h, a, e) =>
         req'[h].step = "addWorkflow" /\ req'[h].a = a /\ req'[h].e = e
  BY DEF CreateBindingCheck
<1>9. \A a \in Apps, e \in Envs : DeleteBindingCheck(h, a, e) =>
         req'[h].step \in {"unbind", "dropWorkflow"} /\ req'[h].a = a /\ req'[h].e = e
  BY DEF DeleteBindingCheck
<1>10. \A a \in Apps, e \in Envs : DeployCheck(h, a, e) =>
         req'[h].step = "apply" /\ req'[h].a = a /\ req'[h].ns = envs[e].ns
  BY DEF DeployCheck
<1>11. \A a \in Apps : DeleteAppCheck(h, a) =>
         req'[h].step = "wipeWorkflows" /\ req'[h].a = a /\ req'[h].p = apps[a]
  BY DEF DeleteAppCheck
<1> QED BY <1>1, <1>2, <1>3, <1>4, <1>5, <1>6, <1>7, <1>8, <1>9, <1>10, <1>11, Zenon

-----------------------------------------------------------------------------
(* Projects *)

\* Nothing of what projects are for changes.
LEMMA ProjectsFrame ==
  ASSUME ProjectsKept, OneAtATime, NEW h \in Handlers, UNCHANGED <<projects, targets, apps>>,
         ProjectSeen(req[h])'
  PROVE  ProjectsKept'
BY DEF ProjectsKept, ProjectExists, AppExists, OneAtATime

\* A request that was checked may rely on its checks when it writes, and leaves
\* applications and targets their projects.
LEMMA ProjectsStep ==
  ASSUME TypeOK, ProjectsKept, OneAtATime, NEW h \in Handlers,
         \/ ProjectRequest(h) \/ EnvRequest(h) \/ AppRequest(h)
         \/ ProjectWrite(h) \/ EnvWrite(h) \/ AppWrite(h) \/ Abort(h)
  PROVE  ProjectsKept'
<1> DEFINE Same == UNCHANGED <<projects, targets, apps>>
<1>0. ProjectSeen(req[h]) /\ Knows(req[h])
  BY DEF ProjectsKept, TypeOK
<1>1. ASSUME NEW p \in Projects, DeleteProjectCheck(h, p) PROVE ProjectsKept'
  <2>1. req'[h].step = "dropProject" /\ req'[h].p = p
    BY <1>1, ChecksTo
  <2>2. Same /\ (\A a \in Apps : apps[a] # p) /\ (\A t \in Targets : targets[t] # p)
    BY <1>1 DEF DeleteProjectCheck, store
  <2> QED BY <2>1, <2>2, ProjectsFrame DEF ProjectSeen
<1>2. ASSUME NEW t \in Targets, NEW p \in Projects, CreateTargetCheck(h, t, p) PROVE ProjectsKept'
  <2>1. req'[h].step = "addTarget" /\ req'[h].p = p
    BY <1>2, ChecksTo
  <2>2. Same /\ p \in projects
    BY <1>2 DEF CreateTargetCheck, store
  <2> QED BY <2>1, <2>2, ProjectsFrame DEF ProjectSeen
<1>3. ASSUME NEW t \in Targets, NEW u \in Users, DeleteTargetCheck(h, t, u) PROVE ProjectsKept'
  <2>1. req'[h].step = "dropTarget" /\ Same
    BY <1>3, ChecksTo DEF DeleteTargetCheck, store
  <2> QED BY <2>1, ProjectsFrame DEF ProjectSeen
<1>4. CASE EnvRequest(h)
  <2>1. req'[h].step \in {"label", "putEnv", "unlabel"}
    BY <1>4, ChecksTo DEF EnvRequest
  <2>2. Same
    BY <1>4 DEF EnvRequest, CreateEnvCheck, UpdateEnvCheck, DeleteEnvCheck, store
  <2> QED BY <2>1, <2>2, ProjectsFrame DEF ProjectSeen
<1>5. ASSUME NEW a \in Apps, NEW p \in Projects, NEW e \in Envs \cup {None}, CreateAppCheck(h, a, p, e)
      PROVE  ProjectsKept'
  <2>1. req'[h].step \in {"addApp", "bind"} /\ req'[h].p = p
    BY <1>5, ChecksTo
  <2>2. Same /\ p \in projects
    BY <1>5 DEF CreateAppCheck, store
  <2> QED BY <2>1, <2>2, ProjectsFrame DEF ProjectSeen
<1>6. ASSUME NEW a \in Apps, NEW e \in Envs,
             CreateBindingCheck(h, a, e) \/ DeleteBindingCheck(h, a, e) \/ DeployCheck(h, a, e)
      PROVE  ProjectsKept'
  <2>1. req'[h].step \in {"addWorkflow", "unbind", "dropWorkflow", "apply"}
    BY <1>6, ChecksTo
  <2>2. Same
    BY <1>6 DEF CreateBindingCheck, DeleteBindingCheck, DeployCheck, store
  <2> QED BY <2>1, <2>2, ProjectsFrame DEF ProjectSeen
<1>7. ASSUME NEW a \in Apps, DeleteAppCheck(h, a) PROVE ProjectsKept'
  <2>1. req'[h].step = "wipeWorkflows" /\ Same
    BY <1>7, ChecksTo DEF DeleteAppCheck, store
  <2> QED BY <2>1, ProjectsFrame DEF ProjectSeen
<1>8. ASSUME Done(h), ProjectExists' PROVE ProjectsKept'
  <2>1. req'[h].step = "idle"
    BY <1>8, DoneTo
  <2> QED BY <1>8, <2>1 DEF ProjectsKept, ProjectSeen, OneAtATime
<1>9. ASSUME Same PROVE ProjectExists'
  BY <1>9 DEF ProjectsKept, ProjectExists, AppExists
<1>10. CASE DropProject(h)
  <2>1. ProjectExists'
    BY <1>0, <1>10 DEF DropProject, At, ProjectsKept, ProjectExists, ProjectSeen, AppExists
  <2> QED BY <1>8, <1>10, <2>1 DEF DropProject
<1>11. CASE AddTarget(h)
  <2>1. ProjectExists'
    BY <1>0, <1>11 DEF AddTarget, At, ProjectsKept, ProjectExists, ProjectSeen, AppExists
  <2> QED BY <1>8, <1>11, <2>1 DEF AddTarget
<1>12. CASE DropTarget(h)
  <2>1. ProjectExists'
    BY <1>0, <1>12 DEF DropTarget, ProjectsKept, ProjectExists, AppExists
  <2> QED BY <1>8, <1>12, <2>1 DEF DropTarget
<1>13. CASE EnvWrite(h)
  <2>1. Same
    BY <1>13 DEF EnvWrite, LabelNamespace, AddEnv, PutEnv, Unlabel, DropEnv, store
  <2>2. Done(h) \/ Then(h, "addEnv") \/ Then(h, "dropEnv")
    BY <1>13 DEF EnvWrite, LabelNamespace, AddEnv, PutEnv, Unlabel, DropEnv
  <2>3. CASE Then(h, "addEnv") \/ Then(h, "dropEnv")
    <3>1. req'[h].step \in {"addEnv", "dropEnv"}
      BY <2>3, ThenTo
    <3> QED BY <2>1, <3>1, ProjectsFrame DEF ProjectSeen
  <2> QED BY <1>8, <1>9, <2>1, <2>2, <2>3
<1>14. CASE Bind(h) \/ Workflow(h)
  <2>1. Same
    BY <1>14 DEF Bind, Workflow
  <2>2. Done(h) \/ Then(h, "workflow") \/ Then(h, "addApp")
    BY <1>14 DEF Bind, Workflow, Triggered
  <2>3. req[h].p \in projects
    BY <1>0, <1>14 DEF Bind, Workflow, At, ProjectSeen
  <2>4. CASE Then(h, "workflow") \/ Then(h, "addApp")
    <3>1. req'[h].step \in {"workflow", "addApp"} /\ req'[h].p = req[h].p
      BY <2>4, ThenTo
    <3> QED BY <2>1, <2>3, <3>1, ProjectsFrame DEF ProjectSeen
  <2> QED BY <1>8, <1>9, <2>1, <2>2, <2>4
<1>15. CASE AddApp(h)
  <2>1. req[h].p \in projects /\ req[h].a \in Apps
    BY <1>0, <1>15 DEF AddApp, At, ProjectSeen, Knows, AppSteps
  <2>2. ProjectExists'
    BY <1>15, <2>1 DEF AddApp, ProjectsKept, ProjectExists, AppExists, TypeOK
  <2> QED BY <1>8, <1>15, <2>2 DEF AddApp
<1>16. CASE DropApp(h)
  <2>1. ProjectExists'
    BY <1>16 DEF DropApp, ProjectsKept, ProjectExists, AppExists, TypeOK
  <2> QED BY <1>8, <1>16, <2>1 DEF DropApp
<1>17. CASE \/ AddWorkflow(h) \/ AddBinding(h) \/ Unbind(h) \/ DropWorkflow(h) \/ ApplyCR(h)
            \/ WipeWorkflows(h) \/ WipeBindings(h) \/ Abort(h)
  <2>1. Same
    BY <1>17 DEF AddWorkflow, AddBinding, Unbind, DropWorkflow, ApplyCR, WipeWorkflows,
       WipeBindings, Abort, store
  <2>2. \/ Done(h)
        \/ \E step \in {"addBinding", "dropWorkflow", "wipeBindings", "dropApp"} : Then(h, step)
    BY <1>17 DEF AddWorkflow, AddBinding, Unbind, DropWorkflow, ApplyCR, WipeWorkflows,
       WipeBindings, Abort
  <2>3. ASSUME NEW step \in {"addBinding", "dropWorkflow", "wipeBindings", "dropApp"}, Then(h, step)
        PROVE  ProjectsKept'
    <3>1. req'[h].step = step
      BY <2>3, ThenTo
    <3> QED BY <2>1, <3>1, ProjectsFrame DEF ProjectSeen
  <2> QED BY <1>8, <1>9, <2>1, <2>2, <2>3
<1> QED
  BY <1>1, <1>2, <1>3, <1>4, <1>5, <1>6, <1>7, <1>10, <1>11, <1>12, <1>13, <1>14, <1>15, <1>16, <1>17
     DEF ProjectRequest, AppRequest, ProjectWrite, AppWrite

\* DeleteProject in project.go refuses to delete a project that has an application or a
\* target: no request, failing wherever it may, leaves one behind without its project.
THEOREM ProjectsExist ==
  ASSUME OneAtATime
  PROVE  Spec => []ProjectExists
<1>1. Init => ProjectsKept
  BY DEF Init, ProjectsKept, ProjectExists, ProjectSeen, AppExists, Idle
<1>2. TypeOK /\ ProjectsKept /\ [Next]_vars => ProjectsKept'
  <2> SUFFICES ASSUME TypeOK, ProjectsKept, [Next]_vars PROVE ProjectsKept'
    OBVIOUS
  <2>1. CASE UNCHANGED vars
    BY <2>1 DEF vars, store, ProjectsKept, ProjectExists, ProjectSeen, AppExists
  <2>2. ASSUME NEW p \in Projects, CreateProject(p) PROVE ProjectsKept'
    BY <2>2 DEF CreateProject, ProjectsKept, ProjectExists, ProjectSeen, AppExists
  <2>3. ASSUME NEW a \in Apps, NEW e \in Envs, Recycle(a, e) \/ DeleteWorkflow(a, e)
        PROVE  ProjectsKept'
    BY <2>3 DEF Recycle, DeleteWorkflow, store, ProjectsKept, ProjectExists, ProjectSeen, AppExists
  <2> QED BY <2>1, <2>2, <2>3, ProjectsStep DEF Next
<1>3. ProjectsKept => ProjectExists
  BY DEF ProjectsKept
<1> QED BY <1>1, <1>2, <1>3, WorkspaceTypeCorrect, PTL DEF Spec

-----------------------------------------------------------------------------
(* Deployments *)

\* Steps that leave environments, applications, bindings, workflows and CRs as they
\* are, and after which the request knows nothing of them.
Quiet(h) ==
    /\ UNCHANGED <<envs, apps, bindings, workflows, crs, faults>>
    /\ req[h].step \in {"idle", "dropProject", "addTarget", "dropTarget", "label"}
    /\ req'[h].step \in {"idle", "dropProject", "addTarget", "dropTarget", "label",
                         "addEnv", "addApp", "bind"}

\* The checks and writes of projects and targets, and the checks before an environment or
\* an application is made.
LEMMA QuietSteps ==
  ASSUME TypeOK, NEW h \in Handlers,
         \/ ProjectRequest(h) \/ ProjectWrite(h) \/ LabelNamespace(h)
         \/ \E op \in {"createEnv", "shareTargets"}, e \in Envs, p \in Projects,
               n \in Namespaces, ts \in SUBSET Targets : CreateEnvCheck(h, op, e, p, n, ts)
         \/ \E a \in Apps, p \in Projects, e \in Envs \cup {None} : CreateAppCheck(h, a, p, e)
  PROVE  Quiet(h)
<1>1. ASSUME NEW p \in Projects, DeleteProjectCheck(h, p) PROVE Quiet(h)
  <2>1. req'[h].step = "dropProject"
    BY <1>1, ChecksTo
  <2> QED BY <1>1, <2>1 DEF Quiet, DeleteProjectCheck, Start, Idle, store, cluster
<1>2. ASSUME NEW t \in Targets, NEW p \in Projects, CreateTargetCheck(h, t, p) PROVE Quiet(h)
  <2>1. req'[h].step = "addTarget"
    BY <1>2, ChecksTo
  <2> QED BY <1>2, <2>1 DEF Quiet, CreateTargetCheck, Start, Idle, store, cluster
<1>3. ASSUME NEW t \in Targets, NEW u \in Users, DeleteTargetCheck(h, t, u) PROVE Quiet(h)
  <2>1. req'[h].step = "dropTarget"
    BY <1>3, ChecksTo
  <2> QED BY <1>3, <2>1 DEF Quiet, DeleteTargetCheck, Start, Idle, store, cluster
<1>4. ASSUME NEW op \in {"createEnv", "shareTargets"}, NEW e \in Envs, NEW p \in Projects,
             NEW n \in Namespaces, NEW ts \in SUBSET Targets, CreateEnvCheck(h, op, e, p, n, ts)
      PROVE  Quiet(h)
  <2>1. req'[h].step = "label"
    BY <1>4, ChecksTo
  <2>2. req[h] = Idle /\ UNCHANGED <<store, cluster, faults>>
    BY <1>4 DEF CreateEnvCheck, Start
  <2> QED BY <2>1, <2>2 DEF Quiet, Idle, store, cluster
<1>5. ASSUME NEW a \in Apps, NEW p \in Projects, NEW e \in Envs \cup {None}, CreateAppCheck(h, a, p, e)
      PROVE  Quiet(h)
  <2>1. req'[h].step \in {"addApp", "bind"}
    BY <1>5, ChecksTo
  <2>2. req[h] = Idle /\ UNCHANGED <<store, cluster, faults>>
    BY <1>5 DEF CreateAppCheck, Start
  <2> QED BY <2>1, <2>2 DEF Quiet, Idle, store, cluster
<1>6. CASE ProjectWrite(h)
  <2>1. Done(h)
    BY <1>6 DEF ProjectWrite, DropProject, AddTarget, DropTarget
  <2>2. req'[h].step = "idle"
    BY <2>1, DoneTo
  <2> QED BY <1>6, <2>2 DEF Quiet, ProjectWrite, DropProject, AddTarget, DropTarget, At, cluster
<1>7. CASE LabelNamespace(h)
  <2>1. Done(h) \/ Then(h, "addEnv")
    BY <1>7 DEF LabelNamespace
  <2>2. req'[h].step \in {"idle", "addEnv"}
    BY <2>1, DoneTo, ThenTo
  <2> QED BY <1>7, <2>2 DEF Quiet, LabelNamespace, At, store
<1> QED BY <1>1, <1>2, <1>3, <1>4, <1>5, <1>6, <1>7 DEF ProjectRequest

\* Nothing of what deployments rest on changes.
LEMMA DeploysFrame ==
  ASSUME DeploysKept, OneAtATime, NEW h \in Handlers, UNCHANGED <<envs, apps, bindings, crs>>,
         DeploySeen(req[h])'
  PROVE  DeploysKept'
BY DEF DeploysKept, DeployedIsBound, AppExists, OneAtATime

\* A request whose next write, if any, concerns no deployment.
LEMMA DeploysEnd ==
  ASSUME OneAtATime, NEW h \in Handlers, DeployedIsBound',
         req'[h].step \notin {"apply", "putEnv", "unlabel", "dropEnv", "unbind",
                             "wipeWorkflows", "wipeBindings", "dropApp"}
  PROVE  DeploysKept'
BY DEF DeploysKept, DeploySeen, OneAtATime

\* A deployed application is bound to an environment that exists.
LEMMA DeployedExists ==
  ASSUME TypeOK, DeployedIsBound, NEW c \in crs
  PROVE  \E e \in Envs : /\ AppExists(c[1]) /\ EnvExists(e) /\ envs[e].ns = c[2]
                         /\ <<c[1], e>> \in bindings /\ c = <<c[1], c[2]>>
<1>1. PICK e \in Envs : AppExists(c[1]) /\ envs[e].ns = c[2] /\ <<c[1], e>> \in bindings
  BY DEF DeployedIsBound
<1>2. c[2] # None /\ c = <<c[1], c[2]>>
  BY WorkspaceAssumption DEF TypeOK
<1> QED BY <1>1, <1>2 DEF EnvExists, NoEnv

\* Every application is shown to every user.
LEMMA AllVisible ==
  ASSUME TypeOK, Members, ProjectExists, NEW u \in Users, NEW a \in Apps, AppExists(a)
  PROVE  a \in Visible(u)
BY WorkspaceAssumption DEF TypeOK, Members, ProjectExists, Visible

\* A request that was checked may rely on its checks when it writes, and leaves the
\* deployments bound.
LEMMA DeploysStep ==
  ASSUME TypeOK, ProjectExists, WithinProject, DeploysKept, Members, OneAtATime,
         NEW h \in Handlers,
         \/ ProjectRequest(h) \/ EnvRequest(h) \/ AppRequest(h)
         \/ ProjectWrite(h) \/ EnvWrite(h) \/ AppWrite(h) \/ Abort(h)
  PROVE  DeploysKept'
<1> DEFINE Same == UNCHANGED <<envs, apps, bindings, crs>>
<1>0. DeploySeen(req[h]) /\ Knows(req[h]) /\ DeployedIsBound
  BY DEF DeploysKept, TypeOK
<1>1. ASSUME Quiet(h) PROVE DeploysKept'
  <2>1. DeployedIsBound'
    BY <1>0, <1>1 DEF Quiet, DeployedIsBound, AppExists
  <2> QED BY <1>1, <2>1, DeploysEnd DEF Quiet
<1>2. ASSUME NEW e \in Envs, NEW ts \in SUBSET Targets, UpdateEnvCheck(h, e, ts) PROVE DeploysKept'
  <2>1. req'[h].step = "putEnv" /\ req'[h].e = e /\ req'[h].ns = envs[e].ns
    BY <1>2, ChecksTo
  <2>2. Same
    BY <1>2 DEF UpdateEnvCheck, store, cluster
  <2> QED BY <2>1, <2>2, DeploysFrame DEF DeploySeen
<1>3. ASSUME NEW e \in Envs, NEW u \in Users, DeleteEnvCheck(h, e, u) PROVE DeploysKept'
  <2>1. req'[h].step = "unlabel" /\ req'[h].e = e
    BY <1>3, ChecksTo
  <2>2. Same /\ ListedByEnv(u, e) = {}
    BY <1>3 DEF DeleteEnvCheck, store, cluster
  <2>3. ASSUME NEW a \in Apps, AppExists(a), EnvExists(e) PROVE <<a, e>> \notin bindings
    <3>1. a \in Visible(u)
      BY <2>3, AllVisible
    <3> QED BY <2>2, <2>3, <3>1 DEF ListedByEnv, ValidBindings
  <2> QED BY <2>1, <2>2, <2>3, DeploysFrame DEF DeploySeen, AppExists, EnvExists
<1>4. ASSUME NEW a \in Apps, NEW e \in Envs, CreateBindingCheck(h, a, e) PROVE DeploysKept'
  <2>1. req'[h].step = "addWorkflow" /\ Same
    BY <1>4, ChecksTo DEF CreateBindingCheck, store, cluster
  <2> QED BY <2>1, DeploysFrame DEF DeploySeen
<1>5. ASSUME NEW a \in Apps, NEW e \in Envs, DeleteBindingCheck(h, a, e) PROVE DeploysKept'
  <2>1. req'[h].step \in {"unbind", "dropWorkflow"} /\ req'[h].a = a /\ req'[h].e = e
    BY <1>5, ChecksTo
  <2>2. Same
    BY <1>5 DEF DeleteBindingCheck, store, cluster
  <2>3. req'[h].step = "unbind" => <<a, envs[e].ns>> \notin crs
    BY <1>5 DEF DeleteBindingCheck, Goes, Idle, TypeOK
  <2> QED BY <2>1, <2>2, <2>3, DeploysFrame DEF DeploySeen
<1>6. ASSUME NEW a \in Apps, NEW e \in Envs, DeployCheck(h, a, e) PROVE DeploysKept'
  <2>1. req'[h].step = "apply" /\ req'[h].a = a /\ req'[h].ns = envs[e].ns
    BY <1>6, ChecksTo
  <2>2. Same /\ BoundIn(a, envs[e].ns)
    BY <1>6 DEF DeployCheck, BoundIn, store, cluster
  <2> QED BY <2>1, <2>2, DeploysFrame DEF DeploySeen, BoundIn, AppExists
<1>7. ASSUME NEW a \in Apps, DeleteAppCheck(h, a) PROVE DeploysKept'
  <2>1. req'[h].step = "wipeWorkflows" /\ req'[h].a = a
    BY <1>7, ChecksTo
  <2>2. Same /\ \A b \in Listed(a, apps[a]) : <<a, envs[b[2]].ns>> \notin crs
    BY <1>7 DEF DeleteAppCheck, store, cluster
  <2>3. ASSUME NEW c \in crs, c[1] = a PROVE FALSE
    <3>1. PICK e \in Envs : /\ AppExists(a) /\ EnvExists(e) /\ envs[e].ns = c[2]
                            /\ <<a, e>> \in bindings /\ c = <<a, c[2]>>
      BY <1>0, <2>3, DeployedExists
    <3>2. envs[e].project = apps[a]
      BY <3>1 DEF WithinProject
    <3>3. <<a, e>> \in Listed(a, apps[a])
      BY <3>1, <3>2 DEF Listed, ValidBindings
    <3> QED BY <2>2, <3>1, <3>3
  <2> QED BY <2>1, <2>2, <2>3, DeploysFrame DEF DeploySeen
<1>8. ASSUME Done(h), DeployedIsBound' PROVE DeploysKept'
  <2>1. req'[h].step = "idle"
    BY <1>8, DoneTo
  <2> QED BY <1>8, <2>1, DeploysEnd
<1>9. ASSUME Same PROVE DeployedIsBound'
  BY <1>0, <1>9 DEF DeployedIsBound, AppExists
<1>10. CASE AddEnv(h)
  <2>1. UNCHANGED <<apps, bindings, crs>> /\ Done(h) /\ req[h].e \in Envs
    BY <1>0, <1>10 DEF AddEnv, cluster, At, Knows, EnvSteps
  <2>2. \A e \in Envs : EnvExists(e) => envs'[e] = envs[e]
    BY <1>10, <2>1 DEF AddEnv, EnvExists, TypeOK
  <2>3. DeployedIsBound'
    <3> SUFFICES ASSUME NEW c \in crs
                 PROVE  (\E e \in Envs : AppExists(c[1]) /\ envs[e].ns = c[2] /\ <<c[1], e>> \in bindings)'
      BY <2>1 DEF DeployedIsBound
    <3> QED BY <1>0, <2>1, <2>2, DeployedExists DEF AppExists
  <2> QED BY <1>8, <2>1, <2>3
<1>11. CASE PutEnv(h)
  <2>1. UNCHANGED <<apps, bindings, crs>> /\ Done(h) /\ req[h].e \in Envs /\ envs[req[h].e].ns = req[h].ns
    BY <1>0, <1>11 DEF PutEnv, cluster, At, Knows, EnvSteps, DeploySeen
  <2>2. \A e \in Envs : envs'[e].ns = envs[e].ns
    BY <1>11, <2>1 DEF PutEnv, TypeOK
  <2>3. DeployedIsBound'
    BY <1>0, <2>1, <2>2 DEF DeployedIsBound, AppExists
  <2> QED BY <1>8, <2>1, <2>3
<1>12. CASE Unlabel(h)
  <2>1. Same /\ (Done(h) \/ Then(h, "dropEnv"))
    BY <1>12 DEF Unlabel, store
  <2>2. CASE Then(h, "dropEnv")
    <3>1. req'[h].step = "dropEnv" /\ req'[h].e = req[h].e
      BY <2>2, ThenTo
    <3>2. \A a \in Apps : AppExists(a) /\ EnvExists(req[h].e) => <<a, req[h].e>> \notin bindings
      BY <1>0, <1>12 DEF Unlabel, At, DeploySeen
    <3> QED BY <2>1, <3>1, <3>2, DeploysFrame DEF DeploySeen, AppExists, EnvExists
  <2> QED BY <1>8, <1>9, <2>1, <2>2
<1>13. CASE DropEnv(h)
  <2>1. UNCHANGED <<apps, bindings, crs>> /\ Done(h) /\ req[h].e \in Envs
    BY <1>0, <1>13 DEF DropEnv, cluster, At, Knows, EnvSteps
  <2>2. \A a \in Apps : AppExists(a) /\ EnvExists(req[h].e) => <<a, req[h].e>> \notin bindings
    BY <1>0, <1>13 DEF DropEnv, At, DeploySeen
  <2>3. \A e \in Envs : e # req[h].e => envs'[e] = envs[e]
    BY <1>13 DEF DropEnv, TypeOK
  <2>4. DeployedIsBound'
    <3> SUFFICES ASSUME NEW c \in crs
                 PROVE  (\E e \in Envs : AppExists(c[1]) /\ envs[e].ns = c[2] /\ <<c[1], e>> \in bindings)'
      BY <2>1 DEF DeployedIsBound
    <3>1. PICK e \in Envs : /\ AppExists(c[1]) /\ EnvExists(e) /\ envs[e].ns = c[2]
                            /\ <<c[1], e>> \in bindings
      BY <1>0, DeployedExists
    <3>2. e # req[h].e /\ c[1] \in Apps
      BY <2>2, <3>1 DEF TypeOK
    <3> QED BY <2>1, <2>3, <3>1, <3>2 DEF AppExists
  <2> QED BY <1>8, <2>1, <2>4
<1>14. CASE Bind(h) \/ Workflow(h) \/ AddBinding(h)
  <2>1. UNCHANGED <<envs, apps, crs>> /\ bindings \subseteq bindings'
    BY <1>14 DEF Bind, Workflow, AddBinding, cluster
  <2>2. DeployedIsBound'
    BY <1>0, <2>1 DEF DeployedIsBound, AppExists
  <2>3. Done(h) \/ Then(h, "workflow") \/ Then(h, "addApp")
    BY <1>14 DEF Bind, Workflow, AddBinding, Triggered
  <2>4. req'[h].step \in {"idle", "workflow", "addApp"}
    BY <2>3, DoneTo, ThenTo
  <2> QED BY <2>2, <2>4, DeploysEnd
<1>15. CASE AddApp(h)
  <2>1. UNCHANGED <<envs, bindings, crs>> /\ Done(h)
    BY <1>15 DEF AddApp, cluster
  <2>2. \A a \in Apps : AppExists(a) => apps'[a] = apps[a]
    BY <1>15 DEF AddApp, AppExists, TypeOK
  <2>3. \A c \in crs : c[1] \in Apps
    BY DEF TypeOK
  <2>4. DeployedIsBound'
    BY <1>0, <2>1, <2>2, <2>3 DEF DeployedIsBound, AppExists
  <2> QED BY <1>8, <2>1, <2>4
<1>16. CASE AddWorkflow(h) \/ DropWorkflow(h) \/ Abort(h)
  <2>1. Same /\ (Done(h) \/ Then(h, "addBinding"))
    BY <1>16 DEF AddWorkflow, DropWorkflow, Abort, store, cluster
  <2>2. req'[h].step \in {"idle", "addBinding"}
    BY <2>1, DoneTo, ThenTo
  <2> QED BY <1>9, <2>1, <2>2, DeploysEnd
<1>17. CASE Unbind(h)
  <2>1. /\ UNCHANGED <<envs, apps, crs>> /\ Then(h, "dropWorkflow")
        /\ bindings' = bindings \ {<<req[h].a, req[h].e>>}
        /\ <<req[h].a, envs[req[h].e].ns>> \notin crs
    BY <1>0, <1>17 DEF Unbind, At, DeploySeen, cluster
  <2>2. req'[h].step = "dropWorkflow"
    BY <2>1, ThenTo
  <2>3. \A c \in crs : c = <<c[1], c[2]>>
    BY DEF TypeOK
  <2>4. DeployedIsBound'
    BY <1>0, <2>1, <2>3 DEF DeployedIsBound, AppExists
  <2> QED BY <2>2, <2>4, DeploysEnd
<1>18. CASE ApplyCR(h)
  <2>1. UNCHANGED <<envs, apps, bindings>> /\ Done(h) /\ BoundIn(req[h].a, req[h].ns)
    BY <1>0, <1>18 DEF ApplyCR, At, DeploySeen, store
  <2>2. crs' = crs \cup {<<req[h].a, req[h].ns>>}
    BY <1>18 DEF ApplyCR
  <2>3. DeployedIsBound'
    BY <1>0, <2>1, <2>2 DEF DeployedIsBound, BoundIn, AppExists
  <2> QED BY <1>8, <2>1, <2>3
<1>19. CASE WipeWorkflows(h)
  <2>1. Same /\ Then(h, "wipeBindings") /\ \A c \in crs : c[1] # req[h].a
    BY <1>0, <1>19 DEF WipeWorkflows, At, DeploySeen, cluster
  <2>2. req'[h].step = "wipeBindings" /\ req'[h].a = req[h].a
    BY <2>1, ThenTo
  <2> QED BY <2>1, <2>2, DeploysFrame DEF DeploySeen
<1>20. CASE WipeBindings(h)
  <2>1. UNCHANGED <<envs, apps, crs>> /\ Then(h, "dropApp") /\ \A c \in crs : c[1] # req[h].a
    BY <1>0, <1>20 DEF WipeBindings, At, DeploySeen, cluster
  <2>2. \A b \in bindings : b[1] # req[h].a => b \in bindings'
    BY <1>20 DEF WipeBindings, Listed
  <2>3. req'[h].step = "dropApp" /\ req'[h].a = req[h].a
    BY <2>1, ThenTo
  <2>4. DeployedIsBound'
    BY <1>0, <2>1, <2>2 DEF DeployedIsBound, AppExists
  <2> QED BY <2>1, <2>3, <2>4 DEF DeploysKept, DeploySeen, OneAtATime
<1>21. CASE DropApp(h)
  <2>1. UNCHANGED <<envs, bindings, crs>> /\ Done(h) /\ \A c \in crs : c[1] # req[h].a
    BY <1>0, <1>21 DEF DropApp, At, DeploySeen, cluster
  <2>2. \A a \in Apps : a # req[h].a => apps'[a] = apps[a]
    BY <1>21 DEF DropApp, TypeOK
  <2>3. \A c \in crs : c[1] \in Apps
    BY DEF TypeOK
  <2>4. DeployedIsBound'
    BY <1>0, <2>1, <2>2, <2>3 DEF DeployedIsBound, AppExists
  <2> QED BY <1>8, <2>1, <2>4
<1>22. CASE EnvRequest(h)
  BY <1>1, <1>2, <1>3, <1>22, QuietSteps DEF EnvRequest
<1>23. CASE AppRequest(h)
  BY <1>1, <1>4, <1>5, <1>6, <1>7, <1>23, QuietSteps DEF AppRequest
<1>24. CASE EnvWrite(h)
  BY <1>1, <1>10, <1>11, <1>12, <1>13, <1>24, QuietSteps DEF EnvWrite
<1>25. CASE AppWrite(h)
  BY <1>14, <1>15, <1>16, <1>17, <1>18, <1>19, <1>20, <1>21, <1>25 DEF AppWrite
<1> QED BY <1>1, <1>16, <1>22, <1>23, <1>24, <1>25, QuietSteps

\* DeleteApplication, DeleteEnvBinding and the handler that deletes an environment refuse
\* what "has been deployed" (bcode/001_application.go): no sequence of requests, failing
\* wherever they may, leaves a CR that no binding leads to.
THEOREM DeploysBound ==
  ASSUME OneAtATime, Members
  PROVE  Spec /\ []WithinProject => []DeployedIsBound
<1>1. Init => DeploysKept
  BY DEF Init, DeploysKept, DeployedIsBound, DeploySeen, Idle
<1>2. TypeOK /\ ProjectExists /\ WithinProject /\ DeploysKept /\ [Next]_vars => DeploysKept'
  <2> SUFFICES ASSUME TypeOK, ProjectExists, WithinProject, DeploysKept, [Next]_vars
               PROVE  DeploysKept'
    OBVIOUS
  <2>1. ASSUME UNCHANGED <<envs, apps, bindings, req>>, crs' \subseteq crs PROVE DeploysKept'
    BY <2>1 DEF DeploysKept, DeployedIsBound, DeploySeen, BoundIn, AppExists, EnvExists
  <2>2. CASE UNCHANGED vars
    BY <2>1, <2>2 DEF vars, store, cluster
  <2>3. ASSUME NEW p \in Projects, CreateProject(p) PROVE DeploysKept'
    BY <2>1, <2>3 DEF CreateProject, cluster
  <2>4. ASSUME NEW a \in Apps, NEW e \in Envs, Recycle(a, e) \/ DeleteWorkflow(a, e)
        PROVE  DeploysKept'
    BY <2>1, <2>4 DEF Recycle, DeleteWorkflow, store, cluster
  <2> QED BY <2>2, <2>3, <2>4, DeploysStep DEF Next
<1>3. DeploysKept => DeployedIsBound
  BY DEF DeploysKept
<1> QED BY <1>1, <1>2, <1>3, WorkspaceTypeCorrect, ProjectsExist, PTL DEF Spec

-----------------------------------------------------------------------------
(* Bindings *)

\* As long as no call has failed, a binding whose application is not there yet is the one
\* its request has just made.
LEMMA BindingsOwned ==
  ASSUME BindingsKept, OneAtATime, NEW h \in Handlers, faults = 0,
         req[h].step \notin {"workflow", "addApp"}
  PROVE  \A b \in bindings : AppExists(b[1]) /\ EnvExists(b[2])
BY DEF BindingsKept, Owned, OneAtATime

\* A request whose next write, if any, makes nobody's binding.
LEMMA BindingsEnd ==
  ASSUME OneAtATime, NEW h \in Handlers,
         faults' = 0 => /\ \A b \in bindings' : AppExists(b[1])' /\ EnvExists(b[2])'
                        /\ BindingSeen(req[h])'
  PROVE  BindingsKept'
BY DEF BindingsKept, Owned, OneAtATime

\* Until a call fails none has.
LEMMA NoFault ==
  ASSUME TypeOK, NEW h \in Handlers,
         \/ ProjectRequest(h) \/ EnvRequest(h) \/ AppRequest(h)
         \/ ProjectWrite(h) \/ EnvWrite(h) \/ AppWrite(h) \/ Abort(h)
  PROVE  faults' = 0 => faults = 0 /\ ~ Fault
<1>1. faults \in Nat /\ (faults' = faults \/ Fault)
  <2>1. faults \in Nat
    BY WorkspaceAssumption DEF TypeOK
  <2>2. ASSUME NEW e \in Envs, NEW ts \in SUBSET Targets, UpdateEnvCheck(h, e, ts)
        PROVE  faults' = faults
    BY <2>2 DEF UpdateEnvCheck
  <2>3. ASSUME NEW e \in Envs, NEW u \in Users, DeleteEnvCheck(h, e, u) PROVE faults' = faults
    BY <2>3 DEF DeleteEnvCheck
  <2>4. CASE EnvWrite(h)
    BY <2>1, <2>4 DEF EnvWrite, LabelNamespace, AddEnv, PutEnv, Unlabel, DropEnv
  <2>5. CASE AppWrite(h) \/ Abort(h)
    BY <2>1, <2>5 DEF AppWrite, Abort, Bind, Workflow, AddApp, AddWorkflow, AddBinding, Unbind,
       DropWorkflow, ApplyCR, WipeWorkflows, WipeBindings, DropApp
  <2>6. ASSUME NEW a \in Apps, NEW e \in Envs,
               CreateBindingCheck(h, a, e) \/ DeleteBindingCheck(h, a, e) \/ DeployCheck(h, a, e)
        PROVE  faults' = faults \/ Fault
    BY <2>6 DEF CreateBindingCheck, DeleteBindingCheck, DeployCheck
  <2>7. ASSUME NEW a \in Apps, DeleteAppCheck(h, a) PROVE faults' = faults
    BY <2>7 DEF DeleteAppCheck
  <2> QED BY <2>1, <2>2, <2>3, <2>4, <2>5, <2>6, <2>7, QuietSteps
      DEF Quiet, EnvRequest, AppRequest
<1> QED BY <1>1 DEF Fault

\* The bindings listed for an application are all it has.
LEMMA ListedAll ==
  ASSUME TypeOK, WithinProject, NEW a \in Apps, AppExists(a),
         \A b \in bindings : EnvExists(b[2])
  PROVE  Listed(a, apps[a]) = {b \in bindings : b[1] = a}
BY DEF WithinProject, Listed, ValidBindings

\* A request leaves the bindings to environments that exist.
LEMMA BindingsStep ==
  ASSUME TypeOK, ProjectExists, WithinProject, BindingsKept, Members, OneAtATime,
         NEW h \in Handlers,
         \/ ProjectRequest(h) \/ EnvRequest(h) \/ AppRequest(h)
         \/ ProjectWrite(h) \/ EnvWrite(h) \/ AppWrite(h) \/ Abort(h)
  PROVE  BindingsKept'
<1> DEFINE Same == UNCHANGED <<envs, apps, bindings>>
<1> DEFINE Kept == \A b \in bindings : AppExists(b[1]) /\ EnvExists(b[2])
<1>0. /\ Knows(req[h]) /\ (faults = 0 => BindingSeen(req[h]))
      /\ faults = 0 /\ req[h].step \notin {"workflow", "addApp"} => Kept
  BY BindingsOwned DEF BindingsKept, TypeOK
<1>01. faults' = 0 => faults = 0 /\ ~ Fault
  BY NoFault
<1> SUFFICES ASSUME faults' = 0 PROVE BindingsKept'
  BY DEF BindingsKept
<1>02. faults = 0 /\ ~ Fault
  BY <1>01
<1>1. ASSUME Quiet(h) PROVE BindingsKept'
  <2>1. Kept
    BY <1>0, <1>02, <1>1 DEF Quiet
  <2>2. BindingSeen(req[h])'
    BY <1>1 DEF Quiet, BindingSeen
  <2> QED BY <1>1, <2>1, <2>2, BindingsEnd DEF Quiet, AppExists, EnvExists
<1>2. ASSUME NEW e \in Envs, NEW ts \in SUBSET Targets, UpdateEnvCheck(h, e, ts) PROVE BindingsKept'
  <2>1. req'[h].step = "putEnv"
    BY <1>2, ChecksTo
  <2>2. Same /\ req[h].step = "idle"
    BY <1>2 DEF UpdateEnvCheck, Start, Idle, store
  <2> QED BY <1>0, <1>02, <2>1, <2>2, BindingsEnd DEF BindingSeen, AppExists, EnvExists
<1>3. ASSUME NEW e \in Envs, NEW u \in Users, DeleteEnvCheck(h, e, u) PROVE BindingsKept'
  <2>1. req'[h].step = "unlabel" /\ req'[h].e = e
    BY <1>3, ChecksTo
  <2>2. Same /\ ListedByEnv(u, e) = {} /\ Kept
    BY <1>0, <1>02, <1>3 DEF DeleteEnvCheck, Start, Idle, store
  <2>3. ASSUME NEW b \in bindings, b[2] = e PROVE FALSE
    <3>1. b[1] \in Visible(u) /\ b = <<b[1], e>>
      BY <2>2, <2>3, AllVisible DEF TypeOK
    <3> QED BY <2>2, <2>3, <3>1 DEF ListedByEnv, ValidBindings
  <2> QED BY <2>1, <2>2, <2>3, BindingsEnd DEF BindingSeen, AppExists, EnvExists
<1>4. ASSUME NEW a \in Apps, NEW e \in Envs, CreateBindingCheck(h, a, e) PROVE BindingsKept'
  <2>1. req'[h].step = "addWorkflow" /\ req'[h].a = a /\ req'[h].e = e
    BY <1>4, ChecksTo
  <2>2. Same /\ AppExists(a) /\ EnvExists(e) /\ Kept
    BY <1>0, <1>02, <1>4 DEF CreateBindingCheck, Start, Idle, store
  <2> QED BY <2>1, <2>2, BindingsEnd DEF BindingSeen, AppExists, EnvExists
<1>5. ASSUME NEW a \in Apps, NEW e \in Envs, DeleteBindingCheck(h, a, e) \/ DeployCheck(h, a, e)
      PROVE  BindingsKept'
  <2>1. req'[h].step \in {"unbind", "dropWorkflow", "apply"}
    BY <1>5, ChecksTo
  <2>2. Same /\ Kept
    BY <1>0, <1>02, <1>5 DEF DeleteBindingCheck, DeployCheck, Start, Idle, store
  <2> QED BY <2>1, <2>2, BindingsEnd DEF BindingSeen, AppExists, EnvExists
<1>6. ASSUME NEW a \in Apps, DeleteAppCheck(h, a) PROVE BindingsKept'
  <2>1. req'[h].step = "wipeWorkflows" /\ req'[h].a = a /\ req'[h].p = apps[a]
    BY <1>6, ChecksTo
  <2>2. Same /\ AppExists(a) /\ Kept
    BY <1>0, <1>02, <1>6 DEF DeleteAppCheck, Start, Idle, store
  <2> QED BY <2>1, <2>2, BindingsEnd DEF BindingSeen, AppExists, EnvExists
<1>7. ASSUME Done(h), \A b \in bindings' : AppExists(b[1])' /\ EnvExists(b[2])' PROVE BindingsKept'
  <2>1. req'[h].step = "idle"
    BY <1>7, DoneTo
  <2> QED BY <1>7, <2>1, BindingsEnd DEF BindingSeen
<1>8. CASE AddEnv(h) \/ PutEnv(h)
  <2>1. UNCHANGED <<apps, bindings>> /\ Done(h) /\ req[h].e \in Envs /\ req[h].p \in Projects /\ Kept
    BY <1>0, <1>02, <1>8 DEF AddEnv, PutEnv, At, Knows, EnvSteps, ProjectSteps
  <2>2. [project |-> req[h].p, ns |-> req[h].ns, targets |-> req[h].ts] # NoEnv
    BY <2>1, WorkspaceAssumption DEF NoEnv
  <2>3. \A e \in Envs : EnvExists(e) => EnvExists(e)'
    BY <1>8, <2>1, <2>2 DEF AddEnv, PutEnv, EnvExists, TypeOK
  <2> QED BY <1>7, <2>1, <2>3 DEF AppExists, EnvExists
<1>9. CASE Unlabel(h)
  <2>1. Same /\ (Done(h) \/ Then(h, "dropEnv")) /\ Kept /\ \A b \in bindings : b[2] # req[h].e
    BY <1>0, <1>02, <1>9 DEF Unlabel, At, BindingSeen, store
  <2>2. CASE Then(h, "dropEnv")
    <3>1. req'[h].step = "dropEnv" /\ req'[h].e = req[h].e
      BY <2>2, ThenTo
    <3> QED BY <2>1, <3>1, BindingsEnd DEF BindingSeen, AppExists, EnvExists
  <2> QED BY <1>7, <2>1, <2>2 DEF AppExists, EnvExists
<1>10. CASE DropEnv(h)
  <2>1. UNCHANGED <<apps, bindings>> /\ Done(h) /\ Kept /\ \A b \in bindings : b[2] # req[h].e
    BY <1>0, <1>02, <1>10 DEF DropEnv, At, BindingSeen
  <2>2. \A e \in Envs : e # req[h].e => envs'[e] = envs[e]
    BY <1>10 DEF DropEnv, TypeOK
  <2> QED BY <1>7, <2>1, <2>2 DEF AppExists, EnvExists
<1>11. CASE Bind(h)
  <2>1. Kept /\ UNCHANGED <<envs, apps>>
    BY <1>0, <1>02, <1>11 DEF Bind, At
  <2>2. CASE UNCHANGED bindings /\ Triggered(h, workflows)
    <3>1. Done(h) \/ Then(h, "addApp")
      BY <2>2 DEF Triggered
    <3>2. req'[h].step \in {"idle", "addApp"}
      BY <3>1, DoneTo, ThenTo
    <3> QED BY <2>1, <2>2, <3>2, BindingsEnd DEF BindingSeen, AppExists, EnvExists
  <2>3. CASE /\ EnvExists(req[h].e) /\ Then(h, "workflow")
             /\ bindings' = bindings \cup {<<req[h].a, req[h].e>>}
    <3>1. req'[h].step = "workflow" /\ req'[h].a = req[h].a /\ req'[h].e = req[h].e
      BY <2>3, ThenTo
    <3>2. ASSUME NEW b \in bindings' PROVE (EnvExists(b[2]) /\ Owned(b))'
      BY <2>1, <2>3, <3>1, <3>2 DEF Owned, AppExists, EnvExists
    <3>3. BindingSeen(req[h])'
      BY <3>1 DEF BindingSeen
    <3> QED BY <3>2, <3>3 DEF BindingsKept, OneAtATime
  <2> QED BY <1>02, <1>11, <2>2, <2>3 DEF Bind
<1>12. CASE Workflow(h)
  <2>1. Same /\ Then(h, "addApp") /\ req[h].step = "workflow"
    BY <1>02, <1>12 DEF Workflow, At, Triggered
  <2>2. req'[h].step = "addApp" /\ req'[h].a = req[h].a /\ req'[h].e = req[h].e
    BY <2>1, ThenTo
  <2>3. \A b \in bindings : (EnvExists(b[2]) /\ Owned(b))'
    BY <1>02, <2>1, <2>2 DEF BindingsKept, Owned, OneAtATime, AppExists, EnvExists
  <2>4. BindingSeen(req[h])'
    BY <2>2 DEF BindingSeen
  <2> QED BY <2>1, <2>3, <2>4 DEF BindingsKept, OneAtATime
<1>13. CASE AddApp(h)
  <2>1. UNCHANGED <<envs, bindings>> /\ Done(h) /\ req[h].a \in Apps /\ req[h].p \in Projects
    BY <1>0, <1>13 DEF AddApp, At, Knows, AppSteps, ProjectSteps
  <2>2. \A a \in Apps : AppExists(a) \/ a = req[h].a => apps'[a] # None
    BY <1>13, <2>1, WorkspaceAssumption DEF AddApp, AppExists, TypeOK
  <2>3. \A b \in bindings : EnvExists(b[2]) /\ (AppExists(b[1]) \/ b[1] = req[h].a)
    BY <1>02 DEF BindingsKept, Owned, OneAtATime
  <2>4. \A b \in bindings : b[1] \in Apps
    BY DEF TypeOK
  <2> QED BY <1>7, <2>1, <2>2, <2>3, <2>4 DEF AppExists, EnvExists
<1>14. CASE AddWorkflow(h)
  <2>1. /\ Same /\ Kept /\ AppExists(req[h].a) /\ EnvExists(req[h].e)
        /\ Done(h) \/ Then(h, "addBinding")
    BY <1>0, <1>02, <1>14 DEF AddWorkflow, At, BindingSeen
  <2>2. CASE Then(h, "addBinding")
    <3>1. req'[h].step = "addBinding" /\ req'[h].a = req[h].a /\ req'[h].e = req[h].e
      BY <2>2, ThenTo
    <3> QED BY <2>1, <3>1, BindingsEnd DEF BindingSeen, AppExists, EnvExists
  <2> QED BY <1>7, <2>1, <2>2 DEF AppExists, EnvExists
<1>15. CASE AddBinding(h)
  <2>1. /\ UNCHANGED <<envs, apps>> /\ Kept /\ AppExists(req[h].a) /\ EnvExists(req[h].e)
        /\ Done(h) /\ bindings' = bindings \cup {<<req[h].a, req[h].e>>}
    BY <1>0, <1>02, <1>15 DEF AddBinding, At, BindingSeen
  <2> QED BY <1>7, <2>1 DEF AppExists, EnvExists
<1>16. CASE Unbind(h) \/ DropWorkflow(h) \/ ApplyCR(h)
  <2>1. UNCHANGED <<envs, apps>> /\ bindings' \subseteq bindings /\ (Done(h) \/ Then(h, "dropWorkflow"))
    BY <1>16 DEF Unbind, DropWorkflow, ApplyCR, store
  <2>2. Kept
    BY <1>0, <1>02, <1>16 DEF Unbind, DropWorkflow, ApplyCR, At
  <2>3. req'[h].step \in {"idle", "dropWorkflow"}
    BY <2>1, DoneTo, ThenTo
  <2> QED BY <2>1, <2>2, <2>3, BindingsEnd DEF BindingSeen, AppExists, EnvExists
<1>17. CASE WipeWorkflows(h)
  <2>1. Same /\ Kept /\ Then(h, "wipeBindings") /\ AppExists(req[h].a) /\ req[h].p = apps[req[h].a]
    BY <1>0, <1>02, <1>17 DEF WipeWorkflows, At, BindingSeen
  <2>2. req'[h].step = "wipeBindings" /\ req'[h].a = req[h].a /\ req'[h].p = req[h].p
    BY <2>1, ThenTo
  <2> QED BY <2>1, <2>2, BindingsEnd DEF BindingSeen, AppExists, EnvExists
<1>18. CASE WipeBindings(h)
  <2>1. /\ UNCHANGED <<envs, apps>> /\ Kept /\ Then(h, "dropApp")
        /\ AppExists(req[h].a) /\ req[h].p = apps[req[h].a] /\ req[h].a \in Apps
    BY <1>0, <1>02, <1>18 DEF WipeBindings, At, BindingSeen, cluster, Knows, AppSteps
  <2>2. bindings' = bindings \ Listed(req[h].a, req[h].p)
    BY <1>02, <1>18 DEF WipeBindings
  <2>3. bindings' \subseteq bindings /\ \A b \in bindings' : b[1] # req[h].a
    BY <2>1, <2>2, ListedAll
  <2>4. req'[h].step = "dropApp" /\ req'[h].a = req[h].a
    BY <2>1, ThenTo
  <2> QED BY <2>1, <2>3, <2>4, BindingsEnd DEF BindingSeen, AppExists, EnvExists
<1>19. CASE DropApp(h)
  <2>1. UNCHANGED <<envs, bindings>> /\ Kept /\ Done(h) /\ \A b \in bindings : b[1] # req[h].a
    BY <1>0, <1>02, <1>19 DEF DropApp, At, BindingSeen
  <2>2. \A a \in Apps : a # req[h].a => apps'[a] = apps[a]
    BY <1>19 DEF DropApp, TypeOK
  <2>3. \A b \in bindings : b[1] \in Apps
    BY DEF TypeOK
  <2> QED BY <1>7, <2>1, <2>2, <2>3 DEF AppExists, EnvExists
<1>20. CASE Abort(h)
  BY <1>02, <1>20 DEF Abort
<1>21. CASE EnvRequest(h)
  BY <1>1, <1>2, <1>3, <1>21, QuietSteps DEF EnvRequest
<1>22. CASE AppRequest(h)
  BY <1>1, <1>4, <1>5, <1>6, <1>22, QuietSteps DEF AppRequest
<1>23. CASE EnvWrite(h)
  BY <1>1, <1>8, <1>9, <1>10, <1>23, QuietSteps DEF EnvWrite
<1>24. CASE AppWrite(h)
  BY <1>11, <1>12, <1>13, <1>14, <1>15, <1>16, <1>17, <1>18, <1>19, <1>24 DEF AppWrite
<1> QED BY <1>1, <1>20, <1>21, <1>22, <1>23, <1>24, QuietSteps

\* So does everything else.
LEMMA BindingsNext ==
  ASSUME OneAtATime, Members
  PROVE  TypeOK /\ ProjectExists /\ WithinProject /\ BindingsKept /\ [Next]_vars => BindingsKept'
<1> SUFFICES ASSUME TypeOK, ProjectExists, WithinProject, BindingsKept, [Next]_vars
             PROVE  BindingsKept'
  OBVIOUS
<1>1. ASSUME UNCHANGED <<envs, apps, bindings, req, faults>> PROVE BindingsKept'
  BY <1>1 DEF BindingsKept, BindingSeen, Owned, AppExists, EnvExists
<1>2. CASE UNCHANGED vars
  BY <1>1, <1>2 DEF vars, store
<1>3. ASSUME NEW p \in Projects, CreateProject(p) PROVE BindingsKept'
  BY <1>1, <1>3 DEF CreateProject
<1>4. ASSUME NEW a \in Apps, NEW e \in Envs, Recycle(a, e) \/ DeleteWorkflow(a, e)
      PROVE  BindingsKept'
  BY <1>1, <1>4 DEF Recycle, DeleteWorkflow, store
<1> QED BY <1>2, <1>3, <1>4, BindingsStep DEF Next

\* The handler that deletes an environment asks "if there's still application in it"
\* (interfaces/api/env.go): no sequence of requests that succeed leaves an application
\* bound to an environment that is gone.
THEOREM BoundEnvsExist ==
  ASSUME OneAtATime, Members
  PROVE  Spec /\ []WithinProject => []BoundEnvExists
<1>1. Init => BindingsKept
  BY DEF Init, BindingsKept, BindingSeen, Idle
<1>2. TypeOK /\ ProjectExists /\ WithinProject /\ BindingsKept /\ [Next]_vars => BindingsKept'
  BY BindingsNext
<1>3. BindingsKept => BoundEnvExists
  BY DEF BindingsKept, BoundEnvExists
<1> QED BY <1>1, <1>2, <1>3, WorkspaceTypeCorrect, ProjectsExist, PTL DEF Spec

-----------------------------------------------------------------------------
(* Workflows *)

\* Between requests and in most of their steps every binding has its workflow.
LEMMA WorkflowsMade ==
  ASSUME WorkflowsKept, OneAtATime, NEW h \in Handlers, faults = 0,
         req[h].step \notin {"workflow", "wipeBindings"}
  PROVE  bindings \subseteq workflows
BY DEF WorkflowsKept, Deployable, OneAtATime

\* A request between whose writes no binding lacks its workflow.
LEMMA WorkflowsEnd ==
  ASSUME OneAtATime, NEW h \in Handlers,
         faults' = 0 => bindings' \subseteq workflows' /\ WorkflowSeen(req[h])'
  PROVE  WorkflowsKept'
BY DEF WorkflowsKept, Deployable, OneAtATime

\* A request that ends leaves every binding its workflow.
LEMMA WorkflowsStep ==
  ASSUME TypeOK, WithinProject, BindingsKept, WorkflowsKept, OneAtATime, NEW h \in Handlers,
         \/ ProjectRequest(h) \/ EnvRequest(h) \/ AppRequest(h)
         \/ ProjectWrite(h) \/ EnvWrite(h) \/ AppWrite(h) \/ Abort(h)
  PROVE  WorkflowsKept'
<1> DEFINE Same == UNCHANGED <<bindings, workflows>>
<1> DEFINE Kept == bindings \subseteq workflows
<1> SUFFICES ASSUME faults' = 0 PROVE WorkflowsKept'
  BY DEF WorkflowsKept
<1>0. faults = 0 /\ ~ Fault
  BY NoFault
<1>1. /\ Knows(req[h]) /\ WorkflowSeen(req[h]) /\ BindingSeen(req[h])
      /\ req[h].step \notin {"workflow", "wipeBindings"} => Kept
  BY <1>0, WorkflowsMade DEF BindingsKept, WorkflowsKept, TypeOK
<1>2. ASSUME Same, req[h].step \notin {"workflow", "wipeBindings"},
             req'[h].step \notin {"addBinding", "dropWorkflow"}
      PROVE  WorkflowsKept'
  BY <1>1, <1>2, WorkflowsEnd DEF WorkflowSeen
<1>3. ASSUME Quiet(h) PROVE WorkflowsKept'
  BY <1>2, <1>3 DEF Quiet
<1>4. ASSUME NEW e \in Envs, NEW ts \in SUBSET Targets, UpdateEnvCheck(h, e, ts) PROVE WorkflowsKept'
  <2>1. req'[h].step = "putEnv"
    BY <1>4, ChecksTo
  <2> QED BY <1>2, <1>4, <2>1 DEF UpdateEnvCheck, Start, Idle, store
<1>5. ASSUME NEW e \in Envs, NEW u \in Users, DeleteEnvCheck(h, e, u) PROVE WorkflowsKept'
  <2>1. req'[h].step = "unlabel"
    BY <1>5, ChecksTo
  <2> QED BY <1>2, <1>5, <2>1 DEF DeleteEnvCheck, Start, Idle, store
<1>6. ASSUME NEW a \in Apps, NEW e \in Envs, CreateBindingCheck(h, a, e) \/ DeployCheck(h, a, e)
      PROVE  WorkflowsKept'
  <2>1. req'[h].step \in {"addWorkflow", "apply"}
    BY <1>6, ChecksTo
  <2> QED BY <1>2, <1>6, <2>1 DEF CreateBindingCheck, DeployCheck, Start, Idle, store
<1>7. ASSUME NEW a \in Apps, NEW e \in Envs, DeleteBindingCheck(h, a, e) PROVE WorkflowsKept'
  <2>1. <<a, e>> \in bindings /\ req[h].step = "idle" /\ Same
    BY <1>7 DEF DeleteBindingCheck, Start, Idle, store
  <2>2. EnvExists(e)
    BY <1>0, <2>1, BindingsOwned
  <2>3. req'[h].step = "unbind"
    BY <1>0, <1>7, <2>2 DEF DeleteBindingCheck, Goes, Idle, TypeOK
  <2> QED BY <1>2, <2>1, <2>3
<1>8. ASSUME NEW a \in Apps, DeleteAppCheck(h, a) PROVE WorkflowsKept'
  <2>1. req'[h].step = "wipeWorkflows"
    BY <1>8, ChecksTo
  <2> QED BY <1>2, <1>8, <2>1 DEF DeleteAppCheck, Start, Idle, store
<1>9. CASE AddEnv(h) \/ PutEnv(h) \/ Unlabel(h) \/ DropEnv(h)
  <2>1. Same /\ req[h].step \in {"addEnv", "putEnv", "unlabel", "dropEnv"}
    BY <1>9 DEF AddEnv, PutEnv, Unlabel, DropEnv, At, store
  <2>2. Done(h) \/ Then(h, "dropEnv")
    BY <1>9 DEF AddEnv, PutEnv, Unlabel, DropEnv
  <2>3. req'[h].step \in {"idle", "dropEnv"}
    BY <2>2, DoneTo, ThenTo
  <2> QED BY <1>2, <2>1, <2>3
<1>10. CASE Bind(h)
  <2>1. Kept /\ req[h].step = "bind" /\ UNCHANGED workflows
    BY <1>1, <1>10 DEF Bind, At
  <2>2. CASE UNCHANGED bindings /\ Triggered(h, workflows)
    <3>1. Done(h) \/ Then(h, "addApp")
      BY <2>2 DEF Triggered
    <3>2. req'[h].step \in {"idle", "addApp"}
      BY <3>1, DoneTo, ThenTo
    <3> QED BY <1>2, <2>1, <2>2, <3>2
  <2>3. CASE Then(h, "workflow") /\ bindings' = bindings \cup {<<req[h].a, req[h].e>>}
    <3>1. req'[h].step = "workflow" /\ req'[h].a = req[h].a /\ req'[h].e = req[h].e
      BY <2>3, ThenTo
    <3> QED BY <2>1, <2>3, <3>1 DEF WorkflowsKept, WorkflowSeen, Deployable, OneAtATime
  <2> QED BY <1>10, <2>2, <2>3 DEF Bind
<1>11. CASE Workflow(h)
  <2>1. /\ UNCHANGED bindings /\ req[h].step = "workflow" /\ Then(h, "addApp")
        /\ workflows' = workflows \cup {<<req[h].a, req[h].e>>}
    BY <1>0, <1>11 DEF Workflow, At, Triggered
  <2>2. req'[h].step = "addApp"
    BY <2>1, ThenTo
  <2>3. bindings' \subseteq workflows'
    BY <1>0, <2>1 DEF WorkflowsKept, Deployable, OneAtATime
  <2> QED BY <2>2, <2>3, WorkflowsEnd DEF WorkflowSeen
<1>12. CASE AddApp(h) \/ ApplyCR(h) \/ DropApp(h)
  <2>1. Same /\ Done(h) /\ req[h].step \in {"addApp", "apply", "dropApp"}
    BY <1>12 DEF AddApp, ApplyCR, DropApp, At, store
  <2>2. req'[h].step = "idle"
    BY <2>1, DoneTo
  <2> QED BY <1>2, <2>1, <2>2
<1>13. CASE AddWorkflow(h)
  <2>1. /\ Kept /\ UNCHANGED bindings /\ (Done(h) \/ Then(h, "addBinding"))
        /\ workflows' = workflows \cup {<<req[h].a, req[h].e>>}
    BY <1>1, <1>13 DEF AddWorkflow, At
  <2>2. /\ req'[h].step \in {"idle", "addBinding"}
        /\ req'[h].step = "addBinding" => req'[h].a = req[h].a /\ req'[h].e = req[h].e
    BY <2>1, DoneTo, ThenTo
  <2> QED BY <2>1, <2>2, WorkflowsEnd DEF WorkflowSeen
<1>14. CASE AddBinding(h)
  <2>1. /\ Kept /\ <<req[h].a, req[h].e>> \in workflows /\ Done(h) /\ UNCHANGED workflows
        /\ bindings' = bindings \cup {<<req[h].a, req[h].e>>}
    BY <1>1, <1>14 DEF AddBinding, At, WorkflowSeen
  <2>2. req'[h].step = "idle"
    BY <2>1, DoneTo
  <2> QED BY <2>1, <2>2, WorkflowsEnd DEF WorkflowSeen
<1>15. CASE Unbind(h)
  <2>1. /\ Kept /\ Then(h, "dropWorkflow") /\ UNCHANGED workflows
        /\ bindings' = bindings \ {<<req[h].a, req[h].e>>}
    BY <1>1, <1>15 DEF Unbind, At
  <2>2. req'[h].step = "dropWorkflow" /\ req'[h].a = req[h].a /\ req'[h].e = req[h].e
    BY <2>1, ThenTo
  <2> QED BY <2>1, <2>2, WorkflowsEnd DEF WorkflowSeen
<1>16. CASE DropWorkflow(h)
  <2>1. /\ Kept /\ Done(h) /\ UNCHANGED bindings /\ <<req[h].a, req[h].e>> \notin bindings
        /\ workflows' = workflows \ {<<req[h].a, req[h].e>>}
    BY <1>1, <1>16 DEF DropWorkflow, At, WorkflowSeen
  <2>2. req'[h].step = "idle"
    BY <2>1, DoneTo
  <2> QED BY <2>1, <2>2, WorkflowsEnd DEF WorkflowSeen
<1>17. CASE WipeWorkflows(h)
  <2>1. /\ Kept /\ Then(h, "wipeBindings") /\ UNCHANGED bindings
        /\ workflows' = workflows \ {w \in workflows : w[1] = req[h].a}
    BY <1>0, <1>1, <1>17 DEF WipeWorkflows, At
  <2>2. req'[h].step = "wipeBindings" /\ req'[h].a = req[h].a
    BY <2>1, ThenTo
  <2> QED BY <2>1, <2>2 DEF WorkflowsKept, WorkflowSeen, Deployable, OneAtATime
<1>18. CASE WipeBindings(h)
  <2>1. /\ AppExists(req[h].a) /\ req[h].p = apps[req[h].a] /\ req[h].a \in Apps
        /\ Then(h, "dropApp") /\ req[h].step = "wipeBindings"
        /\ bindings' = bindings \ Listed(req[h].a, req[h].p)
        /\ workflows' = workflows \ Listed(req[h].a, req[h].p)
    BY <1>0, <1>1, <1>18 DEF WipeBindings, At, BindingSeen, Knows, AppSteps
  <2>2. Listed(req[h].a, req[h].p) = {b \in bindings : b[1] = req[h].a}
    BY <1>0, <2>1, ListedAll DEF BindingsKept
  <2>3. \A b \in bindings : b \in workflows \/ b[1] = req[h].a
    BY <1>0, <2>1 DEF WorkflowsKept, Deployable, OneAtATime
  <2>4. req'[h].step = "dropApp"
    BY <2>1, ThenTo
  <2> QED BY <2>1, <2>2, <2>3, <2>4, WorkflowsEnd DEF WorkflowSeen
<1>19. CASE Abort(h)
  BY <1>0, <1>19 DEF Abort
<1>20. CASE EnvRequest(h)
  BY <1>3, <1>4, <1>5, <1>20, QuietSteps DEF EnvRequest
<1>21. CASE AppRequest(h)
  BY <1>3, <1>6, <1>7, <1>8, <1>21, QuietSteps DEF AppRequest
<1>22. CASE EnvWrite(h)
  BY <1>3, <1>9, <1>22, QuietSteps DEF EnvWrite
<1>23. CASE AppWrite(h)
  BY <1>10, <1>11, <1>12, <1>13, <1>14, <1>15, <1>16, <1>17, <1>18, <1>23 DEF AppWrite
<1> QED BY <1>3, <1>19, <1>20, <1>21, <1>22, <1>23, QuietSteps

\* CreateApplication and CreateEnvBinding make a workflow with each binding, in opposite
\* orders, and the deletes take both away: requests that all succeed, in any order, leave
\* no application with a binding it cannot deploy, unless the workflow is deleted by name.
THEOREM BindingsHaveWorkflows ==
  ASSUME OneAtATime, Members, "deleteWorkflow" \notin Requests
  PROVE  Spec /\ []WithinProject => []BindingHasWorkflow
<1>1. Init => BindingsKept /\ WorkflowsKept
  BY DEF Init, BindingsKept, BindingSeen, WorkflowsKept, WorkflowSeen, Idle
<1>2. TypeOK /\ ProjectExists /\ WithinProject /\ BindingsKept /\ [Next]_vars => BindingsKept'
  BY BindingsNext
<1>3. TypeOK /\ WithinProject /\ BindingsKept /\ WorkflowsKept /\ [Next]_vars => WorkflowsKept'
  <2> SUFFICES ASSUME TypeOK, WithinProject, BindingsKept, WorkflowsKept, [Next]_vars
               PROVE  WorkflowsKept'
    OBVIOUS
  <2>1. ASSUME UNCHANGED <<bindings, workflows, req, faults>> PROVE WorkflowsKept'
    BY <2>1 DEF WorkflowsKept, WorkflowSeen, Deployable
  <2>2. CASE UNCHANGED vars
    BY <2>1, <2>2 DEF vars, store
  <2>3. ASSUME NEW p \in Projects, CreateProject(p) PROVE WorkflowsKept'
    BY <2>1, <2>3 DEF CreateProject
  <2>4. ASSUME NEW a \in Apps, NEW e \in Envs, Recycle(a, e) \/ DeleteWorkflow(a, e)
        PROVE  WorkflowsKept'
    BY <2>1, <2>4 DEF Recycle, DeleteWorkflow, store
  <2> QED BY <2>2, <2>3, <2>4, WorkflowsStep DEF Next
<1>4. WorkflowsKept => BindingHasWorkflow
  BY DEF WorkflowsKept, BindingHasWorkflow, Deployable, Idle
<1> QED BY <1>1, <1>2, <1>3, <1>4, WorkspaceTypeCorrect, ProjectsExist, PTL DEF Spec

\* With a single project, which every user is a member of, nothing can be bound across
\* projects, and requests that come one at a time keep all three without a condition.
THEOREM OneProjectKept ==
  ASSUME OneAtATime, Members, \A p, q \in Projects : p = q, "deleteWorkflow" \notin Requests
  PROVE  Spec => [](DeployedIsBound /\ BoundEnvExists /\ BindingHasWorkflow)
<1>1. TypeOK => WithinProject
  BY WorkspaceAssumption DEF TypeOK, WithinProject, AppExists, EnvExists, Optional, Env
<1> QED BY <1>1, WorkspaceTypeCorrect, DeploysBound, BoundEnvsExist, BindingsHaveWorkflows, PTL

=============================================================================
