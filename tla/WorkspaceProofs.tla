--------------------------- MODULE WorkspaceProofs ---------------------------
(***************************************************************************)
(* Workspace for every number of projects, targets, environments,          *)
(* applications, requests and faults: its types, and the ownership of      *)
(* control plane namespaces as long as no environment is deleted.          *)
(***************************************************************************)
EXTENDS Workspace, TLAPS

\* No request.
LEMMA IdleType == Idle \in Request /\ Knows(Idle)
BY DEF Idle, Request, Knows, Optional, EnvSteps, AppSteps, PlaceSteps, ProjectSteps

\* The steps of a request, as one list.
LEMMA StepsListed ==
    WriteSteps = {"label", "addEnv", "putEnv", "unlabel", "dropEnv", "bind", "workflow",
      "addWorkflow", "addBinding", "unbind", "dropWorkflow", "addApp", "apply",
      "wipeWorkflows", "wipeBindings", "dropApp", "dropProject", "addTarget", "dropTarget"}
BY DEF WriteSteps, EnvSteps, AppSteps, ProjectSteps

\* A request that is replaced by one that is well typed.
LEMMA RequestTyped ==
  ASSUME TypeOK, NEW h \in Handlers, NEW r \in Request, Knows(r),
         req' = [req EXCEPT ![h] = r]
  PROVE  /\ req' \in [Handlers -> Request]
         /\ \A g \in Handlers : Knows(req'[g])
BY DEF TypeOK

\* A request goes on to a step whose objects it knows.
LEMMA ThenTyped ==
  ASSUME TypeOK, NEW h \in Handlers, NEW step \in WriteSteps, Then(h, step),
         Knows([req[h] EXCEPT !.step = step])
  PROVE  /\ req' \in [Handlers -> Request]
         /\ \A g \in Handlers : Knows(req'[g])
<1>1. [req[h] EXCEPT !.step = step] \in Request
  BY DEF TypeOK, Request
<1>2. req' = [req EXCEPT ![h] = [req[h] EXCEPT !.step = step]]
  BY DEF Then
<1> QED BY <1>1, <1>2, RequestTyped

\* A request ends.
LEMMA DoneTyped ==
  ASSUME TypeOK, NEW h \in Handlers, Done(h)
  PROVE  /\ req' \in [Handlers -> Request]
         /\ \A g \in Handlers : Knows(req'[g])
BY IdleType, RequestTyped DEF Done

\* A request goes on to its first write.
LEMMA GoesTyped ==
  ASSUME TypeOK, NEW h \in Handlers, NEW op \in Requests, NEW step \in WriteSteps,
         NEW r \in Request, Goes(h, op, step, r),
         Knows([r EXCEPT !.op = op, !.step = step])
  PROVE  /\ req' \in [Handlers -> Request]
         /\ \A g \in Handlers : Knows(req'[g])
<1>1. [r EXCEPT !.op = op, !.step = step] \in Request
  BY DEF Request
<1> QED BY <1>1, RequestTyped DEF Goes

\* A fault stays within the bound.
LEMMA FaultTyped ==
  ASSUME TypeOK, Fault
  PROVE  faults' \in 0..MaxFault
BY WorkspaceAssumption DEF TypeOK, Fault

\* DeleteProject asks for a write whose objects it knows.
LEMMA DeleteProjectCheckTyped ==
  ASSUME TypeOK, NEW h \in Handlers, NEW p \in Projects, DeleteProjectCheck(h, p)
  PROVE  TypeOK'
<1> DEFINE r == [Idle EXCEPT !.p = p]
<1> DEFINE step == "dropProject"
<1>1. r \in Request
  BY IdleType DEF DeleteProjectCheck, TypeOK, Idle, Request, Optional
<1>2. step \in WriteSteps /\ "deleteProject" \in Requests
  BY StepsListed DEF DeleteProjectCheck, Start
<1>3. Knows([r EXCEPT !.op = "deleteProject", !.step = step])
  BY DEF DeleteProjectCheck, TypeOK, Knows, Idle, Optional, EnvSteps, AppSteps, PlaceSteps, ProjectSteps
<1>4. Goes(h, "deleteProject", step, r)
  BY DEF DeleteProjectCheck
<1>5. req' \in [Handlers -> Request] /\ \A g \in Handlers : Knows(req'[g])
  <2> HIDE DEF r, step
  <2> QED BY <1>1, <1>2, <1>3, <1>4, GoesTyped
<1> QED BY <1>5 DEF DeleteProjectCheck, TypeOK, store, cluster

\* CreateTarget asks for a write whose objects it knows.
LEMMA CreateTargetCheckTyped ==
  ASSUME TypeOK, NEW h \in Handlers, NEW t \in Targets, NEW p \in Projects, CreateTargetCheck(h, t, p)
  PROVE  TypeOK'
<1> DEFINE r == [Idle EXCEPT !.p = p, !.ts = {t}]
<1> DEFINE step == "addTarget"
<1>1. r \in Request
  BY IdleType DEF CreateTargetCheck, TypeOK, Idle, Request, Optional
<1>2. step \in WriteSteps /\ "createTarget" \in Requests
  BY StepsListed DEF CreateTargetCheck, Start
<1>3. Knows([r EXCEPT !.op = "createTarget", !.step = step])
  BY DEF CreateTargetCheck, TypeOK, Knows, Idle, Optional, EnvSteps, AppSteps, PlaceSteps, ProjectSteps
<1>4. Goes(h, "createTarget", step, r)
  BY DEF CreateTargetCheck
<1>5. req' \in [Handlers -> Request] /\ \A g \in Handlers : Knows(req'[g])
  <2> HIDE DEF r, step
  <2> QED BY <1>1, <1>2, <1>3, <1>4, GoesTyped
<1> QED BY <1>5 DEF CreateTargetCheck, TypeOK, store, cluster

\* DeleteTarget asks for a write whose objects it knows.
LEMMA DeleteTargetCheckTyped ==
  ASSUME TypeOK, NEW h \in Handlers, NEW t \in Targets, NEW user \in Users, DeleteTargetCheck(h, t, user)
  PROVE  TypeOK'
<1> DEFINE r == [Idle EXCEPT !.ts = {t}]
<1> DEFINE step == "dropTarget"
<1>1. r \in Request
  BY IdleType DEF DeleteTargetCheck, TypeOK, Idle, Request, Optional
<1>2. step \in WriteSteps /\ "deleteTarget" \in Requests
  BY StepsListed DEF DeleteTargetCheck, Start
<1>3. Knows([r EXCEPT !.op = "deleteTarget", !.step = step])
  BY DEF DeleteTargetCheck, TypeOK, Knows, Idle, Optional, EnvSteps, AppSteps, PlaceSteps, ProjectSteps
<1>4. Goes(h, "deleteTarget", step, r)
  BY DEF DeleteTargetCheck
<1>5. req' \in [Handlers -> Request] /\ \A g \in Handlers : Knows(req'[g])
  <2> HIDE DEF r, step
  <2> QED BY <1>1, <1>2, <1>3, <1>4, GoesTyped
<1> QED BY <1>5 DEF DeleteTargetCheck, TypeOK, store, cluster

\* UpdateEnv asks for a write whose objects it knows.
LEMMA UpdateEnvCheckTyped ==
  ASSUME TypeOK, NEW h \in Handlers, NEW e \in Envs, NEW ts \in SUBSET Targets, UpdateEnvCheck(h, e, ts)
  PROVE  TypeOK'
<1> DEFINE r == [Idle EXCEPT !.p = envs[e].project, !.e = e, !.ns = envs[e].ns, !.ts = IF ts = {} THEN envs[e].targets ELSE ts]
<1> DEFINE step == "putEnv"
<1>1. r \in Request
  BY IdleType DEF UpdateEnvCheck, TypeOK, Idle, Request, Optional, EnvExists, Env, NoEnv
<1>2. step \in WriteSteps /\ "updateEnv" \in Requests
  BY StepsListed DEF UpdateEnvCheck, Start
<1>3. Knows([r EXCEPT !.op = "updateEnv", !.step = step])
  BY DEF UpdateEnvCheck, TypeOK, Knows, Idle, Optional, EnvSteps, AppSteps, PlaceSteps, ProjectSteps, EnvExists, Env, NoEnv
<1>4. Goes(h, "updateEnv", step, r)
  BY DEF UpdateEnvCheck
<1>5. req' \in [Handlers -> Request] /\ \A g \in Handlers : Knows(req'[g])
  <2> HIDE DEF r, step
  <2> QED BY <1>1, <1>2, <1>3, <1>4, GoesTyped
<1> QED BY <1>5 DEF UpdateEnvCheck, TypeOK, store, cluster

\* DeleteEnv asks for a write whose objects it knows.
LEMMA DeleteEnvCheckTyped ==
  ASSUME TypeOK, NEW h \in Handlers, NEW e \in Envs, NEW user \in Users, DeleteEnvCheck(h, e, user)
  PROVE  TypeOK'
<1> DEFINE r == [Idle EXCEPT !.e = e]
<1> DEFINE step == "unlabel"
<1>1. r \in Request
  BY IdleType DEF DeleteEnvCheck, TypeOK, Idle, Request, Optional
<1>2. step \in WriteSteps /\ "deleteEnv" \in Requests
  BY StepsListed DEF DeleteEnvCheck, Start
<1>3. Knows([r EXCEPT !.op = "deleteEnv", !.step = step])
  BY DEF DeleteEnvCheck, TypeOK, Knows, Idle, Optional, EnvSteps, AppSteps, PlaceSteps, ProjectSteps
<1>4. Goes(h, "deleteEnv", step, r)
  BY DEF DeleteEnvCheck
<1>5. req' \in [Handlers -> Request] /\ \A g \in Handlers : Knows(req'[g])
  <2> HIDE DEF r, step
  <2> QED BY <1>1, <1>2, <1>3, <1>4, GoesTyped
<1> QED BY <1>5 DEF DeleteEnvCheck, TypeOK, store, cluster

\* CreateApp asks for a write whose objects it knows.
LEMMA CreateAppCheckTyped ==
  ASSUME TypeOK, NEW h \in Handlers, NEW a \in Apps, NEW p \in Projects, NEW e \in Envs \cup {None}, CreateAppCheck(h, a, p, e)
  PROVE  TypeOK'
<1> DEFINE r == [Idle EXCEPT !.a = a, !.p = p, !.e = e]
<1> DEFINE step == IF e = None THEN "addApp" ELSE "bind"
<1>1. r \in Request
  BY IdleType DEF CreateAppCheck, TypeOK, Idle, Request, Optional
<1>2. step \in WriteSteps /\ "createApp" \in Requests
  BY StepsListed DEF CreateAppCheck, Start
<1>3. Knows([r EXCEPT !.op = "createApp", !.step = step])
  BY DEF CreateAppCheck, TypeOK, Knows, Idle, Optional, EnvSteps, AppSteps, PlaceSteps, ProjectSteps
<1>4. Goes(h, "createApp", step, r)
  BY DEF CreateAppCheck
<1>5. req' \in [Handlers -> Request] /\ \A g \in Handlers : Knows(req'[g])
  <2> HIDE DEF r, step
  <2> QED BY <1>1, <1>2, <1>3, <1>4, GoesTyped
<1> QED BY <1>5 DEF CreateAppCheck, TypeOK, store, cluster

\* CreateBinding asks for a write whose objects it knows.
LEMMA CreateBindingCheckTyped ==
  ASSUME TypeOK, NEW h \in Handlers, NEW a \in Apps, NEW e \in Envs, CreateBindingCheck(h, a, e)
  PROVE  TypeOK'
<1> DEFINE r == [Idle EXCEPT !.a = a, !.e = e]
<1> DEFINE step == "addWorkflow"
<1>1. r \in Request
  BY IdleType DEF CreateBindingCheck, TypeOK, Idle, Request, Optional
<1>2. step \in WriteSteps /\ "createBinding" \in Requests
  BY StepsListed DEF CreateBindingCheck, Start
<1>3. Knows([r EXCEPT !.op = "createBinding", !.step = step])
  BY DEF CreateBindingCheck, TypeOK, Knows, Idle, Optional, EnvSteps, AppSteps, PlaceSteps, ProjectSteps
<1>4. Goes(h, "createBinding", step, r)
  BY DEF CreateBindingCheck
<1>5. req' \in [Handlers -> Request] /\ \A g \in Handlers : Knows(req'[g])
  <2> HIDE DEF r, step
  <2> QED BY <1>1, <1>2, <1>3, <1>4, GoesTyped
<1> QED BY <1>5 DEF CreateBindingCheck, TypeOK, store, cluster

\* Deploy asks for a write whose objects it knows.
LEMMA DeployCheckTyped ==
  ASSUME TypeOK, NEW h \in Handlers, NEW a \in Apps, NEW e \in Envs, DeployCheck(h, a, e)
  PROVE  TypeOK'
<1> DEFINE r == [Idle EXCEPT !.a = a, !.ns = envs[e].ns]
<1> DEFINE step == "apply"
<1>1. r \in Request
  BY IdleType DEF DeployCheck, TypeOK, Idle, Request, Optional, EnvExists, Env, NoEnv
<1>2. step \in WriteSteps /\ "deploy" \in Requests
  BY StepsListed DEF DeployCheck, Start
<1>3. Knows([r EXCEPT !.op = "deploy", !.step = step])
  BY DEF DeployCheck, TypeOK, Knows, Idle, Optional, EnvSteps, AppSteps, PlaceSteps, ProjectSteps, EnvExists, Env, NoEnv
<1>4. Goes(h, "deploy", step, r)
  BY DEF DeployCheck
<1>5. req' \in [Handlers -> Request] /\ \A g \in Handlers : Knows(req'[g])
  <2> HIDE DEF r, step
  <2> QED BY <1>1, <1>2, <1>3, <1>4, GoesTyped
<1> QED BY <1>5 DEF DeployCheck, TypeOK, store, cluster

\* DeleteApp asks for a write whose objects it knows.
LEMMA DeleteAppCheckTyped ==
  ASSUME TypeOK, NEW h \in Handlers, NEW a \in Apps, DeleteAppCheck(h, a)
  PROVE  TypeOK'
<1> DEFINE r == [Idle EXCEPT !.a = a, !.p = apps[a]]
<1> DEFINE step == "wipeWorkflows"
<1>1. r \in Request
  BY IdleType DEF DeleteAppCheck, TypeOK, Idle, Request, Optional, AppExists
<1>2. step \in WriteSteps /\ "deleteApp" \in Requests
  BY StepsListed DEF DeleteAppCheck, Start
<1>3. Knows([r EXCEPT !.op = "deleteApp", !.step = step])
  BY DEF DeleteAppCheck, TypeOK, Knows, Idle, Optional, EnvSteps, AppSteps, PlaceSteps, ProjectSteps, AppExists
<1>4. Goes(h, "deleteApp", step, r)
  BY DEF DeleteAppCheck
<1>5. req' \in [Handlers -> Request] /\ \A g \in Handlers : Knows(req'[g])
  <2> HIDE DEF r, step
  <2> QED BY <1>1, <1>2, <1>3, <1>4, GoesTyped
<1> QED BY <1>5 DEF DeleteAppCheck, TypeOK, store, cluster

\* CreateEnv asks for a write whose objects it knows.
LEMMA CreateEnvCheckTyped ==
  ASSUME TypeOK, NEW h \in Handlers, NEW op, NEW e \in Envs, NEW p \in Projects, NEW ns \in Namespaces, NEW ts \in SUBSET Targets, CreateEnvCheck(h, op, e, p, ns, ts)
  PROVE  TypeOK'
<1> DEFINE r == [Idle EXCEPT !.p = p, !.e = e, !.ns = ns, !.ts = ts]
<1> DEFINE step == "label"
<1>1. r \in Request
  BY IdleType DEF CreateEnvCheck, TypeOK, Idle, Request, Optional
<1>2. step \in WriteSteps /\ op \in Requests
  BY StepsListed DEF CreateEnvCheck, Start
<1>3. Knows([r EXCEPT !.op = op, !.step = step])
  BY DEF CreateEnvCheck, TypeOK, Knows, Idle, Optional, EnvSteps, AppSteps, PlaceSteps, ProjectSteps
<1>4. Goes(h, op, step, r)
  BY DEF CreateEnvCheck
<1>5. req' \in [Handlers -> Request] /\ \A g \in Handlers : Knows(req'[g])
  <2> HIDE DEF r, step
  <2> QED BY <1>1, <1>2, <1>3, <1>4, GoesTyped
<1> QED BY <1>5 DEF CreateEnvCheck, TypeOK, store, cluster

\* DropProject, the last write of its request, keeps the types.
LEMMA DropProjectTyped ==
  ASSUME TypeOK, NEW h \in Handlers, DropProject(h)
  PROVE  TypeOK'
<1>1. Done(h)
  BY DEF DropProject
<1>2. req[h] \in Request /\ Knows(req[h])
  BY DEF TypeOK
<1> QED BY <1>1, <1>2, DoneTyped DEF DropProject, At, TypeOK, cluster, store, Knows, EnvSteps, AppSteps, PlaceSteps, ProjectSteps

\* AddTarget, the last write of its request, keeps the types.
LEMMA AddTargetTyped ==
  ASSUME TypeOK, NEW h \in Handlers, AddTarget(h)
  PROVE  TypeOK'
<1>1. Done(h)
  BY DEF AddTarget
<1>2. req[h] \in Request /\ Knows(req[h])
  BY DEF TypeOK
<1> QED BY <1>1, <1>2, DoneTyped DEF AddTarget, At, TypeOK, cluster, store, Knows, EnvSteps, AppSteps, PlaceSteps, ProjectSteps, Request, Optional

\* DropTarget, the last write of its request, keeps the types.
LEMMA DropTargetTyped ==
  ASSUME TypeOK, NEW h \in Handlers, DropTarget(h)
  PROVE  TypeOK'
<1>1. Done(h)
  BY DEF DropTarget
<1>2. req[h] \in Request /\ Knows(req[h])
  BY DEF TypeOK
<1> QED BY <1>1, <1>2, DoneTyped DEF DropTarget, At, TypeOK, cluster, store, Knows, EnvSteps, AppSteps, PlaceSteps, ProjectSteps, Request, Optional

\* AddEnv, the last write of its request, keeps the types.
LEMMA AddEnvTyped ==
  ASSUME TypeOK, NEW h \in Handlers, AddEnv(h)
  PROVE  TypeOK'
<1>1. Done(h)
  BY DEF AddEnv
<1>2. req[h] \in Request /\ Knows(req[h])
  BY DEF TypeOK
<1> QED BY <1>1, <1>2, DoneTyped DEF AddEnv, At, TypeOK, cluster, store, Knows, EnvSteps, AppSteps, PlaceSteps, ProjectSteps, Env, NoEnv, Request

\* PutEnv, the last write of its request, keeps the types.
LEMMA PutEnvTyped ==
  ASSUME TypeOK, NEW h \in Handlers, PutEnv(h)
  PROVE  TypeOK'
<1>1. Done(h)
  BY DEF PutEnv
<1>2. req[h] \in Request /\ Knows(req[h])
  BY DEF TypeOK
<1> QED BY <1>1, <1>2, DoneTyped DEF PutEnv, At, TypeOK, cluster, store, Knows, EnvSteps, AppSteps, PlaceSteps, ProjectSteps, Env, NoEnv, Request

\* DropEnv, the last write of its request, keeps the types.
LEMMA DropEnvTyped ==
  ASSUME TypeOK, NEW h \in Handlers, DropEnv(h)
  PROVE  TypeOK'
<1>1. Done(h)
  BY DEF DropEnv
<1>2. req[h] \in Request /\ Knows(req[h])
  BY DEF TypeOK
<1> QED BY <1>1, <1>2, DoneTyped DEF DropEnv, At, TypeOK, cluster, store, Knows, EnvSteps, AppSteps, PlaceSteps, ProjectSteps

\* AddApp, the last write of its request, keeps the types.
LEMMA AddAppTyped ==
  ASSUME TypeOK, NEW h \in Handlers, AddApp(h)
  PROVE  TypeOK'
<1>1. Done(h)
  BY DEF AddApp
<1>2. req[h] \in Request /\ Knows(req[h])
  BY DEF TypeOK
<1> QED BY <1>1, <1>2, DoneTyped DEF AddApp, At, TypeOK, cluster, store, Knows, EnvSteps, AppSteps, PlaceSteps, ProjectSteps, Optional

\* AddBinding, the last write of its request, keeps the types.
LEMMA AddBindingTyped ==
  ASSUME TypeOK, NEW h \in Handlers, AddBinding(h)
  PROVE  TypeOK'
<1>1. Done(h)
  BY DEF AddBinding
<1>2. req[h] \in Request /\ Knows(req[h])
  BY DEF TypeOK
<1> QED BY <1>1, <1>2, DoneTyped DEF AddBinding, At, TypeOK, cluster, store, Knows, EnvSteps, AppSteps, PlaceSteps, ProjectSteps

\* DropApp, the last write of its request, keeps the types.
LEMMA DropAppTyped ==
  ASSUME TypeOK, NEW h \in Handlers, DropApp(h)
  PROVE  TypeOK'
<1>1. Done(h)
  BY DEF DropApp
<1>2. req[h] \in Request /\ Knows(req[h])
  BY DEF TypeOK
<1> QED BY <1>1, <1>2, DoneTyped DEF DropApp, At, TypeOK, cluster, store, Knows, EnvSteps, AppSteps, PlaceSteps, ProjectSteps, Optional

\* DropWorkflow, the last write of its request, keeps the types.
LEMMA DropWorkflowTyped ==
  ASSUME TypeOK, NEW h \in Handlers, DropWorkflow(h)
  PROVE  TypeOK'
<1>1. Done(h)
  BY DEF DropWorkflow
<1>2. req[h] \in Request /\ Knows(req[h])
  BY DEF TypeOK
<1> QED BY <1>1, <1>2, DoneTyped DEF DropWorkflow, At, TypeOK, cluster, store, Knows, EnvSteps, AppSteps, PlaceSteps, ProjectSteps

\* ApplyCR, the last write of its request, keeps the types.
LEMMA ApplyCRTyped ==
  ASSUME TypeOK, NEW h \in Handlers, ApplyCR(h)
  PROVE  TypeOK'
<1>1. Done(h)
  BY DEF ApplyCR
<1>2. req[h] \in Request /\ Knows(req[h])
  BY DEF TypeOK
<1> QED BY <1>1, <1>2, DoneTyped DEF ApplyCR, At, TypeOK, cluster, store, Knows, EnvSteps, AppSteps, PlaceSteps, ProjectSteps
\* The label is an environment's.
LEMMA LabelNamespaceTyped ==
  ASSUME TypeOK, NEW h \in Handlers, LabelNamespace(h)
  PROVE  TypeOK'
<1>1. req[h] \in Request /\ Knows(req[h]) /\ req[h].step = "label"
  BY DEF TypeOK, LabelNamespace, At
<1>2. req[h].e \in Envs /\ req[h].ns \in Namespaces /\ req[h].p \in Projects
  BY <1>1 DEF Knows, EnvSteps, PlaceSteps, ProjectSteps
<1>3. Knows([req[h] EXCEPT !.step = "addEnv"])
  BY <1>1, <1>2 DEF Knows, Request, EnvSteps, AppSteps, PlaceSteps, ProjectSteps
<1>4. req' \in [Handlers -> Request] /\ \A g \in Handlers : Knows(req'[g])
  BY <1>3, ThenTyped, DoneTyped, StepsListed DEF LabelNamespace
<1>5. label' \in [Namespaces -> Optional(Envs)]
  BY <1>2 DEF LabelNamespace, TypeOK, Optional
<1> QED BY <1>4, <1>5 DEF LabelNamespace, TypeOK, store

\* Clearing a label, or failing to.
LEMMA UnlabelTyped ==
  ASSUME TypeOK, NEW h \in Handlers, Unlabel(h)
  PROVE  TypeOK'
<1>1. req[h] \in Request /\ Knows(req[h]) /\ req[h].step = "unlabel"
  BY DEF TypeOK, Unlabel, At
<1>2. req[h].e \in Envs
  BY <1>1 DEF Knows, EnvSteps
<1>3. Knows([req[h] EXCEPT !.step = "dropEnv"])
  BY <1>1, <1>2 DEF Knows, Request, EnvSteps, AppSteps, PlaceSteps, ProjectSteps
<1>4. req' \in [Handlers -> Request] /\ \A g \in Handlers : Knows(req'[g])
  BY <1>3, ThenTyped, DoneTyped, StepsListed DEF Unlabel
<1>5. label' \in [Namespaces -> Optional(Envs)]
  BY <1>2 DEF Unlabel, TypeOK, Optional
<1>6. faults' \in 0..MaxFault
  BY FaultTyped DEF Unlabel, TypeOK
<1> QED BY <1>4, <1>5, <1>6 DEF Unlabel, TypeOK, store

\* A new application's binding.
LEMMA BindTyped ==
  ASSUME TypeOK, NEW h \in Handlers, Bind(h)
  PROVE  TypeOK'
<1>1. req[h] \in Request /\ Knows(req[h]) /\ req[h].step = "bind"
  BY DEF TypeOK, Bind, At
<1>2. req[h].e \in Envs /\ req[h].a \in Apps /\ req[h].p \in Projects
  BY <1>1 DEF Knows, EnvSteps, AppSteps, ProjectSteps
<1>3. /\ Knows([req[h] EXCEPT !.step = "workflow"])
      /\ Knows([req[h] EXCEPT !.step = "addApp"])
  BY <1>1, <1>2 DEF Knows, Request, EnvSteps, AppSteps, PlaceSteps, ProjectSteps
<1>4. req' \in [Handlers -> Request] /\ \A g \in Handlers : Knows(req'[g])
  BY <1>3, ThenTyped, DoneTyped, StepsListed DEF Bind, Triggered
<1>5. bindings' \subseteq Apps \X Envs
  BY <1>2 DEF Bind, TypeOK
<1>6. faults' \in 0..MaxFault
  BY FaultTyped DEF Bind, TypeOK
<1> QED BY <1>4, <1>5, <1>6 DEF Bind, TypeOK, cluster

\* A new application's workflow.
LEMMA WorkflowTyped ==
  ASSUME TypeOK, NEW h \in Handlers, Workflow(h)
  PROVE  TypeOK'
<1>1. req[h] \in Request /\ Knows(req[h]) /\ req[h].step = "workflow"
  BY DEF TypeOK, Workflow, At
<1>2. req[h].e \in Envs /\ req[h].a \in Apps /\ req[h].p \in Projects
  BY <1>1 DEF Knows, EnvSteps, AppSteps, ProjectSteps
<1>3. Knows([req[h] EXCEPT !.step = "addApp"])
  BY <1>1, <1>2 DEF Knows, Request, EnvSteps, AppSteps, PlaceSteps, ProjectSteps
<1>4. req' \in [Handlers -> Request] /\ \A g \in Handlers : Knows(req'[g])
  BY <1>3, ThenTyped, DoneTyped, StepsListed DEF Workflow, Triggered
<1>5. workflows' \subseteq Apps \X Envs
  BY <1>2 DEF Workflow, TypeOK
<1>6. faults' \in 0..MaxFault
  BY FaultTyped DEF Workflow, TypeOK
<1> QED BY <1>4, <1>5, <1>6 DEF Workflow, TypeOK, cluster

\* A binding's workflow.
LEMMA AddWorkflowTyped ==
  ASSUME TypeOK, NEW h \in Handlers, AddWorkflow(h)
  PROVE  TypeOK'
<1>1. req[h] \in Request /\ Knows(req[h]) /\ req[h].step = "addWorkflow"
  BY DEF TypeOK, AddWorkflow, At
<1>2. req[h].e \in Envs /\ req[h].a \in Apps
  BY <1>1 DEF Knows, EnvSteps, AppSteps
<1>3. Knows([req[h] EXCEPT !.step = "addBinding"])
  BY <1>1, <1>2 DEF Knows, Request, EnvSteps, AppSteps, PlaceSteps, ProjectSteps
<1>4. req' \in [Handlers -> Request] /\ \A g \in Handlers : Knows(req'[g])
  BY <1>3, ThenTyped, DoneTyped, StepsListed DEF AddWorkflow
<1>5. workflows' \subseteq Apps \X Envs
  BY <1>2 DEF AddWorkflow, TypeOK
<1> QED BY <1>4, <1>5 DEF AddWorkflow, TypeOK, cluster

\* A binding goes before its workflow.
LEMMA UnbindTyped ==
  ASSUME TypeOK, NEW h \in Handlers, Unbind(h)
  PROVE  TypeOK'
<1>1. req[h] \in Request /\ Knows(req[h]) /\ req[h].step = "unbind"
  BY DEF TypeOK, Unbind, At
<1>2. Knows([req[h] EXCEPT !.step = "dropWorkflow"])
  BY <1>1 DEF Knows, Request, EnvSteps, AppSteps, PlaceSteps, ProjectSteps
<1>3. req' \in [Handlers -> Request] /\ \A g \in Handlers : Knows(req'[g])
  BY <1>2, ThenTyped, StepsListed DEF Unbind
<1> QED BY <1>3 DEF Unbind, TypeOK, cluster

\* DeleteEnvBinding, whether or not the environment can be read.
LEMMA DeleteBindingCheckTyped ==
  ASSUME TypeOK, NEW h \in Handlers, NEW a \in Apps, NEW e \in Envs,
         DeleteBindingCheck(h, a, e)
  PROVE  TypeOK'
<1> DEFINE r == [Idle EXCEPT !.a = a, !.e = e]
<1>1. PICK step \in {"unbind", "dropWorkflow"} : Goes(h, "deleteBinding", step, r)
  BY DEF DeleteBindingCheck
<1>2. r \in Request
  BY IdleType DEF Idle, Request, Optional
<1>3. step \in WriteSteps /\ "deleteBinding" \in Requests
  BY StepsListed DEF DeleteBindingCheck, Start
<1>4. Knows([r EXCEPT !.op = "deleteBinding", !.step = step])
  BY DEF Knows, Idle, EnvSteps, AppSteps, PlaceSteps, ProjectSteps
<1>5. req' \in [Handlers -> Request] /\ \A g \in Handlers : Knows(req'[g])
  <2> HIDE DEF r
  <2> QED BY <1>1, <1>2, <1>3, <1>4, GoesTyped
<1>6. faults' \in 0..MaxFault
  BY FaultTyped DEF DeleteBindingCheck, TypeOK
<1> QED BY <1>5, <1>6 DEF DeleteBindingCheck, TypeOK, store, cluster

\* Deleting an application deletes its workflows,
LEMMA WipeWorkflowsTyped ==
  ASSUME TypeOK, NEW h \in Handlers, WipeWorkflows(h)
  PROVE  TypeOK'
<1>1. req[h] \in Request /\ Knows(req[h]) /\ req[h].step = "wipeWorkflows"
  BY DEF TypeOK, WipeWorkflows, At
<1>2. Knows([req[h] EXCEPT !.step = "wipeBindings"])
  BY <1>1 DEF Knows, Request, EnvSteps, AppSteps, PlaceSteps, ProjectSteps
<1>3. req' \in [Handlers -> Request] /\ \A g \in Handlers : Knows(req'[g])
  BY <1>2, ThenTyped, StepsListed DEF WipeWorkflows
<1>4. workflows' \subseteq Apps \X Envs
  BY DEF WipeWorkflows, TypeOK
<1>5. faults' \in 0..MaxFault
  BY FaultTyped DEF WipeWorkflows, TypeOK
<1> QED BY <1>3, <1>4, <1>5 DEF WipeWorkflows, TypeOK, cluster

\* then its bindings.
LEMMA WipeBindingsTyped ==
  ASSUME TypeOK, NEW h \in Handlers, WipeBindings(h)
  PROVE  TypeOK'
<1>1. req[h] \in Request /\ Knows(req[h]) /\ req[h].step = "wipeBindings"
  BY DEF TypeOK, WipeBindings, At
<1>2. Knows([req[h] EXCEPT !.step = "dropApp"])
  BY <1>1 DEF Knows, Request, EnvSteps, AppSteps, PlaceSteps, ProjectSteps
<1>3. req' \in [Handlers -> Request] /\ \A g \in Handlers : Knows(req'[g])
  BY <1>2, ThenTyped, StepsListed DEF WipeBindings
<1>4. workflows' \subseteq workflows /\ bindings' \subseteq bindings
  BY DEF WipeBindings
<1>5. faults' \in 0..MaxFault
  BY FaultTyped DEF WipeBindings, TypeOK
<1> QED BY <1>3, <1>4, <1>5 DEF WipeBindings, TypeOK, cluster

\* A request dies.
LEMMA AbortTyped ==
  ASSUME TypeOK, NEW h \in Handlers, Abort(h)
  PROVE  TypeOK'
BY DoneTyped, FaultTyped DEF Abort, TypeOK, store, cluster

\* Every step keeps the types.
LEMMA TypeStep == TypeOK /\ [Next]_vars => TypeOK'
<1> SUFFICES ASSUME TypeOK, [Next]_vars PROVE TypeOK'
  OBVIOUS
<1>1. CASE UNCHANGED vars
  BY <1>1 DEF vars, store, cluster, TypeOK
<1>2. ASSUME NEW h \in Handlers, ProjectRequest(h) \/ EnvRequest(h) \/ AppRequest(h)
      PROVE  TypeOK'
  BY <1>2, DeleteProjectCheckTyped, CreateTargetCheckTyped, DeleteTargetCheckTyped,
     CreateEnvCheckTyped, UpdateEnvCheckTyped, DeleteEnvCheckTyped, CreateAppCheckTyped,
     CreateBindingCheckTyped, DeleteBindingCheckTyped, DeployCheckTyped, DeleteAppCheckTyped
     DEF ProjectRequest, EnvRequest, AppRequest
<1>3. ASSUME NEW h \in Handlers, ProjectWrite(h) \/ EnvWrite(h) \/ AppWrite(h) \/ Abort(h)
      PROVE  TypeOK'
  BY <1>3, DropProjectTyped, AddTargetTyped, DropTargetTyped, LabelNamespaceTyped,
     AddEnvTyped, PutEnvTyped, UnlabelTyped, DropEnvTyped, BindTyped, WorkflowTyped,
     AddAppTyped, AddWorkflowTyped, AddBindingTyped, UnbindTyped, DropWorkflowTyped,
     ApplyCRTyped, WipeWorkflowsTyped, WipeBindingsTyped, DropAppTyped, AbortTyped
     DEF ProjectWrite, EnvWrite, AppWrite
<1>4. ASSUME NEW p \in Projects, CreateProject(p) PROVE TypeOK'
  BY <1>4 DEF CreateProject, TypeOK, cluster
<1>5. ASSUME NEW a \in Apps, NEW e \in Envs, Recycle(a, e) PROVE TypeOK'
  BY <1>5 DEF Recycle, TypeOK, store
<1>6. ASSUME NEW a \in Apps, NEW e \in Envs, DeleteWorkflow(a, e) PROVE TypeOK'
  BY <1>6 DEF DeleteWorkflow, TypeOK, cluster
<1> QED BY <1>1, <1>2, <1>3, <1>4, <1>5, <1>6 DEF Next

\* Every variable of Workspace keeps its type, and no request reaches a write
\* without the objects the write is about.
THEOREM WorkspaceTypeCorrect == Spec => []TypeOK
<1>1. Init => TypeOK
  BY IdleType, WorkspaceAssumption DEF Init, TypeOK, Optional
<1> QED BY <1>1, TypeStep, PTL DEF Spec

-----------------------------------------------------------------------------
(* A namespace belongs to one environment *)

\* An environment holds the label of its namespace; so does one that is about
\* to be added, and one that is about to be Put has the namespace it had.
LabelHeld ==
    /\ \A e \in Envs : EnvExists(e) => label[envs[e].ns] = e
    /\ \A h \in Handlers : req[h].step = "addEnv" => label[req[h].ns] = req[h].e
    /\ \A h \in Handlers : req[h].step = "putEnv" =>
          EnvExists(req[h].e) /\ envs[req[h].e].ns = req[h].ns
    /\ \A h \in Handlers : req[h].step \notin {"unlabel", "dropEnv"}

\* Only these steps write labels or environments, or start a request that will.
LEMMA LabelFrame ==
  ASSUME TypeOK, LabelHeld, UNCHANGED <<envs, label>>,
         \A h \in Handlers : req'[h] = req[h] \/
            req'[h].step \notin {"addEnv", "putEnv", "unlabel", "dropEnv"}
  PROVE  LabelHeld'
BY DEF LabelHeld, EnvExists

\* The requests that leave environments and labels alone.
LEMMA EnvsUntouched ==
  ASSUME TypeOK, NEW h \in Handlers,
         \/ ProjectRequest(h) \/ AppRequest(h) \/ ProjectWrite(h) \/ AppWrite(h)
         \/ Abort(h)
  PROVE  /\ UNCHANGED <<envs, label>>
         /\ \A g \in Handlers : g # h => req'[g] = req[g]
         /\ req'[h].step \notin {"label", "addEnv", "putEnv", "unlabel", "dropEnv"}
<1>1. UNCHANGED <<envs, label>>
  BY DEF ProjectRequest, AppRequest, ProjectWrite, AppWrite, Abort, store, cluster,
     DeleteProjectCheck, CreateTargetCheck, DeleteTargetCheck, CreateAppCheck,
     CreateBindingCheck, DeleteBindingCheck, DeployCheck, DeleteAppCheck,
     DropProject, AddTarget, DropTarget, Bind, Workflow, AddApp, AddWorkflow,
     AddBinding, Unbind, DropWorkflow, ApplyCR, WipeWorkflows, WipeBindings, DropApp
<1>2. req \in [Handlers -> Request]
  BY DEF TypeOK
<1>3. \A g \in Handlers : g # h => req'[g] = req[g]
  <2>1. CASE ProjectRequest(h)
    BY <1>2, <2>1 DEF ProjectRequest, DeleteProjectCheck, CreateTargetCheck, DeleteTargetCheck, Goes
  <2>2. CASE AppRequest(h)
    BY <1>2, <2>2 DEF AppRequest, CreateAppCheck, CreateBindingCheck, DeleteBindingCheck,
       DeployCheck, DeleteAppCheck, Goes
  <2>3. CASE ProjectWrite(h) \/ AppWrite(h) \/ Abort(h)
    BY <1>2, <2>3 DEF ProjectWrite, AppWrite, Abort, DropProject, AddTarget, DropTarget, Bind,
       Workflow, AddApp, AddWorkflow, AddBinding, Unbind, DropWorkflow, ApplyCR,
       WipeWorkflows, WipeBindings, DropApp,
       Triggered, Then, Done
  <2> QED BY <2>1, <2>2, <2>3
<1>4. req'[h].step \notin {"label", "addEnv", "putEnv", "unlabel", "dropEnv"}
  <2>1. CASE ProjectRequest(h)
    <3>1. ASSUME NEW p \in Projects, DeleteProjectCheck(h, p)
          PROVE req'[h].step \notin {"label", "addEnv", "putEnv", "unlabel", "dropEnv"}
      BY <1>2, <3>1 DEF DeleteProjectCheck, Goes, Idle
    <3>2. ASSUME NEW t \in Targets, NEW p \in Projects, CreateTargetCheck(h, t, p)
          PROVE req'[h].step \notin {"label", "addEnv", "putEnv", "unlabel", "dropEnv"}
      BY <1>2, <3>2 DEF CreateTargetCheck, Goes, Idle
    <3>3. ASSUME NEW t \in Targets, NEW u \in Users, DeleteTargetCheck(h, t, u)
          PROVE req'[h].step \notin {"label", "addEnv", "putEnv", "unlabel", "dropEnv"}
      BY <1>2, <3>3 DEF DeleteTargetCheck, Goes, Idle
    <3> QED BY <2>1, <3>1, <3>2, <3>3 DEF ProjectRequest
  <2>2. CASE AppRequest(h)
    <3>1. ASSUME NEW a \in Apps, NEW p \in Projects, NEW e \in Envs \cup {None}, CreateAppCheck(h, a, p, e)
          PROVE req'[h].step \notin {"label", "addEnv", "putEnv", "unlabel", "dropEnv"}
      BY <1>2, <3>1 DEF CreateAppCheck, Goes, Idle
    <3>2. ASSUME NEW a \in Apps, NEW e \in Envs, CreateBindingCheck(h, a, e)
          PROVE req'[h].step \notin {"label", "addEnv", "putEnv", "unlabel", "dropEnv"}
      BY <1>2, <3>2 DEF CreateBindingCheck, Goes, Idle
    <3>3. ASSUME NEW a \in Apps, NEW e \in Envs, DeleteBindingCheck(h, a, e)
          PROVE req'[h].step \notin {"label", "addEnv", "putEnv", "unlabel", "dropEnv"}
      BY <1>2, <3>3 DEF DeleteBindingCheck, Goes, Idle
    <3>4. ASSUME NEW a \in Apps, NEW e \in Envs, DeployCheck(h, a, e)
          PROVE req'[h].step \notin {"label", "addEnv", "putEnv", "unlabel", "dropEnv"}
      BY <1>2, <3>4 DEF DeployCheck, Goes, Idle
    <3>5. ASSUME NEW a \in Apps, DeleteAppCheck(h, a)
          PROVE req'[h].step \notin {"label", "addEnv", "putEnv", "unlabel", "dropEnv"}
      BY <1>2, <3>5 DEF DeleteAppCheck, Goes, Idle
    <3> QED BY <2>2, <3>1, <3>2, <3>3, <3>4, <3>5 DEF AppRequest
  <2>3. CASE ProjectWrite(h) \/ AppWrite(h) \/ Abort(h)
    <3>1. Done(h) \/ \E s \in {"addApp", "workflow", "addBinding", "dropWorkflow", "wipeBindings", "dropApp"} : Then(h, s)
      BY <2>3 DEF ProjectWrite, AppWrite, Abort, DropProject, AddTarget, DropTarget, Bind,
         Workflow, AddApp, AddWorkflow, AddBinding, Unbind, DropWorkflow, ApplyCR,
         WipeWorkflows, WipeBindings, DropApp, Triggered
    <3>2. CASE Done(h)
      BY <1>2, <3>2 DEF Done, Idle
    <3>3. ASSUME NEW s \in {"addApp", "workflow", "addBinding", "dropWorkflow", "wipeBindings", "dropApp"}, Then(h, s)
          PROVE  req'[h].step = s
      BY <1>2, <3>3 DEF Then, Request
    <3> QED BY <3>1, <3>2, <3>3
  <2> QED BY <2>1, <2>2, <2>3
<1> QED BY <1>1, <1>3, <1>4

\* They keep the labels in place.
LEMMA LabelOthers ==
  ASSUME TypeOK, LabelHeld, NEW h \in Handlers,
         \/ ProjectRequest(h) \/ AppRequest(h) \/ ProjectWrite(h) \/ AppWrite(h)
         \/ Abort(h)
  PROVE  LabelHeld'
<1>1. /\ UNCHANGED <<envs, label>>
      /\ \A g \in Handlers : g # h => req'[g] = req[g]
      /\ req'[h].step \notin {"label", "addEnv", "putEnv", "unlabel", "dropEnv"}
  BY EnvsUntouched
<1> QED BY <1>1, LabelFrame

\* Without DeleteEnv, requests for environments keep the labels in place.
LEMMA LabelEnvs ==
  ASSUME TypeOK, LabelHeld, "deleteEnv" \notin Requests, NEW h \in Handlers,
         EnvRequest(h) \/ EnvWrite(h)
  PROVE  LabelHeld'
<1>0. req \in [Handlers -> Request] /\ req[h] \in Request /\ Knows(req[h])
  BY DEF TypeOK
<1>1. ASSUME NEW op, NEW e \in Envs, NEW p \in Projects, NEW n \in Namespaces,
             NEW ts \in SUBSET Targets, CreateEnvCheck(h, op, e, p, n, ts)
      PROVE  LabelHeld'
  <2>1. req'[h].step = "label" /\ \A g \in Handlers : g # h => req'[g] = req[g]
    BY <1>0, <1>1, IdleType DEF CreateEnvCheck, Goes, Request
  <2> QED BY <1>1, <2>1, LabelFrame DEF CreateEnvCheck, store, cluster
<1>2. ASSUME NEW e \in Envs, NEW ts \in SUBSET Targets, UpdateEnvCheck(h, e, ts)
      PROVE  LabelHeld'
  <2>1. /\ req'[h].step = "putEnv" /\ req'[h].e = e /\ req'[h].ns = envs[e].ns
        /\ \A g \in Handlers : g # h => req'[g] = req[g]
    BY <1>0, <1>2 DEF UpdateEnvCheck, Goes, Request, Idle
  <2>2. EnvExists(e) /\ UNCHANGED <<envs, label>>
    BY <1>2 DEF UpdateEnvCheck, store, cluster
  <2> QED BY <2>1, <2>2 DEF LabelHeld, EnvExists
<1>3. ASSUME NEW e \in Envs, NEW u \in Users, DeleteEnvCheck(h, e, u)
      PROVE  LabelHeld'
  BY <1>3 DEF DeleteEnvCheck, Start
<1>4. CASE LabelNamespace(h)
  <2>1. \A g \in Handlers : g # h => req'[g] = req[g]
    BY <1>0, <1>4 DEF LabelNamespace, Then, Done
  <2>2. CASE UNCHANGED label /\ Done(h)
    <3>1. req'[h].step = "idle"
      BY <1>0, <2>2 DEF Done, Idle
    <3> QED BY <1>4, <2>1, <2>2, <3>1, LabelFrame DEF LabelNamespace, store
  <2>3. CASE /\ label[req[h].ns] \in {None, req[h].e}
             /\ label' = [label EXCEPT ![req[h].ns] = req[h].e]
             /\ Then(h, "addEnv")
    <3>1. /\ req'[h].step = "addEnv" /\ req'[h].ns = req[h].ns /\ req'[h].e = req[h].e
          /\ req[h].ns \in Namespaces /\ req[h].e \in Envs /\ req[h].e # None
      BY <1>0, <1>4, <2>3, WorkspaceAssumption
         DEF LabelNamespace, Then, At, Request, Knows, PlaceSteps, EnvSteps
    <3>2. UNCHANGED envs
      BY <1>4 DEF LabelNamespace, store
    <3>3. \A e \in Envs : EnvExists(e) => envs[e].ns \in Namespaces /\ e # None
      BY WorkspaceAssumption DEF TypeOK, EnvExists, Env
    <3>4. \A g \in Handlers : req[g].step = "addEnv" => req[g].ns \in Namespaces /\ req[g].e \in Envs /\ req[g].e # None
      BY WorkspaceAssumption DEF TypeOK, Knows, PlaceSteps, EnvSteps
    <3>5. \A e \in Envs : EnvExists(e) => label'[envs[e].ns] = e
      BY <2>3, <3>1, <3>3 DEF LabelHeld, TypeOK
    <3>6. \A g \in Handlers : req'[g].step = "addEnv" => label'[req'[g].ns] = req'[g].e
      BY <2>1, <2>3, <3>1, <3>4 DEF LabelHeld, TypeOK
    <3> QED BY <2>1, <3>1, <3>2, <3>5, <3>6 DEF LabelHeld, EnvExists
  <2> QED BY <1>4, <2>2, <2>3 DEF LabelNamespace
<1>5. CASE AddEnv(h)
  <2>1. /\ req'[h].step = "idle" /\ UNCHANGED label
        /\ \A g \in Handlers : g # h => req'[g] = req[g]
    BY <1>0, <1>5 DEF AddEnv, Done, Idle, cluster
  <2>2. CASE EnvExists(req[h].e)
    BY <1>5, <2>1, <2>2, LabelFrame DEF AddEnv
  <2>3. CASE ~ EnvExists(req[h].e)
    <3>1. label[req[h].ns] = req[h].e /\ req[h].e \in Envs
      BY <1>0, <1>5 DEF AddEnv, At, LabelHeld, Knows, EnvSteps
    <3>2. envs' = [envs EXCEPT ![req[h].e] =
                     [project |-> req[h].p, ns |-> req[h].ns, targets |-> req[h].ts]]
      BY <1>5, <2>3 DEF AddEnv
    <3>3. \A e \in Envs : e # req[h].e => envs'[e] = envs[e]
      BY <3>2 DEF TypeOK
    <3>4. envs'[req[h].e].ns = req[h].ns
      BY <3>1, <3>2 DEF TypeOK
    <3>5. \A e \in Envs : EnvExists(e)' => label'[envs'[e].ns] = e
      BY <2>1, <3>1, <3>3, <3>4 DEF LabelHeld, EnvExists
    <3>6. \A g \in Handlers : req'[g].step = "putEnv" =>
            (EnvExists(req[g].e) /\ envs[req[g].e].ns = req[g].ns)'
      <4> SUFFICES ASSUME NEW g \in Handlers, req'[g].step = "putEnv"
                   PROVE  (EnvExists(req[g].e) /\ envs[req[g].e].ns = req[g].ns)'
        OBVIOUS
      <4>1. g # h /\ req'[g] = req[g]
        BY <2>1
      <4>2. EnvExists(req[g].e) /\ envs[req[g].e].ns = req[g].ns
        BY <4>1 DEF LabelHeld
      <4>3. req[g].e # req[h].e /\ req[g].e \in Envs
        BY <2>3, <4>2 DEF EnvExists
      <4> QED BY <3>3, <4>1, <4>2, <4>3 DEF EnvExists
    <3>7. \A g \in Handlers : req'[g].step = "addEnv" => label'[req'[g].ns] = req'[g].e
      BY <2>1 DEF LabelHeld
    <3>8. \A g \in Handlers : req'[g].step \notin {"unlabel", "dropEnv"}
      BY <2>1 DEF LabelHeld
    <3> QED BY <3>5, <3>6, <3>7, <3>8 DEF LabelHeld
  <2> QED BY <2>2, <2>3
<1>6. CASE PutEnv(h)
  <2>1. /\ req'[h].step = "idle" /\ UNCHANGED label
        /\ \A g \in Handlers : g # h => req'[g] = req[g]
    BY <1>0, <1>6 DEF PutEnv, Done, Idle, cluster
  <2>2. /\ EnvExists(req[h].e) /\ envs[req[h].e].ns = req[h].ns
        /\ req[h].e \in Envs /\ req[h].p \in Projects
    BY <1>0, <1>6 DEF PutEnv, At, LabelHeld, Knows, EnvSteps, ProjectSteps
  <2>3. envs' = [envs EXCEPT ![req[h].e] =
                   [project |-> req[h].p, ns |-> req[h].ns, targets |-> req[h].ts]]
    BY <1>6, <2>2 DEF PutEnv
  <2>4. \A e \in Envs : EnvExists(e)' <=> EnvExists(e)
    <3>1. [project |-> req[h].p, ns |-> req[h].ns, targets |-> req[h].ts] # NoEnv
      BY <2>2, WorkspaceAssumption DEF NoEnv
    <3> QED BY <2>2, <2>3, <3>1 DEF EnvExists, TypeOK
  <2>5. \A e \in Envs : envs'[e].ns = envs[e].ns
    BY <2>2, <2>3 DEF TypeOK
  <2>6. \A g \in Handlers : req[g].step = "putEnv" => req[g].e \in Envs
    BY DEF TypeOK, Knows, EnvSteps
  <2> QED BY <2>1, <2>4, <2>5, <2>6 DEF LabelHeld
<1>7. CASE Unlabel(h) \/ DropEnv(h)
  BY <1>7 DEF Unlabel, DropEnv, At, LabelHeld
<1> QED BY <1>1, <1>2, <1>3, <1>4, <1>5, <1>6, <1>7 DEF EnvRequest, EnvWrite

\* As long as no environment is deleted, a namespace belongs to one environment,
\* for any number of concurrent and failing requests: the label the namespace
\* is given before the environment is added keeps the others out.
THEOREM NamespaceOwnedUntilDelete ==
  ASSUME "deleteEnv" \notin Requests
  PROVE  Spec => []NamespaceOwned
<1>1. Init => LabelHeld
  BY DEF Init, LabelHeld, EnvExists, Idle
<1>2. TypeOK /\ LabelHeld /\ [Next]_vars => LabelHeld'
  <2> SUFFICES ASSUME TypeOK, LabelHeld, [Next]_vars PROVE LabelHeld'
    OBVIOUS
  <2>1. CASE UNCHANGED vars
    BY <2>1 DEF vars, store, cluster, LabelHeld, EnvExists
  <2>2. ASSUME NEW p \in Projects, CreateProject(p) PROVE LabelHeld'
    BY <2>2 DEF CreateProject, cluster, LabelHeld, EnvExists
  <2>3. ASSUME NEW a \in Apps, NEW e \in Envs, Recycle(a, e) PROVE LabelHeld'
    BY <2>3 DEF Recycle, store, LabelHeld, EnvExists
  <2>4. ASSUME NEW a \in Apps, NEW e \in Envs, DeleteWorkflow(a, e) PROVE LabelHeld'
    BY <2>4 DEF DeleteWorkflow, cluster, LabelHeld, EnvExists
  <2> QED BY <2>1, <2>2, <2>3, <2>4, LabelOthers, LabelEnvs DEF Next
<1>3. LabelHeld => NamespaceOwned
  BY DEF LabelHeld, NamespaceOwned
<1> QED BY <1>1, <1>2, <1>3, WorkspaceTypeCorrect, PTL DEF Spec

-----------------------------------------------------------------------------
(* A target belongs to one environment of its project *)

\* The targets of the environments are disjoint, and so are the ones of the
\* environment that is about to be written from all others.
TargetsKept ==
    /\ TargetExclusive
    /\ \A h \in Handlers : req[h].step \in {"label", "addEnv", "putEnv"} =>
          checkEnvTarget(req[h].p, req[h].e, req[h].ts)

\* Steps that write no environment.
LEMMA TargetsFrame ==
  ASSUME TargetsKept, UNCHANGED envs,
         \A h \in Handlers : \/ req'[h] = req[h]
                             \/ req'[h].step \notin {"label", "addEnv", "putEnv"}
                             \/ checkEnvTarget(req[h].p, req[h].e, req[h].ts)'
  PROVE  TargetsKept'
<1>1. TargetExclusive'
  BY DEF TargetsKept, TargetExclusive, EnvExists
<1>2. ASSUME NEW h \in Handlers, req'[h].step \in {"label", "addEnv", "putEnv"}
      PROVE  checkEnvTarget(req[h].p, req[h].e, req[h].ts)'
  BY <1>2 DEF TargetsKept, checkEnvTarget
<1> QED BY <1>1, <1>2 DEF TargetsKept

\* An environment is written with targets that were checked.
LEMMA TargetsWritten ==
  ASSUME TypeOK, TargetExclusive, NEW e \in Envs, NEW p \in Projects,
         NEW ns, NEW ts, checkEnvTarget(p, e, ts),
         envs' = [envs EXCEPT ![e] = [project |-> p, ns |-> ns, targets |-> ts]]
  PROVE  TargetExclusive'
<1> SUFFICES ASSUME NEW d \in Envs, NEW f \in Envs, d # f, EnvExists(d)',
                    envs'[d].project = envs'[f].project
             PROVE  envs'[d].targets \cap envs'[f].targets = {}
  BY DEF TargetExclusive
<1>1. envs'[e].project = p /\ envs'[e].targets = ts
  BY DEF TypeOK
<1>2. \A g \in Envs : g # e => envs'[g] = envs[g]
  BY DEF TypeOK
<1>3. CASE d = e
  BY <1>1, <1>2, <1>3 DEF checkEnvTarget
<1>4. CASE f = e
  BY <1>1, <1>2, <1>4 DEF checkEnvTarget
<1>5. CASE d # e /\ f # e
  BY <1>2, <1>5 DEF TargetExclusive, EnvExists
<1> QED BY <1>3, <1>4, <1>5

\* One request at a time, without AllowTargetConflict, keeps targets apart.
LEMMA TargetsEnvs ==
  ASSUME TypeOK, TargetsKept, "shareTargets" \notin Requests,
         \A g, h \in Handlers : g = h, NEW h \in Handlers,
         EnvRequest(h) \/ EnvWrite(h)
  PROVE  TargetsKept'
<1>0. req \in [Handlers -> Request] /\ req[h] \in Request /\ Knows(req[h])
  BY DEF TypeOK
<1>1. ASSUME NEW op, NEW e \in Envs, NEW p \in Projects, NEW n \in Namespaces,
             NEW ts \in SUBSET Targets, CreateEnvCheck(h, op, e, p, n, ts)
      PROVE  TargetsKept'
  <2>1. req'[h].p = p /\ req'[h].e = e /\ req'[h].ts = ts
    BY <1>0, <1>1 DEF CreateEnvCheck, Goes, Idle
  <2>2. checkEnvTarget(p, e, ts) /\ UNCHANGED envs
    BY <1>1 DEF CreateEnvCheck, Start, store
  <2>3. checkEnvTarget(req[h].p, req[h].e, req[h].ts)'
    BY <2>1, <2>2 DEF checkEnvTarget
  <2> QED BY <2>2, <2>3, TargetsFrame
<1>2. ASSUME NEW e \in Envs, NEW ts \in SUBSET Targets, UpdateEnvCheck(h, e, ts)
      PROVE  TargetsKept'
  <2> DEFINE new == IF ts = {} THEN envs[e].targets ELSE ts
  <2>1. req'[h].p = envs[e].project /\ req'[h].e = e /\ req'[h].ts = new
    BY <1>0, <1>2 DEF UpdateEnvCheck, Goes, Idle
  <2>2. checkEnvTarget(envs[e].project, e, ts) /\ EnvExists(e) /\ UNCHANGED envs
    BY <1>2 DEF UpdateEnvCheck, store
  <2>3. checkEnvTarget(envs[e].project, e, new)
    BY <2>2 DEF TargetsKept, TargetExclusive, checkEnvTarget
  <2>4. checkEnvTarget(req[h].p, req[h].e, req[h].ts)'
    BY <2>1, <2>2, <2>3 DEF checkEnvTarget
  <2> QED BY <2>2, <2>4, TargetsFrame
<1>3. ASSUME NEW e \in Envs, NEW u \in Users, DeleteEnvCheck(h, e, u)
      PROVE  TargetsKept'
  <2>1. req'[h].step = "unlabel" /\ UNCHANGED envs
    BY <1>0, <1>3 DEF DeleteEnvCheck, Goes, Idle, store
  <2> QED BY <2>1, TargetsFrame
<1>4. CASE LabelNamespace(h)
  <2>1. UNCHANGED envs /\ req[h].step = "label"
    BY <1>4 DEF LabelNamespace, store, At
  <2>2. CASE Done(h)
    <3>1. req'[h].step = "idle"
      BY <1>0, <2>2 DEF Done, Idle
    <3> QED BY <2>1, <3>1, TargetsFrame
  <2>3. CASE Then(h, "addEnv")
    <3>1. req'[h].p = req[h].p /\ req'[h].e = req[h].e /\ req'[h].ts = req[h].ts
      BY <1>0, <2>3 DEF Then, Request
    <3>2. checkEnvTarget(req[h].p, req[h].e, req[h].ts)'
      BY <2>1, <3>1 DEF TargetsKept, checkEnvTarget
    <3> QED BY <2>1, <3>2, TargetsFrame
  <2> QED BY <1>4, <2>2, <2>3 DEF LabelNamespace
<1>5. CASE AddEnv(h) \/ PutEnv(h)
  <2>1. req'[h].step = "idle"
    BY <1>0, <1>5 DEF AddEnv, PutEnv, Done, Idle
  <2>2. /\ checkEnvTarget(req[h].p, req[h].e, req[h].ts)
        /\ req[h].e \in Envs /\ req[h].p \in Projects
    BY <1>0, <1>5 DEF AddEnv, PutEnv, At, TargetsKept, Knows, EnvSteps, ProjectSteps
  <2>3. CASE UNCHANGED envs
    BY <2>1, <2>3, TargetsFrame
  <2>4. CASE envs' = [envs EXCEPT ![req[h].e] =
                        [project |-> req[h].p, ns |-> req[h].ns, targets |-> req[h].ts]]
    <3>1. TargetExclusive'
      BY <2>2, <2>4, TargetsWritten DEF TargetsKept
    <3> QED BY <2>1, <3>1 DEF TargetsKept
  <2> QED BY <1>5, <2>3, <2>4 DEF AddEnv, PutEnv
<1>6. CASE Unlabel(h)
  <2>1. UNCHANGED envs /\ req'[h].step \in {"dropEnv", "idle"}
    BY <1>0, <1>6 DEF Unlabel, store, Then, Done, Idle, Request
  <2> QED BY <2>1, TargetsFrame
<1>7. CASE DropEnv(h)
  <2>1. req'[h].step = "idle" /\ req[h].e \in Envs
    BY <1>0, <1>7 DEF DropEnv, Done, Idle, At, Knows, EnvSteps
  <2>2. envs'[req[h].e] = NoEnv /\ \A g \in Envs : g # req[h].e => envs'[g] = envs[g]
    BY <1>7, <2>1 DEF DropEnv, TypeOK
  <2>3. TargetExclusive'
    BY <2>2 DEF TargetsKept, TargetExclusive, EnvExists, NoEnv
  <2> QED BY <2>1, <2>3 DEF TargetsKept
<1> QED BY <1>1, <1>2, <1>3, <1>4, <1>5, <1>6, <1>7 DEF EnvRequest, EnvWrite

\* A target belongs to one environment of its project (checkEnvTarget in env.go)
\* as long as requests are handled one at a time and none asks for
\* AllowTargetConflict, whichever of them fail half-way.
THEOREM TargetExclusiveOneAtATime ==
  ASSUME "shareTargets" \notin Requests, \A g, h \in Handlers : g = h
  PROVE  Spec => []TargetExclusive
<1>1. Init => TargetsKept
  BY DEF Init, TargetsKept, TargetExclusive, EnvExists, Idle
<1>2. TypeOK /\ TargetsKept /\ [Next]_vars => TargetsKept'
  <2> SUFFICES ASSUME TypeOK, TargetsKept, [Next]_vars PROVE TargetsKept'
    OBVIOUS
  <2>1. CASE UNCHANGED vars
    BY <2>1, TargetsFrame DEF vars, store
  <2>2. ASSUME NEW p \in Projects, CreateProject(p) PROVE TargetsKept'
    BY <2>2, TargetsFrame DEF CreateProject
  <2>3. ASSUME NEW a \in Apps, NEW e \in Envs, Recycle(a, e) \/ DeleteWorkflow(a, e)
        PROVE  TargetsKept'
    BY <2>3, TargetsFrame DEF Recycle, DeleteWorkflow, store
  <2>4. ASSUME NEW h \in Handlers, EnvRequest(h) \/ EnvWrite(h) PROVE TargetsKept'
    BY <2>4, TargetsEnvs
  <2>5. ASSUME NEW h \in Handlers, \/ ProjectRequest(h) \/ AppRequest(h)
                                   \/ ProjectWrite(h) \/ AppWrite(h) \/ Abort(h)
        PROVE  TargetsKept'
    <3>1. UNCHANGED envs /\ req'[h].step \notin {"label", "addEnv", "putEnv"}
      BY <2>5, EnvsUntouched
    <3> QED BY <3>1, TargetsFrame
  <2> QED BY <2>1, <2>2, <2>3, <2>4, <2>5 DEF Next
<1>3. TargetsKept => TargetExclusive
  BY DEF TargetsKept
<1> QED BY <1>1, <1>2, <1>3, WorkspaceTypeCorrect, PTL DEF Spec
=============================================================================
