# VelaUX, specified

VelaUX is the control plane user interface of KubeVela: a REST server that keeps
projects, environments, targets, applications and their workflows in a datastore,
renders applications and applies them to Kubernetes as `Application` objects (CRs),
and copies the status of those objects back, and a web interface, a React application
that calls the server. Here the parts in which steps of several actors meet (requests,
the sync worker and the controller in the server; the user, late answers and timers in
the browser) are specified in TLA+, model-checked with TLC, and proved with TLAPS where
that is possible.

## 1. The system

### Components

| component | state | operations | correct when |
|---|---|---|---|
| application delivery (`domain/service/application.go`, `workflow.go`, `envbinding.go`) | revisions and workflow records in the datastore; the CR of each environment | Deploy, RollbackRecord, RollbackWithRevision, terminate, resume, recycle, DeleteApplication | what the datastore shows of a run is what the run did; a deploy waits for the last one; nothing blocks an environment for good |
| workflow status sync (`event/sync/worker.go`, `cr2ux.go`, `SyncWorkflowRecord` in `workflow.go`) | a work queue of CR snapshots, requeue counters | informer events, AddOrUpdate, requeue, give up | every ended run is shown as it ended; the queue drains |
| leader election (`server.go`, `event/event.go`) | a lease | start and stop of the event workers | a new leader makes up for what the old one lost |
| environments (`env.go`, `repository/env.go`) | environments; a label on the control plane namespace | Create, Update, Delete | a namespace belongs to one environment, a target to one environment of a project |
| environment bindings (`envbinding.go`, `repository/envbinding.go`) | bindings, the workflow of each | Create, BatchCreate, Delete, BatchDelete, recycle | a binding has its environment and workflow; what is deployed stays bound |
| targets, projects (`target.go`, `project.go`) | targets, projects, their users | Create, Delete | nothing is deleted while it is in use |
| datastore (`infrastructure/datastore`) | one table per type, in ConfigMaps, MongoDB or SQL | Add, Put, Get, List, Delete, BatchAdd | Add refuses what exists, Put what does not; no transaction spans two calls |
| CLI metadata sync (`event/sync`) | the metadata of applications made outside VelaUX, a cache of synced generations | AddOrUpdate, DeleteApp | two CRs never share an application; nothing of VelaUX's own is overwritten |
| RBAC (`rbac.go`) | roles, permissions | evaluation, CRUD, defaults per project | a deny wins; a user has what the roles give |
| pipelines (`pipeline.go`) | pipelines, contexts, runs | CRUD, run, stop | runs belong to their pipeline; contexts in use stay |
| users, authentication (`user.go`, `authentication.go`) | users, signing key, tokens | login, refresh | only a refresh token refreshes |
| plugins (`pkg/plugin`) | registry, cached routers | install, enable, remove | routes are those of the plugin installed |
| cloud shell (`cloudshell.go`), memory cache (`utils/cache.go`), clusters (`cluster.go`), webhooks, addons, configurations | small state machines over external objects | | |
| views, definitions, expressions, reports, helm, images | none, or read only | | |
| pages of the web interface (`packages/velaux-ui/src/pages`, `layout`) | what was read, open dialogs, spinners, search parameters, timers | mount, click, answer, failure, timer, unmount | the screen shows what the server has once it is quiet; spinners end; one click is one request; what is polled is shown to its end, and polling ends |
| session of the web interface (`services/BackendService.ts`, `utils/resetLogin.ts`) | tokens in local storage; `isRefreshing`, `retryRequests` of each tab | send, refresh, queue, send again, ask for a login, log in and out | one refresh at a time; nothing waits for good; a request is carried out once |
| workflow studio (`components/WorkflowStudio`, `PipelineGraph/dependencies.ts`, `pages/PipelineStudio`) | steps, mode, unsaved changes, a drag or a form in progress | add, edit, delete, move, join, part, change the mode, save, load | a workflow that finishes stays one; the order and the lines are right; what is not saved is marked |
| forms of schemas (`components/UISchema`) | values of one form | | |

`PROJECT.json` lists all of them with their files and what is left out.

### How they interact

Requests run concurrently, each in its own goroutine and, with several replicas, in
several processes. They share nothing but the datastore and the cluster; there is no
transaction and no lock around two calls. `Deploy` adds a revision, applies the CR,
adds a workflow record, resets older records and puts the revision again. The
KubeVela controller (external) runs the workflow of the CR. The leader's informer turns each change
of a CR into a snapshot in the work queue; one worker takes snapshots off it and
writes records and revisions, the same objects requests write. A snapshot that
fails is added again, with a delay, behind newer ones.

In the browser one callback runs at a time. A page is a tree of components; a handler
sets a spinner, calls the API and, when the answer comes, shows it, closes a dialog,
reads other things again or sets a timer. Every request goes through the interceptors
of `BackendService`, which refresh an expired token behind the caller's back.
`api/request.ts` turns a failed call into the answer `undefined`: the code written for
success runs after a failure as well.

### What is hard

* Between a check and the write it guards anything may happen (deploy conflict,
  target conflict, "still in use").
* `Put` writes a whole object read earlier: the last writer wins.
* Every multi-step request can stop half-way: an error is returned, or only logged;
  a restart takes the process away.
* Events are lost with the leader, delivered late and out of order.
* Some checks look at less than they guard (the caller's projects, one project's
  environments), some resets at more (all environments of the application).
* In the browser, between a click and its answer the user clicks elsewhere, closes
  and opens dialogs or leaves; callbacks of components that are gone still run.
* One expired token fails many requests at once, in several tabs.
* The studio's steps are edited while they are saved and loaded.

The `hazards` of `PROJECT.json` name each place with its line and the properties that watch it.

## 2. Modules

| module | contents |
|---|---|
| `Delivery` | delivery of one application to its environments, the sync worker, the leader's restart; the controller as environment |
| `Workspace` | projects, targets, environments with their namespace labels, applications, bindings, workflows and CRs |
| `PageModel` | the vocabulary in which pages are written down: calls, effects, surfaces, timers |
| `Api` | which collection each function of `src/api` reads or changes |
| `AdminPages`, `ApplicationPages`, `ApplicationConfigPage`, `LivePages`, `PipelinePages` | the handlers of 42 pages and their dialogs, one definition each |
| `Console` | the web interface at run time, for any pages |
| `Calls` | what the API promises to a page that makes a request (abstract) |
| `Session` | the interceptors, tokens, refresh and login dialog, which implement `Calls` |
| `Studio` | the workflow studio: the algorithms on lists of steps, the edits, saving and loading |
| `MCDelivery`, `MCWorkspace`, `MCConsole`, `MCSession`, `MCStudio` | instances for TLC |
| `DeliveryTypeProofs`, `DeliveryProofs` | theorems about `Delivery` |
| `WorkspaceProofs`, `SequenceProofs` | theorems about `Workspace`: what holds with concurrent requests, and what requests in sequence keep |
| `ConsoleProofs`, `SessionProofs` | theorems about `Console`, `Session` |
| `StudioProofs`, `EditProofs` | theorems about `Studio`: saving and loading, and what the edits do to the steps |

`Console` runs on the promise of `Calls` (a request is answered once, well or with
`undefined`); `Session` is shown to keep it. `Delivery` and `Workspace` meet in
`Deploy` and `DeleteApplication`: `Delivery` follows the revisions and records of one
application whose environments are given; `Workspace` follows the objects around many applications and keeps of a deploy only that a CR
appears.

### Delivery

A request is in `req[h]`: its kind, the step it is about to take, the version it
generated (`id`), the revision it is about (`ver`) and the objects it has read and
will write (`seen`). Steps follow the datastore and cluster calls:

* `DeployCheck` (render, find the newest revision of the environment), `DeployAdd`,
  `Apply` or `ApplyFails` / `NamespaceFails`, `AddRecord`, `ResetList`,
  `ResetRevisions`, `ResetRecords` (CreateWorkflowRecord with
  resetRevisionsAndRecords), `DeployRunning` (the blind Put of status running);
* `RollbackCheck`, `RollbackRecord`, then record and apply in that order;
  `RollbackToCheck`, `RollbackWithRevision`, then apply, record;
* `ApplicationEnvRecycle`, `TerminateWorkflow`, `ResumeWorkflow`, `DeleteCheck`, `DeleteWipe`;
* the worker: `WorkerTake`, then for every record to look at one of `WorkerOwn`,
  `WorkerSuperseded`, `WorkerLeave`, `WorkerNoRevision`, `WorkerRevisionGone`, with
  `WorkerPutRecord` and `WorkerPutRevision` as the two writes; `WorkerFails` and
  `Redeliver` for requeues; `Restart` for a new leader.

What is abstracted:

* A version or publish version is a number from a clock; two requests in the same
  millisecond are not given the same one (the second Add would be refused, like a failing Add).
* The creation times of records are compared as a set `older` of record names.
* A failing Apply left the CR as it was or, with `LostAnswers`, was carried out and only
  its answer was lost. The Put or Delete that follows it may fail too, which is only logged:
  `ApplyFails` has both outcomes.
* The loops of `resetRevisionsAndRecords` are one step each (`ResetRevisions`,
  `ResetRecords`), in which any of the Puts may fail; what they write is what was listed
  before, so a Put in between by somebody else is overwritten all the same.
* A record is finished when its phase ends a run: the controller, which is external,
  reports both in one status.
* Kubernetes' optimistic lock lives in the external client: an Apply may succeed in
  the model where a conflict would refuse it; a Put conflict is a failing Put.
* Applications are those made in VelaUX. For them `DeleteApp` of the informer finds
  no application (`LabelSyncNamespace` is missing) and changes nothing.
* `RollbackApplicationWithRevision` is called with the revision name the code has just
  cleared, so it matches nothing and the stored configuration is applied.
* `DeleteWipe` deletes revisions, records and application in one step, and none of these
  fails. Step 7 of
  `Deploy` (labels) and the API's DeleteWorkflow are not in this module.
* The queue holds pointers to snapshots, so it never merges two; the informer's
  resync period is zero, so no event is repeated.

### Workspace

A request reads in one action (`CreateEnvCheck`, `DeleteAppCheck`, ...) and then
takes one action per write (`LabelNamespace`, `AddEnv`; `WipeWorkflows`,
`WipeBindings`, `DropApp`; ...). `Abort` ends it between any two: a call fails and
its error is returned, or the server stops. Failures the code only logs are
alternatives of the writes themselves (`Bind`, `Workflow`, `Unlabel`,
`WipeWorkflows`, `WipeBindings`).

* `shareTargets` is a CreateEnv with `AllowTargetConflict`.
* The namespace of a new environment is arbitrary, which includes the choice of
  `defaultEnvNamespace`.
* The merge of the namespace label (external) takes an empty label for a free one
  and is atomic; `DeleteEnv` clears it whoever holds it.
* `CreateEnv` does not look at the project; `DeleteEnv` of an environment that is
  gone does nothing.
* A user is the set of projects the user is a member of. The memberships are fixed.
* `CreateApplication` is given at most one environment. Privileges, policies,
  components, target namespaces and workflows other than the one made for a
  binding are left out.

### Console and its pages

A page is a record: its `handlers`, what each surface (the page, a dialog, a drawer)
calls when it is mounted, what it `offers` the user unless a spinner blocks it, and the
timers it clears when it goes. A handler is a call of the API with the spinners it sets
and its effects after an answer and after a failure: `Show`, `Close`, `Run`, `Reload`,
`Poll`, ... The tables are read side by side with the components:
`CreatePipeline_onSubmit` is the `onSubmit` of `CreatePipeline`, `X_render` is what `X`
offers.

`Console` gives the tables their meaning. The variable `page` is the page that was opened,
with its record (`Opened`). `Click` is a click, `Answer` and `Fail` the two
ends of a call with the whole `then`, `catch` and `finally` of its handler, `Fire` a timer,
`GoAway` another page, `End` the end of what the page watches (a run, an addon, a
module). A request carries the `life` of its component: `surface` while it is mounted,
`page` when it is gone and the page is not, `none` when both are. State set by a component
that is gone is lost; what it calls on its page is called.

What is shown is abstracted to a version: `server[r]` counts the changes of a collection,
`shown[n]` is the version and the parameters a reader last put on the screen. A read is
served at some moment between its request and its answer: a request remembers the version
it could read first (`since`), and its answer brings that or any later one (`Carried`).
So it is with the end of what is watched (`over`, `Found`): the code looks for it in
the answer. Requests of one handler are numbered; an answer moves those after it up
(`Renumbered`).

Answers come in any order: nothing in `api/request.ts` or the server puts them into the one
they were asked in. A handler that uses them as they come then shows what was asked
first, when that is answered last. A request is `late` once its component has had the answer to a
later one, and `shown[n].late` says that a late answer is on the screen. The one handler that
uses only the answer to its last request (`LatestOnly`, `ApplicationConfig/index.tsx:468`) drops
the others (`Dropped`, `Overtaken`).

* The user holds all permissions; forms are valid, except where a handler does
  something before it validates them. A dialog of confirmation is part of the click.
* A Button of `@alifd/next` with `loading` takes no clicks. Dialogs are modal, but for the
  surfaces in `PartsOfPage`.
* A callback of a surface that was closed and opened again reaches the other surfaces and
  not the new one of its kind (`within` in `Effects`), which has a state of its own.
* An interval is set again each time it fires. What a watched object ends in stays.
* The configuration page of an application is split into its sections, which share no
  collection; handlers called by handlers run in the same step.
* A page is opened for one application and environment. Logs are refreshed
  automatically, as they are unless the user switches that off.

### Session

`st[r]` is where a request is: sent, replied, waiting for the refresh it started, queued,
told to its caller, or gone with its page. `Serve` is the server's check of the token
and the request itself; `HandleOk` to `Enqueue` are the branches of the response
interceptor; `ServeRefresh`, `Granted` and `Refused` the call of `refresh_token` with
the `then` that sends the queue and the owner again, and the `catch` that asks for a login.
`token` and `hasRefresh` are in local storage and shared by the tabs: `Logout` and
`Login` of any tab change them in the middle of a refresh. `Expire` ages the access
token, `RefreshTokenExpires` the other. A request or an answer may be `Lost`.

`late` is a history variable: requests that were queued after the refresh had been
answered but before `isRefreshing` was reset. The login request itself is abstracted
to its result.

### Studio

A step is its name and its `dependsOn`; which outputs it reads is fixed by `Inputs`. The
algorithms are operators (`waitsOn`, `orderByDependencies`, `forwardWaits`,
`stepEdges`, `canDependOn`, `canMove`, `insertAfter`, ...), the handlers of the graph and of
the forms are actions, and so are the three ends of a save: `Saved`, `SaveLost`, and the
load that follows (`Loaded`, `LoadFails`). `doing` is a line being drawn or a form being
filled in, with the steps it was opened over: the drag's listeners keep those, whatever is
loaded meanwhile.

* `onMove` and the removal of a step (`Without`) find steps by name, as the code does: a
  move of a name that is there twice leaves an entry undefined and the page breaks
  (`Broken`); nothing is drawn after that.
* The sub-steps of a group are a list that the same functions edit; groups, the loop
  editor and the YAML view are left out.
* Saves and loads are answered in the order they were asked. One studio is open.

## 3. Runs

| run | instance | what it shows |
|---|---|---|
| `delivery_ledger` | 2 environments, 2 versions; deploy, rollback, rollback to a revision, terminate, resume; one failing call anywhere, also one that was carried out, one restart | `CompleteIsEarned`, `SucceededIsEarned`, `FinishedIffEnded`, `ReopenedByOwnRun`: an interrupted run never becomes a success, half-done requests and syncs and application-wide resets keep the ledger honest, an old event never opens a newer record |
| `delivery_concurrent` | 2 requests at a time; deploy, force, delete | `FinishedIffEnded`, `ReopenedByOwnRun`, `TypeOK` with stale Puts and records whose revision is gone |
| `delivery_admission` | 1 request at a time; deploy, terminate, resume, recycle; a fault, of which no answer is lost, and a restart; three events may wait | `DeployWaitsForLast` |
| `delivery_liveness` | deploy, one requeue, one restart, fairness | `QueueDrains`, `ConvergesWithoutRequeue` |
| `workspace_sequence` | 2 environments, targets and applications, every request but deleteWorkflow one at a time, one fault | `DeployedIsBound`, `TargetExclusive`, `ProjectExists`, `TypeOK`; until a call fails, `BoundEnvExists` and `BindingHasWorkflow` |
| `workspace_namespaces` | 2 requests at a time for environments and applications, one fault, no DeleteEnv | `NamespaceOwned` |
| `console_pages` | 42 pages, three clicks on each (two on the long ones, one on those with most under way), answers in any order, one failing call, timers | `FreshWhenQuiet`, `SpinnersEnd`, `OneSubmit`, `OnePoll`, `TypeOK`; the exceptions are sets of `MCConsole` |
| `console_live` | the 17 pages that watch something, one click, one failing call, fairness | `PollingEnds`, `ShowsTheEnd` |
| `session` | two requests of one tab, another tab that logs in and out, three access tokens, one loss, fairness | `OneRefresh`, `QueueIsServed`, `TypeOK`; `KeepsPromise`, the refinement of `Calls`; `AllAnswered` |
| `studio` | every loop-free pipeline of one or two steps, three names, four edits, one lost answer | `StaysFinishing`, `UnsavedIsMarked`, `TypeOK`; in every list reached, `OrderIsBest` and `LinesSayAll` against reference definitions |

Runs that end in a violation, each of a sentence in the repository:

| run | shows |
|---|---|
| `delivery_stale_retry` | a requeued snapshot is synced after a newer one and turns the ended record back to executing, for good |
| `delivery_stuck_conflict` | the run ends before the deploy's last Put, which sets the revision back to running: every later deploy that is not forced is a conflict |

### Limits of the code

The passing runs of the server stay inside what these leave, and inside more limits of the
code that the models show when a run is given more room:

* deploying to one environment marks the other's running revision as terminated
  (`resetRevisionsAndRecords`, `workflow.go:862`, lists the whole application), so the other accepts a
  deploy while its run goes on: `DeployWaitsForLast` is checked with one environment;
* an answer of Apply that is lost after the cluster took the CR marks the revision as failed
  (`application.go:999`) while its run goes on, and the next deploy takes its place: with
  `LostAnswers` TLC violates `DeployWaitsForLast`;
* a deploy right after a rollback is let through while the run of the rollback goes on:
  the revision the CR names then is the complete one that was rolled back to, and its
  status says so. A forced deploy whose Apply fails leaves a failed revision in front of a
  run that goes on, and the next deploy, not forced, is let through. So
  `DeployWaitsForLast` is checked and proved without rollbacks and forced deploys;
* a deploy that cannot create its namespace leaves its revision in status init
  (`application.go:992`), and every later deploy that is not forced is a conflict;
* `DeleteEnv` clears the namespace's label before it deletes the environment
  (`env.go:84`); when the Delete fails another environment takes the namespace:
  `NamespaceOwned` is checked without DeleteEnv;
* a user outside the application's project sees no applications in an environment and
  deletes it with the application in it (`application.go:239`): in the runs every user
  is a member;
* with two requests at a time, two environments created together pass
  `checkEnvTarget` before either is added and both get the target, so
  `TargetExclusive` is checked with one request at a time;
* with two projects, an application bound to an environment of the other project is
  deleted while it is deployed there, since `GetEnvBindings` lists the environments
  of its own project only, so `DeployedIsBound` is checked with one project.

Those of the web interface are named where they are excepted:

* `MCConsole`: `Stale` (readers that show what the server no longer has), `Races` (readers
  that are asked again while an older answer is due), `Stuck` (spinners that stay
  on), `Twice` (buttons whose spinner is never switched on) and `Leak` (timers that are
  not cleared). Each member is a place in the code. TLC shows the property
  violated without it, for all but the following.

  Of `Stale`, `Stuck` and `Leak` nine members are on pages that the run gives one
  click. Six take two, which TLC shows when it is given that page alone: the status of all environments
  on the two pages of the status, the detail and the polled status of an addon, the list of addons
  when a registry is answered after its dialog has closed, and the dry run of `ApplicationLayout`. Three take more and
  are known from the assumptions of the proofs, which fail without them: an addon that is
  enabled in the drawer over the list (both pages of addons) and the deploy of `ApplicationGraph`.

  `Races` has fifty. Users asks once per key (`Users/index.tsx:92`), and nearly every list
  is read when its page appears and again after the first change: none of them numbers its
  requests, as the list of component types does. The older answer is then on the
  screen until something else is done. TLC shows forty-two of them so; the last eight of the set
  take more clicks, or are asked again only as the page goes. The exception in `FreshWhenQuiet` is for a late
  answer alone: a member of `Races` whose last answer came last is held to what the server has.
* `Session`: requests in the queue are never settled when the refresh is refused; a
  request that fails with 12002 after the refresh was answered but before
  `isRefreshing` is reset waits for the next refresh (`late`); when the owner's own retry
  fails so, it queues itself and `isRefreshing` stays set; a request that is sent
  again and fails for a reason of its own asks for a login with the words "The token is
  expired(12010)" (`BackendService.ts:102`); a logout during a refresh is undone by its answer; the
  `ResetLogin` made on the login page never shows its dialog later.
* `Studio`: a line or a form that is open while a load arrives can make a loop, a
  duplicate name or a wait on a step that is gone (`Undisturbed` excludes it),
  although `add-step.tsx:143` says a step is added "only once every stage is valid"; forms may
  choose any `dependsOn`, the step itself among them, and switching to run in order drops
  that wait of a step on itself without a word; a name that is there twice breaks the page
  when it is moved; edits made between a save and the load that follows it are
  overwritten; settings that were applied lose their mark when the steps are edited back
  (`PipelineStudio/index.tsx:102`); a load that fails throws and leaves the mark off.

Also met while the pages were read, and modelled as they are: the configuration
distribution dialog, `Namespace.createNamespace` and `RegistryManage.onOk` go on as after
success when the call failed; `setExpressionOptIn` takes a failure for a success; the late
answer of a dialog that was closed closes the one opened since; a failed refresh of the
DefKit list empties it and stops its polling; `addOrUpdatePlugin` never adds and the merge
of the plugin list never removes.

`BindingHasWorkflow` is stated without the request that deletes a
workflow directly, which asks nothing about the binding. `BoundEnvExists` and
`BindingHasWorkflow` speak of behaviours without a failed call (`faults = 0`):
CreateApplication only logs a workflow it could not add, and makes the bindings
before the application.

### Bounds

`MaxId` versions: two let a run be superseded and rolled back to. `MaxQueue`
silences the cluster when so many events wait; one is enough for a request to
overtake the worker, two or three for events of different runs to wait together.
`MaxRequeue` is 5 in the code; 0 and 1 already separate "given up" from "requeued",
and `delivery_stale_retry` uses 5. `MaxFault` and `MaxRestart` are 0 or 1: each
property is about what one failure leaves behind. `LostAnswers` says whether that failure
may be an answer that is lost; it is set where the properties are claimed to stand it. In `Workspace` two environments,
two namespaces and one or two of the rest are what the properties, which relate
two objects of a kind, can tell apart. Handlers are interchangeable, and
`delivery_concurrent` uses that as a symmetry.

`MaxClicks` in `Console`: three clicks open a dialog, submit it and do one more thing
while the answer is due; two on the pages with most handlers (`LongPages`), one on those that
have many requests under way already when they appear (`BusyPages`), whose answers in
every order are most of the states. Leaving the page is
a click too. For the liveness run one is enough,
to open, change or leave; what follows comes of answers and timers. The address of an addon
(`AddonsOfAddress`) opens its drawer without a click. What longer sequences of clicks could do to
the invariants is left to the theorems, which have no bound.
`MaxCalls` keeps a timer from firing while a request is under way, as the intervals
of seconds do; the requests of clicks are not bounded by it. `MaxFault` is 1: the
properties that speak of failures are about what one leaves.
`MaxTokens` is 3: the first token expires, and the second as well. Two requests are an
owner of the refresh and one in its queue. In `Studio` two stored steps and a third that
can be added, which reads an output of the first, give chains, forks, loops and duplicate names;
four edits are enough to reach every list of three steps.

`CHECK_DEADLOCK FALSE` in the runs of `Delivery`: when all versions are used up
and every run has ended the system rests. So do the web interface once its clicks are
used up, the session once its requests are answered, and the studio.

### Fairness

`FairSpec` assumes that a request that started goes on (its goroutine is not
descheduled for good), that the worker's loop runs, that a rate-limited snapshot is
added again (the queue's timer), and that the controller starts a CR it is given.
Nothing makes a user ask, a run end, a call fail or a leader restart.
`ConvergesWithoutRequeue` has the proviso that the last leader requeues nothing:
without it the property is the one `delivery_stale_retry` violates.

In `Console` every call is answered, unless it fails first, and every timer that is set
fires: axios settles each request, and the browser runs timers. Answers come in any order, and so fairness
is of the oldest request of each handler that a timer calls: it does not wait for ever while younger ones
are answered. In `Session` requests that are
sent reach the server or are lost, and answers are handled; nothing makes a token
expire, a user log in or a dialog be confirmed.

## 4. Proofs

All theorems are about `Spec`, for every value of the constants that satisfies the named
assumptions of the module: any number of environments, requests, tabs, steps, clicks
and failures, and any pages. Some theorems have further hypotheses,
which they state; the limits of section 3 are the reasons for them.

### Delivery

* `TypeCorrect`: `TypeOK`. It needs `Bound`: revisions, records and requests carry
  only versions the clock has generated.
* `CompleteEarned`, `SucceededEarned`, `FinishedEnded`, from
  `IInv == TypeOK /\ Bound /\ Fresh /\ Honest /\ FinishedIffEnded`.
  `CompleteIsEarned` is not inductive: a status reaches a revision through an event, the
  worker's copy, or a copy a request read earlier and will Put. `Honest` says the same of
  all these carriers: a copy that says complete, an event that says succeeded, is about a
  run that succeeded. That is stable because success is: `Fresh` says a version not yet applied
  has no run, so no Apply or StartRun sets back the run of a version that
  succeeded. `FinishedIffEnded` is inductive with the types.
* `ReopenedOnlyByOwnRun`: `ReopenedByOwnRun`. `RecordedOnce` says that a record which a
  request is about to add is not there yet, so an Add opens nothing that was finished;
  `OwnSync` that the record in the worker's hands is written open only from an event
  of the record's own run.
* `DeploysWait`: `DeployWaitsForLast`, under `InTurn`: one environment, one request at a
  time, no rollback and no forced deploy among the requests, no lost answers. The deploy
  reads a status, and statuses lag behind the runs, so `Admitted` follows every way a
  status that lets a deploy pass (complete, failed, terminated) can reach the revision
  the CR names: from an event (`Reported`: it says ended only if the run ended), through
  the worker's copy (`AdmittedWorker`), through what a request read and will Put
  (`AdmittedRequest`), and it ties the CR to the newest revision (`AdmittedCR`). The
  lemma `CarriedStep` says where every event in the queue, in the worker and among the
  requeued comes from, once for `Honest` and `Admitted`.

### Workspace

* `WorkspaceTypeCorrect`: `TypeOK`, in which `Knows` says that a request at a write has
  the objects of that write.
* `NamespaceOwnedUntilDelete`: without DeleteEnv, `NamespaceOwned` holds for any
  number of concurrent and failing requests. `LabelHeld`: an environment, and one about to be
  added, holds the label of its namespace, and UpdateEnv writes the namespace it has read.
* `TargetExclusiveOneAtATime`: one request at a time and without
  `AllowTargetConflict`, `TargetExclusive`. `TargetsKept`: the targets of
  an environment about to be written are still apart from all others.
* `ProjectsExist`: one request at a time (`OneAtATime`), `ProjectExists`. `ProjectsKept`:
  a project about to be deleted has nothing in it, one about to be written into is there.
* `DeploysBound`, `BoundEnvsExist`, `BindingsHaveWorkflows`: one request at a time and every
  user a member of every project (`Members`), the three invariants hold as long as bindings
  stay inside a project (`[]WithinProject`, a hypothesis on the behaviour, as nothing in
  CreateEnvBinding enforces it); the last one without `deleteWorkflow`. `DeploysKept`,
  `BindingsKept` and `WorkflowsKept` say of each request in the middle of its writes which
  part of the invariant it has taken back and what its check still guarantees. The last two
  speak of behaviours in which no call has failed; `DeployedIsBound` holds in all.
* `OneProjectKept`: with a single project `WithinProject` is a consequence of the types, and
  the three hold of `Spec` itself.

### Console

Each theorem holds for all pages that satisfy an assumption about their handlers; TLC
evaluates the assumptions on the 42 pages in `console_pages`.

* `SpinnersCorrect`: `SpinnersEnd`, with `PagesAssumption` (a page
  names what it has) and `SpinnerAssumption` (a handler switches its spinners off
  after every answer, or the spinner is a known one).
  `SpinInv`: each spinner that is on is a known one or has a request under way, of a
  component that is mounted, that will switch it off. The work is in `Effects`: closing,
  opening and leaving take the spinners and the life of the requests together.
* `TypeCorrect`: `TypeOK`, which says what belongs to whom: spinners and what is shown to
  mounted surfaces, callbacks to components that are there, or to none once the page is left.
* `SubmitsOnce`: `OneSubmit`, with `SubmitAssumption`: a guarded button is blocked by a
  spinner of its own, and whoever else sends its request is blocked by it too, or is
  offered by a dialog that opens over the page while the spinner is on and closes with the
  click. `SubmitInv`: a request under way has its spinner on, or that dialog is open and
  there is no request.
* `PollsOnce`: `OnePoll`, with `TimerAssumption`: a timer is set by those who see that
  it is not set, an interval is started when the page appears.
* `FreshCorrect`: `FreshWhenQuiet`, with `FreshAssumption` (`KeepsFresh`), for answers in any
  order. It says of each reader that is not a
  known one that no other handler fills in what it shows, and that one of two holds.
  `Rereads`: every handler that writes its collection, every one that changes its
  parameters, and every one that switches off a spinner it waits for, *renews* it: closes its surface, leaves the
  page, or calls without condition a
  handler of `R`; and `InAnyOrder`: either the handler uses only its last answer, or it is
  asked once per surface (`OnlyMounted`), or it is always answered the same (`Unchanging`), or it is in `KnownRaces`.
  `Repeats`: its answer sets a timer for it, and who stops that timer renews
  it. `R` is any set of handlers whose own answer shows the reader anew or renews it; TLC
  evaluates it as those that come to the reader in four calls (`Renewers`). How many
  calls it takes plays no part in the proof.

  The invariant is `FreshInv`. `Ranked`: the requests of a handler are numbered from one
  without gaps, what is asked after a request of a mounted component is of that component
  too, and where only the last answer is used none that is under way is late. `RereadOK`: a request of another handler
  of `R` is under way, or the reader waits for a spinner, or else what is shown is
  current or late or a request is under way, and the last request was sent since the last change with the
  parameters that are set. `RepeatOK`: what is shown is the end, or a timer of the
  surface is set, or a request is under way. `MountedOK` and `SameOK` say why the order plays no part for
  the second and third kind of reader: there is one request of a component at a time, or all of them are current.
  `Ranked` is needed because an answer may overtake others: that the
  last request is current says something of the screen only if no older answer comes after
  it. All effects of a callback are looked at once, in `Callback`, of which clicks, answers and
  timers are instances; a failure ends what the property speaks of, and leaves `Ranked`.

### Session

From `Inv == TypeOK /\ RequestInv /\ RefreshInv /\ OneRefresh /\ QueueIsServed`:

* `TypeCorrect`, `RefreshCorrect`, `QueueCorrect`: `TypeOK`, `OneRefresh`,
  `QueueIsServed`. `RefreshInv` says that the request for which a tab refreshes waits
  and is the tab's own.
* `PromiseKept`: `KeepsPromise`, that `Session` implements `Calls`. `RequestInv` says
  that a request which waits, is queued or is on its way has not been carried out: an
  answer 12002 comes from the token check, before the handler, and a lost answer is
  not asked for again.

### Studio

* `UnsavedMarked`: `UnsavedIsMarked`. `UnsavedInv` follows the answers still due: the
  last load asked for brings what the server has, unless a save has been carried out and not
  answered, which then asks for another load.
* `StudioTyped`: `TypeOK`, from `EditInv`, which adds what the forms and drags in progress
  hold.
* `GraphKeepsFinishing`: `StaysFinishing`, for workflows of any length. A loop-free list
  is one in which no set of steps is closed under "waits on one of the set"; every edit is
  shown to make no such set. Edits in the graph never make a step wait on itself
  (`NamesOthers`), which the forms may.
* `OrderBest`: `OrderIsBest`: what `orderByDependencies` returns is an order in which no step
  waits on a later one, and the first such order by the places of the steps.
* `LinesTellAll`: `LinesSayAll`: the lines drawn have the same closure as the waits, and no
  line follows from the others.

The last three are about recursive functions on lists of any length. The prover cannot
instantiate an induction theorem with an operator; the induction is done by hand, as a
least counterexample: `UpTo`, `Least` and `Walks` take a *set* of numbers and follow from
`WFMin` with `NatLessThanWellFounded`. `Reaches` is characterised as the least set that is
closed under the links, which needs no induction where it is used.

### Only model-checked

The liveness properties `QueueDrains`, `ConvergesWithoutRequeue`, `PollingEnds`,
`ShowsTheEnd` and `AllAnswered`, which rest on fairness, are out of the prover's reach. Every
invariant that a run checks is stated by a theorem. The assumptions on the pages are about
the 42 given ones: TLC evaluates them.

## 5. Not modelled

Rendering, definitions, expressions, reports, configurations and views transform data
and keep no state that several actors share. Addons, helm, images, clusters and the
identity provider are calls of libraries and services. The web interface draws schemas,
tables and graphs: what is drawn, the forms of `UISchema` and the types of `velaux-data` are
left out, its control is in `Console`, `Session` and `Studio`. The controller,
the lease protocol, the informer and the Kubernetes API are external and appear only as far as the code uses them.

The server's CLI metadata sync, RBAC, plugins, cloud shell, memory cache and the
rollback of `BatchAdd` have state and races of their own and are left to the plan:
`event/sync/cache.go:64` guesses a key after a restart, `cr2ux.go:71` joins a name and a
namespace to one name, `in_memory.go:49` and `router.go:53` look up and store in two
steps, `utils/cache.go:76` sweeps what may have been replaced.

## 6. Plan

Done: `Delivery` first, as it carries what users see of a deployment, then `Workspace`
around it; then the web interface: `Console` with its pages, `Session` with the abstract
`Calls`, and `Studio`; then the theorems of section 4.

1. `MetaSync`: applications made with the CLI, the cache of synced generations, the
   composed names, the deletion of an application when its CR goes. An abstract `Ledger`
   (a run is open, then ended once, and shown as it ended) that `Delivery` implements
   where it does.
2. `Permissions` (evaluation of RBAC as operators against a reference definition, deny
   over allow), then the permissions of the requests of `Workspace` and of the pages.
3. `Plugins` (registry and cached routers), `Store` (BatchAdd with its rollback),
   `CloudShell`, `MemoryCache`; the groups of `Studio`.
