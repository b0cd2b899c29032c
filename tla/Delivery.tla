------------------------------ MODULE Delivery ------------------------------
(***************************************************************************)
(* The delivery of one application: the API requests that deploy, roll     *)
(* back, recycle, terminate, resume and delete it                          *)
(* (pkg/server/domain/service/{application,workflow,envbinding}.go), the   *)
(* leader's sync worker that copies the status of the Application CRs      *)
(* back into the datastore (pkg/server/event/sync), and, external, the     *)
(* KubeVela controller that runs the workflow of each CR.                  *)
(*                                                                         *)
(* A request is split at its datastore and cluster calls, because that is  *)
(* where requests, the sync worker and the controller interleave; each     *)
(* Put writes the whole object the request has in memory.                  *)
(*                                                                         *)
(* One identifier stands for what one request generates from the clock: a  *)
(* deploy's revision version and its publish version (the name of its      *)
(* workflow record) are the same identifier, a rollback generates only a   *)
(* publish version.  The ApplicationRevision CR of a run is named by the   *)
(* run's publish version.                                                  *)
(***************************************************************************)
EXTENDS Integers, Sequences

CONSTANTS
    Envs,        \* the environments the application is bound to
    Workflows,   \* the application's workflows
    NoWorkflow,  \* no workflow
    EnvOf,       \* the environment of each workflow
    ListOrder,   \* the order in which the API server lists the CRs
    Handlers,    \* API requests that may be in flight at a time
    Requests,    \* the kinds of request the users make
    MaxId,       \* bound: versions generated
    MaxQueue,    \* bound: queued events at which the cluster falls silent
    MaxRequeue,  \* how often a failing event is requeued (5 in worker.go)
    MaxFault,    \* bound: failing datastore and cluster calls
    MaxRestart,  \* bound: restarts of the leader
    LostAnswers  \* may an Apply that returns an error have been carried out

AllRequests ==
    {"deploy", "force", "rollback", "rollbackTo", "recycle", "delete",
     "terminate", "resume"}

ASSUME ConstantsAssumption ==
    /\ NoWorkflow \notin Workflows
    /\ EnvOf \in [Workflows -> Envs]
    /\ ListOrder \in Seq(Envs)
    /\ Requests \subseteq AllRequests
    /\ MaxId \in Nat
    /\ MaxQueue \in Nat
    /\ MaxRequeue \in Nat
    /\ MaxFault \in Nat
    /\ MaxRestart \in Nat
    /\ LostAnswers \in BOOLEAN

VARIABLES
    app,       \* does the application exist in the datastore
    revs,      \* datastore: application revisions
    recs,      \* datastore: workflow records
    ann,       \* the workflow and deploy version a publish version is for
    cr,        \* cluster: the Application CR of each environment
    runs,      \* cluster: the phase of the run of each publish version
    queue,     \* the sync worker's work queue
    delayed,   \* events waiting out their rate limit
    worker,    \* the sync worker
    req,       \* the requests in flight
    nextId,    \* the clock that generates versions
    faults,    \* calls that failed so far
    restarts   \* leader restarts so far

store == <<app, revs, recs>>
cluster == <<ann, cr, runs>>
sync == <<queue, delayed, worker>>
bounds == <<faults, restarts>>
vars == <<store, cluster, sync, req, nextId, bounds>>

Ids == 1..MaxId
OptId == 0..MaxId

Ended == {"succeeded", "failed", "terminated"}
RunPhase == {"none", "executing", "suspending"} \cup Ended
RecStatus == {"initializing", "failure"} \cup RunPhase
RevStatus ==
    {"none", "init", "running", "complete", "failure", "terminated", "rollback"}

Revision ==
    [status : RevStatus, cr : OptId, wf : Workflows \cup {NoWorkflow}, rb : OptId]
Record == [status : RecStatus, finished : BOOLEAN, older : SUBSET Ids]
Event == [rec : OptId, phase : RunPhase, tries : 0..MaxRequeue]
Copy == [id : OptId, status : RevStatus, cr : OptId, rb : OptId]
Steps ==
    {"add", "mark", "clear", "apply", "record", "list", "reset", "records",
     "running", "wipe"}
Handler ==
    [op : Requests \cup {"none"}, step : Steps \cup {"idle"},
     wf : Workflows \cup {NoWorkflow}, id : OptId, ver : OptId,
     seen : SUBSET Copy]

NoRevision == [status |-> "none", cr |-> 0, wf |-> NoWorkflow, rb |-> 0]
NoRecord == [status |-> "none", finished |-> FALSE, older |-> {}]
NoEvent == [rec |-> 0, phase |-> "none", tries |-> 0]
Idle == [op |-> "none", step |-> "idle", wf |-> NoWorkflow, id |-> 0,
         ver |-> 0, seen |-> {}]
Worker ==
    [step : {"rest", "next", "record", "revision"}, event : Event,
     todo : SUBSET Ids, at : OptId, phase : RunPhase, rev : SUBSET Copy]
Resting == [step |-> "rest", event |-> NoEvent, todo |-> {}, at |-> 0,
            phase |-> "none", rev |-> {}]

Init ==
    /\ app = TRUE
    /\ revs = [v \in Ids |-> NoRevision]
    /\ recs = [n \in Ids |-> NoRecord]
    /\ ann = [n \in Ids |-> [wf |-> NoWorkflow, ver |-> 0]]
    /\ cr = [e \in Envs |-> [spec |-> 0, status |-> 0]]
    /\ runs = [n \in OptId |-> "none"]
    /\ queue = <<>>
    /\ delayed = {}
    /\ worker = Resting
    /\ req = [h \in Handlers |-> Idle]
    /\ nextId = 1
    /\ faults = 0
    /\ restarts = 0

-----------------------------------------------------------------------------
(* The datastore and the cluster *)

RevExists(v) == v \in Ids /\ revs[v].status # "none"
RecExists(n) == n \in Ids /\ recs[n].status # "none"

\* A revision as a request has read it, and the Put of such an object: it
\* overwrites what was written since, but cannot bring a deleted one back.
CopyOf(v) ==
    [id |-> v, status |-> revs[v].status, cr |-> revs[v].cr, rb |-> revs[v].rb]

PutRevision(c) ==
    IF RevExists(c.id)
    THEN [revs EXCEPT ![c.id] = [status |-> c.status, cr |-> c.cr,
                                 wf |-> @.wf, rb |-> c.rb]]
    ELSE revs

\* The revision a deploy has in memory: RevisionCRName and RollbackVersion are
\* empty in it.
Deployed(v, status) == [id |-> v, status |-> status, cr |-> 0, rb |-> 0]

\* An object known by its name alone.
Named(n) == [id |-> n, status |-> "none", cr |-> 0, rb |-> 0]

\* A call that fails, out of the budget of faults.
Fault == faults < MaxFault /\ faults' = faults + 1 /\ UNCHANGED restarts

\* The watch event for the CR of environment e whose new state is c.
Watched(c, phases) ==
    queue' = Append(queue, [rec |-> c.status, phase |-> phases[c.status], tries |-> 0])

Quiet == Len(queue) < MaxQueue

\* Room for one more version.
Room == nextId <= MaxId

Start(h, kind) == kind \in Requests /\ req[h] = Idle /\ app

-----------------------------------------------------------------------------
(* Deploy: application.go *)

\* The status Deploy reads off the last revision: a rolled back revision has
\* the status of the one it was rolled back to.
DeployStatus(v) ==
    IF revs[v].status # "rollback" THEN revs[v].status
    ELSE IF RevExists(revs[v].rb) THEN revs[revs[v].rb].status ELSE "none"

\* Mutant: only a running last revision is a conflict, not one still in init.
LastCompletedUnlessRunning(e) ==
    LET mine == {v \in Ids : RevExists(v) /\ EnvOf[revs[v].wf] = e}
    IN  \A v \in mine : (\A u \in mine : u <= v) => DeployStatus(v) # "running"

LastCompleted(e) ==
    LET mine == {v \in Ids : RevExists(v) /\ EnvOf[revs[v].wf] = e}
    IN  \A v \in mine :
            (\A u \in mine : u <= v)
                => DeployStatus(v) \in {"complete", "terminated", "failure"}

\* Render the application and check the last revision of the environment.
DeployCheck(h, w, kind) ==
    /\ kind \in {"deploy", "force"}
    /\ Start(h, kind)
    /\ Room
    /\ kind = "force" \/ LastCompleted(EnvOf[w])
    /\ req' = [req EXCEPT ![h] = [Idle EXCEPT !.op = kind, !.step = "add", !.wf = w]]
    /\ UNCHANGED <<store, cluster, sync, nextId, bounds>>

\* Add the revision, in status init.
DeployAdd(h) ==
    /\ req[h].step = "add"
    /\ Room
    /\ revs' = [revs EXCEPT ![nextId] =
                   [NoRevision EXCEPT !.status = "init", !.wf = req[h].wf]]
    /\ ann' = [ann EXCEPT ![nextId] = [wf |-> req[h].wf, ver |-> nextId]]
    /\ nextId' = nextId + 1
    /\ req' = [req EXCEPT ![h] = [@ EXCEPT !.step = "apply", !.id = nextId, !.ver = nextId]]
    /\ UNCHANGED <<app, recs, cr, runs, sync, bounds>>

\* Apply the CR.  A deploy goes on to create its record; RollbackRecord has
\* created its record already and is done.
Apply(h) ==
    LET e == EnvOf[req[h].wf]
        c == [cr[e] EXCEPT !.spec = req[h].id]
    IN  /\ req[h].step = "apply"
        /\ cr' = [cr EXCEPT ![e] = c]
        /\ Watched(c, runs)
        /\ req' = [req EXCEPT ![h] =
                      IF @.op = "rollback" THEN Idle
                      ELSE [@ EXCEPT !.step = "record", !.seen = {}]]
        /\ UNCHANGED <<store, ann, runs, delayed, worker, nextId, bounds>>

\* Apply returns an error: the API server refuses the CR or, where answers are lost, has
\* taken it.  A deploy marks its revision failed, RollbackRecord deletes the record it
\* made, which is only logged if it fails too, RollbackWithRevision returns.
ApplyFails(h) ==
    LET e == EnvOf[req[h].wf]
        c == [cr[e] EXCEPT !.spec = req[h].id]
    IN  /\ req[h].step = "apply"
        /\ Fault
        /\ \/ UNCHANGED <<cr, queue>>
           \/ /\ LostAnswers
              /\ cr' = [cr EXCEPT ![e] = c]
              /\ Watched(c, runs)
        /\ revs' \in {revs, IF req[h].op \in {"deploy", "force"}
                            THEN PutRevision(Deployed(req[h].ver, "failure"))
                            ELSE revs}
        /\ recs' \in {recs, IF req[h].op = "rollback"
                            THEN [recs EXCEPT ![req[h].id] = NoRecord]
                            ELSE recs}
        /\ req' = [req EXCEPT ![h] = Idle]
        /\ UNCHANGED <<app, ann, runs, delayed, worker, nextId>>

\* The namespace cannot be created: the deploy returns and leaves its
\* revision as it is.
NamespaceFails(h) ==
    /\ req[h].step = "apply"
    /\ req[h].op \in {"deploy", "force"}
    /\ Fault
    /\ req' = [req EXCEPT ![h] = Idle]
    /\ UNCHANGED <<store, cluster, sync, nextId>>

\* Put the revision the deploy has in memory, now running, over whatever the
\* sync worker has written since.
DeployRunning(h) ==
    /\ req[h].step = "running"
    /\ revs' = PutRevision(Deployed(req[h].ver, "running"))
    /\ req' = [req EXCEPT ![h] = Idle]
    /\ UNCHANGED <<app, recs, cluster, sync, nextId, bounds>>

\* That Put fails, which is only logged.
RunningFails(h) ==
    /\ req[h].step = "running"
    /\ Fault
    /\ req' = [req EXCEPT ![h] = Idle]
    /\ UNCHANGED <<store, cluster, sync, nextId>>

-----------------------------------------------------------------------------
(* CreateWorkflowRecord and resetRevisionsAndRecords: workflow.go *)

\* What follows CreateWorkflowRecord: a deploy logs its error and goes on,
\* RollbackRecord applies the CR only after a success, the others are done.
AfterRecord(r, ok) ==
    CASE r.op \in {"deploy", "force"} -> [r EXCEPT !.step = "running", !.seen = {}]
      [] r.op = "rollback" /\ ok -> [r EXCEPT !.step = "apply", !.seen = {}]
      [] OTHER -> Idle

AddRecord(h) ==
    /\ req[h].step = "record"
    /\ recs' = [recs EXCEPT ![req[h].id] =
                   [status |-> "initializing", finished |-> FALSE,
                    older |-> {n \in Ids : RecExists(n)}]]
    /\ req' = [req EXCEPT ![h] = [@ EXCEPT !.step = "list"]]
    /\ UNCHANGED <<app, revs, cluster, sync, nextId, bounds>>

\* The record cannot be added, or the running revisions cannot be listed.
RecordFails(h) ==
    /\ req[h].step \in {"record", "list"}
    /\ Fault
    /\ req' = [req EXCEPT ![h] = AfterRecord(@, FALSE)]
    /\ UNCHANGED <<store, cluster, sync, nextId>>

\* List the running revisions of the application, in every environment.
ResetList(h) ==
    /\ req[h].step = "list"
    /\ LET others == {v \in Ids : revs[v].status = "running" /\ v # req[h].ver}
       IN  req' = [req EXCEPT ![h] = [@ EXCEPT !.step = "reset",
                                               !.seen = {CopyOf(v) : v \in others}]]
    /\ UNCHANGED <<store, cluster, sync, nextId, bounds>>

\* The unfinished records of the request's workflow, or of every workflow for
\* a recycle, but for the request's own.
OtherUnfinished(r) ==
    {n \in Ids : /\ RecExists(n)
                 /\ ~ recs[n].finished
                 /\ n # r.id
                 /\ r.wf # NoWorkflow => ann[n].wf = r.wf}

\* What is left of revision v once the copies are Put as terminated.
Terminated(v, copies) ==
    LET mine == {c \in copies : c.id = v}
    IN  IF RevExists(v) /\ mine # {}
        THEN LET c == CHOOSE x \in mine : TRUE
             IN  [status |-> "terminated", cr |-> c.cr, wf |-> revs[v].wf, rb |-> c.rb]
        ELSE revs[v]

\* Put the listed revisions as terminated (a Put that fails is only logged)
\* and list the records.
ResetRevisions(h) ==
    /\ req[h].step = "reset"
    /\ \E put \in SUBSET req[h].seen :
          /\ \/ put = req[h].seen /\ UNCHANGED bounds
             \/ put # req[h].seen /\ Fault
          /\ revs' = [v \in Ids |-> Terminated(v, put)]
    /\ req' = [req EXCEPT ![h] = [@ EXCEPT !.step = "records",
                  !.seen = {Named(n) : n \in OtherUnfinished(req[h])}]]
    /\ UNCHANGED <<app, recs, cluster, sync, nextId>>

\* The records cannot be listed.
ResetFails(h) ==
    /\ req[h].step = "reset"
    /\ Fault
    /\ revs' = [v \in Ids |-> Terminated(v, req[h].seen)]
    /\ req' = [req EXCEPT ![h] = AfterRecord(@, FALSE)]
    /\ UNCHANGED <<app, recs, cluster, sync, nextId>>

\* Mutant: the records get the status but not the finished flag.
ResetRecordsLeavesOpen(h) ==
    /\ req[h].step = "records"
    /\ recs' = [n \in Ids |->
                  IF RecExists(n) /\ Named(n) \in req[h].seen
                  THEN [recs[n] EXCEPT !.status = "terminated"]
                  ELSE recs[n]]
    /\ req' = [req EXCEPT ![h] = AfterRecord(@, TRUE)]
    /\ UNCHANGED <<app, revs, cluster, sync, nextId, bounds>>

\* Put the listed records as terminated (a Put that fails is only logged).
ResetRecords(h) ==
    /\ req[h].step = "records"
    /\ \E put \in SUBSET req[h].seen :
          /\ \/ put = req[h].seen /\ UNCHANGED bounds
             \/ put # req[h].seen /\ Fault
          /\ recs' = [n \in Ids |->
                        IF RecExists(n) /\ Named(n) \in put
                        THEN [recs[n] EXCEPT !.status = "terminated", !.finished = TRUE]
                        ELSE recs[n]]
    /\ req' = [req EXCEPT ![h] = AfterRecord(@, TRUE)]
    /\ UNCHANGED <<app, revs, cluster, sync, nextId>>

-----------------------------------------------------------------------------
(* Rollback, recycle, terminate, resume, delete *)

\* checkRecordRunning: the CR exists and its run is not executing.
NotExecuting(e) == cr[e].spec # 0 /\ runs[cr[e].status] # "executing"

\* RollbackRecord, its reads: record n, its revision, and the revision v to go
\* back to (asked for, or the latest complete one).
RollbackCheck(h, n, v) ==
    LET w == ann[n].wf
        o == ann[n].ver
    IN  /\ Start(h, "rollback")
        /\ Room
        /\ RecExists(n)
        /\ NotExecuting(EnvOf[w])
        /\ RevExists(o)
        /\ RevExists(v)
        /\ req' = [req EXCEPT ![h] = [Idle EXCEPT !.op = "rollback", !.step = "mark",
                      !.wf = w, !.ver = v, !.seen = {CopyOf(o)}]]
        /\ UNCHANGED <<store, cluster, sync, nextId, bounds>>

\* Put the record's revision as rolled back and generate a publish version.
RollbackRecord(h) ==
    /\ req[h].step = "mark"
    /\ Room
    /\ \E c \in req[h].seen :
          /\ RevExists(c.id)
          /\ revs' = PutRevision([c EXCEPT !.status = "rollback", !.rb = req[h].ver])
    /\ ann' = [ann EXCEPT ![nextId] = [wf |-> req[h].wf, ver |-> req[h].ver]]
    /\ nextId' = nextId + 1
    /\ req' = [req EXCEPT ![h] = [@ EXCEPT !.step = "record", !.id = nextId, !.seen = {}]]
    /\ UNCHANGED <<app, recs, cr, runs, sync, bounds>>

\* RollbackWithRevision, its reads: revision v and the CR of its environment.
RollbackToCheck(h, v) ==
    LET w == revs[v].wf
        known == revs[v].cr # 0 /\ cr[EnvOf[w]].spec # 0
    IN  /\ Start(h, "rollbackTo")
        /\ Room
        /\ RevExists(v)
        /\ ann' = [ann EXCEPT ![nextId] = [wf |-> w, ver |-> v]]
        /\ nextId' = nextId + 1
        /\ req' = [req EXCEPT ![h] = [Idle EXCEPT !.op = "rollbackTo",
                      !.step = IF known THEN "clear" ELSE "apply",
                      !.wf = w, !.id = nextId, !.ver = v,
                      !.seen = IF known THEN {CopyOf(v)} ELSE {}]]
        /\ UNCHANGED <<store, cr, runs, sync, bounds>>

\* Put the revision without its CR name.  No CR revision matches the empty
\* name, so the revision's own configuration is applied next.
RollbackWithRevision(h) ==
    /\ req[h].step = "clear"
    /\ \E c \in req[h].seen :
          /\ RevExists(c.id)
          /\ revs' = PutRevision([c EXCEPT !.cr = 0])
    /\ req' = [req EXCEPT ![h] = [@ EXCEPT !.step = "apply"]]
    /\ UNCHANGED <<app, recs, cluster, sync, nextId, bounds>>

\* Looking for the CR revision fails: the CR name is Put back.
RestoreCRName(h) ==
    /\ req[h].step = "apply"
    /\ Fault
    /\ \E c \in req[h].seen : revs' = PutRevision(c)
    /\ req' = [req EXCEPT ![h] = Idle]
    /\ UNCHANGED <<app, recs, cluster, sync, nextId>>

\* The revision a rollback Puts is gone, or the Put fails.
RollbackPutFails(h) ==
    /\ req[h].step \in {"mark", "clear"}
    /\ \/ (\E c \in req[h].seen : ~ RevExists(c.id)) /\ UNCHANGED bounds
       \/ Fault
    /\ req' = [req EXCEPT ![h] = Idle]
    /\ UNCHANGED <<store, cluster, sync, nextId>>

\* ApplicationEnvRecycle: delete the environment's CR, then reset.
ApplicationEnvRecycle(h, e) ==
    /\ Start(h, "recycle")
    /\ cr' = [cr EXCEPT ![e] = [spec |-> 0, status |-> 0]]
    /\ req' = [req EXCEPT ![h] = [Idle EXCEPT !.op = "recycle", !.step = "list"]]
    /\ UNCHANGED <<store, ann, runs, sync, nextId, bounds>>

\* TerminateWorkflow: only a run that has not ended can be terminated.
TerminateWorkflow(e) ==
    LET n == cr[e].status
        p == [runs EXCEPT ![n] = "terminated"]
    IN  /\ "terminate" \in Requests /\ app
        /\ n # 0
        /\ runs[n] \notin Ended
        /\ Quiet
        /\ runs' = p
        /\ Watched(cr[e], p)
        /\ UNCHANGED <<store, ann, cr, delayed, worker, req, nextId, bounds>>

\* ResumeWorkflow: the run waits and goes on.
ResumeWorkflow(e) ==
    LET n == cr[e].status
        p == [runs EXCEPT ![n] = "executing"]
    IN  /\ "resume" \in Requests /\ app
        /\ NotExecuting(e)
        /\ runs[n] = "suspending"
        /\ Quiet
        /\ runs' = p
        /\ Watched(cr[e], p)
        /\ UNCHANGED <<store, ann, cr, delayed, worker, req, nextId, bounds>>

\* DeleteApplication: refused while a CR exists; the revisions to delete are
\* listed before anything is deleted.
DeleteCheck(h) ==
    /\ Start(h, "delete")
    /\ \A e \in Envs : cr[e].spec = 0
    /\ req' = [req EXCEPT ![h] = [Idle EXCEPT !.op = "delete", !.step = "wipe",
                  !.seen = {Named(v) : v \in {u \in Ids : RevExists(u)}}]]
    /\ UNCHANGED <<store, cluster, sync, nextId, bounds>>

DeleteWipe(h) ==
    /\ req[h].step = "wipe"
    /\ app' = FALSE
    /\ recs' = [n \in Ids |-> NoRecord]
    /\ revs' = [v \in Ids |->
                  IF Named(v) \in req[h].seen THEN NoRevision ELSE revs[v]]
    /\ req' = [req EXCEPT ![h] = Idle]
    /\ UNCHANGED <<cluster, sync, nextId, bounds>>

-----------------------------------------------------------------------------
(* The KubeVela controller, external *)

\* A CR with a new publish version: the controller drops the old run and
\* starts one for it.
StartRun(e) ==
    LET c == [cr[e] EXCEPT !.status = cr[e].spec]
        p == [runs EXCEPT ![cr[e].spec] = "executing"]
    IN  /\ cr[e].spec # cr[e].status
        /\ Quiet
        /\ cr' = [cr EXCEPT ![e] = c]
        /\ runs' = p
        /\ Watched(c, p)
        /\ UNCHANGED <<store, ann, delayed, worker, req, nextId, bounds>>

\* A run waits, succeeds or fails.
AdvanceRun(e, phase) ==
    LET n == cr[e].status
        p == [runs EXCEPT ![n] = phase]
    IN  /\ runs[n] = "executing"
        /\ Quiet
        /\ runs' = p
        /\ Watched(cr[e], p)
        /\ UNCHANGED <<store, ann, cr, delayed, worker, req, nextId, bounds>>

-----------------------------------------------------------------------------
(* The sync worker: worker.go, cr2ux.go, SyncWorkflowRecord in workflow.go *)

\* Mutant: whatever has ended and not failed is complete.
generateRevisionStatusAnyEnd(phase) ==
    CASE phase = "failed" -> "failure"
      [] phase \in {"succeeded", "terminated"} -> "complete"
      [] OTHER -> "running"

generateRevisionStatus(phase) ==
    CASE phase = "failed" -> "failure"
      [] phase = "succeeded" -> "complete"
      [] phase = "terminated" -> "terminated"
      [] OTHER -> "running"

\* Mutant: failed attempts are not counted.
RequeuedForever(ev) == delayed \cup {ev}

\* Mutant: one attempt too many.
RequeuedOnceMore(ev) ==
    IF ev.tries <= MaxRequeue
    THEN delayed \cup {[ev EXCEPT !.tries = @ + 1]}
    ELSE delayed

\* A failing event is added again after a delay, MaxRequeue times at most.
Requeued(ev) ==
    IF ev.tries < MaxRequeue
    THEN delayed \cup {[ev EXCEPT !.tries = @ + 1]}
    ELSE delayed

\* An event whose CR has no workflow status has nothing to sync.
WorkerSkip ==
    /\ worker.step = "rest" /\ queue # <<>> /\ Head(queue).rec = 0
    /\ queue' = Tail(queue)
    /\ UNCHANGED <<store, cluster, delayed, worker, req, nextId, bounds>>

\* Get the event's record and list the unfinished records of the application.
WorkerTake ==
    /\ worker.step = "rest" /\ queue # <<>> /\ RecExists(Head(queue).rec)
    /\ queue' = Tail(queue)
    /\ worker' = [Resting EXCEPT !.step = "next", !.event = Head(queue),
                     !.todo = {Head(queue).rec} \cup
                              {n \in Ids : RecExists(n) /\ ~ recs[n].finished}]
    /\ UNCHANGED <<store, cluster, delayed, req, nextId, bounds>>

\* The record does not exist (yet), or the datastore does not answer.
WorkerFails ==
    /\ worker.step = "rest" /\ queue # <<>> /\ Head(queue).rec # 0
    /\ \/ ~ RecExists(Head(queue).rec) /\ UNCHANGED bounds
       \/ Fault
    /\ queue' = Tail(queue)
    /\ delayed' = Requeued(Head(queue))
    /\ UNCHANGED <<store, cluster, worker, req, nextId>>

Redeliver ==
    \E ev \in delayed :
        /\ delayed' = delayed \ {ev}
        /\ queue' = Append(queue, ev)
        /\ UNCHANGED <<store, cluster, worker, req, nextId, bounds>>

\* The worker's next record: the event's own, then the others in list order.
Due(n) ==
    /\ worker.step = "next"
    /\ n \in worker.todo
    /\ worker.event.rec \in worker.todo => n = worker.event.rec

\* The worker with the records of todo still to sync.
With(todo) ==
    IF todo = {} THEN Resting
    ELSE [Resting EXCEPT !.step = "next", !.event = worker.event, !.todo = todo]

\* syncRecordFromApplicationStatus, up to its Puts: record n gets the phase,
\* the copies are what is Put as its revision.
Syncing(n, phase, copies) ==
    worker' = [worker EXCEPT !.step = "record", !.todo = @ \ {n}, !.at = n,
                             !.phase = phase, !.rev = copies]

\* Revision v for a run in the given phase; it takes the CR revision m when it
\* has none.
RevisionSynced(v, phase, m) ==
    [CopyOf(v) EXCEPT !.status = generateRevisionStatus(phase),
                      !.cr = IF @ = 0 THEN m ELSE @]

\* Mutant: the record fails but stays unfinished.
WorkerNoRevisionLeavesOpen(n) ==
    /\ Due(n)
    /\ ~ RevExists(ann[n].ver)
    /\ recs' = IF RecExists(n) THEN [recs EXCEPT ![n].status = "failure"] ELSE recs
    /\ worker' = Resting
    /\ delayed' = Requeued(worker.event)
    /\ UNCHANGED <<app, revs, cluster, queue, req, nextId, bounds>>

\* The revision of a record is gone: the record fails, the event is retried
\* and the records that are left wait for it.
WorkerNoRevision(n) ==
    /\ Due(n)
    /\ ~ RevExists(ann[n].ver)
    /\ recs' = IF RecExists(n)
               THEN [recs EXCEPT ![n] = [@ EXCEPT !.status = "failure", !.finished = TRUE]]
               ELSE recs
    /\ worker' = Resting
    /\ delayed' = Requeued(worker.event)
    /\ UNCHANGED <<app, revs, cluster, queue, req, nextId, bounds>>

\* The datastore does not answer for a record's revision, or for the Put above.
WorkerStops(n) ==
    /\ Due(n)
    /\ Fault
    /\ worker' = Resting
    /\ delayed' = Requeued(worker.event)
    /\ UNCHANGED <<store, cluster, queue, req, nextId>>

\* The record of the event takes the status the event carries.
WorkerOwn(n) ==
    /\ Due(n)
    /\ RevExists(ann[n].ver)
    /\ n = worker.event.rec
    /\ Syncing(n, worker.event.phase, {RevisionSynced(ann[n].ver, worker.event.phase, n)})
    /\ UNCHANGED <<store, cluster, queue, delayed, req, nextId, bounds>>

\* An unfinished record is synced from its revision's CR only when that is
\* known and the record is older than the event's.
Superseded(n) ==
    /\ n # worker.event.rec
    /\ revs[ann[n].ver].cr # 0
    /\ n \in recs[worker.event.rec].older

\* The record is not superseded, or the API server does not answer.
WorkerLeave(n) ==
    /\ Due(n)
    /\ RevExists(ann[n].ver)
    /\ n # worker.event.rec
    /\ \/ ~ Superseded(n) /\ UNCHANGED bounds
       \/ Fault
    /\ worker' = With(worker.todo \ {n})
    /\ UNCHANGED <<store, cluster, queue, delayed, req, nextId>>

\* Mutant: the run's phase is taken as it is.
WorkerSupersededAsIs(n) ==
    LET v == ann[n].ver
        m == revs[v].cr
    IN  /\ Due(n)
        /\ RevExists(v)
        /\ Superseded(n)
        /\ Syncing(n, runs[m], {RevisionSynced(v, runs[m], m)})
        /\ UNCHANGED <<store, cluster, queue, delayed, req, nextId, bounds>>

\* Mutant: a run that has not failed is taken for a success.
WorkerSupersededSucceeds(n) ==
    LET v == ann[n].ver
        m == revs[v].cr
        phase == IF runs[m] = "failed" THEN "failed" ELSE "succeeded"
    IN  /\ Due(n)
        /\ RevExists(v)
        /\ Superseded(n)
        /\ Syncing(n, phase, {RevisionSynced(v, phase, m)})
        /\ UNCHANGED <<store, cluster, queue, delayed, req, nextId, bounds>>

\* syncRecordFromApplicationRevision, the CR revision is found: a run that has
\* neither failed nor succeeded is taken for terminated.  The controller may
\* not have recorded the workflow of a run that goes on: then nothing changes.
WorkerSuperseded(n) ==
    LET v == ann[n].ver
        m == revs[v].cr
        phase == IF runs[m] \in {"failed", "succeeded"} THEN runs[m] ELSE "terminated"
    IN  /\ Due(n)
        /\ RevExists(v)
        /\ Superseded(n)
        /\ \/ Syncing(n, phase, {RevisionSynced(v, phase, m)})
           \/ runs[m] \notin Ended /\ worker' = With(worker.todo \ {n})
        /\ UNCHANGED <<store, cluster, queue, delayed, req, nextId, bounds>>

\* syncRecordFromApplicationRevision, the CR revision is gone (only that of a
\* current run is sure to be there): the record is terminated.
WorkerRevisionGone(n) ==
    /\ Due(n)
    /\ RevExists(ann[n].ver)
    /\ Superseded(n)
    /\ \A e \in Envs : cr[e].status # revs[ann[n].ver].cr
    /\ Syncing(n, "terminated", {})
    /\ UNCHANGED <<store, cluster, queue, delayed, req, nextId, bounds>>

\* Put the record; one that was deleted meanwhile cannot be Put, and its
\* revision is then left alone.  The controller says that a run is finished together with
\* a phase that ends it.
WorkerPutRecord ==
    LET n == worker.at
    IN  /\ worker.step = "record"
        /\ recs' = IF RecExists(n)
                   THEN [recs EXCEPT ![n] = [@ EXCEPT !.status = worker.phase,
                                                    !.finished = (worker.phase \in Ended)]]
                   ELSE recs
        /\ worker' = IF RecExists(n) /\ worker.rev # {}
                     THEN [worker EXCEPT !.step = "revision"]
                     ELSE With(worker.todo)
        /\ UNCHANGED <<app, revs, cluster, queue, delayed, req, nextId, bounds>>

WorkerPutRevision ==
    /\ worker.step = "revision"
    /\ \E c \in worker.rev : revs' = PutRevision(c)
    /\ worker' = With(worker.todo)
    /\ UNCHANGED <<app, recs, cluster, queue, delayed, req, nextId, bounds>>

\* A Put fails, which is only logged: the event is not retried.
WorkerPutFails ==
    /\ worker.step \in {"record", "revision"}
    /\ Fault
    /\ worker' = With(worker.todo)
    /\ UNCHANGED <<store, cluster, queue, delayed, req, nextId>>

\* Mutant: the next leader only watches, it does not list.
RestartWithoutList ==
    /\ restarts < MaxRestart
    /\ restarts' = restarts + 1
    /\ \E dead \in SUBSET Handlers :
          req' = [h \in Handlers |-> IF h \in dead THEN Idle ELSE req[h]]
    /\ queue' = <<>>
    /\ delayed' = {}
    /\ worker' = Resting
    /\ UNCHANGED <<store, cluster, nextId, faults>>

\* The leader exits or loses its lease: its queue and the requests it serves
\* are lost.  The next leader's informer lists every CR.  An environment
\* without a CR is listed here as an event that is skipped.
Restart ==
    /\ restarts < MaxRestart
    /\ restarts' = restarts + 1
    /\ \E dead \in SUBSET Handlers :
          req' = [h \in Handlers |-> IF h \in dead THEN Idle ELSE req[h]]
    /\ queue' = [i \in DOMAIN ListOrder |->
                   [rec |-> cr[ListOrder[i]].status,
                    phase |-> runs[cr[ListOrder[i]].status], tries |-> 0]]
    /\ delayed' = {}
    /\ worker' = Resting
    /\ UNCHANGED <<store, cluster, nextId, faults>>

-----------------------------------------------------------------------------

RequestStep(h) ==
    \/ DeployAdd(h) \/ Apply(h) \/ DeployRunning(h)
    \/ AddRecord(h) \/ ResetList(h) \/ ResetRevisions(h) \/ ResetRecords(h)
    \/ RollbackRecord(h) \/ RollbackWithRevision(h) \/ RollbackPutFails(h)
    \/ DeleteWipe(h)

RequestFails(h) ==
    \/ ApplyFails(h) \/ NamespaceFails(h) \/ RecordFails(h) \/ ResetFails(h)
    \/ RunningFails(h) \/ RestoreCRName(h)

NewRequest(h) ==
    \/ \E w \in Workflows, kind \in {"deploy", "force"} : DeployCheck(h, w, kind)
    \/ \E n, v \in Ids : RollbackCheck(h, n, v)
    \/ \E v \in Ids : RollbackToCheck(h, v)
    \/ \E e \in Envs : ApplicationEnvRecycle(h, e)
    \/ DeleteCheck(h)

WorkerSync(n) ==
    \/ WorkerNoRevision(n) \/ WorkerOwn(n) \/ WorkerLeave(n)
    \/ WorkerSuperseded(n) \/ WorkerRevisionGone(n)

WorkerStep ==
    \/ WorkerSkip \/ WorkerTake \/ WorkerFails
    \/ WorkerPutRecord \/ WorkerPutRevision
    \/ \E n \in Ids : WorkerSync(n)

ControllerStep(e) ==
    \/ StartRun(e)
    \/ \E phase \in {"suspending", "succeeded", "failed"} : AdvanceRun(e, phase)

Next ==
    \/ \E h \in Handlers : NewRequest(h) \/ RequestStep(h) \/ RequestFails(h)
    \/ \E e \in Envs : TerminateWorkflow(e) \/ ResumeWorkflow(e) \/ ControllerStep(e)
    \/ WorkerStep
    \/ \E n \in Ids : WorkerStops(n)
    \/ WorkerPutFails
    \/ Redeliver
    \/ Restart

\* A request that started goes on to its end, the sync worker works off its
\* queue, a delayed event is added again, the controller starts what it is
\* given.  Nothing forces a user to ask, a run to end or a call to fail.
Fairness ==
    /\ \A h \in Handlers : WF_vars(RequestStep(h))
    /\ \A e \in Envs : WF_vars(StartRun(e))
    /\ WF_vars(WorkerStep)
    /\ WF_vars(Redeliver)

Spec == Init /\ [][Next]_vars

FairSpec == Spec /\ Fairness

-----------------------------------------------------------------------------
(* Properties *)

\* Every variable has its type; in particular versions stay within the clock
\* and the worker requeues no event more than MaxRequeue times.
TypeOK ==
    /\ app \in BOOLEAN
    /\ revs \in [Ids -> Revision]
    /\ recs \in [Ids -> Record]
    /\ ann \in [Ids -> [wf : Workflows \cup {NoWorkflow}, ver : OptId]]
    /\ cr \in [Envs -> [spec : OptId, status : OptId]]
    /\ runs \in [OptId -> RunPhase]
    /\ queue \in Seq(Event)
    /\ delayed \subseteq Event
    /\ worker \in Worker
    /\ req \in [Handlers -> Handler]
    /\ nextId \in 1..(MaxId + 1)
    /\ faults \in 0..MaxFault
    /\ restarts \in 0..MaxRestart

\* A revision is shown as complete only when a run of that very revision, of
\* the deploy that made it or of a rollback to it, really succeeded, whatever
\* the order in which events, resets and stale Puts reach the datastore.
\* RollbackRecord picks the revision to go back to by this status.
CompleteIsEarned ==
    \A v \in Ids : revs[v].status = "complete" =>
        \E n \in Ids : ann[n].ver = v /\ runs[n] = "succeeded"

\* A record says succeeded only when a run of its revision succeeded: a run
\* that was superseded, recycled or never started is not a success.
SucceededIsEarned ==
    \A n \in Ids : recs[n].status = "succeeded" =>
        \E m \in Ids : ann[m].ver = ann[n].ver /\ runs[m] = "succeeded"

\* A record is marked finished exactly when its status is one that ends a run:
\* the sync lists records by the flag, the UI shows the status.
FinishedIffEnded ==
    \A n \in Ids :
        recs[n].finished <=> recs[n].status \in Ended \cup {"failure"}

\* A finished record is opened again only by an event of its own run that
\* says the run goes on; nothing done for another run, environment or request
\* brings it back.
ReopenedByOwnRun ==
    [][\A n \in Ids : recs[n].finished /\ ~ recs'[n].finished =>
          \/ worker.at = n /\ worker.event.rec = n /\ worker.event.phase \notin Ended
          \/ recs'[n].status = "none"]_recs

\* bcode/001_application.go: a deploy that is not forced is refused while the
\* last deployment of its environment has not completed, so applying it never
\* takes the place of a run that has not ended.
DeployWaitsForLast ==
    [][\A h \in Handlers :
          (req[h].op = "deploy" /\ req[h].step = "apply" /\ req'[h].step = "record")
              => LET n == cr[EnvOf[req[h].wf]].spec
                 IN  n # 0 => runs[n] \in Ended]_vars

\* An event is synced or given up after a bounded number of tries: once the
\* users and the cluster are silent the queue empties, whatever fails.
QueueDrains ==
    <>[](queue = <<>> /\ delayed = {} /\ worker.step = "rest")

\* The current run of an environment, once ended, is shown as it ended, for
\* good: its record carries its phase.
CurrentRunShown ==
    \A e \in Envs : LET n == cr[e].status IN
        n # 0 /\ runs[n] \in Ended => recs[n].status = runs[n]

CurrentRunsConverge == <>[]CurrentRunShown

\* The last leader never had to requeue an event.
NoRequeueAtLast ==
    <>(restarts = MaxRestart) /\ [](restarts = MaxRestart => delayed = {})

\* Whatever was lost, reordered or overwritten under earlier leaders, a leader
\* that syncs each event at the first try ends up showing every current run as
\* it ended: its informer lists every CR anew.
ConvergesWithoutRequeue == NoRequeueAtLast => CurrentRunsConverge

\* No request is in flight, no event is on its way and the controller has
\* picked up every CR.
Silent ==
    /\ queue = <<>> /\ delayed = {} /\ worker.step = "rest"
    /\ \A h \in Handlers : req[h] = Idle
    /\ \A e \in Envs : cr[e].spec = cr[e].status

\* bcode/001_application.go: a deploy conflicts with a deployment that has not
\* completed, so once the run of an environment has ended and nothing is under
\* way, the environment can be deployed to.
ConflictOnlyWhileRunning ==
    Silent => \A e \in Envs :
        (cr[e].status # 0 /\ runs[cr[e].status] \in Ended) => LastCompleted(e)

=============================================================================
