------------------------- MODULE DeliveryTypeProofs -------------------------
(***************************************************************************)
(* Type correctness of Delivery: TypeOK with Bound, the part of the        *)
(* invariant it needs, is preserved by every step.  The frame lemmas say   *)
(* which actions write which variable.                                     *)
(***************************************************************************)
EXTENDS Delivery, TLAPS

-----------------------------------------------------------------------------
(* Requests know their workflow, and nothing is named before it is generated *)

Deliveries == {"deploy", "force", "rollback", "rollbackTo"}

\* A request that adds, marks, applies or records a delivery has a workflow.
RequestBound(r) ==
    /\ r.op \in Deliveries => r.wf \in Workflows
    /\ r.step \in {"add", "mark", "clear", "apply", "record", "running"}
          => r.op \in Deliveries
    /\ r.id < nextId

Bound ==
    /\ \A v \in Ids : revs[v].status # "none" => revs[v].wf \in Workflows
    /\ \A n \in Ids : n < nextId => ann[n].wf \in Workflows
    /\ \A n \in Ids : nextId <= n => recs[n].status = "none"
    /\ \A h \in Handlers : RequestBound(req[h])

\* The CR of a request is applied, whether or not the request comes to know it.
Applies(h) ==
    LET e == EnvOf[req[h].wf]
        c == [cr[e] EXCEPT !.spec = req[h].id]
    IN  \/ Apply(h)
        \/ ApplyFails(h) /\ cr' = [cr EXCEPT ![e] = c] /\ Watched(c, runs)

\* The constants of the module have their types.
LEMMA TypeFacts ==
    /\ 0 \in OptId
    /\ Ids \subseteq OptId
    /\ Idle \in Handler
    /\ NoRevision \in Revision
    /\ NoRecord \in Record
    /\ NoEvent \in Event
    /\ Resting \in Worker
<1>1. 0 \in OptId /\ Ids \subseteq OptId
  BY ConstantsAssumption DEF OptId, Ids
<1>2. Idle \in Handler
  BY <1>1 DEF Idle, Handler
<1>3. NoRevision \in Revision /\ NoRecord \in Record
  BY <1>1 DEF NoRevision, Revision, RevStatus, NoRecord, Record, RecStatus, RunPhase
<1>4. NoEvent \in Event
  BY <1>1, ConstantsAssumption DEF NoEvent, Event, RunPhase
<1>5. Resting \in Worker
  BY <1>1, <1>4 DEF Resting, Worker, RunPhase
<1> QED BY <1>1, <1>2, <1>3, <1>4, <1>5

\* What a request reads of a revision is a copy.
LEMMA CopyOfType ==
  ASSUME TypeOK, NEW v \in Ids
  PROVE  CopyOf(v) \in Copy
BY TypeFacts DEF TypeOK, CopyOf, Copy, Revision

\* Putting a copy keeps the revisions well typed.
LEMMA PutRevisionType ==
  ASSUME TypeOK, NEW c \in Copy
  PROVE  PutRevision(c) \in [Ids -> Revision]
BY DEF TypeOK, PutRevision, RevExists, Copy, Revision

\* So does Putting listed revisions as terminated.
LEMMA TerminatedType ==
  ASSUME TypeOK, NEW copies \in SUBSET Copy, NEW v \in Ids
  PROVE  Terminated(v, copies) \in Revision
<1>1. CASE RevExists(v) /\ {c \in copies : c.id = v} # {}
  <2> DEFINE c == CHOOSE x \in {x \in copies : x.id = v} : TRUE
  <2>1. c \in Copy
    BY <1>1
  <2>2. Terminated(v, copies) = [status |-> "terminated", cr |-> c.cr, wf |-> revs[v].wf, rb |-> c.rb]
    BY <1>1 DEF Terminated
  <2> QED BY <2>1, <2>2 DEF TypeOK, Copy, Revision, RevStatus
<1>2. CASE ~ (RevExists(v) /\ {c \in copies : c.id = v} # {})
  BY <1>2 DEF Terminated, TypeOK
<1> QED BY <1>1, <1>2

\* The worker that goes on with the records left is well typed.
LEMMA WithType ==
  ASSUME TypeOK, NEW todo \in SUBSET Ids
  PROVE  With(todo) \in Worker
BY TypeFacts DEF TypeOK, With, Worker, Resting

\* Requeueing keeps an event's tries within the limit of worker.go.
LEMMA RequeuedType ==
  ASSUME TypeOK, NEW ev \in Event
  PROVE  Requeued(ev) \subseteq Event
<1>1. CASE ev.tries < MaxRequeue
  <2>1. ev.tries + 1 \in 0..MaxRequeue
    BY <1>1, ConstantsAssumption DEF Event
  <2>2. [ev EXCEPT !.tries = @ + 1] \in Event
    BY <2>1 DEF Event
  <2> QED BY <1>1, <2>2 DEF TypeOK, Requeued
<1>2. CASE ~ (ev.tries < MaxRequeue)
  BY <1>2 DEF TypeOK, Requeued
<1> QED BY <1>1, <1>2

\* What follows CreateWorkflowRecord is a request again.
LEMMA AfterRecordType ==
  ASSUME NEW r \in Handler, NEW ok \in BOOLEAN
  PROVE  AfterRecord(r, ok) \in Handler
BY TypeFacts DEF AfterRecord, Handler, Steps

\* A watch event is an event, so the queue stays a sequence of events.
LEMMA WatchedType ==
  ASSUME TypeOK, NEW c \in [spec : OptId, status : OptId],
         NEW p \in [OptId -> RunPhase], Watched(c, p)
  PROVE  queue' \in Seq(Event)
<1>1. [rec |-> c.status, phase |-> p[c.status], tries |-> 0] \in Event
  BY ConstantsAssumption DEF Event
<1> QED BY <1>1 DEF TypeOK, Watched

\* A failing call stays within the budget of faults.
LEMMA FaultType ==
  ASSUME TypeOK, Fault
  PROVE  faults' \in 0..MaxFault /\ restarts' \in 0..MaxRestart
BY ConstantsAssumption DEF TypeOK, Fault

\* Setting a record's status and finished flag leaves it a record.
LEMMA FinishedType ==
  ASSUME NEW r \in Record, NEW status \in RecStatus, NEW b \in BOOLEAN
  PROVE  [r EXCEPT !.status = status, !.finished = b] \in Record
BY DEF Record

\* The revision a sync is about to Put is a copy.
LEMMA RevisionSyncedType ==
  ASSUME TypeOK, NEW v \in Ids, NEW phase \in RunPhase, NEW m \in OptId
  PROVE  RevisionSynced(v, phase, m) \in Copy
<1>1. CopyOf(v) \in Copy
  BY CopyOfType
<1>2. generateRevisionStatus(phase) \in RevStatus
  BY DEF generateRevisionStatus, RevStatus
<1> QED BY <1>1, <1>2 DEF RevisionSynced, Copy

\* Every step keeps every variable within its type, action by action.
LEMMA TypeStep ==
  ASSUME TypeOK, Bound, Next
  PROVE  TypeOK'
<1>1. ASSUME NEW h \in Handlers, NEW w \in Workflows, NEW kind \in {"deploy", "force"}, DeployCheck(h, w, kind)
      PROVE TypeOK'
  <2>1. req' \in [Handlers -> Handler]
    BY <1>1, TypeFacts DEF TypeOK, DeployCheck, Start, Handler, Steps
  <2> QED BY <1>1, <2>1 DEF TypeOK, DeployCheck, store, cluster, sync, bounds
<1>2. ASSUME NEW h \in Handlers, DeployAdd(h) PROVE TypeOK'
  <2>1. nextId \in Ids
    BY <1>2 DEF TypeOK, DeployAdd, Room, Ids
  <2>2. req' \in [Handlers -> Handler]
    BY <1>2, <2>1, TypeFacts DEF TypeOK, DeployAdd, Handler, Steps
  <2>3. revs' \in [Ids -> Revision]
    BY <1>2, <2>1, TypeFacts
       DEF TypeOK, DeployAdd, Handler, Revision, RevStatus, NoRevision
  <2>4. ann' \in [Ids -> [wf : Workflows \cup {NoWorkflow}, ver : OptId]]
    BY <1>2, <2>1, TypeFacts DEF TypeOK, DeployAdd, Handler
  <2>5. nextId' \in 1..(MaxId + 1)
    BY <1>2, <2>1, ConstantsAssumption DEF TypeOK, DeployAdd, Room
  <2> QED BY <1>2, <2>1, <2>2, <2>3, <2>4, <2>5
         DEF TypeOK, DeployAdd, store, cluster, sync, bounds
<1>3. ASSUME NEW h \in Handlers, Apply(h) PROVE TypeOK'
  <2>1. req[h].wf \in Workflows /\ req[h] \in Handler
    BY <1>3 DEF TypeOK, Apply, Bound, RequestBound, Deliveries
  <2>2. EnvOf[req[h].wf] \in Envs
    BY <1>3, <2>1, ConstantsAssumption DEF TypeOK, Apply
  <2>3. [cr[EnvOf[req[h].wf]] EXCEPT !.spec = req[h].id] \in [spec : OptId, status : OptId]
    BY <1>3, <2>1, <2>2 DEF TypeOK, Apply, Handler
  <2>4. cr' \in [Envs -> [spec : OptId, status : OptId]]
    BY <1>3, <2>3 DEF TypeOK, Apply
  <2>5. queue' \in Seq(Event)
    BY <1>3, <2>3, WatchedType DEF TypeOK, Apply
  <2>6. req' \in [Handlers -> Handler]
    BY <1>3, <2>1, TypeFacts DEF TypeOK, Apply, Handler, Steps
  <2> QED BY <1>3, <2>1, <2>2, <2>3, <2>4, <2>5, <2>6
         DEF TypeOK, Apply, store, cluster, sync, bounds
<1>4. ASSUME NEW h \in Handlers, ApplyFails(h) PROVE TypeOK'
  <2>1. Deployed(req[h].ver, "failure") \in Copy
    BY <1>4, TypeFacts DEF TypeOK, ApplyFails, Deployed, Copy, RevStatus, Handler
  <2>2. revs' \in [Ids -> Revision]
    BY <1>4, <2>1, PutRevisionType DEF TypeOK, ApplyFails
  <2>3. recs' \in [Ids -> Record]
    BY <1>4, TypeFacts DEF TypeOK, ApplyFails
  <2>4. req' \in [Handlers -> Handler]
    BY <1>4, TypeFacts DEF TypeOK, ApplyFails
  <2>5. faults' \in 0..MaxFault /\ restarts' \in 0..MaxRestart
    BY <1>4, FaultType DEF TypeOK, ApplyFails
  <2>6. cr' \in [Envs -> [spec : OptId, status : OptId]] /\ queue' \in Seq(Event)
    <3> DEFINE e == EnvOf[req[h].wf]
               c == [cr[e] EXCEPT !.spec = req[h].id]
    <3>1. req[h].wf \in Workflows /\ req[h] \in Handler
      BY <1>4 DEF TypeOK, ApplyFails, Bound, RequestBound, Deliveries
    <3>2. e \in Envs
      BY <3>1, ConstantsAssumption
    <3>3. c \in [spec : OptId, status : OptId]
      BY <3>1, <3>2 DEF TypeOK, Handler
    <3>4. CASE UNCHANGED <<cr, queue>>
      BY <3>4 DEF TypeOK
    <3>5. CASE cr' = [cr EXCEPT ![e] = c] /\ Watched(c, runs)
      BY <3>3, <3>5, WatchedType DEF TypeOK
    <3> QED BY <1>4, <3>4, <3>5 DEF ApplyFails
  <2> QED BY <1>4, <2>1, <2>2, <2>3, <2>4, <2>5, <2>6
         DEF TypeOK, ApplyFails, store, cluster, sync, bounds
<1>5. ASSUME NEW h \in Handlers, NamespaceFails(h) PROVE TypeOK'
  <2>1. req' \in [Handlers -> Handler]
    BY <1>5, TypeFacts DEF TypeOK, NamespaceFails
  <2>2. faults' \in 0..MaxFault /\ restarts' \in 0..MaxRestart
    BY <1>5, FaultType DEF TypeOK, NamespaceFails
  <2> QED BY <1>5, <2>1, <2>2
         DEF TypeOK, NamespaceFails, store, cluster, sync, bounds
<1>6. ASSUME NEW h \in Handlers, DeployRunning(h) PROVE TypeOK'
  <2>1. Deployed(req[h].ver, "running") \in Copy
    BY <1>6, TypeFacts DEF TypeOK, DeployRunning, Deployed, Copy, RevStatus, Handler
  <2>2. revs' \in [Ids -> Revision]
    BY <1>6, <2>1, PutRevisionType DEF TypeOK, DeployRunning
  <2>3. req' \in [Handlers -> Handler]
    BY <1>6, TypeFacts DEF TypeOK, DeployRunning
  <2> QED BY <1>6, <2>1, <2>2, <2>3
         DEF TypeOK, DeployRunning, store, cluster, sync, bounds
<1>7. ASSUME NEW h \in Handlers, RunningFails(h) PROVE TypeOK'
  <2>1. req' \in [Handlers -> Handler]
    BY <1>7, TypeFacts DEF TypeOK, RunningFails
  <2>2. faults' \in 0..MaxFault /\ restarts' \in 0..MaxRestart
    BY <1>7, FaultType DEF TypeOK, RunningFails
  <2> QED BY <1>7, <2>1, <2>2 DEF TypeOK, RunningFails, store, cluster, sync, bounds
<1>8. ASSUME NEW h \in Handlers, AddRecord(h) PROVE TypeOK'
  <2>1. [status |-> "initializing", finished |-> FALSE, older |-> {n \in Ids : RecExists(n)}] \in Record
    BY <1>8 DEF TypeOK, AddRecord, Record, RecStatus
  <2>2. recs' \in [Ids -> Record]
    BY <1>8, <2>1 DEF TypeOK, AddRecord
  <2>3. [req[h] EXCEPT !.step = "list"] \in Handler
    BY DEF TypeOK, Handler, Steps
  <2>4. req' \in [Handlers -> Handler]
    BY <1>8, <2>3 DEF TypeOK, AddRecord
  <2> QED BY <1>8, <2>1, <2>2, <2>3, <2>4
         DEF TypeOK, AddRecord, store, cluster, sync, bounds
<1>9. ASSUME NEW h \in Handlers, RecordFails(h) PROVE TypeOK'
  <2>1. req' \in [Handlers -> Handler]
    BY <1>9, AfterRecordType DEF TypeOK, RecordFails
  <2>2. faults' \in 0..MaxFault /\ restarts' \in 0..MaxRestart
    BY <1>9, FaultType DEF TypeOK, RecordFails
  <2> QED BY <1>9, <2>1, <2>2 DEF TypeOK, RecordFails, store, cluster, sync, bounds
<1>10. ASSUME NEW h \in Handlers, ResetList(h) PROVE TypeOK'
  <2>1. {CopyOf(v) : v \in {u \in Ids : revs[u].status = "running" /\ u # req[h].ver}} \in SUBSET Copy
    BY <1>10, CopyOfType DEF TypeOK, ResetList
  <2>2. \A S \in SUBSET Copy : [req[h] EXCEPT !.step = "reset", !.seen = S] \in Handler
    BY DEF TypeOK, Handler, Steps
  <2>3. req' \in [Handlers -> Handler]
    BY <1>10, <2>1, <2>2 DEF TypeOK, ResetList
  <2> QED BY <1>10, <2>1, <2>2, <2>3
         DEF TypeOK, ResetList, store, cluster, sync, bounds
<1>11. ASSUME NEW h \in Handlers, ResetRevisions(h) PROVE TypeOK'
  <2>1. req[h].seen \in SUBSET Copy
    BY <1>11 DEF TypeOK, ResetRevisions, Handler
  <2>2. revs' \in [Ids -> Revision]
    BY <1>11, <2>1, TerminatedType DEF TypeOK, ResetRevisions
  <2>3. {Named(n) : n \in OtherUnfinished(req[h])} \in SUBSET Copy
    BY <1>11, TypeFacts
       DEF TypeOK, ResetRevisions, Named, OtherUnfinished, Copy, RevStatus
  <2>4. \A S \in SUBSET Copy : [req[h] EXCEPT !.step = "records", !.seen = S] \in Handler
    BY DEF TypeOK, Handler, Steps
  <2>5. req' \in [Handlers -> Handler]
    BY <1>11, <2>3, <2>4 DEF TypeOK, ResetRevisions
  <2>6. faults' \in 0..MaxFault /\ restarts' \in 0..MaxRestart
    BY <1>11, FaultType DEF TypeOK, ResetRevisions, bounds
  <2> QED BY <1>11, <2>1, <2>2, <2>3, <2>4, <2>5, <2>6
         DEF TypeOK, ResetRevisions, store, cluster, sync, bounds
<1>12. ASSUME NEW h \in Handlers, ResetFails(h) PROVE TypeOK'
  <2>1. req[h].seen \in SUBSET Copy
    BY <1>12 DEF TypeOK, ResetFails, Handler
  <2>2. revs' \in [Ids -> Revision]
    BY <1>12, <2>1, TerminatedType DEF TypeOK, ResetFails
  <2>3. req' \in [Handlers -> Handler]
    BY <1>12, AfterRecordType DEF TypeOK, ResetFails
  <2>4. faults' \in 0..MaxFault /\ restarts' \in 0..MaxRestart
    BY <1>12, FaultType DEF TypeOK, ResetFails
  <2> QED BY <1>12, <2>1, <2>2, <2>3, <2>4
         DEF TypeOK, ResetFails, store, cluster, sync, bounds
<1>13. ASSUME NEW h \in Handlers, ResetRecords(h) PROVE TypeOK'
  <2>1. \A n \in Ids : [recs[n] EXCEPT !.status = "terminated", !.finished = TRUE] \in Record
    BY FinishedType DEF TypeOK, RecStatus, RunPhase, Ended
  <2>2. recs' \in [Ids -> Record]
    BY <1>13, <2>1 DEF TypeOK, ResetRecords
  <2>3. req' \in [Handlers -> Handler]
    BY <1>13, AfterRecordType DEF TypeOK, ResetRecords
  <2>4. faults' \in 0..MaxFault /\ restarts' \in 0..MaxRestart
    BY <1>13, FaultType DEF TypeOK, ResetRecords, bounds
  <2> QED BY <1>13, <2>1, <2>2, <2>3, <2>4
         DEF TypeOK, ResetRecords, store, cluster, sync, bounds
<1>14. ASSUME NEW h \in Handlers, NEW n \in Ids, NEW v \in Ids, RollbackCheck(h, n, v)
       PROVE TypeOK'
  <2>1. CopyOf(ann[n].ver) \in Copy
    BY <1>14, CopyOfType DEF TypeOK, RollbackCheck, RevExists
  <2>2. ann[n].wf \in Workflows \cup {NoWorkflow}
    BY <1>14 DEF TypeOK, RollbackCheck
  <2>3. req' \in [Handlers -> Handler]
    BY <1>14, <2>1, <2>2, TypeFacts DEF TypeOK, RollbackCheck, Start, Handler, Steps
  <2> QED BY <1>14, <2>1, <2>2, <2>3
         DEF TypeOK, RollbackCheck, store, cluster, sync, bounds
<1>15. ASSUME NEW h \in Handlers, RollbackRecord(h) PROVE TypeOK'
  <2>1. nextId \in Ids
    BY <1>15 DEF TypeOK, RollbackRecord, Room, Ids
  <2>2. \E c \in req[h].seen : c \in Copy /\ revs' = PutRevision([c EXCEPT !.status = "rollback", !.rb = req[h].ver])
    BY <1>15 DEF TypeOK, RollbackRecord, Handler
  <2>3. req[h].ver \in OptId
    BY <1>15 DEF TypeOK, RollbackRecord, Handler
  <2>4. \A c \in Copy : [c EXCEPT !.status = "rollback", !.rb = req[h].ver] \in Copy
    BY <2>3 DEF TypeOK, Copy, RevStatus
  <2>5. revs' \in [Ids -> Revision]
    BY <1>15, <2>2, <2>4, PutRevisionType DEF TypeOK, RollbackRecord
  <2>6. ann' \in [Ids -> [wf : Workflows \cup {NoWorkflow}, ver : OptId]]
    BY <1>15, <2>1, <2>3 DEF TypeOK, RollbackRecord, Handler
  <2>7. nextId' \in 1..(MaxId + 1)
    BY <1>15, <2>1, ConstantsAssumption DEF TypeOK, RollbackRecord, Room
  <2>8. req' \in [Handlers -> Handler]
    BY <1>15, <2>1, TypeFacts DEF TypeOK, RollbackRecord, Handler, Steps
  <2> QED BY <1>15, <2>1, <2>2, <2>3, <2>4, <2>5, <2>6, <2>7, <2>8
         DEF TypeOK, RollbackRecord, store, cluster, sync, bounds
<1>16. ASSUME NEW h \in Handlers, NEW v \in Ids, RollbackToCheck(h, v) PROVE TypeOK'
  <2>1. nextId \in Ids
    BY <1>16 DEF TypeOK, RollbackToCheck, Room, Ids
  <2>2. CopyOf(v) \in Copy /\ revs[v].wf \in Workflows \cup {NoWorkflow}
    BY <1>16, CopyOfType DEF TypeOK, RollbackToCheck, Revision
  <2>3. ann' \in [Ids -> [wf : Workflows \cup {NoWorkflow}, ver : OptId]]
    BY <1>16, <2>1, <2>2, TypeFacts DEF TypeOK, RollbackToCheck
  <2>4. nextId' \in 1..(MaxId + 1)
    BY <1>16, <2>1, ConstantsAssumption DEF TypeOK, RollbackToCheck, Room
  <2>5. req' \in [Handlers -> Handler]
    BY <1>16, <2>1, <2>2, TypeFacts
       DEF TypeOK, RollbackToCheck, Start, Handler, Steps
  <2> QED BY <1>16, <2>1, <2>2, <2>3, <2>4, <2>5
         DEF TypeOK, RollbackToCheck, store, cluster, sync, bounds
<1>17. ASSUME NEW h \in Handlers, RollbackWithRevision(h) PROVE TypeOK'
  <2>1. \E c \in req[h].seen : c \in Copy /\ revs' = PutRevision([c EXCEPT !.cr = 0])
    BY <1>17 DEF TypeOK, RollbackWithRevision, Handler
  <2>2. revs' \in [Ids -> Revision]
    BY <1>17, <2>1, TypeFacts, PutRevisionType
       DEF TypeOK, RollbackWithRevision, Copy
  <2>3. [req[h] EXCEPT !.step = "apply"] \in Handler
    BY DEF TypeOK, Handler, Steps
  <2>4. req' \in [Handlers -> Handler]
    BY <1>17, <2>3 DEF TypeOK, RollbackWithRevision
  <2> QED BY <1>17, <2>1, <2>2, <2>3, <2>4
         DEF TypeOK, RollbackWithRevision, store, cluster, sync, bounds
<1>18. ASSUME NEW h \in Handlers, RestoreCRName(h) PROVE TypeOK'
  <2>1. \E c \in req[h].seen : c \in Copy /\ revs' = PutRevision(c)
    BY <1>18 DEF TypeOK, RestoreCRName, Handler
  <2>2. revs' \in [Ids -> Revision]
    BY <1>18, <2>1, PutRevisionType DEF TypeOK, RestoreCRName
  <2>3. req' \in [Handlers -> Handler]
    BY <1>18, TypeFacts DEF TypeOK, RestoreCRName
  <2>4. faults' \in 0..MaxFault /\ restarts' \in 0..MaxRestart
    BY <1>18, FaultType DEF TypeOK, RestoreCRName
  <2> QED BY <1>18, <2>1, <2>2, <2>3, <2>4
         DEF TypeOK, RestoreCRName, store, cluster, sync, bounds
<1>19. ASSUME NEW h \in Handlers, RollbackPutFails(h) PROVE TypeOK'
  <2>1. req' \in [Handlers -> Handler]
    BY <1>19, TypeFacts DEF TypeOK, RollbackPutFails
  <2>2. faults' \in 0..MaxFault /\ restarts' \in 0..MaxRestart
    BY <1>19, FaultType DEF TypeOK, RollbackPutFails, bounds
  <2> QED BY <1>19, <2>1, <2>2
         DEF TypeOK, RollbackPutFails, store, cluster, sync, bounds
<1>20. ASSUME NEW h \in Handlers, NEW e \in Envs, ApplicationEnvRecycle(h, e)
       PROVE TypeOK'
  <2>1. cr' \in [Envs -> [spec : OptId, status : OptId]]
    BY <1>20, TypeFacts DEF TypeOK, ApplicationEnvRecycle
  <2>2. req' \in [Handlers -> Handler]
    BY <1>20, TypeFacts DEF TypeOK, ApplicationEnvRecycle, Start, Handler, Steps
  <2> QED BY <1>20, <2>1, <2>2
         DEF TypeOK, ApplicationEnvRecycle, store, cluster, sync, bounds
<1>21. ASSUME NEW h \in Handlers, DeleteCheck(h) PROVE TypeOK'
  <2>1. {Named(v) : v \in {u \in Ids : RevExists(u)}} \in SUBSET Copy
    BY <1>21, TypeFacts DEF TypeOK, DeleteCheck, Named, Copy, RevStatus
  <2>2. req' \in [Handlers -> Handler]
    BY <1>21, <2>1, TypeFacts DEF TypeOK, DeleteCheck, Start, Handler, Steps
  <2> QED BY <1>21, <2>1, <2>2 DEF TypeOK, DeleteCheck, store, cluster, sync, bounds
<1>22. ASSUME NEW h \in Handlers, DeleteWipe(h) PROVE TypeOK'
  <2>1. recs' \in [Ids -> Record]
    BY <1>22, TypeFacts DEF TypeOK, DeleteWipe
  <2>2. revs' \in [Ids -> Revision]
    BY <1>22, TypeFacts DEF TypeOK, DeleteWipe
  <2>3. req' \in [Handlers -> Handler]
    BY <1>22, TypeFacts DEF TypeOK, DeleteWipe
  <2> QED BY <1>22, <2>1, <2>2, <2>3
         DEF TypeOK, DeleteWipe, store, cluster, sync, bounds
<1>23. ASSUME NEW e \in Envs, TerminateWorkflow(e) PROVE TypeOK'
  <2>1. runs' \in [OptId -> RunPhase]
    BY <1>23 DEF TypeOK, TerminateWorkflow, RunPhase, Ended
  <2>2. cr[e] \in [spec : OptId, status : OptId] /\ [runs EXCEPT ![cr[e].status] = "terminated"] \in [OptId -> RunPhase]
    BY <1>23 DEF TypeOK, TerminateWorkflow, RunPhase, Ended
  <2>3. queue' \in Seq(Event)
    BY <1>23, <2>2, WatchedType DEF TypeOK, TerminateWorkflow
  <2> QED BY <1>23, <2>1, <2>2, <2>3
         DEF TypeOK, TerminateWorkflow, store, cluster, sync, bounds
<1>24. ASSUME NEW e \in Envs, ResumeWorkflow(e) PROVE TypeOK'
  <2>1. runs' \in [OptId -> RunPhase]
    BY <1>24 DEF TypeOK, ResumeWorkflow, RunPhase, Ended
  <2>2. cr[e] \in [spec : OptId, status : OptId] /\ [runs EXCEPT ![cr[e].status] = "executing"] \in [OptId -> RunPhase]
    BY <1>24 DEF TypeOK, ResumeWorkflow, RunPhase, Ended
  <2>3. queue' \in Seq(Event)
    BY <1>24, <2>2, WatchedType DEF TypeOK, ResumeWorkflow
  <2> QED BY <1>24, <2>1, <2>2, <2>3
         DEF TypeOK, ResumeWorkflow, store, cluster, sync, bounds
<1>25. ASSUME NEW e \in Envs, StartRun(e) PROVE TypeOK'
  <2>1. [cr[e] EXCEPT !.status = cr[e].spec] \in [spec : OptId, status : OptId] /\ [runs EXCEPT ![cr[e].spec] = "executing"] \in [OptId -> RunPhase]
    BY <1>25 DEF TypeOK, StartRun, RunPhase, Ended
  <2>2. cr' \in [Envs -> [spec : OptId, status : OptId]]
    BY <1>25, <2>1 DEF TypeOK, StartRun
  <2>3. runs' \in [OptId -> RunPhase]
    BY <1>25, <2>1 DEF TypeOK, StartRun
  <2>4. queue' \in Seq(Event)
    BY <1>25, <2>1, WatchedType DEF TypeOK, StartRun
  <2> QED BY <1>25, <2>1, <2>2, <2>3, <2>4
         DEF TypeOK, StartRun, store, cluster, sync, bounds
<1>26. ASSUME NEW e \in Envs, NEW phase \in {"suspending", "succeeded", "failed"},
              AdvanceRun(e, phase)
       PROVE TypeOK'
  <2>1. runs' \in [OptId -> RunPhase]
    BY <1>26 DEF TypeOK, AdvanceRun, RunPhase, Ended
  <2>2. cr[e] \in [spec : OptId, status : OptId] /\ [runs EXCEPT ![cr[e].status] = phase] \in [OptId -> RunPhase]
    BY <1>26 DEF TypeOK, AdvanceRun, RunPhase, Ended
  <2>3. queue' \in Seq(Event)
    BY <1>26, <2>2, WatchedType DEF TypeOK, AdvanceRun
  <2> QED BY <1>26, <2>1, <2>2, <2>3
         DEF TypeOK, AdvanceRun, store, cluster, sync, bounds
<1>27. ASSUME WorkerSkip PROVE TypeOK'
  <2>1. queue' \in Seq(Event)
    BY <1>27 DEF TypeOK, WorkerSkip
  <2> QED BY <1>27, <2>1 DEF TypeOK, WorkerSkip, store, cluster, sync, bounds
<1>28. ASSUME WorkerTake PROVE TypeOK'
  <2>1. Head(queue) \in Event /\ Tail(queue) \in Seq(Event)
    BY <1>28 DEF TypeOK, WorkerTake
  <2>2. Head(queue).rec \in Ids
    BY <1>28 DEF TypeOK, WorkerTake, RecExists
  <2>3. worker' \in Worker
    BY <1>28, <2>1, <2>2, TypeFacts DEF TypeOK, WorkerTake, Worker
  <2> QED BY <1>28, <2>1, <2>2, <2>3
         DEF TypeOK, WorkerTake, store, cluster, sync, bounds
<1>29. ASSUME WorkerFails PROVE TypeOK'
  <2>1. Head(queue) \in Event /\ Tail(queue) \in Seq(Event)
    BY <1>29 DEF TypeOK, WorkerFails
  <2>2. delayed' \subseteq Event
    BY <1>29, <2>1, RequeuedType DEF TypeOK, WorkerFails
  <2>3. faults' \in 0..MaxFault /\ restarts' \in 0..MaxRestart
    BY <1>29, FaultType DEF TypeOK, WorkerFails, bounds
  <2> QED BY <1>29, <2>1, <2>2, <2>3
         DEF TypeOK, WorkerFails, store, cluster, sync, bounds
<1>30. ASSUME NEW n \in Ids, WorkerNoRevision(n) PROVE TypeOK'
  <2>1. worker' \in Worker
    BY <1>30, TypeFacts DEF TypeOK, WorkerNoRevision
  <2>2. delayed' \subseteq Event
    BY <1>30, RequeuedType DEF TypeOK, WorkerNoRevision, Worker
  <2>3. [recs[n] EXCEPT !.status = "failure", !.finished = TRUE] \in Record
    BY FinishedType DEF TypeOK, RecStatus
  <2>4. recs' \in [Ids -> Record]
    BY <1>30, <2>3 DEF TypeOK, WorkerNoRevision
  <2> QED BY <1>30, <2>1, <2>2, <2>3, <2>4
         DEF TypeOK, WorkerNoRevision, store, cluster, sync, bounds
<1>31. ASSUME NEW n \in Ids, WorkerStops(n) PROVE TypeOK'
  <2>1. worker' \in Worker
    BY <1>31, TypeFacts DEF TypeOK, WorkerStops
  <2>2. delayed' \subseteq Event
    BY <1>31, RequeuedType DEF TypeOK, WorkerStops, Worker
  <2>3. faults' \in 0..MaxFault /\ restarts' \in 0..MaxRestart
    BY <1>31, FaultType DEF TypeOK, WorkerStops
  <2> QED BY <1>31, <2>1, <2>2, <2>3
         DEF TypeOK, WorkerStops, store, cluster, sync, bounds
<1>32. ASSUME NEW n \in Ids, WorkerOwn(n) PROVE TypeOK'
  <2>1. worker.event.phase \in RunPhase /\ n \in OptId /\ worker \in Worker
    BY <1>32, TypeFacts DEF TypeOK, WorkerOwn, Worker, Event
  <2>2. RevisionSynced(ann[n].ver, worker.event.phase, n) \in Copy
    BY <1>32, <2>1, RevisionSyncedType DEF TypeOK, WorkerOwn, RevExists
  <2>3. worker' \in Worker
    BY <1>32, <2>1, <2>2 DEF TypeOK, WorkerOwn, Worker, Syncing
  <2> QED BY <1>32, <2>1, <2>2, <2>3
         DEF TypeOK, WorkerOwn, store, cluster, sync, bounds
<1>33. ASSUME NEW n \in Ids, WorkerLeave(n) PROVE TypeOK'
  <2>1. worker' \in Worker
    BY <1>33, WithType DEF TypeOK, WorkerLeave, Worker
  <2>2. faults' \in 0..MaxFault /\ restarts' \in 0..MaxRestart
    BY <1>33, FaultType DEF TypeOK, WorkerLeave, bounds
  <2> QED BY <1>33, <2>1, <2>2 DEF TypeOK, WorkerLeave, store, cluster, sync, bounds
<1>34. ASSUME NEW n \in Ids, WorkerSuperseded(n) PROVE TypeOK'
  <2>1. ann[n].ver \in Ids /\ revs[ann[n].ver].cr \in OptId /\ n \in OptId
    BY <1>34, TypeFacts DEF TypeOK, WorkerSuperseded, RevExists, Revision
  <2>2. \A p \in RunPhase : RevisionSynced(ann[n].ver, p, revs[ann[n].ver].cr) \in Copy
    BY <1>34, <2>1, RevisionSyncedType DEF TypeOK, WorkerSuperseded
  <2>3. (IF runs[revs[ann[n].ver].cr] \in {"failed", "succeeded"} THEN runs[revs[ann[n].ver].cr] ELSE "terminated") \in RunPhase
    BY <1>34, <2>1 DEF TypeOK, WorkerSuperseded, RunPhase, Ended
  <2>4. ASSUME NEW p \in RunPhase, Syncing(n, p, {RevisionSynced(ann[n].ver, p, revs[ann[n].ver].cr)}) PROVE worker' \in Worker
    BY <1>34, <2>1, <2>2, <2>4 DEF TypeOK, WorkerSuperseded, Worker, Syncing
  <2>5. worker' \in Worker
    BY <1>34, <2>3, <2>4, WithType DEF TypeOK, WorkerSuperseded, Worker
  <2> QED BY <1>34, <2>1, <2>2, <2>3, <2>4, <2>5
         DEF TypeOK, WorkerSuperseded, store, cluster, sync, bounds
<1>35. ASSUME NEW n \in Ids, WorkerRevisionGone(n) PROVE TypeOK'
  <2>1. n \in OptId
    BY <1>35, TypeFacts DEF TypeOK, WorkerRevisionGone
  <2>2. worker' \in Worker
    BY <1>35, <2>1 DEF TypeOK, WorkerRevisionGone, Worker, Syncing, RunPhase, Ended
  <2> QED BY <1>35, <2>1, <2>2
         DEF TypeOK, WorkerRevisionGone, store, cluster, sync, bounds
<1>36. ASSUME WorkerPutRecord PROVE TypeOK'
  <2>1. worker.phase \in RunPhase /\ (worker.phase \in Ended) \in BOOLEAN
    BY <1>36 DEF TypeOK, WorkerPutRecord, Worker
  <2>2. \A n \in Ids : [recs[n] EXCEPT !.status = worker.phase, !.finished = (worker.phase \in Ended)] \in Record
    BY <2>1, FinishedType DEF TypeOK, RecStatus
  <2>3. recs' \in [Ids -> Record]
    BY <1>36, <2>2 DEF TypeOK, WorkerPutRecord, RecExists
  <2>4. With(worker.todo) \in Worker
    BY <1>36, WithType DEF TypeOK, WorkerPutRecord, Worker
  <2>5. worker' \in Worker
    BY <1>36, <2>4 DEF TypeOK, WorkerPutRecord, Worker
  <2> QED BY <1>36, <2>1, <2>2, <2>3, <2>4, <2>5
         DEF TypeOK, WorkerPutRecord, store, cluster, sync, bounds
<1>37. ASSUME WorkerPutRevision PROVE TypeOK'
  <2>1. \E c \in Copy : revs' = PutRevision(c)
    BY <1>37 DEF TypeOK, WorkerPutRevision, Worker
  <2>2. revs' \in [Ids -> Revision]
    BY <1>37, <2>1, PutRevisionType DEF TypeOK, WorkerPutRevision
  <2>3. worker' \in Worker
    BY <1>37, WithType DEF TypeOK, WorkerPutRevision, Worker
  <2> QED BY <1>37, <2>1, <2>2, <2>3
         DEF TypeOK, WorkerPutRevision, store, cluster, sync, bounds
<1>38. ASSUME WorkerPutFails PROVE TypeOK'
  <2>1. worker' \in Worker
    BY <1>38, WithType DEF TypeOK, WorkerPutFails, Worker
  <2>2. faults' \in 0..MaxFault /\ restarts' \in 0..MaxRestart
    BY <1>38, FaultType DEF TypeOK, WorkerPutFails
  <2> QED BY <1>38, <2>1, <2>2
         DEF TypeOK, WorkerPutFails, store, cluster, sync, bounds
<1>39. ASSUME Redeliver PROVE TypeOK'
  <2>1. delayed' \subseteq Event
    BY <1>39 DEF TypeOK, Redeliver
  <2>2. queue' \in Seq(Event)
    BY <1>39 DEF TypeOK, Redeliver
  <2> QED BY <1>39, <2>1, <2>2 DEF TypeOK, Redeliver, store, cluster, sync, bounds
<1>40. ASSUME Restart PROVE TypeOK'
  <2>1. req' \in [Handlers -> Handler]
    BY <1>40, TypeFacts DEF TypeOK, Restart
  <2>2. \A i \in DOMAIN ListOrder : cr[ListOrder[i]].status \in OptId
    BY <1>40, ConstantsAssumption DEF TypeOK, Restart
  <2>3. \A i \in DOMAIN ListOrder : [rec |-> cr[ListOrder[i]].status, phase |-> runs[cr[ListOrder[i]].status], tries |-> 0] \in Event
    BY <1>40, <2>2, ConstantsAssumption DEF TypeOK, Restart, Event
  <2>4. DOMAIN ListOrder = 1..Len(ListOrder) /\ Len(ListOrder) \in Nat
    BY <1>40, ConstantsAssumption DEF TypeOK, Restart
  <2>5. queue' \in Seq(Event)
    BY <1>40, <2>3, <2>4 DEF TypeOK, Restart
  <2>6. worker' \in Worker
    BY <1>40, TypeFacts DEF TypeOK, Restart
  <2>7. restarts' \in 0..MaxRestart
    BY <1>40, ConstantsAssumption DEF TypeOK, Restart
  <2> QED BY <1>40, <2>1, <2>2, <2>3, <2>4, <2>5, <2>6, <2>7
         DEF TypeOK, Restart, store, cluster, sync, bounds
<1> QED BY <1>1, <1>2, <1>3, <1>4, <1>5, <1>6, <1>7, <1>8, <1>9, <1>10, <1>11,
       <1>12, <1>13, <1>14, <1>15, <1>16, <1>17, <1>18, <1>19, <1>20, <1>21, <1>22,
       <1>23, <1>24, <1>25, <1>26, <1>27, <1>28, <1>29, <1>30, <1>31, <1>32, <1>33,
       <1>34, <1>35, <1>36, <1>37, <1>38, <1>39, <1>40
       DEF Next, NewRequest, RequestStep, RequestFails, ControllerStep, WorkerStep,
       WorkerSync

\* The actions that write revisions.
LEMMA RevsFrame ==
  ASSUME Next
  PROVE  \/ revs' = revs
         \/ WorkerPutRevision
         \/ \E h \in Handlers :
               \/ DeployAdd(h) \/ ApplyFails(h) \/ DeployRunning(h)
               \/ ResetRevisions(h) \/ ResetFails(h) \/ RollbackRecord(h)
               \/ RollbackWithRevision(h) \/ RestoreCRName(h) \/ DeleteWipe(h)
BY DEF Next, NewRequest, RequestStep, RequestFails, WorkerStep, WorkerSync,
   store, cluster, sync, bounds, DeployCheck, Apply, NamespaceFails,
   RunningFails, AddRecord, RecordFails, ResetList, ResetRecords, RollbackCheck,
   RollbackToCheck, RollbackPutFails, ApplicationEnvRecycle, TerminateWorkflow,
   ResumeWorkflow, DeleteCheck, ControllerStep, StartRun, AdvanceRun, WorkerSkip,
   WorkerTake,
   WorkerFails, WorkerNoRevision, WorkerStops, WorkerOwn, WorkerLeave,
   WorkerSuperseded, WorkerRevisionGone, WorkerPutRecord, WorkerPutFails,
   Redeliver, Restart

\* The actions that write records.
LEMMA RecsFrame ==
  ASSUME Next
  PROVE  \/ recs' = recs
         \/ WorkerPutRecord
         \/ \E n \in Ids : WorkerNoRevision(n)
         \/ \E h \in Handlers :
               ApplyFails(h) \/ AddRecord(h) \/ ResetRecords(h) \/ DeleteWipe(h)
BY DEF Next, NewRequest, RequestStep, RequestFails, WorkerStep, WorkerSync,
   store, cluster, sync, bounds, DeployCheck, DeployAdd, Apply, NamespaceFails,
   DeployRunning, RunningFails, RecordFails, ResetList, ResetRevisions,
   ResetFails, RollbackCheck, RollbackRecord, RollbackToCheck,
   RollbackWithRevision, RestoreCRName, RollbackPutFails, ApplicationEnvRecycle,
   TerminateWorkflow, ResumeWorkflow, DeleteCheck, ControllerStep, StartRun,
   AdvanceRun,
   WorkerSkip, WorkerTake, WorkerFails, WorkerStops, WorkerOwn, WorkerLeave,
   WorkerSuperseded, WorkerRevisionGone, WorkerPutRevision, WorkerPutFails,
   Redeliver, Restart

\* The actions that generate a version.
LEMMA IdsFrame ==
  ASSUME Next
  PROVE  \/ ann' = ann /\ nextId' = nextId
         \/ \E h \in Handlers : DeployAdd(h) \/ RollbackRecord(h)
         \/ \E h \in Handlers, v \in Ids : RollbackToCheck(h, v)
<1>1. ASSUME NEW h \in Handlers, ApplyFails(h) PROVE ann' = ann /\ nextId' = nextId
  BY <1>1 DEF ApplyFails
<1> QED BY <1>1 DEF Next, NewRequest, RequestStep, RequestFails, WorkerStep, WorkerSync,
   store, cluster, sync, bounds, DeployCheck, Apply, NamespaceFails,
   DeployRunning, RunningFails, AddRecord, RecordFails, ResetList,
   ResetRevisions, ResetFails, ResetRecords, RollbackCheck,
   RollbackWithRevision, RestoreCRName, RollbackPutFails, ApplicationEnvRecycle,
   TerminateWorkflow, ResumeWorkflow, DeleteCheck, DeleteWipe, ControllerStep,
   StartRun, AdvanceRun, WorkerSkip, WorkerTake, WorkerFails, WorkerNoRevision,
   WorkerStops, WorkerOwn, WorkerLeave, WorkerSuperseded, WorkerRevisionGone,
   WorkerPutRecord, WorkerPutRevision, WorkerPutFails, Redeliver, Restart

\* The actions that change a CR or a run.
LEMMA ClusterFrame ==
  ASSUME Next
  PROVE  \/ cr' = cr /\ runs' = runs
         \/ \E h \in Handlers : Applies(h)
         \/ \E h \in Handlers, e \in Envs : ApplicationEnvRecycle(h, e)
         \/ \E e \in Envs :
               TerminateWorkflow(e) \/ ResumeWorkflow(e) \/ ControllerStep(e)
<1>1. ASSUME NEW h \in Handlers, NewRequest(h)
      PROVE  (cr' = cr /\ runs' = runs) \/ \E e \in Envs : ApplicationEnvRecycle(h, e)
  BY <1>1 DEF NewRequest, store, cluster, sync, bounds, DeployCheck, RollbackCheck,
     RollbackToCheck, DeleteCheck
<1>2. ASSUME NEW h \in Handlers, RequestStep(h)
      PROVE  (cr' = cr /\ runs' = runs) \/ Applies(h)
  BY <1>2 DEF Applies, RequestStep, store, cluster, sync, bounds, DeployAdd, DeployRunning,
     AddRecord, ResetList, ResetRevisions, ResetRecords, RollbackRecord,
     RollbackWithRevision, RollbackPutFails, DeleteWipe
<1>3. ASSUME NEW h \in Handlers, RequestFails(h)
      PROVE  (cr' = cr /\ runs' = runs) \/ Applies(h)
  BY <1>3 DEF Applies, RequestFails, store, cluster, sync, bounds, ApplyFails,
     NamespaceFails, RunningFails, RecordFails, ResetFails, RestoreCRName
<1>4. ASSUME WorkerStep \/ Redeliver \/ Restart \/ WorkerPutFails \/ \E n \in Ids : WorkerStops(n)
      PROVE  cr' = cr /\ runs' = runs
  BY <1>4 DEF WorkerStep, WorkerSync, store, cluster, sync, bounds, WorkerSkip,
     WorkerTake, WorkerFails, WorkerNoRevision, WorkerStops, WorkerOwn,
     WorkerLeave, WorkerSuperseded, WorkerRevisionGone, WorkerPutRecord,
     WorkerPutRevision, WorkerPutFails, Redeliver, Restart
<1> QED BY <1>1, <1>2, <1>3, <1>4 DEF Next

\* The actions that change the work queue or the delayed events.
LEMMA QueueFrame ==
  ASSUME Next
  PROVE  \/ queue' = queue /\ delayed' = delayed
         \/ \E h \in Handlers : Applies(h)
         \/ \E e \in Envs :
               TerminateWorkflow(e) \/ ResumeWorkflow(e) \/ ControllerStep(e)
         \/ WorkerSkip \/ WorkerTake \/ WorkerFails \/ Redeliver \/ Restart
         \/ \E n \in Ids : WorkerNoRevision(n) \/ WorkerStops(n)
<1>1. ASSUME NEW h \in Handlers, NewRequest(h) \/ RequestFails(h)
      PROVE  (queue' = queue /\ delayed' = delayed) \/ Applies(h)
  BY <1>1 DEF Applies, NewRequest, RequestFails, store, cluster, sync, bounds, DeployCheck,
     RollbackCheck, RollbackToCheck, ApplicationEnvRecycle, DeleteCheck,
     ApplyFails, NamespaceFails, RunningFails, RecordFails, ResetFails,
     RestoreCRName
<1>2. ASSUME NEW h \in Handlers, RequestStep(h)
      PROVE  (queue' = queue /\ delayed' = delayed) \/ Applies(h)
  BY <1>2 DEF Applies, RequestStep, store, cluster, sync, bounds, DeployAdd, DeployRunning,
     AddRecord, ResetList, ResetRevisions, ResetRecords, RollbackRecord,
     RollbackWithRevision, RollbackPutFails, DeleteWipe
<1>3. ASSUME WorkerStep \/ WorkerPutFails
      PROVE  \/ queue' = queue /\ delayed' = delayed
             \/ WorkerSkip \/ WorkerTake \/ WorkerFails
             \/ \E n \in Ids : WorkerNoRevision(n)
  BY <1>3 DEF WorkerStep, WorkerSync, store, cluster, sync, bounds, WorkerOwn,
     WorkerLeave, WorkerSuperseded, WorkerRevisionGone, WorkerPutRecord,
     WorkerPutRevision, WorkerPutFails
<1> QED BY <1>1, <1>2, <1>3 DEF Next

\* The actions that move the sync worker.
LEMMA WorkerFrame ==
  ASSUME Next
  PROVE  \/ worker' = worker
         \/ WorkerTake \/ WorkerPutRecord \/ WorkerPutRevision \/ WorkerPutFails
         \/ Restart
         \/ \E n \in Ids :
               \/ WorkerNoRevision(n) \/ WorkerStops(n) \/ WorkerOwn(n)
               \/ WorkerLeave(n) \/ WorkerSuperseded(n) \/ WorkerRevisionGone(n)
BY DEF Next, NewRequest, RequestStep, RequestFails, WorkerStep, WorkerSync,
   store, cluster, sync, bounds, DeployCheck, DeployAdd, Apply, ApplyFails,
   NamespaceFails, DeployRunning, RunningFails, AddRecord, RecordFails,
   ResetList, ResetRevisions, ResetFails, ResetRecords, RollbackCheck,
   RollbackRecord, RollbackToCheck, RollbackWithRevision, RestoreCRName,
   RollbackPutFails, ApplicationEnvRecycle, TerminateWorkflow, ResumeWorkflow,
   DeleteCheck, DeleteWipe, ControllerStep, StartRun, AdvanceRun, WorkerSkip,
   WorkerFails,
   Redeliver

\* The actions that move a request.
LEMMA RequestFrame ==
  ASSUME Next
  PROVE  \/ req' = req
         \/ Restart
         \/ \E h \in Handlers : NewRequest(h) \/ RequestStep(h) \/ RequestFails(h)
BY DEF Next, WorkerStep, WorkerSync, store, cluster, sync, bounds,
   TerminateWorkflow, ResumeWorkflow, ControllerStep, StartRun, AdvanceRun,
   WorkerSkip,
   WorkerTake, WorkerFails, WorkerNoRevision, WorkerStops, WorkerOwn,
   WorkerLeave, WorkerSuperseded, WorkerRevisionGone, WorkerPutRecord,
   WorkerPutRevision, WorkerPutFails, Redeliver

\* A Put neither creates a revision nor changes its workflow.
LEMMA PutRevisionKeeps ==
  ASSUME TypeOK, NEW c \in Copy, NEW v \in Ids, PutRevision(c)[v].status # "none"
  PROVE  revs[v].status # "none" /\ PutRevision(c)[v].wf = revs[v].wf
BY DEF TypeOK, PutRevision, RevExists, Copy, Revision

\* Nor does Putting listed revisions as terminated.
LEMMA TerminatedKeeps ==
  ASSUME TypeOK, NEW copies \in SUBSET Copy, NEW v \in Ids,
         Terminated(v, copies).status # "none"
  PROVE  revs[v].status # "none" /\ Terminated(v, copies).wf = revs[v].wf
BY DEF TypeOK, Terminated, RevExists, Revision

\* A step of one request leaves the others where they are.
LEMMA OtherRequests ==
  ASSUME TypeOK, NEW h \in Handlers,
         NewRequest(h) \/ RequestStep(h) \/ RequestFails(h),
         NEW g \in Handlers, g # h
  PROVE  req'[g] = req[g]
<1>1. CASE NewRequest(h)
  BY <1>1 DEF TypeOK, NewRequest, DeployCheck, RollbackCheck, RollbackToCheck,
     ApplicationEnvRecycle, DeleteCheck
<1>2. CASE RequestStep(h)
  BY <1>2 DEF TypeOK, RequestStep, DeployAdd, Apply, DeployRunning, AddRecord,
     ResetList, ResetRevisions, ResetRecords, RollbackRecord,
     RollbackWithRevision, RollbackPutFails, DeleteWipe
<1>3. CASE RequestFails(h)
  BY <1>3 DEF TypeOK, RequestFails, ApplyFails, NamespaceFails, RecordFails,
     ResetFails, RunningFails, RestoreCRName
<1> QED BY <1>1, <1>2, <1>3

\* The copies a rollback Puts are copies.
LEMMA CopyPut ==
  ASSUME TypeOK, NEW h \in Handlers, NEW c \in req[h].seen
  PROVE  /\ c \in Copy
         /\ [c EXCEPT !.status = "rollback", !.rb = req[h].ver] \in Copy
         /\ [c EXCEPT !.cr = 0] \in Copy
<1>1. c \in Copy /\ req[h].ver \in OptId
  BY DEF TypeOK, Handler
<1> QED BY <1>1, TypeFacts DEF Copy, RevStatus

\* The revision a deploy has in memory is a copy.
LEMMA DeployedType ==
  ASSUME TypeOK, NEW h \in Handlers, NEW status \in RevStatus
  PROVE  Deployed(req[h].ver, status) \in Copy
BY TypeFacts DEF TypeOK, Deployed, Copy, Handler

\* The clock only moves on, and a generated version keeps its annotations.
LEMMA VersionsGrow ==
  ASSUME TypeOK, Next
  PROVE  /\ nextId \in Nat /\ nextId' \in Nat /\ nextId <= nextId'
         /\ \A n \in Ids : n < nextId => ann'[n] = ann[n]
<1>1. nextId \in Nat
  BY ConstantsAssumption DEF TypeOK
<1>2. CASE ann' = ann /\ nextId' = nextId
  BY <1>1, <1>2
<1>3. ASSUME NEW h \in Handlers, DeployAdd(h) \/ RollbackRecord(h)
      PROVE  nextId' = nextId + 1 /\ \A n \in Ids : n # nextId => ann'[n] = ann[n]
  BY <1>3 DEF TypeOK, DeployAdd, RollbackRecord
<1>4. ASSUME NEW h \in Handlers, NEW v \in Ids, RollbackToCheck(h, v)
      PROVE  nextId' = nextId + 1 /\ \A n \in Ids : n # nextId => ann'[n] = ann[n]
  BY <1>4 DEF TypeOK, RollbackToCheck
<1>5. CASE nextId' = nextId + 1 /\ \A n \in Ids : n # nextId => ann'[n] = ann[n]
  BY <1>1, <1>5 DEF Ids
<1> QED BY <1>2, <1>3, <1>4, <1>5, IdsFrame

\* A revision keeps its workflow, whoever writes it.
LEMMA BoundRevs ==
  ASSUME TypeOK, Bound, Next, NEW v \in Ids, revs'[v].status # "none"
  PROVE  revs'[v].wf \in Workflows
<1>1. CASE revs' = revs
  BY <1>1 DEF Bound
<1>2. CASE \E c \in Copy : revs' = PutRevision(c)
  BY <1>2, PutRevisionKeeps DEF Bound
<1>3. CASE \E copies \in SUBSET Copy : revs' = [u \in Ids |-> Terminated(u, copies)]
  BY <1>3, TerminatedKeeps DEF Bound
<1>4. CASE WorkerPutRevision
  BY <1>2, <1>4 DEF TypeOK, Worker, WorkerPutRevision
<1>5. ASSUME NEW h \in Handlers, DeployAdd(h)
      PROVE  revs'[v].wf \in Workflows
  <2>1. req[h].wf \in Workflows
    BY <1>5 DEF Bound, RequestBound, DeployAdd
  <2> QED BY <1>5, <2>1 DEF TypeOK, Bound, DeployAdd, NoRevision
<1>6. ASSUME NEW h \in Handlers, ApplyFails(h)
      PROVE  revs'[v].wf \in Workflows
  <2>1. Deployed(req[h].ver, "failure") \in Copy
    BY DeployedType DEF RevStatus
  <2> QED BY <1>1, <1>2, <1>6, <2>1 DEF ApplyFails
<1>7. ASSUME NEW h \in Handlers, DeployRunning(h)
      PROVE  revs'[v].wf \in Workflows
  <2>1. Deployed(req[h].ver, "running") \in Copy
    BY DeployedType DEF RevStatus
  <2> QED BY <1>2, <1>7, <2>1 DEF DeployRunning
<1>8. ASSUME NEW h \in Handlers, ResetRevisions(h) \/ ResetFails(h)
      PROVE  revs'[v].wf \in Workflows
  <2>1. req[h].seen \in SUBSET Copy
    BY DEF TypeOK, Handler
  <2> QED BY <1>3, <1>8, <2>1 DEF ResetRevisions, ResetFails
<1>9. ASSUME NEW h \in Handlers,
             RollbackRecord(h) \/ RollbackWithRevision(h) \/ RestoreCRName(h)
      PROVE  revs'[v].wf \in Workflows
  BY <1>2, <1>9, CopyPut DEF RollbackRecord, RollbackWithRevision, RestoreCRName
<1>10. ASSUME NEW h \in Handlers, DeleteWipe(h)
       PROVE  revs'[v].wf \in Workflows
  BY <1>10 DEF TypeOK, Bound, DeleteWipe, NoRevision
<1> QED BY <1>1, <1>4, <1>5, <1>6, <1>7, <1>8, <1>9, <1>10, RevsFrame

\* A version is generated for a workflow.
LEMMA BoundAnn ==
  ASSUME TypeOK, Bound, Next, NEW n \in Ids, n < nextId'
  PROVE  ann'[n].wf \in Workflows
<1>1. CASE ann' = ann /\ nextId' = nextId
  BY <1>1 DEF Bound
<1>2. CASE /\ nextId' = nextId + 1
           /\ \E w \in Workflows, v \in OptId :
                 ann' = [ann EXCEPT ![nextId] = [wf |-> w, ver |-> v]]
  <2>1. n < nextId \/ n = nextId
    BY <1>2, ConstantsAssumption DEF TypeOK, Ids
  <2> QED BY <1>2, <2>1 DEF TypeOK, Bound
<1>3. ASSUME NEW h \in Handlers, DeployAdd(h) \/ RollbackRecord(h)
      PROVE  ann'[n].wf \in Workflows
  <2>1. req[h].wf \in Workflows /\ req[h].ver \in OptId
    BY <1>3 DEF TypeOK, Handler, Bound, RequestBound, DeployAdd, RollbackRecord
  <2>2. DeployAdd(h) => nextId \in OptId
    BY TypeFacts DEF DeployAdd, Room, TypeOK, Ids
  <2> QED BY <1>2, <1>3, <2>1, <2>2 DEF DeployAdd, RollbackRecord
<1>4. ASSUME NEW h \in Handlers, NEW v \in Ids, RollbackToCheck(h, v)
      PROVE  ann'[n].wf \in Workflows
  BY <1>2, <1>4, TypeFacts DEF Bound, RollbackToCheck, RevExists
<1> QED BY <1>1, <1>3, <1>4, IdsFrame

\* No record is added under a name that is not generated yet.
LEMMA BoundRecs ==
  ASSUME TypeOK, Bound, Next, NEW n \in Ids, nextId' <= n
  PROVE  recs'[n].status = "none"
<1>1. nextId <= n /\ recs[n].status = "none"
  BY VersionsGrow DEF Bound, Ids
<1>2. ASSUME NEW h \in Handlers, AddRecord(h) PROVE recs'[n].status = "none"
  <2>1. req[h].id # n
    BY <1>1, ConstantsAssumption
       DEF Bound, RequestBound, TypeOK, Handler, OptId, Ids
  <2> QED BY <1>1, <1>2, <2>1 DEF TypeOK, AddRecord
<1>3. ASSUME NEW h \in Handlers, ApplyFails(h) \/ DeleteWipe(h)
      PROVE  recs'[n].status = "none"
  <2>1. recs'[n] = recs[n] \/ recs'[n] = NoRecord
    BY <1>3 DEF TypeOK, ApplyFails, DeleteWipe
  <2> QED BY <1>1, <2>1 DEF NoRecord
<1>5. ASSUME NEW h \in Handlers, ResetRecords(h)
      PROVE  recs'[n].status = "none"
  <2>1. recs'[n] = recs[n]
    BY <1>1, <1>5 DEF TypeOK, ResetRecords, RecExists
  <2> QED BY <1>1, <2>1
<1>4. ASSUME WorkerPutRecord \/ \E m \in Ids : WorkerNoRevision(m)
      PROVE  recs'[n].status = "none"
  BY <1>1, <1>4 DEF TypeOK, WorkerPutRecord, WorkerNoRevision, RecExists
<1> QED BY <1>1, <1>2, <1>3, <1>4, <1>5, RecsFrame

\* A request keeps its workflow and a generated version from step to step.
LEMMA BoundRequests ==
  ASSUME TypeOK, TypeOK', Bound, Next, NEW g \in Handlers
  PROVE  RequestBound(req[g])'
<1>1. /\ nextId \in Nat /\ nextId' \in Nat /\ nextId <= nextId' /\ 0 < nextId'
      /\ req[g].id \in Int /\ req'[g].id \in Int
  <2>1. req[g].id \in OptId /\ req'[g].id \in OptId
    BY DEF TypeOK, Handler
  <2>2. 0 < nextId'
    BY DEF TypeOK
  <2> QED BY <2>1, <2>2, VersionsGrow, ConstantsAssumption DEF OptId
<1>2. CASE req'[g] = req[g]
  BY <1>1, <1>2 DEF Bound, RequestBound
<1>3. CASE req'[g] = Idle
  BY <1>1, <1>3 DEF RequestBound, Idle, Deliveries
<1>4. ASSUME req'[g].op = req[g].op, req'[g].wf = req[g].wf, req'[g].id = req[g].id,
             req'[g].op \in Deliveries \/ req'[g].step \in {"list", "reset", "records", "wipe"}
      PROVE  RequestBound(req[g])'
  BY <1>1, <1>4 DEF Bound, RequestBound
<1>5. CASE Restart
  BY <1>2, <1>3, <1>5 DEF TypeOK, Restart
<1>6. CASE NewRequest(g)
  <2>1. ASSUME NEW w \in Workflows, NEW kind \in {"deploy", "force"},
               DeployCheck(g, w, kind)
        PROVE  RequestBound(req[g])'
    BY <1>1, <2>1 DEF TypeOK, DeployCheck, Idle, RequestBound, Deliveries
  <2>2. ASSUME NEW n \in Ids, NEW v \in Ids, RollbackCheck(g, n, v)
        PROVE  RequestBound(req[g])'
    <3>1. ann[n].wf \in Workflows
      BY <2>2, VersionsGrow DEF Bound, RollbackCheck, RecExists, Ids
    <3> QED BY <1>1, <2>2, <3>1
           DEF TypeOK, RollbackCheck, Idle, RequestBound, Deliveries
  <2>3. ASSUME NEW v \in Ids, RollbackToCheck(g, v)
        PROVE  RequestBound(req[g])'
    <3>1. revs[v].wf \in Workflows
      BY <2>3 DEF Bound, RollbackToCheck, RevExists
    <3> QED BY <1>1, <2>3, <3>1
           DEF TypeOK, RollbackToCheck, Idle, RequestBound, Deliveries
  <2>4. ASSUME NEW e \in Envs, ApplicationEnvRecycle(g, e)
        PROVE  RequestBound(req[g])'
    BY <1>1, <2>4 DEF TypeOK, ApplicationEnvRecycle, Idle, RequestBound, Deliveries
  <2>5. ASSUME DeleteCheck(g)
        PROVE  RequestBound(req[g])'
    BY <1>1, <2>5 DEF TypeOK, DeleteCheck, Idle, RequestBound, Deliveries
  <2> QED BY <1>6, <2>1, <2>2, <2>3, <2>4, <2>5 DEF NewRequest
<1>7. ASSUME NEW ok \in BOOLEAN, req'[g] = AfterRecord(req[g], ok)
      PROVE  RequestBound(req[g])'
  BY <1>3, <1>4, <1>7 DEF TypeOK, Handler, AfterRecord, Deliveries
<1>8. CASE RequestStep(g)
  <2>1. CASE DeployAdd(g)
    BY <1>1, <2>1 DEF TypeOK, Handler, DeployAdd, Bound, RequestBound
  <2>2. CASE Apply(g)
    BY <1>1, <1>3, <2>2 DEF TypeOK, Handler, Apply, Bound, RequestBound
  <2>3. CASE DeployRunning(g) \/ DeleteWipe(g) \/ RollbackPutFails(g)
    BY <1>3, <2>3 DEF TypeOK, DeployRunning, DeleteWipe, RollbackPutFails
  <2>4. CASE ResetList(g) \/ ResetRevisions(g)
    <3>1. \E step \in {"list", "reset", "records"}, S \in SUBSET Copy :
             req'[g] = [req[g] EXCEPT !.step = step, !.seen = S]
      <4>1. req[g] \in Handler /\ req'[g] \in Handler
        BY DEF TypeOK
      <4>3. CASE ResetList(g)
        BY <4>1, <4>3 DEF TypeOK, Handler, ResetList
      <4>4. CASE ResetRevisions(g)
        BY <4>1, <4>4 DEF TypeOK, Handler, ResetRevisions
      <4> QED BY <2>4, <4>3, <4>4
    <3> QED BY <1>4, <3>1 DEF TypeOK, Handler
  <2>8. CASE AddRecord(g)
    <3>1. req[g] \in Handler /\ req'[g] = [req[g] EXCEPT !.step = "list"]
      BY <2>8 DEF TypeOK, AddRecord
    <3> QED BY <1>4, <3>1 DEF Handler
  <2>5. CASE ResetRecords(g)
    BY <1>7, <2>5 DEF TypeOK, ResetRecords
  <2>6. CASE RollbackRecord(g)
    BY <1>1, <2>6 DEF TypeOK, Handler, RollbackRecord, Bound, RequestBound
  <2>7. CASE RollbackWithRevision(g)
    BY <1>1, <2>7 DEF TypeOK, Handler, RollbackWithRevision, Bound, RequestBound
  <2> QED BY <1>8, <2>1, <2>2, <2>3, <2>4, <2>5, <2>6, <2>7, <2>8 DEF RequestStep
<1>9. CASE RequestFails(g)
  BY <1>3, <1>7, <1>9 DEF TypeOK, RequestFails, ApplyFails, NamespaceFails,
     RecordFails, ResetFails, RunningFails, RestoreCRName
<1> QED BY <1>2, <1>5, <1>6, <1>8, <1>9, OtherRequests, RequestFrame

\* Every step preserves Bound.
LEMMA BoundStep ==
  ASSUME TypeOK, TypeOK', Bound, Next
  PROVE  Bound'
BY BoundRevs, BoundAnn, BoundRecs, BoundRequests DEF Bound

\* The types and Bound hold at first.
LEMMA InitTypes ==
  ASSUME Init
  PROVE  TypeOK /\ Bound
<1>1. TypeOK
  BY TypeFacts, ConstantsAssumption DEF Init, TypeOK, RunPhase
<1>2. Bound
  BY ConstantsAssumption DEF Init, Bound, RequestBound, NoRevision, NoRecord, Idle,
     Deliveries, Ids
<1> QED BY <1>1, <1>2

\* A stuttering step keeps them.
LEMMA StutterTypes ==
  ASSUME TypeOK, Bound, UNCHANGED vars
  PROVE  TypeOK' /\ Bound'
BY DEF vars, store, cluster, sync, bounds, TypeOK, Bound, RequestBound

\* Every variable keeps its type: versions stay within the clock's bound, an
\* event is requeued MaxRequeue times at most, a request carries what its step
\* needs.
THEOREM TypeCorrect == Spec => []TypeOK
<1>1. Init => TypeOK /\ Bound
  BY InitTypes
<1>2. TypeOK /\ Bound /\ [Next]_vars => TypeOK' /\ Bound'
  BY TypeStep, BoundStep, StutterTypes
<1> QED BY <1>1, <1>2, PTL DEF Spec

=============================================================================
