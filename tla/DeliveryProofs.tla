--------------------------- MODULE DeliveryProofs ---------------------------
(***************************************************************************)
(* What the datastore shows of a delivery is true: the safety invariants   *)
(* of Delivery for every number of environments, workflows, requests,      *)
(* versions, faults and restarts.                                          *)
(*                                                                         *)
(* The invariants are not inductive.  A revision becomes complete by the   *)
(* Put of a copy that a request or the sync worker read earlier, from an   *)
(* event queued before that; so every copy, every queued event and every   *)
(* CR revision name must already be backed by a run (Honest).  A run that  *)
(* succeeded must not start again, which holds because a publish version   *)
(* is applied once (Fresh).                                                *)
(*                                                                         *)
(* That a deploy waits for the last one is proved for one environment and  *)
(* one request at a time: the statuses that let it pass reach the revision *)
(* of the CR only when its run has ended (Admitted).                       *)
(***************************************************************************)
EXTENDS DeliveryTypeProofs

-----------------------------------------------------------------------------
(* A publish version is applied once, so a run that succeeded stays so *)

\* The request has a publish version that it has not applied yet.
Unapplied(r) ==
    \/ r.step \in {"clear", "apply"}
    \/ r.op = "rollback" /\ r.step \in {"record", "list", "reset", "records"}

\* A CR that the controller has not picked up asks for a run that is not there.
FreshCR ==
    \A e \in Envs :
        /\ cr[e].spec < nextId
        /\ cr[e].spec = 0 => cr[e].status = 0
        /\ cr[e].status # 0 => runs[cr[e].status] # "none"
        /\ cr[e].spec # cr[e].status => runs[cr[e].spec] = "none"

\* A version that is not applied yet belongs to one request and no CR.
FreshRequest ==
    \A h \in Handlers : Unapplied(req[h]) =>
        /\ req[h].id # 0
        /\ runs[req[h].id] = "none"
        /\ \A e \in Envs : cr[e].spec # req[h].id
        /\ \A g \in Handlers : Unapplied(req[g]) /\ req[g].id = req[h].id => g = h

Fresh ==
    /\ runs[0] = "none"
    /\ \A n \in Ids : nextId <= n => runs[n] = "none"
    /\ \A e, f \in Envs : cr[e].spec = cr[f].spec => e = f \/ cr[e].spec = 0
    /\ FreshCR
    /\ FreshRequest

\* Versions are integers; the ones read off requests, CRs and
\* revisions are versions.
LEMMA IdInt ==
  ASSUME TypeOK
  PROVE  /\ nextId \in Nat /\ 0 < nextId /\ nextId \notin {0}
         /\ \A n \in OptId : n \in Int /\ (n # 0 => n \in Ids)
         /\ \A h \in Handlers : req[h].id \in OptId /\ req[h].ver \in OptId
         /\ \A e \in Envs : cr[e].spec \in OptId /\ cr[e].status \in OptId
         /\ \A v \in Ids : revs[v].cr \in OptId
<1>1. nextId \in Nat /\ 0 < nextId /\ nextId \notin {0}
  BY ConstantsAssumption DEF TypeOK
<1>2. \A n \in OptId : n \in Int /\ (n # 0 => n \in Ids)
  BY ConstantsAssumption DEF OptId, Ids
<1>3. \A h \in Handlers : req[h].id \in OptId /\ req[h].ver \in OptId
  BY DEF TypeOK, Handler
<1>4. \A e \in Envs : cr[e].spec \in OptId /\ cr[e].status \in OptId
  BY DEF TypeOK
<1>5. \A v \in Ids : revs[v].cr \in OptId
  BY DEF TypeOK, Revision
<1> QED BY <1>1, <1>2, <1>3, <1>4, <1>5

\* Fresh survives a step that starts no run, changes no CR and frees no version.
LEMMA FreshKept ==
  ASSUME TypeOK, Fresh, cr' = cr, nextId' = nextId,
         \A n \in OptId : runs'[n] = "none" <=> runs[n] = "none",
         \A g \in Handlers : Unapplied(req'[g]) => Unapplied(req[g]) /\ req'[g].id = req[g].id
  PROVE  Fresh'
<1>1. \A n \in Ids : nextId' <= n => runs'[n] = "none"
  BY TypeFacts DEF Fresh
<1>2. runs'[0] = "none"
  BY TypeFacts DEF Fresh
<1>3. FreshCR'
  BY IdInt DEF Fresh, FreshCR
<1>4. FreshRequest'
  BY IdInt DEF Fresh, FreshRequest
<1> QED BY <1>1, <1>2, <1>3, <1>4 DEF Fresh

\* Fresh survives the request that generates a version.
LEMMA FreshGenerated ==
  ASSUME TypeOK, Bound, Fresh, cr' = cr, runs' = runs, nextId' = nextId + 1,
         nextId \in Ids, NEW h \in Handlers, req'[h].id = nextId,
         \A g \in Handlers : g # h => req'[g] = req[g]
  PROVE  Fresh'
<1>1. nextId < nextId' /\ \A n \in Ids : nextId' <= n => nextId <= n
  BY IdInt DEF Ids
<1>2. runs'[nextId] = "none" /\ nextId # 0
  BY IdInt DEF Fresh
<1>3. \A e \in Envs : cr[e].spec # nextId /\ cr[e].spec < nextId'
  BY <1>1, IdInt DEF Fresh, FreshCR
<1>4. \A g \in Handlers : req[g].id # nextId
  BY IdInt DEF Bound, RequestBound
<1>5. FreshCR'
  BY <1>3 DEF Fresh, FreshCR
<1>6. FreshRequest'
  <2>1. ASSUME NEW a \in Handlers, Unapplied(req'[a])
        PROVE  /\ req'[a].id # 0
               /\ runs'[req'[a].id] = "none"
               /\ \A e \in Envs : cr'[e].spec # req'[a].id
    <3>1. CASE a = h
      BY <1>2, <1>3, <3>1
    <3>2. CASE a # h
      BY <2>1, <3>2 DEF Fresh, FreshRequest
    <3> QED BY <3>1, <3>2
  <2>2. ASSUME NEW a \in Handlers, Unapplied(req'[a]), NEW b \in Handlers,
               Unapplied(req'[b]), req'[b].id = req'[a].id
        PROVE  b = a
    <3>1. CASE a # h /\ b # h
      BY <2>2, <3>1 DEF Fresh, FreshRequest
    <3>2. CASE a = h \/ b = h
      BY <1>4, <2>2, <3>2
    <3> QED BY <3>1, <3>2
  <2> QED BY <2>1, <2>2 DEF FreshRequest
<1> QED BY <1>1, <1>5, <1>6 DEF Fresh

\* Fresh survives the apply: the version leaves its request for one CR.
LEMMA FreshApplied ==
  ASSUME TypeOK, Bound, Fresh, NEW h \in Handlers, Applies(h)
  PROVE  Fresh'
<1> DEFINE e == EnvOf[req[h].wf]
<1>1. e \in Envs
  BY ConstantsAssumption DEF Applies, Apply, ApplyFails, Bound, RequestBound
<1>2. /\ Unapplied(req[h])
      /\ runs' = runs /\ nextId' = nextId
      /\ cr'[e].spec = req[h].id /\ cr'[e].status = cr[e].status
      /\ \A f \in Envs : f # e => cr'[f] = cr[f]
  BY <1>1 DEF TypeOK, Applies, Apply, ApplyFails, Unapplied
<1>3. ~ Unapplied(req'[h]) /\ \A g \in Handlers : g # h => req'[g] = req[g]
  <2>1. req[h] \in Handler
    BY DEF TypeOK
  <2>2. req'[h] = Idle \/ (req'[h] = [req[h] EXCEPT !.step = "record", !.seen = {}] /\ req[h].op # "rollback")
    BY DEF TypeOK, Applies, Apply, ApplyFails
  <2>3. CASE req'[h] = Idle
    BY <2>3 DEF Unapplied, Idle, TypeOK, Applies, Apply, ApplyFails
  <2>4. CASE req'[h] = [req[h] EXCEPT !.step = "record", !.seen = {}] /\ req[h].op # "rollback"
    <3>1. req'[h].step = "record" /\ req'[h].op # "rollback"
      BY <2>1, <2>4 DEF Handler
    <3> QED BY <3>1 DEF Unapplied, TypeOK, Applies, Apply, ApplyFails
  <2> QED BY <2>2, <2>3, <2>4
<1>4. /\ req[h].id # 0 /\ runs[req[h].id] = "none" /\ req[h].id < nextId
      /\ \A f \in Envs : cr[f].spec # req[h].id
      /\ \A g \in Handlers : Unapplied(req[g]) /\ req[g].id = req[h].id => g = h
  BY <1>2 DEF Fresh, FreshRequest, Bound, RequestBound
<1>5. FreshCR'
  BY <1>1, <1>2, <1>4 DEF Fresh, FreshCR
<1>6. FreshRequest'
  BY <1>1, <1>2, <1>3, <1>4 DEF Fresh, FreshRequest
<1>7. \A a, b \in Envs : cr'[a].spec = cr'[b].spec => a = b \/ cr'[a].spec = 0
  BY <1>1, <1>2, <1>4 DEF Fresh
<1> QED BY <1>2, <1>5, <1>6, <1>7 DEF Fresh

\* Fresh survives the start of the run a CR asks for.
LEMMA FreshStarted ==
  ASSUME TypeOK, Bound, Fresh, NEW e \in Envs, StartRun(e)
  PROVE  Fresh'
<1>1. /\ cr[e].spec \in OptId /\ cr[e].spec # 0 /\ runs[cr[e].spec] = "none"
      /\ cr[e].spec < nextId
  BY IdInt DEF StartRun, Fresh, FreshCR
<1>2. /\ cr'[e].spec = cr[e].spec /\ cr'[e].status = cr[e].spec
      /\ \A f \in Envs : f # e => cr'[f] = cr[f]
      /\ \A f \in Envs : cr'[f].spec = cr[f].spec
      /\ runs'[cr[e].spec] = "executing"
      /\ \A n \in OptId : n # cr[e].spec => runs'[n] = runs[n]
      /\ req' = req /\ nextId' = nextId
  BY <1>1 DEF TypeOK, StartRun
<1>3. FreshCR'
  <2>1. ASSUME NEW f \in Envs, f # e
        PROVE  cr'[f].spec # cr'[f].status => runs'[cr'[f].spec] = "none"
    BY <1>1, <1>2, <2>1, IdInt DEF Fresh, FreshCR
  <2>2. ASSUME NEW f \in Envs, f # e
        PROVE  cr'[f].status # 0 => runs'[cr'[f].status] # "none"
    BY <1>1, <1>2, <2>2, IdInt DEF Fresh, FreshCR
  <2> QED BY <1>1, <1>2, <2>1, <2>2 DEF Fresh, FreshCR
<1>4. FreshRequest'
  BY <1>1, <1>2, IdInt DEF Fresh, FreshRequest
<1>5. runs'[0] = "none" /\ \A n \in Ids : nextId' <= n => runs'[n] = "none"
  BY <1>1, <1>2, IdInt, TypeFacts DEF Fresh
<1> QED BY <1>2, <1>3, <1>4, <1>5 DEF Fresh

\* Fresh survives the recycling of an environment.
LEMMA FreshRecycled ==
  ASSUME TypeOK, Fresh, NEW h \in Handlers, NEW e \in Envs,
         ApplicationEnvRecycle(h, e)
  PROVE  Fresh'
<1>1. /\ cr'[e].spec = 0 /\ cr'[e].status = 0 /\ runs' = runs /\ nextId' = nextId
      /\ \A f \in Envs : f # e => cr'[f] = cr[f]
  BY DEF TypeOK, ApplicationEnvRecycle
<1>2. ~ Unapplied(req'[h]) /\ \A g \in Handlers : g # h => req'[g] = req[g]
  BY DEF TypeOK, ApplicationEnvRecycle, Idle, Unapplied
<1>3. FreshCR'
  BY <1>1, IdInt DEF Fresh, FreshCR
<1>4. FreshRequest'
  BY <1>1, <1>2, IdInt DEF Fresh, FreshRequest
<1> QED BY <1>1, <1>3, <1>4 DEF Fresh

\* After the record only a rollback still has to apply its version.
LEMMA UnappliedAfterRecord ==
  ASSUME NEW r \in Handler, NEW ok \in BOOLEAN, r.step \in {"record", "list", "reset", "records"},
         Unapplied(AfterRecord(r, ok))
  PROVE  Unapplied(r) /\ AfterRecord(r, ok).id = r.id
<1>1. CASE r.op \in {"deploy", "force"}
  <2>1. AfterRecord(r, ok).step = "running"
    BY <1>1 DEF AfterRecord, Handler
  <2> QED BY <2>1 DEF Unapplied
<1>2. CASE r.op = "rollback" /\ ok
  BY <1>2 DEF AfterRecord, Handler, Unapplied
<1>3. CASE r.op \notin {"deploy", "force"} /\ ~ (r.op = "rollback" /\ ok)
  BY <1>3 DEF AfterRecord, Unapplied, Idle
<1> QED BY <1>1, <1>2, <1>3

\* A request that has an unapplied version after a step had it before,
\* unless the step generated it.
LEMMA UnappliedKept ==
  ASSUME TypeOK, NEW h \in Handlers,
         NewRequest(h) \/ RequestStep(h) \/ RequestFails(h),
         nextId' = nextId, Unapplied(req'[h])
  PROVE  Unapplied(req[h]) /\ req'[h].id = req[h].id
<1>1. nextId # nextId + 1 /\ req[h] \in Handler
  BY IdInt DEF TypeOK
<1>2. CASE NewRequest(h)
  <2>1. ASSUME NEW w \in Workflows, NEW kind \in {"deploy", "force"},
               DeployCheck(h, w, kind)
        PROVE  ~ Unapplied(req'[h])
    <3>1. req'[h].step = "add"
      BY <2>1 DEF TypeOK, DeployCheck, Idle
    <3> QED BY <3>1 DEF Unapplied
  <2>2. ASSUME NEW n \in Ids, NEW v \in Ids, RollbackCheck(h, n, v)
        PROVE  ~ Unapplied(req'[h])
    <3>1. req'[h].step = "mark"
      BY <2>2 DEF TypeOK, RollbackCheck, Idle
    <3> QED BY <3>1 DEF Unapplied
  <2>3. ASSUME NEW v \in Ids, RollbackToCheck(h, v)
        PROVE  FALSE
    BY <1>1, <2>3 DEF RollbackToCheck
  <2>4. ASSUME NEW e \in Envs, ApplicationEnvRecycle(h, e)
        PROVE  ~ Unapplied(req'[h])
    BY <2>4 DEF TypeOK, ApplicationEnvRecycle, Idle, Unapplied
  <2>5. ASSUME DeleteCheck(h)
        PROVE  ~ Unapplied(req'[h])
    BY <2>5 DEF TypeOK, DeleteCheck, Idle, Unapplied
  <2> QED BY <1>2, <2>1, <2>2, <2>3, <2>4, <2>5 DEF NewRequest
<1>3. CASE req'[h] = Idle
  BY <1>3 DEF Idle, Unapplied
<1>4. CASE RequestStep(h)
  <2>1. CASE DeployAdd(h) \/ RollbackRecord(h)
    BY <1>1, <2>1 DEF DeployAdd, RollbackRecord
  <2>2. CASE Apply(h)
    BY <1>3, <2>2, <1>1 DEF TypeOK, Apply, Unapplied, Handler
  <2>3. CASE DeployRunning(h) \/ DeleteWipe(h) \/ RollbackPutFails(h)
    BY <1>3, <2>3 DEF TypeOK, DeployRunning, DeleteWipe, RollbackPutFails
  <2>4. CASE AddRecord(h)
    BY <1>1, <2>4 DEF TypeOK, AddRecord, Unapplied, Handler
  <2>5. CASE ResetList(h)
    BY <1>1, <2>5 DEF TypeOK, ResetList, Unapplied, Handler
  <2>6. CASE ResetRevisions(h)
    BY <1>1, <2>6 DEF TypeOK, ResetRevisions, Unapplied, Handler
  <2>7. CASE ResetRecords(h)
    BY <1>1, <2>7, UnappliedAfterRecord DEF TypeOK, ResetRecords
  <2>8. CASE RollbackWithRevision(h)
    BY <1>1, <2>8 DEF TypeOK, RollbackWithRevision, Unapplied, Handler
  <2> QED BY <1>4, <2>1, <2>2, <2>3, <2>4, <2>5, <2>6, <2>7, <2>8 DEF RequestStep
<1>5. CASE RequestFails(h)
  BY <1>1, <1>3, <1>5, UnappliedAfterRecord DEF TypeOK, RequestFails, ApplyFails,
     NamespaceFails, RecordFails, ResetFails, RunningFails, RestoreCRName
<1> QED BY <1>2, <1>4, <1>5

\* Every step preserves Fresh.
LEMMA FreshStep ==
  ASSUME TypeOK, Bound, Fresh, Next
  PROVE  Fresh'
<1>1. ASSUME NEW h \in Handlers, DeployAdd(h) \/ RollbackRecord(h)
      PROVE  Fresh'
  <2>1. nextId \in Ids /\ nextId' = nextId + 1 /\ cr' = cr /\ runs' = runs
    <3>1. nextId \in Nat /\ 0 < nextId
      BY IdInt
    <3>2. CASE DeployAdd(h)
      BY <3>1, <3>2 DEF DeployAdd, Room, Ids
    <3>3. CASE RollbackRecord(h)
      BY <3>1, <3>3 DEF RollbackRecord, Room, Ids
    <3> QED BY <1>1, <3>2, <3>3
  <2>2. req'[h].id = nextId
    <3>1. req[h] \in Handler
      BY DEF TypeOK
    <3>2. CASE DeployAdd(h)
      <4>1. req'[h] = [req[h] EXCEPT !.step = "apply", !.id = nextId, !.ver = nextId]
        BY <3>2 DEF TypeOK, DeployAdd
      <4> QED BY <3>1, <4>1 DEF Handler
    <3>3. CASE RollbackRecord(h)
      <4>1. req'[h] = [req[h] EXCEPT !.step = "record", !.id = nextId, !.seen = {}]
        BY <3>3 DEF TypeOK, RollbackRecord
      <4> QED BY <3>1, <4>1 DEF Handler
    <3> QED BY <1>1, <3>2, <3>3
  <2> QED BY <1>1, <2>1, <2>2, OtherRequests, FreshGenerated DEF RequestStep
<1>2. ASSUME NEW h \in Handlers, NEW v \in Ids, RollbackToCheck(h, v)
      PROVE  Fresh'
  <2>1. nextId \in Ids /\ nextId' = nextId + 1 /\ cr' = cr /\ runs' = runs
    BY <1>2 DEF TypeOK, RollbackToCheck, Room, Ids
  <2>2. req'[h].id = nextId
    BY <1>2 DEF TypeOK, RollbackToCheck, Idle
  <2> QED BY <1>2, <2>1, <2>2, OtherRequests, FreshGenerated DEF NewRequest
<1>3. ASSUME nextId' = nextId, NEW g \in Handlers, Unapplied(req'[g])
      PROVE  Unapplied(req[g]) /\ req'[g].id = req[g].id
  <2>1. CASE req'[g] = req[g]
    BY <1>3, <2>1
  <2>2. CASE Restart
    BY <1>3, <2>1, <2>2 DEF Restart, Idle, Unapplied, TypeOK
  <2> QED BY <1>3, <2>1, <2>2, UnappliedKept, OtherRequests, RequestFrame
<1>4. CASE nextId' = nextId
  <2>1. CASE cr' = cr /\ runs' = runs
    BY <1>3, <1>4, <2>1, FreshKept
  <2>2. ASSUME NEW e \in Envs,
               \/ TerminateWorkflow(e) \/ ResumeWorkflow(e)
               \/ \E phase \in {"suspending", "succeeded", "failed"} : AdvanceRun(e, phase)
        PROVE  Fresh'
    <3>1. cr' = cr /\ \A n \in OptId : n # cr[e].status => runs'[n] = runs[n]
      BY <2>2 DEF TypeOK, TerminateWorkflow, ResumeWorkflow, AdvanceRun
    <3>2. cr[e].status \in OptId /\ runs'[cr[e].status] # "none"
      BY <2>2 DEF TypeOK, TerminateWorkflow, ResumeWorkflow, AdvanceRun
    <3>3. runs[cr[e].status] # "none"
      BY <2>2 DEF Fresh, FreshCR, TerminateWorkflow, ResumeWorkflow, AdvanceRun
    <3> QED BY <1>3, <1>4, <3>1, <3>2, <3>3, FreshKept
  <2> QED BY <2>1, <2>2, ClusterFrame, FreshApplied, FreshStarted, FreshRecycled
          DEF ControllerStep
<1> QED BY <1>1, <1>2, <1>4, IdsFrame

\* What the rest of the argument needs of a step: versions keep their
\* annotations and a run that succeeded stays so.
LEMMA SuccessStays ==
  ASSUME TypeOK, Fresh, Next, NEW n \in OptId, runs[n] = "succeeded"
  PROVE  runs'[n] = "succeeded"
<1>1. ASSUME NEW e \in Envs, ControllerStep(e)
      PROVE  runs'[n] = "succeeded"
  <2>1. CASE StartRun(e)
    <3>1. cr[e].spec # n
      BY <2>1 DEF StartRun, Fresh, FreshCR
    <3> QED BY <2>1, <3>1 DEF TypeOK, StartRun
  <2>2. ASSUME NEW phase \in {"suspending", "succeeded", "failed"}, AdvanceRun(e, phase)
        PROVE  runs'[n] = "succeeded"
    BY <2>2 DEF TypeOK, AdvanceRun
  <2> QED BY <1>1, <2>1, <2>2 DEF ControllerStep
<1>2. ASSUME NEW e \in Envs, TerminateWorkflow(e) \/ ResumeWorkflow(e)
      PROVE  runs'[n] = "succeeded"
  BY <1>2 DEF TypeOK, TerminateWorkflow, ResumeWorkflow, Ended
<1>3. ASSUME NEW h \in Handlers,
             Applies(h) \/ \E e \in Envs : ApplicationEnvRecycle(h, e)
      PROVE  runs'[n] = "succeeded"
  BY <1>3 DEF Applies, Apply, ApplyFails, ApplicationEnvRecycle
<1> QED BY <1>1, <1>2, <1>3, ClusterFrame

-----------------------------------------------------------------------------
(* What every stored, queued or remembered success rests on *)

Earned(v) == \E n \in Ids : ann[n].ver = v /\ runs[n] = "succeeded"

\* m, unless it is 0, is a run of revision v.
OwnRun(v, m) == m # 0 => m < nextId /\ ann[m].ver = v

GoodCopy(c) == (c.status = "complete" => Earned(c.id)) /\ OwnRun(c.id, c.cr)

GoodEvent(ev) == ev.phase = "succeeded" => runs[ev.rec] = "succeeded"

HonestRevs ==
    \A v \in Ids : (revs[v].status = "complete" => Earned(v)) /\ OwnRun(v, revs[v].cr)

HonestRecs == \A n \in Ids : recs[n].status = "succeeded" => Earned(ann[n].ver)

HonestQueue ==
    /\ \A i \in 1..Len(queue) : GoodEvent(queue[i])
    /\ \A ev \in delayed : GoodEvent(ev)

HonestWorker ==
    /\ GoodEvent(worker.event)
    /\ \A c \in worker.rev : GoodCopy(c)
    /\ \A n \in worker.todo : n < nextId
    /\ worker.at < nextId
    /\ worker.phase = "succeeded" => worker.at # 0 /\ Earned(ann[worker.at].ver)

HonestRequests == \A h \in Handlers : \A c \in req[h].seen : GoodCopy(c)

Honest == HonestRevs /\ HonestRecs /\ HonestQueue /\ HonestWorker /\ HonestRequests

\* A success that was earned stays earned.
LEMMA EarnedStays ==
  ASSUME TypeOK, Fresh, Next, NEW v, Earned(v)
  PROVE  Earned(v)'
<1>1. PICK n \in Ids : ann[n].ver = v /\ runs[n] = "succeeded"
  BY DEF Earned
<1>2. n < nextId
  BY <1>1, IdInt DEF Fresh, Ids
<1>3. ann'[n] = ann[n] /\ runs'[n] = "succeeded"
  BY <1>1, <1>2, VersionsGrow, SuccessStays, TypeFacts
<1> QED BY <1>1, <1>3 DEF Earned

\* A run keeps its revision.
LEMMA OwnRunStays ==
  ASSUME TypeOK, Next, NEW v, NEW m \in OptId, OwnRun(v, m)
  PROVE  OwnRun(v, m)'
<1>1. CASE m = 0
  BY <1>1 DEF OwnRun
<1>2. CASE m # 0
  <2>1. m \in Ids /\ m \in Int /\ m < nextId
    BY <1>2, IdInt DEF OwnRun
  <2> QED BY <1>2, <2>1, VersionsGrow DEF OwnRun
<1> QED BY <1>1, <1>2

\* What a request or the worker remembers of a revision stays good.
LEMMA GoodCopyStays ==
  ASSUME TypeOK, Fresh, Next, NEW c \in Copy, GoodCopy(c)
  PROVE  GoodCopy(c)'
<1>1. c.cr \in OptId
  BY DEF Copy
<1>2. OwnRun(c.id, c.cr)'
  BY <1>1, OwnRunStays DEF GoodCopy
<1>3. c.status = "complete" => Earned(c.id)'
  BY EarnedStays DEF GoodCopy
<1> QED BY <1>2, <1>3 DEF GoodCopy

\* A queued event that says succeeded stays true.
LEMMA GoodEventStays ==
  ASSUME TypeOK, Fresh, Next, NEW ev \in Event, GoodEvent(ev)
  PROVE  GoodEvent(ev)'
<1>1. ev.rec \in OptId
  BY DEF Event
<1> QED BY <1>1, SuccessStays DEF GoodEvent

\* The revisions a request has listed stay good.
LEMMA SeenStays ==
  ASSUME TypeOK, Fresh, Honest, Next, NEW h \in Handlers, NEW c \in req[h].seen
  PROVE  c \in Copy /\ GoodCopy(c) /\ GoodCopy(c)'
<1>1. c \in Copy
  BY DEF TypeOK, Handler
<1> QED BY <1>1, GoodCopyStays DEF Honest, HonestRequests

\* A revision that is left alone stays good.
LEMMA RevisionStays ==
  ASSUME TypeOK, Fresh, Honest, Next, NEW v \in Ids
  PROVE  /\ revs[v].status = "complete" => Earned(v)'
         /\ OwnRun(v, revs[v].cr) /\ revs[v].cr \in OptId
         /\ revs[v].cr # 0 => revs[v].cr < nextId' /\ ann'[revs[v].cr].ver = v
<1>1. revs[v].cr \in OptId
  BY IdInt
<1>2. OwnRun(v, revs[v].cr)
  BY DEF Honest, HonestRevs
<1>3. ASSUME NEW m \in OptId, m = revs[v].cr
      PROVE  m # 0 => m < nextId' /\ ann'[m].ver = v
  <2>1. OwnRun(v, m)'
    BY <1>2, <1>3, OwnRunStays
  <2> QED BY <2>1 DEF OwnRun
<1> QED BY <1>1, <1>2, <1>3, EarnedStays DEF Honest, HonestRevs

\* A Put of a good copy, however stale, keeps the revisions honest.
LEMMA PutRevisionHonest ==
  ASSUME TypeOK, Fresh, Honest, Next, NEW c \in Copy, GoodCopy(c)',
         revs' = PutRevision(c)
  PROVE  HonestRevs'
<1> SUFFICES ASSUME NEW v \in Ids
             PROVE  /\ revs'[v].status = "complete" => Earned(v)'
                    /\ revs'[v].cr # 0 => revs'[v].cr < nextId' /\ ann'[revs'[v].cr].ver = v
  BY DEF HonestRevs, OwnRun
<1>1. CASE revs'[v] = revs[v]
  BY <1>1, RevisionStays
<1>2. CASE v = c.id /\ revs'[v].status = c.status /\ revs'[v].cr = c.cr
  BY <1>2 DEF GoodCopy, OwnRun
<1>3. revs'[v] = revs[v] \/ (v = c.id /\ revs'[v].status = c.status /\ revs'[v].cr = c.cr)
  BY DEF PutRevision, TypeOK, RevExists
<1> QED BY <1>1, <1>2, <1>3

\* Putting listed revisions as terminated keeps the revisions honest.
LEMMA TerminatedHonest ==
  ASSUME TypeOK, Fresh, Honest, Next, NEW h \in Handlers,
         NEW copies \in SUBSET req[h].seen,
         revs' = [v \in Ids |-> Terminated(v, copies)]
  PROVE  HonestRevs'
<1> SUFFICES ASSUME NEW v \in Ids
             PROVE  /\ revs'[v].status = "complete" => Earned(v)'
                    /\ revs'[v].cr # 0 => revs'[v].cr < nextId' /\ ann'[revs'[v].cr].ver = v
  BY DEF HonestRevs, OwnRun
<1>1. CASE revs'[v] = revs[v]
  BY <1>1, RevisionStays
<1>2. CASE \E c \in copies : c.id = v /\ revs'[v].status = "terminated" /\ revs'[v].cr = c.cr
  <2>1. PICK c \in copies : c.id = v /\ revs'[v].status = "terminated" /\ revs'[v].cr = c.cr
    BY <1>2
  <2>2. GoodCopy(c)'
    BY SeenStays
  <2> QED BY <2>1, <2>2 DEF GoodCopy, OwnRun
<1>3. revs'[v] = revs[v]
      \/ \E c \in copies : c.id = v /\ revs'[v].status = "terminated" /\ revs'[v].cr = c.cr
  <2>1. CASE RevExists(v) /\ {c \in copies : c.id = v} # {}
    <3> DEFINE c == CHOOSE x \in {x \in copies : x.id = v} : TRUE
    <3>1. c \in copies /\ c.id = v
      BY <2>1
    <3>2. revs'[v] = [status |-> "terminated", cr |-> c.cr, wf |-> revs[v].wf, rb |-> c.rb]
      BY <2>1 DEF Terminated
    <3> QED BY <3>1, <3>2
  <2>2. CASE ~ (RevExists(v) /\ {c \in copies : c.id = v} # {})
    BY <2>2 DEF Terminated
  <2> QED BY <2>1, <2>2
<1> QED BY <1>1, <1>2, <1>3

\* Every step keeps the revisions honest.
LEMMA HonestRevsStep ==
  ASSUME TypeOK, Fresh, Honest, Next
  PROVE  HonestRevs'
<1>1. CASE revs' = revs
  BY <1>1, RevisionStays DEF HonestRevs, OwnRun
<1>2. CASE WorkerPutRevision
  <2>1. PICK c \in worker.rev : revs' = PutRevision(c)
    BY <1>2 DEF WorkerPutRevision
  <2>2. c \in Copy /\ GoodCopy(c)
    BY DEF TypeOK, Worker, Honest, HonestWorker
  <2> QED BY <2>1, <2>2, GoodCopyStays, PutRevisionHonest
<1>3. ASSUME NEW h \in Handlers, DeployAdd(h)
      PROVE  HonestRevs'
  <2> SUFFICES ASSUME NEW v \in Ids
               PROVE  /\ revs'[v].status = "complete" => Earned(v)'
                      /\ revs'[v].cr # 0 => revs'[v].cr < nextId' /\ ann'[revs'[v].cr].ver = v
    BY DEF HonestRevs, OwnRun
  <2>1. CASE revs'[v] = revs[v]
    BY <2>1, RevisionStays
  <2>2. revs'[v] = revs[v] \/ (revs'[v].status = "init" /\ revs'[v].cr = 0)
    BY <1>3 DEF TypeOK, DeployAdd, NoRevision
  <2> QED BY <2>1, <2>2
<1>4. ASSUME NEW h \in Handlers, NEW status \in {"failure", "running"},
             revs' = PutRevision(Deployed(req[h].ver, status))
      PROVE  HonestRevs'
  <2>1. Deployed(req[h].ver, status) \in Copy
    BY DeployedType DEF RevStatus
  <2>2. /\ Deployed(req[h].ver, status).status = status
        /\ Deployed(req[h].ver, status).cr = 0
    BY DEF Deployed
  <2>3. ASSUME NEW c \in Copy, c = Deployed(req[h].ver, status)
        PROVE  HonestRevs'
    <3>1. GoodCopy(c)'
      BY <2>2, <2>3 DEF GoodCopy, OwnRun
    <3> QED BY <1>4, <2>3, <3>1, PutRevisionHonest
  <2> QED BY <2>1, <2>3
<1>5. ASSUME NEW h \in Handlers, ApplyFails(h)
      PROVE  HonestRevs'
  BY <1>1, <1>4, <1>5 DEF ApplyFails
<1>6. ASSUME NEW h \in Handlers, DeployRunning(h)
      PROVE  HonestRevs'
  BY <1>4, <1>6 DEF DeployRunning
<1>7. ASSUME NEW h \in Handlers, ResetRevisions(h) \/ ResetFails(h)
      PROVE  HonestRevs'
  <2>1. CASE ResetRevisions(h)
    <3>1. PICK put \in SUBSET req[h].seen : revs' = [v \in Ids |-> Terminated(v, put)]
      BY <2>1 DEF ResetRevisions
    <3> QED BY <3>1, TerminatedHonest
  <2>2. CASE ResetFails(h)
    <3>1. req[h].seen \in SUBSET req[h].seen
      OBVIOUS
    <3> QED BY <2>2, <3>1, TerminatedHonest DEF ResetFails
  <2> QED BY <1>7, <2>1, <2>2
<1>8. ASSUME NEW h \in Handlers, RollbackRecord(h)
      PROVE  HonestRevs'
  <2>1. PICK c \in req[h].seen :
           revs' = PutRevision([c EXCEPT !.status = "rollback", !.rb = req[h].ver])
    BY <1>8 DEF RollbackRecord
  <2>2. ASSUME NEW d \in Copy, d = [c EXCEPT !.status = "rollback", !.rb = req[h].ver]
        PROVE  HonestRevs'
    <3>1. d.status = "rollback" /\ d.cr = c.cr /\ d.id = c.id
      BY <2>2, SeenStays DEF Copy
    <3>2. GoodCopy(d)'
      BY <3>1, SeenStays DEF GoodCopy, OwnRun
    <3> QED BY <2>1, <2>2, <3>2, PutRevisionHonest
  <2> QED BY <2>2, CopyPut
<1>9. ASSUME NEW h \in Handlers, RollbackWithRevision(h)
      PROVE  HonestRevs'
  <2>1. PICK c \in req[h].seen : revs' = PutRevision([c EXCEPT !.cr = 0])
    BY <1>9 DEF RollbackWithRevision
  <2>2. ASSUME NEW d \in Copy, d = [c EXCEPT !.cr = 0]
        PROVE  HonestRevs'
    <3>1. d.status = c.status /\ d.cr = 0 /\ d.id = c.id
      BY <2>2, SeenStays DEF Copy
    <3>2. GoodCopy(d)'
      BY <3>1, SeenStays DEF GoodCopy, OwnRun
    <3> QED BY <2>1, <2>2, <3>2, PutRevisionHonest
  <2> QED BY <2>2, CopyPut
<1>10. ASSUME NEW h \in Handlers, RestoreCRName(h)
       PROVE  HonestRevs'
  BY <1>10, SeenStays, PutRevisionHonest DEF RestoreCRName
<1>11. ASSUME NEW h \in Handlers, DeleteWipe(h)
       PROVE  HonestRevs'
  <2> SUFFICES ASSUME NEW v \in Ids
               PROVE  /\ revs'[v].status = "complete" => Earned(v)'
                      /\ revs'[v].cr # 0 => revs'[v].cr < nextId' /\ ann'[revs'[v].cr].ver = v
    BY DEF HonestRevs, OwnRun
  <2>1. CASE revs'[v] = revs[v]
    BY <2>1, RevisionStays
  <2>2. revs'[v] = revs[v] \/ (revs'[v].status = "none" /\ revs'[v].cr = 0)
    BY <1>11 DEF TypeOK, DeleteWipe, NoRevision
  <2> QED BY <2>1, <2>2
<1> QED BY <1>1, <1>2, <1>3, <1>5, <1>6, <1>7, <1>8, <1>9, <1>10, <1>11, RevsFrame

\* Every step keeps the records honest.
LEMMA HonestRecsStep ==
  ASSUME TypeOK, Bound, Fresh, Honest, Next
  PROVE  HonestRecs'
<1> SUFFICES ASSUME NEW n \in Ids, recs'[n].status = "succeeded"
             PROVE  Earned(ann[n].ver)'
  BY DEF HonestRecs
<1>1. ASSUME NEW v, v = ann[n].ver, n < nextId, Earned(v)
      PROVE  Earned(ann[n].ver)'
  <2>1. Earned(v)' /\ ann'[n] = ann[n]
    BY <1>1, EarnedStays, VersionsGrow
  <2> QED BY <1>1, <2>1 DEF Earned
<1>2. CASE recs'[n] = recs[n]
  <2>1. n < nextId /\ Earned(ann[n].ver)
    BY <1>2, IdInt DEF Bound, Honest, HonestRecs, Ids
  <2> QED BY <1>1, <2>1
<1>3. CASE WorkerPutRecord
  <2>1. recs'[n] = recs[n] \/ (n = worker.at /\ recs'[n].status = worker.phase)
    BY <1>3 DEF WorkerPutRecord, TypeOK, Record, RecExists
  <2>2. CASE n = worker.at /\ recs'[n].status = worker.phase
    BY <1>1, <2>2 DEF Honest, HonestWorker
  <2> QED BY <1>2, <2>1, <2>2
<1>4. ASSUME NEW m \in Ids, WorkerNoRevision(m)
      PROVE  Earned(ann[n].ver)'
  <2>1. recs'[n] = recs[n] \/ recs'[n].status = "failure"
    BY <1>4 DEF WorkerNoRevision, TypeOK, Record
  <2> QED BY <1>2, <2>1
<1>5. ASSUME NEW h \in Handlers, ApplyFails(h) \/ DeleteWipe(h)
      PROVE  Earned(ann[n].ver)'
  <2>1. recs'[n] = recs[n] \/ recs'[n] = NoRecord
    BY <1>5 DEF TypeOK, ApplyFails, DeleteWipe
  <2> QED BY <1>2, <2>1 DEF NoRecord
<1>6. ASSUME NEW h \in Handlers, AddRecord(h)
      PROVE  Earned(ann[n].ver)'
  <2>1. recs'[n] = recs[n] \/ recs'[n].status = "initializing"
    BY <1>6 DEF TypeOK, AddRecord
  <2> QED BY <1>2, <2>1
<1>7. ASSUME NEW h \in Handlers, ResetRecords(h)
      PROVE  Earned(ann[n].ver)'
  <2>1. recs'[n] = recs[n] \/ recs'[n].status = "terminated"
    <3>1. recs'[n] = recs[n]
          \/ recs'[n] = [recs[n] EXCEPT !.status = "terminated", !.finished = TRUE]
      BY <1>7 DEF ResetRecords
    <3>2. recs[n] \in Record
      BY DEF TypeOK
    <3> QED BY <3>1, <3>2 DEF Record
  <2> QED BY <1>2, <2>1
<1> QED BY <1>2, <1>3, <1>4, <1>5, <1>6, <1>7, RecsFrame

\* The events that are queued, delayed or in work.
Carried == {queue[i] : i \in 1..Len(queue)} \cup delayed \cup {worker.event}

LEMMA CarriedType ==
  ASSUME TypeOK
  PROVE  \A ev \in Carried : ev \in Event /\ ev.rec \in OptId
<1>1. \A ev \in Carried : ev \in Event
  BY DEF Carried, TypeOK, Worker
<1> QED BY <1>1 DEF Event

\* An event says what one said before the step, or what the cluster has after it.
LEMMA CarriedStep ==
  ASSUME TypeOK, Bound, Next, NEW ev \in Carried'
  PROVE  \/ \E d \in Carried : ev.rec = d.rec /\ ev.phase = d.phase
         \/ \E e \in Envs : ev.rec = cr'[e].status /\ ev.phase = runs'[ev.rec]
         \/ ev = NoEvent
<1> DEFINE Old == \E d \in Carried : ev.rec = d.rec /\ ev.phase = d.phase
           Now == \E e \in Envs : ev.rec = cr'[e].status /\ ev.phase = runs'[ev.rec]
           Goal == Old \/ Now \/ ev = NoEvent
<1>1. /\ \A i \in 1..Len(queue) : queue[i] \in Carried
      /\ \A d \in delayed : d \in Carried
      /\ worker.event \in Carried
      /\ Carried \subseteq Event
      /\ queue # <<>> => Head(queue) \in Carried
  BY DEF Carried, TypeOK, Worker
<1>2. ASSUME NEW d \in Carried, delayed' = Requeued(d), ev \in delayed' PROVE Old
  <2>1. d.rec = [d EXCEPT !.tries = @ + 1].rec /\ d.phase = [d EXCEPT !.tries = @ + 1].phase
    BY <1>1 DEF Event
  <2> QED BY <1>1, <1>2, <2>1 DEF Requeued
<1>3. ASSUME NEW e \in Envs, NEW i \in 1..Len(queue'), ev = queue'[i],
             queue' = Append(queue, [rec |-> cr'[e].status, phase |-> runs'[cr'[e].status], tries |-> 0])
      PROVE  Old \/ Now
  <2>1. i \in 1..Len(queue) \/ i = Len(queue) + 1
    BY <1>3 DEF TypeOK
  <2>2. CASE i \in 1..Len(queue)
    BY <1>1, <1>3, <2>2 DEF TypeOK
  <2>3. CASE i = Len(queue) + 1
    BY <1>3, <2>3 DEF TypeOK
  <2> QED BY <2>1, <2>2, <2>3
<1>4. ASSUME NEW e \in Envs, TerminateWorkflow(e) \/ ResumeWorkflow(e) \/ ControllerStep(e)
      PROVE  /\ queue' = Append(queue, [rec |-> cr'[e].status, phase |-> runs'[cr'[e].status], tries |-> 0])
             /\ delayed' = delayed
  <2>1. CASE StartRun(e)
    BY <2>1 DEF StartRun, Watched, TypeOK
  <2>2. CASE ~ StartRun(e)
    BY <1>4, <2>2 DEF TerminateWorkflow, ResumeWorkflow, ControllerStep, AdvanceRun, Watched
  <2> QED BY <2>1, <2>2
<1>5. ASSUME NEW h \in Handlers, Applies(h)
      PROVE  \E e \in Envs :
                /\ queue' = Append(queue, [rec |-> cr'[e].status, phase |-> runs'[cr'[e].status], tries |-> 0])
                /\ delayed' = delayed
  <2> DEFINE e == EnvOf[req[h].wf]
  <2>1. e \in Envs
    BY <1>5, ConstantsAssumption DEF Applies, Apply, ApplyFails, Bound, RequestBound
  <2>2. cr'[e].status = cr[e].status
    BY <1>5, <2>1 DEF Applies, Apply, ApplyFails, TypeOK
  <2>3. /\ queue' = Append(queue, [rec |-> cr'[e].status, phase |-> runs'[cr'[e].status], tries |-> 0])
        /\ delayed' = delayed
    BY <1>5, <2>1, <2>2 DEF Applies, Apply, ApplyFails, Watched, TypeOK
  <2> QED BY <2>1, <2>3
<1>6. ASSUME NEW i \in 1..Len(queue'), ev = queue'[i] PROVE Goal
  <2>1. ASSUME queue # <<>>, queue' = Tail(queue) PROVE Old
    <3>1. i + 1 \in 1..Len(queue) /\ Tail(queue)[i] = queue[i + 1]
      BY <1>6, <2>1 DEF TypeOK
    <3> QED BY <1>1, <1>6, <2>1, <3>1
  <2>2. CASE WorkerSkip \/ WorkerTake \/ WorkerFails
    BY <2>1, <2>2 DEF WorkerSkip, WorkerTake, WorkerFails
  <2>3. CASE queue' = queue
    BY <1>1, <1>6, <2>3
  <2>4. ASSUME NEW n \in Ids, WorkerNoRevision(n) \/ WorkerStops(n) PROVE queue' = queue
    BY <2>4 DEF WorkerNoRevision, WorkerStops
  <2>5. CASE Redeliver
    <3>1. PICK d \in delayed : queue' = Append(queue, d)
      BY <2>5 DEF Redeliver
    <3>2. ev = d \/ (i \in 1..Len(queue) /\ ev = queue[i])
      BY <1>6, <3>1 DEF TypeOK
    <3> QED BY <1>1, <3>2
  <2>6. CASE Restart
    <3>1. i \in DOMAIN ListOrder /\ ListOrder[i] \in Envs
      BY <1>6, <2>6, ConstantsAssumption DEF Restart
    <3>2. ev.rec = cr'[ListOrder[i]].status /\ ev.phase = runs'[ev.rec]
      BY <1>6, <2>6, <3>1 DEF Restart, cluster
    <3> QED BY <3>1, <3>2
  <2> QED BY <1>3, <1>4, <1>5, <1>6, <2>2, <2>3, <2>4, <2>5, <2>6, QueueFrame
<1>7. ASSUME ev \in delayed' PROVE Goal
  <2>1. CASE WorkerFails
    BY <1>1, <1>2, <1>7, <2>1 DEF WorkerFails
  <2>2. ASSUME NEW n \in Ids, WorkerNoRevision(n) \/ WorkerStops(n) PROVE Old
    BY <1>1, <1>2, <1>7, <2>2 DEF WorkerNoRevision, WorkerStops
  <2>3. CASE delayed' \subseteq delayed
    BY <1>1, <1>7, <2>3
  <2>4. CASE WorkerSkip \/ WorkerTake \/ Redeliver \/ Restart
    BY <2>3, <2>4 DEF WorkerSkip, WorkerTake, Redeliver, Restart
  <2> QED BY <1>4, <1>5, <2>1, <2>2, <2>3, <2>4, QueueFrame
<1>8. ASSUME ev = worker'.event PROVE Goal
  <2>1. ASSUME NEW todo, worker' = With(todo) \/ worker' = Resting PROVE Goal
    <3>1. \/ worker' = Resting
          \/ worker' = [Resting EXCEPT !.step = "next", !.event = worker.event, !.todo = todo]
      BY <2>1 DEF With
    <3>2. /\ Resting.event = NoEvent
          /\ [Resting EXCEPT !.step = "next", !.event = worker.event, !.todo = todo].event = worker.event
      BY DEF Resting
    <3> QED BY <1>1, <1>8, <3>1, <3>2
  <2>2. CASE WorkerTake
    BY <1>1, <1>8, <2>2 DEF WorkerTake, Resting
  <2>3. CASE worker' = [worker EXCEPT !.step = "revision"]
    BY <1>1, <1>8, <2>3 DEF TypeOK, Worker
  <2>4. ASSUME NEW n, NEW phase, NEW copies, Syncing(n, phase, copies) PROVE Goal
    BY <1>1, <1>8, <2>4 DEF Syncing, TypeOK, Worker
  <2>5. CASE WorkerPutRecord \/ WorkerPutRevision \/ WorkerPutFails \/ Restart
    BY <2>1, <2>3, <2>5 DEF WorkerPutRecord, WorkerPutRevision, WorkerPutFails, Restart
  <2>6. ASSUME NEW n \in Ids, WorkerNoRevision(n) \/ WorkerStops(n) \/ WorkerLeave(n) PROVE Goal
    BY <2>1, <2>6 DEF WorkerNoRevision, WorkerStops, WorkerLeave
  <2>7. ASSUME NEW n \in Ids, WorkerOwn(n) \/ WorkerRevisionGone(n) PROVE Goal
    BY <2>4, <2>7 DEF WorkerOwn, WorkerRevisionGone
  <2>8. ASSUME NEW n \in Ids, WorkerSuperseded(n) PROVE Goal
    <3>1. (\E phase, copies : Syncing(n, phase, copies)) \/ worker' = With(worker.todo \ {n})
      BY <2>8 DEF WorkerSuperseded
    <3> QED BY <2>1, <2>4, <3>1
  <2>9. CASE worker' = worker
    BY <1>1, <1>8, <2>9
  <2> QED BY <2>2, <2>5, <2>6, <2>7, <2>8, <2>9, WorkerFrame
<1> QED BY <1>6, <1>7, <1>8 DEF Carried

\* The event at the head of the queue is good.
LEMMA HeadHonest ==
  ASSUME TypeOK, Honest, queue # <<>>
  PROVE  /\ Head(queue) \in Event /\ GoodEvent(Head(queue))
         /\ \A i \in 1..Len(Tail(queue)) :
               i + 1 \in 1..Len(queue) /\ Tail(queue)[i] = queue[i + 1]
<1>1. Len(queue) \in Nat /\ Len(queue) > 0 /\ Head(queue) = queue[1] /\ queue[1] \in Event
  BY DEF TypeOK
<1>2. GoodEvent(queue[1])
  BY <1>1 DEF Honest, HonestQueue
<1>3. \A i \in 1..Len(Tail(queue)) :
         i + 1 \in 1..Len(queue) /\ Tail(queue)[i] = queue[i + 1]
  BY <1>1 DEF TypeOK
<1> QED BY <1>1, <1>2, <1>3

\* The events queued, delayed or in work are good.
LEMMA EventStays ==
  ASSUME TypeOK, Fresh, Honest, Next
  PROVE  /\ \A i \in 1..Len(queue) : queue[i] \in Event /\ GoodEvent(queue[i])
         /\ \A ev \in delayed : GoodEvent(ev)'
         /\ worker.event \in Event /\ GoodEvent(worker.event)
<1>1. \A i \in 1..Len(queue) : queue[i] \in Event /\ GoodEvent(queue[i])
  BY DEF TypeOK, Honest, HonestQueue
<1>2. ASSUME NEW ev \in delayed
      PROVE  GoodEvent(ev)'
  <2>1. ev \in Event /\ GoodEvent(ev)
    BY DEF TypeOK, Honest, HonestQueue
  <2> QED BY <2>1, GoodEventStays
<1>3. worker.event \in Event /\ GoodEvent(worker.event)
  BY DEF TypeOK, Worker, Honest, HonestWorker
<1> QED BY <1>1, <1>2, <1>3

\* Every step keeps the queue honest.
LEMMA HonestQueueStep ==
  ASSUME TypeOK, Bound, Fresh, Honest, Next
  PROVE  HonestQueue'
<1>1. ASSUME NEW ev \in Carried' PROVE GoodEvent(ev)'
  <2>1. ASSUME NEW d \in Carried, ev.rec = d.rec, ev.phase = d.phase PROVE GoodEvent(ev)'
    <3>1. d \in Event /\ GoodEvent(d)
      BY CarriedType, EventStays DEF Carried, Honest, HonestQueue
    <3>2. GoodEvent(d)'
      BY <3>1, GoodEventStays
    <3> QED BY <2>1, <3>2 DEF GoodEvent
  <2>2. ASSUME NEW e \in Envs, ev.rec = cr'[e].status, ev.phase = runs'[ev.rec] PROVE GoodEvent(ev)'
    BY <2>2 DEF GoodEvent
  <2>3. CASE ev = NoEvent
    BY <2>3 DEF GoodEvent, NoEvent
  <2> QED BY <2>1, <2>2, <2>3, CarriedStep
<1>2. /\ \A i \in 1..Len(queue') : queue'[i] \in Carried'
      /\ \A ev \in delayed' : ev \in Carried'
  BY DEF Carried
<1> QED BY <1>1, <1>2 DEF HonestQueue, GoodEvent

-----------------------------------------------------------------------------

\* The status a revision gets is complete only for a success.
LEMMA SyncedStatus ==
  ASSUME NEW phase \in RunPhase, generateRevisionStatus(phase) = "complete"
  PROVE  phase = "succeeded"
BY DEF generateRevisionStatus, RunPhase, Ended

\* The worker before the records of todo, or at rest, has nothing to answer for.
LEMMA WithHonest ==
  ASSUME TypeOK, Fresh, Next, NEW ev \in Event, GoodEvent(ev),
         NEW todo \in SUBSET Ids,
         \A n \in todo : n < nextId,
         \/ worker' = Resting
         \/ worker' = [Resting EXCEPT !.step = "next", !.event = ev, !.todo = todo]
  PROVE  HonestWorker'
<1>1. nextId' \in Nat /\ 0 < nextId' /\ nextId \in Nat /\ nextId <= nextId'
  BY VersionsGrow, IdInt
<1>2. \A n \in todo : n < nextId'
  BY <1>1 DEF Ids
<1>3. /\ worker'.rev = {} /\ worker'.at = 0 /\ worker'.phase = "none"
      /\ \A n \in worker'.todo : n \in todo
      /\ worker'.event = ev \/ worker'.event = NoEvent
  <2>1. CASE worker' = Resting
    BY <2>1 DEF Resting
  <2>2. CASE worker' = [Resting EXCEPT !.step = "next", !.event = ev, !.todo = todo]
    BY <2>2 DEF Resting
  <2> QED BY <2>1, <2>2
<1>4. GoodEvent(worker.event)'
  <2>1. GoodEvent(ev)'
    BY GoodEventStays
  <2> QED BY <1>3, <2>1 DEF GoodEvent, NoEvent
<1> QED BY <1>1, <1>2, <1>3, <1>4 DEF HonestWorker

\* What the worker has still to do stays generated, its event stays good.
LEMMA TodoStays ==
  ASSUME TypeOK, Fresh, Honest, Next
  PROVE  /\ worker.todo \in SUBSET Ids
         /\ \A n \in worker.todo : n < nextId /\ n < nextId'
         /\ worker.at \in OptId /\ worker.at < nextId /\ worker.at < nextId'
         /\ worker.event.phase = "succeeded" => runs'[worker.event.rec] = "succeeded"
<1>1. worker.todo \in SUBSET Ids /\ worker.at \in OptId
  BY DEF TypeOK, Worker
<1>2. worker.at < nextId /\ \A n \in worker.todo : n < nextId
  BY DEF Honest, HonestWorker
<1>3. worker.at < nextId' /\ \A n \in worker.todo : n < nextId'
  BY <1>1, <1>2, VersionsGrow, IdInt DEF Ids
<1>4. ASSUME NEW ev \in Event, ev = worker.event
      PROVE  ev.phase = "succeeded" => runs'[ev.rec] = "succeeded"
  BY <1>4, GoodEventStays, EventStays DEF GoodEvent
<1> QED BY <1>1, <1>2, <1>3, <1>4, EventStays

\* Record n is given a phase, and its revision a copy, that n's own revision
\* has earned.
LEMMA SyncingHonest ==
  ASSUME TypeOK, Fresh, Honest, Next, NEW n \in Ids, n \in worker.todo,
         NEW phase \in RunPhase, NEW copies \in SUBSET Copy,
         Syncing(n, phase, copies),
         phase = "succeeded" => Earned(ann[n].ver),
         \A c \in copies : GoodCopy(c)
  PROVE  HonestWorker'
<1>1. worker \in Worker
  BY DEF TypeOK
<1>2. /\ worker'.event = worker.event /\ worker'.todo = worker.todo \ {n}
      /\ worker'.at = n /\ worker'.phase = phase /\ worker'.rev = copies
  BY <1>1 DEF Syncing, Worker
<1>3. GoodEvent(worker.event)'
  BY <1>2, TodoStays DEF GoodEvent
<1>4. \A c \in copies : GoodCopy(c)'
  BY GoodCopyStays
<1>5. \A m \in worker'.todo : m < nextId'
  BY <1>2, TodoStays
<1>6. worker'.at < nextId'
  BY <1>2, TodoStays
<1>7. worker'.phase = "succeeded" => worker'.at # 0 /\ Earned(ann[worker.at].ver)'
  <2>1. ann'[n] = ann[n]
    BY VersionsGrow, TodoStays
  <2>2. ASSUME NEW v, v = ann[n].ver, phase = "succeeded"
        PROVE  Earned(ann[worker.at].ver)'
    <3>1. Earned(v)'
      BY <2>2, EarnedStays
    <3> QED BY <1>2, <2>1, <2>2, <3>1 DEF Earned
  <2>3. n # 0
    BY DEF Ids
  <2> QED BY <1>2, <2>2, <2>3
<1> QED BY <1>2, <1>3, <1>4, <1>5, <1>6, <1>7 DEF HonestWorker

\* The revision a sync is about to Put is good.
LEMMA RevisionSyncedHonest ==
  ASSUME TypeOK, NEW v \in Ids, NEW phase \in RunPhase, NEW m \in OptId,
         phase = "succeeded" => Earned(v), OwnRun(v, revs[v].cr), OwnRun(v, m)
  PROVE  RevisionSynced(v, phase, m) \in Copy /\ GoodCopy(RevisionSynced(v, phase, m))
<1>1. CopyOf(v) \in Copy /\ CopyOf(v).cr = revs[v].cr /\ CopyOf(v).id = v
  BY CopyOfType DEF CopyOf
<1>2. /\ RevisionSynced(v, phase, m).id = v
      /\ RevisionSynced(v, phase, m).status = generateRevisionStatus(phase)
      /\ RevisionSynced(v, phase, m).cr = IF revs[v].cr = 0 THEN m ELSE revs[v].cr
  BY <1>1 DEF RevisionSynced, Copy
<1>3. RevisionSynced(v, phase, m) \in Copy
  BY RevisionSyncedType
<1>4. OwnRun(v, IF revs[v].cr = 0 THEN m ELSE revs[v].cr)
  BY DEF OwnRun
<1> QED BY <1>2, <1>3, <1>4, SyncedStatus DEF GoodCopy

\* Every step keeps the worker honest.
LEMMA HonestWorkerStep ==
  ASSUME TypeOK, TypeOK', Bound, Fresh, Honest, Next
  PROVE  HonestWorker'
<1>1. CASE /\ worker'.event = worker.event /\ worker'.rev = worker.rev
           /\ worker'.todo = worker.todo /\ worker'.at = worker.at
           /\ worker'.phase = worker.phase
  <2>1. GoodEvent(worker.event)'
    BY <1>1, TodoStays DEF GoodEvent
  <2>2. ASSUME NEW c \in worker.rev PROVE GoodCopy(c)'
    <3>1. c \in Copy /\ GoodCopy(c)
      BY DEF TypeOK, Worker, Honest, HonestWorker
    <3> QED BY <3>1, GoodCopyStays
  <2>3. worker.phase = "succeeded" => worker.at # 0 /\ Earned(ann[worker.at].ver)'
    <3>1. ASSUME NEW m \in Ids, NEW v, m = worker.at, v = ann[m].ver, Earned(v)
          PROVE  Earned(ann[worker.at].ver)'
      <4>1. Earned(v)' /\ ann'[m] = ann[m]
        BY <3>1, EarnedStays, VersionsGrow, TodoStays
      <4> QED BY <1>1, <3>1, <4>1 DEF Earned
    <3>2. worker.phase = "succeeded" => worker.at \in Ids /\ Earned(ann[worker.at].ver)
      BY TodoStays, IdInt DEF Honest, HonestWorker
    <3> QED BY <3>1, <3>2, IdInt DEF Honest, HonestWorker
  <2> QED BY <1>1, <2>1, <2>2, <2>3, TodoStays DEF HonestWorker
<1>2. CASE worker' = worker
  BY <1>1, <1>2
<1>3. ASSUME NEW todo \in SUBSET worker.todo,
             worker' = With(todo) \/ worker' = Resting
      PROVE  HonestWorker'
  <2>1. \/ worker' = Resting
        \/ worker' = [Resting EXCEPT !.step = "next", !.event = worker.event, !.todo = todo]
    BY <1>3 DEF With
  <2>2. todo \in SUBSET Ids /\ \A n \in todo : n < nextId
    BY TodoStays
  <2> QED BY <2>1, <2>2, EventStays, WithHonest
<1>4. CASE WorkerTake
  <2> DEFINE todo == {Head(queue).rec} \cup {n \in Ids : RecExists(n) /\ ~ recs[n].finished}
  <2>1. todo \in SUBSET Ids /\ \A n \in todo : RecExists(n)
    BY <1>4 DEF WorkerTake, RecExists
  <2>2. \A n \in todo : n < nextId
    BY <2>1, IdInt DEF Bound, RecExists, Ids
  <2>3. Head(queue) \in Event /\ GoodEvent(Head(queue))
    BY <1>4, HeadHonest DEF WorkerTake
  <2>4. worker' = [Resting EXCEPT !.step = "next", !.event = Head(queue), !.todo = todo]
    BY <1>4 DEF WorkerTake
  <2> HIDE DEF todo
  <2> QED BY <2>1, <2>2, <2>3, <2>4, WithHonest
<1>5. CASE WorkerPutRecord
  <2>1. CASE worker' = [worker EXCEPT !.step = "revision"]
    BY <1>1, <2>1 DEF TypeOK, Worker
  <2> QED BY <1>3, <1>5, <2>1 DEF WorkerPutRecord
<1>6. CASE WorkerPutRevision \/ WorkerPutFails
  BY <1>3, <1>6 DEF WorkerPutRevision, WorkerPutFails
<1>7. CASE Restart
  BY <1>3, <1>7 DEF Restart
<1>8. ASSUME NEW n \in Ids, WorkerNoRevision(n) \/ WorkerStops(n) \/ WorkerLeave(n)
      PROVE  HonestWorker'
  BY <1>3, <1>8 DEF WorkerNoRevision, WorkerStops, WorkerLeave
<1>9. ASSUME NEW n \in Ids, Due(n)
      PROVE  n \in worker.todo /\ n < nextId /\ OwnRun(ann[n].ver, n) /\ n \in OptId
  BY <1>9, TodoStays, TypeFacts DEF Due, OwnRun
<1>10. ASSUME NEW n \in Ids, WorkerOwn(n)
       PROVE  HonestWorker'
  <2> DEFINE v == ann[n].ver
             phase == worker.event.phase
             copies == {RevisionSynced(v, phase, n)}
  <2>1. Due(n) /\ v \in Ids /\ n = worker.event.rec /\ Syncing(n, phase, copies)
    BY <1>10 DEF WorkerOwn, RevExists
  <2>2. phase \in RunPhase /\ (phase = "succeeded" => runs[n] = "succeeded")
    BY <2>1, EventStays DEF Event, GoodEvent
  <2>3. phase = "succeeded" => Earned(v)
    BY <2>2 DEF Earned
  <2>4. \A c \in copies : c \in Copy /\ GoodCopy(c)
    BY <1>9, <2>1, <2>2, <2>3, RevisionSyncedHonest DEF Honest, HonestRevs
  <2> HIDE DEF copies
  <2> QED BY <1>9, <2>1, <2>2, <2>3, <2>4, SyncingHonest
<1>11. ASSUME NEW n \in Ids, WorkerSuperseded(n)
       PROVE  HonestWorker'
  <2> DEFINE v == ann[n].ver
             m == revs[v].cr
             phase == IF runs[m] \in {"failed", "succeeded"} THEN runs[m] ELSE "terminated"
             copies == {RevisionSynced(v, phase, m)}
  <2>1. Due(n) /\ v \in Ids /\ m # 0
    BY <1>11 DEF WorkerSuperseded, RevExists, Superseded
  <2>2. m \in OptId /\ m \in Ids /\ OwnRun(v, m) /\ ann[m].ver = v
    BY <2>1, IdInt DEF Honest, HonestRevs, OwnRun
  <2>3. phase \in RunPhase /\ (phase = "succeeded" => Earned(v))
    BY <2>2 DEF Earned, RunPhase, Ended
  <2>4. CASE worker' = With(worker.todo \ {n})
    BY <1>3, <2>4
  <2>5. CASE Syncing(n, phase, copies)
    <3>1. \A c \in copies : c \in Copy /\ GoodCopy(c)
      BY <2>1, <2>2, <2>3, RevisionSyncedHonest
    <3> HIDE DEF copies, phase
    <3> QED BY <1>9, <2>1, <2>3, <2>5, <3>1, SyncingHonest
  <2> QED BY <1>11, <2>4, <2>5 DEF WorkerSuperseded
<1>12. ASSUME NEW n \in Ids, WorkerRevisionGone(n)
       PROVE  HonestWorker'
  <2>1. Due(n) /\ Syncing(n, "terminated", {}) /\ "terminated" \in RunPhase
    BY <1>12 DEF WorkerRevisionGone, RunPhase, Ended
  <2> QED BY <1>9, <2>1, SyncingHonest
<1> QED BY <1>2, <1>4, <1>5, <1>6, <1>7, <1>8, <1>10, <1>11, <1>12, WorkerFrame

\* What is read of an honest revision is good.
LEMMA CopyOfHonest ==
  ASSUME TypeOK, Honest, NEW v \in Ids
  PROVE  CopyOf(v) \in Copy /\ GoodCopy(CopyOf(v))
BY CopyOfType DEF CopyOf, GoodCopy, Honest, HonestRevs

\* An object known by its name claims nothing.
LEMMA NamedHonest ==
  ASSUME NEW n \in Ids
  PROVE  Named(n) \in Copy /\ GoodCopy(Named(n))
<1>1. Named(n) \in Copy
  BY TypeFacts DEF Named, Copy, RevStatus
<1> QED BY <1>1 DEF Named, GoodCopy, OwnRun

\* Every step keeps what the requests remember honest.
LEMMA HonestRequestsStep ==
  ASSUME TypeOK, Fresh, Honest, Next
  PROVE  HonestRequests'
<1> SUFFICES ASSUME NEW g \in Handlers
             PROVE  \A c \in req'[g].seen : GoodCopy(c)'
  BY DEF HonestRequests
<1>1. ASSUME \A c \in req'[g].seen : c \in req[g].seen
      PROVE  \A c \in req'[g].seen : GoodCopy(c)'
  BY <1>1, SeenStays
<1>2. ASSUME \A c \in req'[g].seen : c \in Copy /\ GoodCopy(c)
      PROVE  \A c \in req'[g].seen : GoodCopy(c)'
  BY <1>2, GoodCopyStays
<1>3. CASE req'[g] = Idle
  BY <1>1, <1>3 DEF Idle
<1>4. CASE req'[g] = req[g]
  BY <1>1, <1>4
<1>5. CASE Restart
  BY <1>3, <1>4, <1>5 DEF Restart
<1>6. CASE NewRequest(g)
  <2>1. ASSUME NEW w \in Workflows, NEW kind \in {"deploy", "force"},
               DeployCheck(g, w, kind)
        PROVE  req'[g].seen = {}
    BY <2>1 DEF TypeOK, DeployCheck, Idle
  <2>2. ASSUME NEW n \in Ids, NEW v \in Ids, RollbackCheck(g, n, v)
        PROVE  \A c \in req'[g].seen : c \in Copy /\ GoodCopy(c)
    <3>1. ann[n].ver \in Ids
      BY <2>2 DEF RollbackCheck, RevExists
    <3>2. req'[g].seen = {CopyOf(ann[n].ver)}
      BY <2>2 DEF TypeOK, RollbackCheck, Idle
    <3> QED BY <3>1, <3>2, CopyOfHonest
  <2>3. ASSUME NEW v \in Ids, RollbackToCheck(g, v)
        PROVE  \A c \in req'[g].seen : c \in Copy /\ GoodCopy(c)
    <3>1. req'[g].seen \subseteq {CopyOf(v)}
      BY <2>3 DEF TypeOK, RollbackToCheck, Idle
    <3> QED BY <3>1, CopyOfHonest
  <2>4. ASSUME NEW e \in Envs, ApplicationEnvRecycle(g, e)
        PROVE  req'[g].seen = {}
    BY <2>4 DEF TypeOK, ApplicationEnvRecycle, Idle
  <2>5. ASSUME DeleteCheck(g)
        PROVE  \A c \in req'[g].seen : c \in Copy /\ GoodCopy(c)
    <3>1. req'[g].seen = {Named(v) : v \in {u \in Ids : RevExists(u)}}
      BY <2>5 DEF TypeOK, DeleteCheck, Idle
    <3> QED BY <3>1, NamedHonest
  <2> QED BY <1>1, <1>2, <1>6, <2>1, <2>2, <2>3, <2>4, <2>5 DEF NewRequest
<1>7. ASSUME NEW ok \in BOOLEAN, req'[g] = AfterRecord(req[g], ok)
      PROVE  \A c \in req'[g].seen : GoodCopy(c)'
  <2>1. req[g] \in Handler
    BY DEF TypeOK
  <2>2. req'[g].seen = {}
    BY <1>7, <2>1 DEF Handler, AfterRecord, Idle
  <2> QED BY <2>2
<1>8. CASE RequestStep(g)
  <2>1. req[g] \in Handler
    BY DEF TypeOK
  <2>2. CASE DeployAdd(g)
    <3>1. req'[g] = [req[g] EXCEPT !.step = "apply", !.id = nextId, !.ver = nextId]
      BY <2>2 DEF TypeOK, DeployAdd
    <3> QED BY <1>1, <2>1, <3>1 DEF Handler
  <2>3. CASE Apply(g)
    <3>1. req'[g] = Idle \/ req'[g] = [req[g] EXCEPT !.step = "record", !.seen = {}]
      BY <2>3 DEF TypeOK, Apply
    <3>2. CASE req'[g] = [req[g] EXCEPT !.step = "record", !.seen = {}]
      BY <1>1, <2>1, <3>2 DEF Handler
    <3> QED BY <1>3, <3>1, <3>2
  <2>4. CASE DeployRunning(g) \/ DeleteWipe(g) \/ RollbackPutFails(g)
    BY <1>3, <2>4 DEF TypeOK, DeployRunning, DeleteWipe, RollbackPutFails
  <2>5. CASE AddRecord(g)
    <3>1. req'[g] = [req[g] EXCEPT !.step = "list"]
      BY <2>5 DEF TypeOK, AddRecord
    <3> QED BY <1>1, <2>1, <3>1 DEF Handler
  <2>6. CASE ResetList(g)
    <3>1. PICK S \in SUBSET Ids : req'[g].seen = {CopyOf(v) : v \in S}
      <4>1. PICK S \in SUBSET Ids :
               req'[g] = [req[g] EXCEPT !.step = "reset", !.seen = {CopyOf(v) : v \in S}]
        BY <2>6 DEF TypeOK, ResetList
      <4>2. req'[g].seen = {CopyOf(v) : v \in S}
        BY <2>1, <4>1 DEF Handler
      <4> QED BY <4>2
    <3> QED BY <1>2, <3>1, CopyOfHonest
  <2>7. CASE ResetRevisions(g)
    <3> DEFINE S == OtherUnfinished(req[g])
    <3>1. S \subseteq Ids
      BY DEF OtherUnfinished
    <3>2. req'[g] = [req[g] EXCEPT !.step = "records", !.seen = {Named(n) : n \in S}]
      BY <2>7 DEF TypeOK, ResetRevisions
    <3>3. req'[g].seen = {Named(n) : n \in S}
      BY <2>1, <3>2 DEF Handler
    <3> QED BY <1>2, <3>1, <3>3, NamedHonest
  <2>8. CASE ResetRecords(g)
    BY <1>7, <2>8 DEF TypeOK, ResetRecords
  <2>9. CASE RollbackRecord(g)
    <3>1. req'[g] = [req[g] EXCEPT !.step = "record", !.id = nextId, !.seen = {}]
      BY <2>9 DEF TypeOK, RollbackRecord
    <3> QED BY <1>1, <2>1, <3>1 DEF Handler
  <2>10. CASE RollbackWithRevision(g)
    <3>1. req'[g] = [req[g] EXCEPT !.step = "apply"]
      BY <2>10 DEF TypeOK, RollbackWithRevision
    <3> QED BY <1>1, <2>1, <3>1 DEF Handler
  <2> QED BY <1>8, <2>2, <2>3, <2>4, <2>5, <2>6, <2>7, <2>8, <2>9, <2>10
         DEF RequestStep
<1>9. CASE RequestFails(g)
  BY <1>3, <1>7, <1>9 DEF TypeOK, RequestFails, ApplyFails, NamespaceFails,
     RecordFails, ResetFails, RunningFails, RestoreCRName
<1> QED BY <1>4, <1>5, <1>6, <1>8, <1>9, OtherRequests, RequestFrame

-----------------------------------------------------------------------------

\* Every step preserves FinishedIffEnded.
LEMMA FinishedStep ==
  ASSUME TypeOK, FinishedIffEnded, Next
  PROVE  FinishedIffEnded'
<1> SUFFICES ASSUME NEW n \in Ids
             PROVE  recs'[n].finished <=> recs'[n].status \in Ended \cup {"failure"}
  BY DEF FinishedIffEnded
<1>1. CASE recs'[n] = recs[n]
  BY <1>1 DEF FinishedIffEnded
<1>2. CASE recs'[n].finished /\ recs'[n].status \in Ended \cup {"failure"}
  BY <1>2
<1>3. CASE ~ recs'[n].finished /\ recs'[n].status \in {"none", "initializing"}
  BY <1>3 DEF Ended
<1>4. CASE WorkerPutRecord
  <2>1. \/ recs'[n] = recs[n]
        \/ recs'[n] = [recs[n] EXCEPT !.status = worker.phase, !.finished = (worker.phase \in Ended)]
    BY <1>4 DEF TypeOK, WorkerPutRecord, RecExists
  <2>2. CASE recs'[n] = [recs[n] EXCEPT !.status = worker.phase, !.finished = (worker.phase \in Ended)]
    <3>1. recs[n] \in Record /\ worker.phase \in RunPhase
      BY DEF TypeOK, Worker
    <3>2. recs'[n].status = worker.phase /\ (recs'[n].finished <=> worker.phase \in Ended)
      BY <2>2, <3>1 DEF Record
    <3> QED BY <3>1, <3>2 DEF RunPhase, Ended
  <2> QED BY <1>1, <2>1, <2>2
<1>5. ASSUME NEW m \in Ids, WorkerNoRevision(m)
      PROVE  recs'[n].finished <=> recs'[n].status \in Ended \cup {"failure"}
  <2>1. recs'[n] = recs[n] \/ recs'[n] = [recs[n] EXCEPT !.status = "failure", !.finished = TRUE]
    BY <1>5 DEF TypeOK, WorkerNoRevision
  <2>2. CASE recs'[n] = [recs[n] EXCEPT !.status = "failure", !.finished = TRUE]
    <3>1. recs[n] \in Record
      BY DEF TypeOK
    <3>2. recs'[n].finished /\ recs'[n].status = "failure"
      BY <2>2, <3>1 DEF Record
    <3> QED BY <3>2
  <2> QED BY <1>1, <2>1, <2>2
<1>6. ASSUME NEW h \in Handlers, ApplyFails(h) \/ DeleteWipe(h)
      PROVE  recs'[n].finished <=> recs'[n].status \in Ended \cup {"failure"}
  <2>1. recs'[n] = recs[n] \/ recs'[n] = NoRecord
    BY <1>6 DEF TypeOK, ApplyFails, DeleteWipe
  <2>2. ~ NoRecord.finished /\ NoRecord.status = "none"
    BY DEF NoRecord
  <2>3. CASE recs'[n] = NoRecord
    BY <1>3, <2>2, <2>3
  <2> QED BY <1>1, <2>1, <2>3
<1>7. ASSUME NEW h \in Handlers, AddRecord(h)
      PROVE  recs'[n].finished <=> recs'[n].status \in Ended \cup {"failure"}
  BY <1>1, <1>3, <1>7 DEF TypeOK, AddRecord
<1>8. ASSUME NEW h \in Handlers, ResetRecords(h)
      PROVE  recs'[n].finished <=> recs'[n].status \in Ended \cup {"failure"}
  <2>1. recs'[n] = recs[n] \/ recs'[n] = [recs[n] EXCEPT !.status = "terminated", !.finished = TRUE]
    BY <1>8 DEF ResetRecords
  <2>2. CASE recs'[n] = [recs[n] EXCEPT !.status = "terminated", !.finished = TRUE]
    <3>1. recs[n] \in Record
      BY DEF TypeOK
    <3>2. recs'[n].finished /\ recs'[n].status = "terminated"
      BY <2>2, <3>1 DEF Record
    <3> QED BY <3>2 DEF Ended
  <2> QED BY <1>1, <2>1, <2>2
<1> QED BY <1>1, <1>4, <1>5, <1>6, <1>7, <1>8, RecsFrame

-----------------------------------------------------------------------------
(* The inductive invariant and the theorems *)

IInv == TypeOK /\ Bound /\ Fresh /\ Honest /\ FinishedIffEnded

\* The invariant holds at first.
LEMMA InitIInv ==
  ASSUME Init
  PROVE  IInv
<1>1. TypeOK /\ Bound
  BY InitTypes
<1>3. Fresh
  BY TypeFacts DEF Init, Fresh, FreshCR, FreshRequest, Unapplied, Idle
<1>4. Honest
  BY
     DEF Init, Honest, HonestRevs, HonestRecs, HonestQueue, HonestWorker,
     HonestRequests,
     NoRevision, NoRecord, Resting, NoEvent, Idle, GoodEvent, OwnRun
<1>5. FinishedIffEnded
  BY DEF Init, FinishedIffEnded, NoRecord, Ended
<1> QED BY <1>1, <1>3, <1>4, <1>5 DEF IInv

\* The invariant is inductive.
LEMMA StepIInv ==
  ASSUME IInv, [Next]_vars
  PROVE  IInv'
<1>1. CASE Next
  <2>1. TypeOK'
    BY <1>1, TypeStep DEF IInv
  <2>2. Bound'
    BY <1>1, <2>1, BoundStep DEF IInv
  <2>3. Fresh'
    BY <1>1, FreshStep DEF IInv
  <2>4. Honest'
    BY <1>1, <2>1, HonestRevsStep, HonestRecsStep, HonestQueueStep,
       HonestWorkerStep,
       HonestRequestsStep DEF IInv, Honest
  <2>5. FinishedIffEnded'
    BY <1>1, FinishedStep DEF IInv
  <2> QED BY <2>1, <2>2, <2>3, <2>4, <2>5 DEF IInv
<1>2. CASE UNCHANGED vars
  <2>1. TypeOK' /\ Bound' /\ FinishedIffEnded'
    BY <1>2, StutterTypes DEF IInv, vars, store, FinishedIffEnded
  <2>2. Fresh'
    BY <1>2
       DEF IInv, vars, store, cluster, sync, bounds, Fresh, FreshCR, FreshRequest,
       Unapplied
  <2>3. Honest'
    BY <1>2
       DEF IInv, vars, store, cluster, sync, bounds, Honest, HonestRevs, HonestRecs,
       HonestQueue, HonestWorker, HonestRequests, GoodCopy, GoodEvent, OwnRun,
       Earned
  <2> QED BY <2>1, <2>2, <2>3 DEF IInv
<1> QED BY <1>1, <1>2

\* IInv is an inductive invariant of the specification.
THEOREM Invariant == Spec => []IInv
<1>1. Init => IInv
  BY InitIInv
<1>2. IInv /\ [Next]_vars => IInv'
  BY StepIInv
<1> QED BY <1>1, <1>2, PTL DEF Spec

\* For any number of environments, workflows, requests, faults and restarts: a
\* revision is complete only when a run of that revision succeeded.
THEOREM CompleteEarned == Spec => []CompleteIsEarned
<1>1. IInv => CompleteIsEarned
  BY DEF IInv, Honest, HonestRevs, CompleteIsEarned, Earned
<1> QED BY <1>1, Invariant, PTL

\* For any number of environments, workflows, requests, faults and restarts: a
\* record is succeeded only when a run of its revision succeeded.
THEOREM SucceededEarned == Spec => []SucceededIsEarned
<1>1. IInv => SucceededIsEarned
  BY DEF IInv, Honest, HonestRecs, SucceededIsEarned, Earned
<1> QED BY <1>1, Invariant, PTL

\* The finished flag and the status of a record never disagree, whichever of
\* the sync, a reset or a failed rollback wrote it.
THEOREM FinishedEnded == Spec => []FinishedIffEnded
<1>1. IInv => FinishedIffEnded
  BY DEF IInv
<1> QED BY <1>1, Invariant, PTL

-----------------------------------------------------------------------------
(* What opens a finished record again *)

\* The request has a publish version whose record it has still to add.
Unrecorded(r) == r.step = "record" \/ (r.step \in {"clear", "apply"} /\ r.op # "rollback")

\* Such a record is not there, and no other request is going to add it.
RecordedOnce ==
    \A h \in Handlers : Unrecorded(req[h]) =>
        /\ req[h].id \in Ids
        /\ recs[req[h].id].status = "none"
        /\ \A g \in Handlers : Unrecorded(req[g]) /\ req[g].id = req[h].id => g = h

\* The worker is about to open a record only for an event of that record's run.
OwnSync ==
    worker.step = "record" /\ worker.phase \notin Ended =>
        worker.at = worker.event.rec /\ worker.phase = worker.event.phase

\* A request that has a record to add after a step had it before, unless the step
\* generated its name.
LEMMA UnrecordedKept ==
  ASSUME TypeOK, NEW h \in Handlers,
         NewRequest(h) \/ RequestStep(h) \/ RequestFails(h),
         nextId' = nextId, Unrecorded(req'[h])
  PROVE  Unrecorded(req[h]) /\ req'[h].id = req[h].id /\ ~ AddRecord(h)
<1>1. nextId # nextId + 1 /\ req[h] \in Handler
  BY IdInt DEF TypeOK
<1>2. req'[h] # Idle
  BY DEF Idle, Unrecorded
<1>3. CASE NewRequest(h)
  <2>1. ASSUME NEW w \in Workflows, NEW kind \in {"deploy", "force"},
               DeployCheck(h, w, kind)
        PROVE  FALSE
    <3>1. req'[h].step = "add"
      BY <2>1 DEF TypeOK, DeployCheck, Idle
    <3> QED BY <3>1 DEF Unrecorded
  <2>2. ASSUME NEW n \in Ids, NEW v \in Ids, RollbackCheck(h, n, v)
        PROVE  FALSE
    <3>1. req'[h].step = "mark"
      BY <2>2 DEF TypeOK, RollbackCheck, Idle
    <3> QED BY <3>1 DEF Unrecorded
  <2>3. ASSUME NEW v \in Ids, RollbackToCheck(h, v)
        PROVE  FALSE
    BY <1>1, <2>3 DEF RollbackToCheck
  <2>4. ASSUME NEW e \in Envs, ApplicationEnvRecycle(h, e)
        PROVE  FALSE
    BY <2>4 DEF TypeOK, ApplicationEnvRecycle, Idle, Unrecorded
  <2>5. ASSUME DeleteCheck(h)
        PROVE  FALSE
    BY <2>5 DEF TypeOK, DeleteCheck, Idle, Unrecorded
  <2> QED BY <1>3, <2>1, <2>2, <2>3, <2>4, <2>5 DEF NewRequest
<1>4. ASSUME NEW ok \in BOOLEAN, req[h].step # "apply", req'[h] = AfterRecord(req[h], ok)
      PROVE  FALSE
  <2>1. CASE req[h].op \in {"deploy", "force"}
    <3>1. req'[h].step = "running"
      BY <1>1, <1>4, <2>1 DEF AfterRecord, Handler
    <3> QED BY <3>1 DEF Unrecorded
  <2>2. CASE req[h].op = "rollback" /\ ok
    <3>1. req'[h].step = "apply" /\ req'[h].op = "rollback"
      BY <1>1, <1>4, <2>2 DEF AfterRecord, Handler
    <3> QED BY <3>1 DEF Unrecorded
  <2> QED BY <1>2, <1>4, <2>1, <2>2 DEF AfterRecord
<1>5. CASE RequestStep(h)
  <2>1. CASE DeployAdd(h) \/ RollbackRecord(h)
    BY <1>1, <2>1 DEF DeployAdd, RollbackRecord
  <2>2. CASE Apply(h)
    <3>1. /\ req[h].step = "apply" /\ req[h].op # "rollback"
          /\ req'[h] = [req[h] EXCEPT !.step = "record", !.seen = {}]
      BY <1>2, <2>2 DEF TypeOK, Apply
    <3> QED BY <1>1, <3>1 DEF Unrecorded, Handler, AddRecord
  <2>3. CASE DeployRunning(h) \/ DeleteWipe(h) \/ RollbackPutFails(h)
    BY <1>2, <2>3 DEF TypeOK, DeployRunning, DeleteWipe, RollbackPutFails
  <2>4. CASE AddRecord(h)
    <3>1. req'[h].step = "list"
      BY <1>1, <2>4 DEF TypeOK, AddRecord, Handler
    <3> QED BY <3>1 DEF Unrecorded
  <2>5. CASE ResetList(h)
    <3>1. req'[h].step = "reset"
      BY <1>1, <2>5 DEF TypeOK, ResetList, Handler
    <3> QED BY <3>1 DEF Unrecorded
  <2>6. CASE ResetRevisions(h)
    <3>1. req'[h].step = "records"
      BY <1>1, <2>6 DEF TypeOK, ResetRevisions, Handler
    <3> QED BY <3>1 DEF Unrecorded
  <2>7. CASE ResetRecords(h)
    BY <1>4, <2>7 DEF TypeOK, ResetRecords
  <2>8. CASE RollbackWithRevision(h)
    <3>1. req[h].step = "clear" /\ req'[h] = [req[h] EXCEPT !.step = "apply"]
      BY <2>8 DEF TypeOK, RollbackWithRevision
    <3> QED BY <1>1, <3>1 DEF Unrecorded, Handler, AddRecord
  <2> QED BY <1>5, <2>1, <2>2, <2>3, <2>4, <2>5, <2>6, <2>7, <2>8 DEF RequestStep
<1>6. CASE RequestFails(h)
  BY <1>2, <1>4, <1>6 DEF TypeOK, RequestFails, ApplyFails,
     NamespaceFails, RecordFails, ResetFails, RunningFails, RestoreCRName
<1> QED BY <1>3, <1>5, <1>6

\* A record that is not there appears only when its request adds it.
LEMMA AbsentKept ==
  ASSUME TypeOK, Next, NEW n \in Ids, recs[n].status = "none",
         \A h \in Handlers : AddRecord(h) => req[h].id # n
  PROVE  recs'[n].status = "none"
<1>1. CASE WorkerPutRecord
  BY <1>1 DEF WorkerPutRecord, RecExists, TypeOK
<1>2. ASSUME NEW m \in Ids, WorkerNoRevision(m) PROVE recs'[n].status = "none"
  BY <1>2 DEF WorkerNoRevision, RecExists, TypeOK
<1>3. ASSUME NEW h \in Handlers, ApplyFails(h) \/ DeleteWipe(h) PROVE recs'[n].status = "none"
  <2>1. recs'[n] = recs[n] \/ recs'[n] = NoRecord
    BY <1>3 DEF TypeOK, ApplyFails, DeleteWipe
  <2> QED BY <2>1 DEF NoRecord
<1>4. ASSUME NEW h \in Handlers, AddRecord(h) PROVE recs'[n].status = "none"
  BY <1>4 DEF TypeOK, AddRecord
<1>5. ASSUME NEW h \in Handlers, ResetRecords(h) PROVE recs'[n].status = "none"
  BY <1>5 DEF ResetRecords, RecExists
<1> QED BY <1>1, <1>2, <1>3, <1>4, <1>5, RecsFrame

\* Every step preserves RecordedOnce.
LEMMA RecordedStep ==
  ASSUME TypeOK, Bound, RecordedOnce, Next
  PROVE  RecordedOnce'
<1>1. ASSUME NEW h \in Handlers, req'[h].id = nextId, nextId \in Ids, recs' = recs,
             \A g \in Handlers : g # h => req'[g] = req[g]
      PROVE  RecordedOnce'
  <2>1. recs'[nextId].status = "none" /\ \A g \in Handlers : req[g].id # nextId
    BY <1>1, IdInt DEF Bound, RequestBound
  <2> QED BY <1>1, <2>1 DEF RecordedOnce
<1>2. ASSUME NEW h \in Handlers, DeployAdd(h) \/ RollbackRecord(h)
      PROVE  RecordedOnce'
  <2>1. nextId \in Ids /\ recs' = recs
    <3>1. nextId \in Nat /\ 0 < nextId
      BY IdInt
    <3>2. CASE DeployAdd(h)
      BY <3>1, <3>2 DEF DeployAdd, Room, Ids
    <3>3. CASE RollbackRecord(h)
      BY <3>1, <3>3 DEF RollbackRecord, Room, Ids
    <3> QED BY <1>2, <3>2, <3>3
  <2>2. req'[h].id = nextId
    <3>1. req[h] \in Handler
      BY DEF TypeOK
    <3>2. CASE DeployAdd(h)
      <4>1. req'[h] = [req[h] EXCEPT !.step = "apply", !.id = nextId, !.ver = nextId]
        BY <3>2 DEF TypeOK, DeployAdd
      <4> QED BY <3>1, <4>1 DEF Handler
    <3>3. CASE RollbackRecord(h)
      <4>1. req'[h] = [req[h] EXCEPT !.step = "record", !.id = nextId, !.seen = {}]
        BY <3>3 DEF TypeOK, RollbackRecord
      <4> QED BY <3>1, <4>1 DEF Handler
    <3> QED BY <1>2, <3>2, <3>3
  <2> QED BY <1>1, <1>2, <2>1, <2>2, OtherRequests DEF RequestStep
<1>3. ASSUME NEW h \in Handlers, NEW v \in Ids, RollbackToCheck(h, v)
      PROVE  RecordedOnce'
  <2>1. nextId \in Ids /\ recs' = recs
    BY <1>3 DEF TypeOK, RollbackToCheck, Room, Ids, store
  <2>2. req'[h].id = nextId
    BY <1>3 DEF TypeOK, RollbackToCheck, Idle
  <2> QED BY <1>1, <1>3, <2>1, <2>2, OtherRequests DEF NewRequest
<1>4. CASE nextId' = nextId
  <2>1. ASSUME NEW g \in Handlers, Unrecorded(req'[g])
        PROVE  Unrecorded(req[g]) /\ req'[g].id = req[g].id /\ ~ AddRecord(g)
    <3>1. ~ AddRecord(g)
      <4>1. req[g] \in Handler
        BY DEF TypeOK
      <4>2. AddRecord(g) => req'[g].step = "list"
        BY <4>1 DEF AddRecord, TypeOK, Handler
      <4> QED BY <2>1, <4>2 DEF Unrecorded
    <3>2. CASE req'[g] = req[g]
      BY <2>1, <3>1, <3>2
    <3>3. CASE Restart
      <4>1. req'[g] = req[g] \/ req'[g] = Idle
        BY <3>3 DEF Restart
      <4> QED BY <2>1, <3>2, <4>1 DEF Idle, Unrecorded
    <3> QED BY <1>4, <2>1, <3>2, <3>3, UnrecordedKept, OtherRequests, RequestFrame
  <2>2. ASSUME NEW g \in Handlers, Unrecorded(req'[g])
        PROVE  recs'[req'[g].id].status = "none" /\ req'[g].id \in Ids
    <3>1. Unrecorded(req[g]) /\ req'[g].id = req[g].id /\ req[g].id \in Ids /\ recs[req[g].id].status = "none"
      BY <2>1, <2>2 DEF RecordedOnce
    <3>2. ASSUME NEW h \in Handlers, AddRecord(h) PROVE req[h].id # req[g].id
      BY <2>1, <2>2, <3>1, <3>2 DEF RecordedOnce, AddRecord, Unrecorded
    <3> QED BY <3>1, <3>2, AbsentKept
  <2> QED BY <2>1, <2>2 DEF RecordedOnce
<1> QED BY <1>2, <1>3, <1>4, IdsFrame

\* Every step preserves OwnSync.
LEMMA OwnSyncStep ==
  ASSUME TypeOK, OwnSync, Next
  PROVE  OwnSync'
<1>1. ASSUME NEW n \in Ids, NEW phase \in RunPhase, NEW copies \in SUBSET Copy, Syncing(n, phase, copies)
      PROVE  worker'.at = n /\ worker'.phase = phase /\ worker'.event = worker.event
  BY <1>1 DEF Syncing, TypeOK, Worker
<1>2. ASSUME NEW todo, worker' = With(todo) \/ worker' = Resting PROVE OwnSync'
  <2>1. \/ worker' = Resting
        \/ worker' = [Resting EXCEPT !.step = "next", !.event = worker.event, !.todo = todo]
    BY <1>2 DEF With
  <2>2. Resting.step = "rest" /\ [Resting EXCEPT !.step = "next", !.event = worker.event, !.todo = todo].step = "next"
    BY DEF Resting
  <2>3. worker'.step # "record"
    BY <2>1, <2>2
  <2> QED BY <2>3 DEF OwnSync
<1>3. CASE WorkerTake
  BY <1>3 DEF WorkerTake, Resting, OwnSync
<1>4. CASE WorkerPutRecord
  <2>1. CASE worker' = [worker EXCEPT !.step = "revision"]
    BY <2>1 DEF OwnSync, TypeOK, Worker
  <2> QED BY <1>2, <1>4, <2>1 DEF WorkerPutRecord
<1>5. CASE WorkerPutRevision \/ WorkerPutFails \/ Restart
  BY <1>2, <1>5 DEF WorkerPutRevision, WorkerPutFails, Restart
<1>6. ASSUME NEW n \in Ids, WorkerNoRevision(n) \/ WorkerStops(n) \/ WorkerLeave(n) PROVE OwnSync'
  BY <1>2, <1>6 DEF WorkerNoRevision, WorkerStops, WorkerLeave
<1>7. ASSUME NEW n \in Ids, WorkerOwn(n) PROVE OwnSync'
  <2> DEFINE copies == {RevisionSynced(ann[n].ver, worker.event.phase, n)}
  <2>1. worker.event.phase \in RunPhase /\ n \in OptId /\ ann[n].ver \in Ids /\ n = worker.event.rec
    BY <1>7, TypeFacts DEF WorkerOwn, RevExists, TypeOK, Worker, Event
  <2>2. copies \in SUBSET Copy
    BY <2>1, RevisionSyncedType
  <2>3. Syncing(n, worker.event.phase, copies)
    BY <1>7 DEF WorkerOwn
  <2> HIDE DEF copies
  <2> QED BY <1>1, <2>1, <2>2, <2>3 DEF OwnSync
<1>8. ASSUME NEW n \in Ids, WorkerSuperseded(n) \/ WorkerRevisionGone(n) PROVE OwnSync'
  <2>1. CASE worker' = With(worker.todo \ {n})
    BY <1>2, <2>1
  <2>2. ASSUME NEW phase \in Ended, NEW copies, Syncing(n, phase, copies) PROVE OwnSync'
    BY <2>2 DEF Syncing, OwnSync, TypeOK, Worker
  <2>3. CASE WorkerRevisionGone(n)
    BY <2>2, <2>3 DEF WorkerRevisionGone, Ended
  <2>4. CASE WorkerSuperseded(n)
    <3> DEFINE m == revs[ann[n].ver].cr
               phase == IF runs[m] \in {"failed", "succeeded"} THEN runs[m] ELSE "terminated"
               copies == {RevisionSynced(ann[n].ver, phase, m)}
    <3>1. phase \in Ended
      BY DEF Ended
    <3>2. Syncing(n, phase, copies) \/ worker' = With(worker.todo \ {n})
      BY <2>4 DEF WorkerSuperseded
    <3> HIDE DEF phase, copies
    <3> QED BY <2>1, <2>2, <3>1, <3>2
  <2> QED BY <1>8, <2>3, <2>4
<1>9. CASE worker' = worker
  BY <1>9 DEF OwnSync
<1> QED BY <1>3, <1>4, <1>5, <1>6, <1>7, <1>8, <1>9, WorkerFrame

\* A finished record is opened again by the sync of its own run alone, for any number of
\* environments, requests, faults and restarts.
THEOREM ReopenedOnlyByOwnRun == Spec => ReopenedByOwnRun
<1> DEFINE Opened(n) == recs[n].finished /\ ~ recs'[n].finished
           Own(n) == \/ worker.at = n /\ worker.event.rec = n /\ worker.event.phase \notin Ended
                     \/ recs'[n].status = "none"
<1>1. Init => RecordedOnce /\ OwnSync
  BY DEF Init, RecordedOnce, OwnSync, Unrecorded, Idle, Resting
<1>2. IInv /\ RecordedOnce /\ OwnSync /\ [Next]_vars => (RecordedOnce /\ OwnSync)'
  <2> SUFFICES ASSUME IInv, RecordedOnce, OwnSync, [Next]_vars PROVE (RecordedOnce /\ OwnSync)'
    OBVIOUS
  <2>1. CASE Next
    BY <2>1, RecordedStep, OwnSyncStep DEF IInv
  <2>2. CASE UNCHANGED vars
    BY <2>2 DEF vars, store, sync, RecordedOnce, OwnSync, Unrecorded
  <2> QED BY <2>1, <2>2
<1>3. IInv /\ RecordedOnce /\ OwnSync /\ [Next]_vars => [\A n \in Ids : Opened(n) => Own(n)]_recs
  <2> SUFFICES ASSUME IInv, RecordedOnce, OwnSync, Next, NEW n \in Ids, Opened(n)
               PROVE  Own(n)
    BY DEF vars, store
  <2>0. TypeOK /\ recs[n] \in Record
    BY DEF IInv, TypeOK
  <2>1. CASE WorkerPutRecord
    <3>1. /\ recs'[n] = recs[n] \/ worker.at = n
          /\ worker.at = n => \/ recs'[n] = recs[n]
                              \/ recs'[n] = [recs[n] EXCEPT !.status = worker.phase,
                                                            !.finished = (worker.phase \in Ended)]
      BY <2>0, <2>1 DEF WorkerPutRecord, TypeOK
    <3>2. worker.at = n /\ worker.phase \notin Ended
      BY <2>0, <3>1 DEF Record
    <3> QED BY <2>1, <3>2 DEF OwnSync, WorkerPutRecord
  <2>2. ASSUME NEW m \in Ids, WorkerNoRevision(m) PROVE Own(n)
    <3>1. recs'[n] = recs[n] \/ recs'[n] = [recs[n] EXCEPT !.status = "failure", !.finished = TRUE]
      BY <2>0, <2>2 DEF TypeOK, WorkerNoRevision
    <3> QED BY <2>0, <3>1 DEF Record
  <2>3. ASSUME NEW h \in Handlers, ApplyFails(h) \/ DeleteWipe(h) PROVE Own(n)
    <3>1. recs'[n] = recs[n] \/ recs'[n] = NoRecord
      BY <2>0, <2>3 DEF TypeOK, ApplyFails, DeleteWipe
    <3> QED BY <3>1 DEF NoRecord
  <2>4. ASSUME NEW h \in Handlers, AddRecord(h) PROVE Own(n)
    <3>1. recs[req[h].id].status = "none" /\ req[h].id \in Ids
      BY <2>4 DEF RecordedOnce, AddRecord, Unrecorded
    <3>2. req[h].id # n
      BY <3>1 DEF IInv, FinishedIffEnded, Ended
    <3> QED BY <2>0, <2>4, <3>2 DEF AddRecord, TypeOK
  <2>5. ASSUME NEW h \in Handlers, ResetRecords(h) PROVE Own(n)
    <3>1. recs'[n] = recs[n] \/ recs'[n] = [recs[n] EXCEPT !.status = "terminated", !.finished = TRUE]
      BY <2>5 DEF ResetRecords
    <3> QED BY <2>0, <3>1 DEF Record
  <2> QED BY <2>1, <2>2, <2>3, <2>4, <2>5, RecsFrame
<1>4. Spec => [][\A n \in Ids : Opened(n) => Own(n)]_recs
  BY <1>1, <1>2, <1>3, Invariant, PTL DEF Spec
<1> QED BY <1>4 DEF ReopenedByOwnRun

-----------------------------------------------------------------------------
(* A deploy waits for the last one *)

\* One environment, and one request at a time, which is not forced and does not roll
\* back; an Apply that returns an error has not been carried out.
InTurn ==
    /\ \A e, f \in Envs : e = f
    /\ \A g, h \in Handlers : g = h
    /\ Requests \subseteq {"deploy", "recycle", "delete", "terminate", "resume"}
    /\ ~ LostAnswers

\* The statuses in which a revision does not hold up the next deploy.
Over == {"complete", "terminated", "failure"}

\* The run of an event has started, and has ended if the event says so.
Reported(ev) ==
    /\ ev.rec # 0 => runs[ev.rec] # "none"
    /\ ev.phase \in Ended => runs[ev.rec] \in Ended

\* A publish version is that of its own revision; records know of earlier ones only.
AdmittedStore ==
    /\ \A n \in Ids : ann[n].ver \in {0, n}
    /\ \A v \in Ids : revs[v].status # "rollback" /\ (RevExists(v) => v < nextId)
    /\ \A n \in Ids : \A m \in recs[n].older : m < n

\* What the worker is about to Put over a revision is over, or superseded.
AdmittedWorker ==
    /\ worker.step # "rest" => worker.event.rec # 0
    /\ \A c \in worker.rev :
          /\ c.status \notin {"none", "rollback"}
          /\ c.status \in Over => runs[c.id] \in Ended \/ c.id < worker.event.rec

\* A deploy has the version that was generated last.
Newest(r) == r.ver = r.id /\ r.id \in Ids /\ r.id + 1 = nextId

\* Before Apply the revision of a deploy holds up others; after it the CR is the
\* deploy's, and the reset is not about it.
AdmittedRequest(r) ==
    \/ r.op = "none" /\ r.step = "idle"
    \/ r.op = "deploy" /\ r.step = "add" /\ r.seen = {}
    \/ /\ r.op = "deploy" /\ r.step = "apply" /\ r.seen = {} /\ Newest(r)
       /\ revs[r.id].status \notin Over \cup {"none"}
    \/ /\ r.op = "deploy" /\ r.step \in {"record", "list", "reset", "records", "running"}
       /\ Newest(r)
       /\ \A e \in Envs : cr[e].spec = r.id
       /\ r.step = "reset" => \A c \in r.seen : c.id # r.id
    \/ r.op = "recycle" /\ r.step \in {"list", "reset", "records"} /\ \A e \in Envs : cr[e].spec = 0
    \/ r.op = "delete" /\ r.step = "wipe" /\ \A e \in Envs : cr[e].spec = 0

\* The revision n of the CR is over only when its run has ended, and so has the run
\* once a deploy was let through: such a one is about to add a revision or has added it.
AdmittedCR(n) ==
    /\ RevExists(n)
    /\ revs[n].status \in Over => runs[n] \in Ended
    /\ \A k \in OptId : runs[k] # "none" => k <= n
    /\ (\E h \in Handlers : req[h].step = "add") \/ (\E v \in Ids : v > n /\ RevExists(v))
          => runs[n] \in Ended

Admitted ==
    /\ AdmittedStore
    /\ \A ev \in Carried : Reported(ev)
    /\ AdmittedWorker
    /\ \A h \in Handlers : AdmittedRequest(req[h])
    /\ \A e \in Envs : cr[e].spec # 0 => AdmittedCR(cr[e].spec)

\* A run that has ended does not start again.
LEMMA EndedStays ==
  ASSUME TypeOK, Fresh, Next, NEW n \in OptId
  PROVE  /\ runs[n] \in Ended => runs'[n] \in Ended
         /\ runs[n] # "none" => runs'[n] # "none"
<1>1. ASSUME NEW e \in Envs, NEW phase \in {"executing", "suspending", "succeeded", "failed", "terminated"},
             NEW m \in OptId, runs' = [runs EXCEPT ![m] = phase], runs[m] \notin Ended
      PROVE  /\ runs[n] \in Ended => runs'[n] \in Ended
             /\ runs[n] # "none" => runs'[n] # "none"
  BY <1>1 DEF TypeOK
<1>2. ASSUME NEW e \in Envs PROVE cr[e].spec \in OptId /\ cr[e].status \in OptId
  BY IdInt
<1>3. ASSUME NEW e \in Envs, StartRun(e)
      PROVE  runs' = [runs EXCEPT ![cr[e].spec] = "executing"] /\ runs[cr[e].spec] \notin Ended
  BY <1>3 DEF StartRun, Fresh, FreshCR, Ended
<1>4. ASSUME NEW e \in Envs, NEW phase \in {"suspending", "succeeded", "failed"}, AdvanceRun(e, phase)
      PROVE  runs' = [runs EXCEPT ![cr[e].status] = phase] /\ runs[cr[e].status] \notin Ended
  BY <1>4 DEF AdvanceRun, Ended
<1>5. ASSUME NEW e \in Envs, TerminateWorkflow(e)
      PROVE  runs' = [runs EXCEPT ![cr[e].status] = "terminated"] /\ runs[cr[e].status] \notin Ended
  BY <1>5 DEF TerminateWorkflow
<1>6. ASSUME NEW e \in Envs, ResumeWorkflow(e)
      PROVE  runs' = [runs EXCEPT ![cr[e].status] = "executing"] /\ runs[cr[e].status] \notin Ended
  BY <1>6 DEF ResumeWorkflow, Ended
<1>7. ASSUME NEW h \in Handlers, Applies(h) \/ \E e \in Envs : ApplicationEnvRecycle(h, e)
      PROVE  runs' = runs
  BY <1>7 DEF Applies, Apply, ApplyFails, ApplicationEnvRecycle
<1> QED BY <1>1, <1>2, <1>3, <1>4, <1>5, <1>6, <1>7, ClusterFrame DEF ControllerStep

\* Every event is that of a run that has started.
LEMMA ReportedStep ==
  ASSUME TypeOK, TypeOK', Bound, Fresh, Fresh', Next, \A ev \in Carried : Reported(ev)
  PROVE  \A ev \in Carried' : Reported(ev)'
<1> SUFFICES ASSUME NEW ev \in Carried' PROVE Reported(ev)'
  OBVIOUS
<1>1. ASSUME NEW d \in Carried, ev.rec = d.rec, ev.phase = d.phase PROVE Reported(ev)'
  <2>1. d.rec \in OptId
    BY CarriedType
  <2> QED BY <1>1, <2>1, EndedStays DEF Reported
<1>2. ASSUME NEW e \in Envs, ev.rec = cr'[e].status, ev.phase = runs'[ev.rec] PROVE Reported(ev)'
  BY <1>2 DEF Reported, Fresh, FreshCR
<1>3. CASE ev = NoEvent
  BY <1>3 DEF Reported, NoEvent, Ended
<1> QED BY <1>1, <1>2, <1>3, CarriedStep

\* Requests that force a deploy or roll back are not made.
LEMMA PlainRequests ==
  ASSUME InTurn, TypeOK, Admitted
  PROVE  /\ \A h \in Handlers :
               /\ req[h].step \notin {"mark", "clear"}
               /\ req[h].op \notin {"force", "rollback", "rollbackTo"}
               /\ req[h].step = "apply" => req[h].op = "deploy"
         /\ \A h \in Handlers, n, v \in Ids : ~ RollbackCheck(h, n, v) /\ ~ RollbackToCheck(h, v)
         /\ \A h \in Handlers, w \in Workflows : ~ DeployCheck(h, w, "force")
<1>1. ASSUME NEW h \in Handlers
      PROVE  /\ req[h].step \notin {"mark", "clear"}
             /\ req[h].op \notin {"force", "rollback", "rollbackTo"}
             /\ req[h].step = "apply" => req[h].op = "deploy"
  BY DEF Admitted, AdmittedRequest
<1>2. \A h \in Handlers, n, v \in Ids : ~ RollbackCheck(h, n, v) /\ ~ RollbackToCheck(h, v)
  BY DEF InTurn, RollbackCheck, RollbackToCheck, Start
<1>3. \A h \in Handlers, w \in Workflows : ~ DeployCheck(h, w, "force")
  BY DEF InTurn, DeployCheck, Start
<1> QED BY <1>1, <1>2, <1>3

\* Nor is a copy of a rolled back revision Put, or the restored name of a CR revision.
LEMMA NothingRestored ==
  ASSUME InTurn, TypeOK, Admitted, NEW h \in Handlers
  PROVE  /\ ~ RollbackRecord(h) /\ ~ RollbackWithRevision(h) /\ ~ RollbackPutFails(h)
         /\ ~ RestoreCRName(h)
<1>1. ~ RollbackRecord(h) /\ ~ RollbackWithRevision(h) /\ ~ RollbackPutFails(h)
  BY PlainRequests DEF RollbackRecord, RollbackWithRevision, RollbackPutFails
<1>2. req[h].step = "apply" => req[h].seen = {}
  BY DEF Admitted, AdmittedRequest
<1> QED BY <1>1, <1>2 DEF RestoreCRName

\* A reset terminates the revisions that were listed and leaves the others.
LEMMA ResetIs ==
  ASSUME NEW h \in Handlers, ResetRevisions(h) \/ ResetFails(h), NEW v \in Ids
  PROVE  \/ revs'[v] = revs[v]
         \/ /\ RevExists(v) /\ revs'[v].status = "terminated"
            /\ \E c \in req[h].seen : c.id = v
<1>1. ASSUME NEW copies \in SUBSET req[h].seen, Terminated(v, copies) # revs[v]
      PROVE  /\ RevExists(v) /\ Terminated(v, copies).status = "terminated"
             /\ \E c \in req[h].seen : c.id = v
  <2>1. RevExists(v) /\ {c \in copies : c.id = v} # {}
    BY <1>1 DEF Terminated
  <2> QED BY <2>1 DEF Terminated
<1>2. PICK copies \in SUBSET req[h].seen : revs'[v] = Terminated(v, copies)
  BY DEF ResetRevisions, ResetFails
<1> QED BY <1>1, <1>2

\* The versions, revisions and records that are added keep to the order of the versions.
LEMMA AdmittedStoreStep ==
  ASSUME InTurn, TypeOK, TypeOK', Bound, RecordedOnce, Admitted, Next
  PROVE  AdmittedStore'
<1> DEFINE Versions == \A n \in Ids : ann[n].ver \in {0, n}
           Revisions == \A v \in Ids : revs[v].status # "rollback" /\ (RevExists(v) => v < nextId)
           Records == \A n \in Ids : \A m \in recs[n].older : m < n
<1>0. Versions /\ Revisions /\ Records /\ nextId \in Nat
  BY IdInt DEF Admitted, AdmittedStore
<1>1. Versions'
  <2>1. ASSUME NEW h \in Handlers, DeployAdd(h) PROVE Versions'
    BY <1>0, <2>1 DEF DeployAdd, TypeOK
  <2> QED BY <1>0, <2>1, IdsFrame, PlainRequests, NothingRestored
<1>2. Revisions'
  <2>0. nextId' \in Nat /\ nextId <= nextId'
    BY VersionsGrow
  <2>1. ASSUME NEW c \in Copy, c.status # "rollback", revs' = PutRevision(c) PROVE Revisions'
    <3> SUFFICES ASSUME NEW v \in Ids
                 PROVE  revs'[v].status # "rollback" /\ (revs'[v].status # "none" => v < nextId')
      BY DEF RevExists
    <3>1. revs'[v].status = revs[v].status \/ (RevExists(v) /\ revs'[v].status = c.status)
      BY <2>1 DEF PutRevision, RevExists, TypeOK, Revision, Copy
    <3> QED BY <1>0, <2>0, <2>1, <3>1 DEF RevExists, Ids
  <2>2. ASSUME NEW h \in Handlers, DeployAdd(h) PROVE Revisions'
    <3> SUFFICES ASSUME NEW v \in Ids
                 PROVE  revs'[v].status # "rollback" /\ (revs'[v].status # "none" => v < nextId')
      BY DEF RevExists
    <3>1. nextId' = nextId + 1 /\ (v = nextId => revs'[v].status = "init") /\ (v # nextId => revs'[v] = revs[v])
      BY <2>2 DEF DeployAdd, TypeOK, NoRevision
    <3> QED BY <1>0, <3>1 DEF RevExists, Ids
  <2>3. ASSUME NEW h \in Handlers, ApplyFails(h) \/ DeployRunning(h) PROVE Revisions'
    <3>1. Deployed(req[h].ver, "failure") \in Copy /\ Deployed(req[h].ver, "running") \in Copy
      BY DeployedType DEF RevStatus
    <3>2. Deployed(req[h].ver, "failure").status # "rollback" /\ Deployed(req[h].ver, "running").status # "rollback"
      BY DEF Deployed
    <3>3. revs' \in {revs, PutRevision(Deployed(req[h].ver, "failure")), PutRevision(Deployed(req[h].ver, "running"))}
      BY <2>3 DEF ApplyFails, DeployRunning
    <3>4. CASE revs' = revs
      BY <1>0, <2>0, <3>4 DEF RevExists, Ids
    <3> QED BY <2>1, <3>1, <3>2, <3>3, <3>4
  <2>4. ASSUME NEW h \in Handlers, ResetRevisions(h) \/ ResetFails(h) PROVE Revisions'
    <3> SUFFICES ASSUME NEW v \in Ids
                 PROVE  revs'[v].status # "rollback" /\ (revs'[v].status # "none" => v < nextId')
      BY DEF RevExists
    <3>1. \/ revs'[v] = revs[v]
          \/ RevExists(v) /\ revs'[v].status = "terminated"
      BY <2>4, ResetIs
    <3> QED BY <1>0, <2>0, <3>1 DEF RevExists, Ids
  <2>5. ASSUME NEW h \in Handlers, DeleteWipe(h) PROVE Revisions'
    <3> SUFFICES ASSUME NEW v \in Ids
                 PROVE  revs'[v].status # "rollback" /\ (revs'[v].status # "none" => v < nextId')
      BY DEF RevExists
    <3>1. revs'[v] = revs[v] \/ revs'[v] = NoRevision
      BY <2>5 DEF DeleteWipe
    <3> QED BY <1>0, <2>0, <3>1 DEF RevExists, Ids, NoRevision
  <2>6. CASE WorkerPutRevision
    <3>1. PICK c \in worker.rev : revs' = PutRevision(c)
      BY <2>6 DEF WorkerPutRevision
    <3>2. c \in Copy /\ c.status # "rollback"
      BY DEF TypeOK, Worker, Admitted, AdmittedWorker
    <3> QED BY <2>1, <3>1, <3>2
  <2>7. CASE revs' = revs
    BY <1>0, <2>0, <2>7 DEF RevExists, Ids
  <2> QED BY <2>2, <2>3, <2>4, <2>5, <2>6, <2>7, RevsFrame, NothingRestored
<1>3. Records'
  <2> SUFFICES ASSUME NEW n \in Ids, NEW m \in recs'[n].older PROVE m < n
    OBVIOUS
  <2>0. recs[n] \in Record
    BY DEF TypeOK
  <2>1. ASSUME recs'[n].older \subseteq recs[n].older PROVE m < n
    BY <1>0, <2>1
  <2>2. ASSUME NEW h \in Handlers, AddRecord(h) PROVE m < n
    <3>1. CASE n = req[h].id
      <4>1. recs'[n].older = {k \in Ids : RecExists(k)} /\ Unrecorded(req[h])
        BY <2>2, <3>1 DEF AddRecord, TypeOK, Unrecorded
      <4>2. m \in Ids /\ RecExists(m) /\ m < nextId
        BY <4>1, <1>0 DEF RecExists, Bound, Ids
      <4>3. m # n
        BY <3>1, <4>1, <4>2 DEF RecordedOnce, RecExists
      <4>4. n + 1 = nextId
        BY <2>2, <3>1 DEF AddRecord, Admitted, AdmittedRequest, Newest
      <4> QED BY <4>2, <4>3, <4>4 DEF Ids
    <3>2. CASE n # req[h].id
      BY <2>1, <2>2, <3>2 DEF AddRecord, TypeOK
    <3> QED BY <3>1, <3>2
  <2>3. CASE WorkerPutRecord
    <3>1. \/ recs'[n] = recs[n]
          \/ recs'[n] = [recs[n] EXCEPT !.status = worker.phase, !.finished = (worker.phase \in Ended)]
      BY <2>3 DEF WorkerPutRecord, TypeOK
    <3> QED BY <2>0, <2>1, <3>1 DEF Record
  <2>4. ASSUME NEW k \in Ids, WorkerNoRevision(k) PROVE m < n
    <3>1. recs'[n] = recs[n] \/ recs'[n] = [recs[n] EXCEPT !.status = "failure", !.finished = TRUE]
      BY <2>4 DEF WorkerNoRevision, TypeOK
    <3> QED BY <2>0, <2>1, <3>1 DEF Record
  <2>5. ASSUME NEW h \in Handlers, ApplyFails(h) \/ DeleteWipe(h) PROVE m < n
    <3>1. recs'[n] = recs[n] \/ recs'[n] = NoRecord
      BY <2>5 DEF ApplyFails, DeleteWipe, TypeOK
    <3> QED BY <2>1, <3>1 DEF NoRecord
  <2>6. ASSUME NEW h \in Handlers, ResetRecords(h) PROVE m < n
    <3>1. recs'[n] = recs[n] \/ recs'[n] = [recs[n] EXCEPT !.status = "terminated", !.finished = TRUE]
      BY <2>6 DEF ResetRecords
    <3> QED BY <2>0, <2>1, <3>1 DEF Record
  <2>7. CASE recs' = recs
    BY <2>1, <2>7
  <2> QED BY <2>2, <2>3, <2>4, <2>5, <2>6, <2>7, RecsFrame
<1> QED BY <1>1, <1>2, <1>3 DEF AdmittedStore

\* The worker Puts a revision as over when the run of its event has ended, or when the
\* revision is older than the event's.
LEMMA AdmittedWorkerStep ==
  ASSUME InTurn, TypeOK, TypeOK', Fresh, Admitted, Next
  PROVE  AdmittedWorker'
<1> DEFINE Fine(c, rec) ==
             /\ c.status \notin {"none", "rollback"}
             /\ c.status \in Over => runs[c.id] \in Ended \/ c.id < rec
<1>0. /\ worker.step # "rest" => worker.event.rec # 0
      /\ \A c \in worker.rev : c.id \in OptId /\ Fine(c, worker.event.rec)
      /\ worker.event.rec \in OptId
  BY DEF Admitted, AdmittedWorker, TypeOK, Worker, Copy, Event
<1>1. ASSUME worker'.event = worker.event, worker.step # "rest" \/ worker'.step = worker.step,
             \A c \in worker'.rev : c.id \in OptId /\ Fine(c, worker.event.rec)
      PROVE  AdmittedWorker'
  BY <1>0, <1>1, EndedStays DEF AdmittedWorker
<1>2. ASSUME NEW todo, worker.step # "rest", worker' = With(todo) PROVE AdmittedWorker'
  <2>1. CASE todo = {}
    BY <1>2, <2>1 DEF With, Resting, AdmittedWorker
  <2>2. CASE todo # {}
    <3>1. worker'.event = worker.event /\ worker'.rev = {}
      BY <1>2, <2>2 DEF With, Resting
    <3> QED BY <1>1, <1>2, <3>1
  <2> QED BY <2>1, <2>2
<1>3. CASE worker' = Resting
  BY <1>3 DEF Resting, AdmittedWorker
<1>4. CASE WorkerTake
  <2>1. worker'.rev = {} /\ worker'.event.rec = Head(queue).rec /\ RecExists(Head(queue).rec)
    BY <1>4 DEF WorkerTake, Resting
  <2> QED BY <2>1 DEF RecExists, Ids, AdmittedWorker
<1>5. CASE WorkerPutRecord
  <2>1. CASE worker' = [worker EXCEPT !.step = "revision"]
    <3>1. worker'.event = worker.event /\ worker'.rev = worker.rev
      BY <2>1 DEF TypeOK, Worker
    <3> QED BY <1>0, <1>1, <1>5, <3>1 DEF WorkerPutRecord
  <2> QED BY <1>2, <1>5, <2>1 DEF WorkerPutRecord
<1>6. CASE WorkerPutRevision \/ WorkerPutFails
  BY <1>2, <1>6 DEF WorkerPutRevision, WorkerPutFails
<1>7. ASSUME NEW n \in Ids, WorkerLeave(n) PROVE AdmittedWorker'
  BY <1>2, <1>7 DEF WorkerLeave, Due
<1>8. ASSUME NEW n \in Ids, NEW phase \in RunPhase, NEW copies \in SUBSET Copy, Due(n), Syncing(n, phase, copies),
             \A c \in copies : c.id \in OptId /\ Fine(c, worker.event.rec)
      PROVE  AdmittedWorker'
  <2>1. worker'.event = worker.event /\ worker'.rev = copies /\ worker.step # "rest"
    BY <1>8 DEF Syncing, TypeOK, Worker, Due
  <2> QED BY <1>1, <1>8, <2>1
<1>9. ASSUME NEW v \in Ids, NEW phase \in RunPhase, NEW m \in OptId,
             phase \in Ended => runs[v] \in Ended \/ v < worker.event.rec
      PROVE  /\ {RevisionSynced(v, phase, m)} \in SUBSET Copy
             /\ \A c \in {RevisionSynced(v, phase, m)} : c.id \in OptId /\ Fine(c, worker.event.rec)
  <2>1. RevisionSynced(v, phase, m) \in Copy
    BY RevisionSyncedType
  <2>2. RevisionSynced(v, phase, m).id = v /\ RevisionSynced(v, phase, m).status = generateRevisionStatus(phase)
    BY DEF RevisionSynced, CopyOf
  <2>3. /\ generateRevisionStatus(phase) \notin {"none", "rollback"}
        /\ generateRevisionStatus(phase) \in Over => phase \in Ended
    BY DEF generateRevisionStatus, Over, Ended, RunPhase
  <2> QED BY <1>9, <2>1, <2>2, <2>3 DEF Copy
<1>10. ASSUME NEW n \in Ids, RevExists(ann[n].ver) PROVE ann[n].ver = n
  BY <1>10 DEF Admitted, AdmittedStore, RevExists, Ids
<1>11. ASSUME NEW n \in Ids, WorkerOwn(n) PROVE AdmittedWorker'
  <2> DEFINE copies == {RevisionSynced(n, worker.event.phase, n)}
  <2>1. worker.event.phase \in RunPhase /\ n \in OptId
    BY TypeFacts DEF TypeOK, Worker, Event
  <2>2. ann[n].ver = n /\ n = worker.event.rec /\ Due(n) /\ Syncing(n, worker.event.phase, copies)
    BY <1>10, <1>11 DEF WorkerOwn
  <2>3. worker.event.phase \in Ended => runs[n] \in Ended
    BY <2>2 DEF Admitted, Carried, Reported
  <2>4. copies \in SUBSET Copy /\ \A c \in copies : c.id \in OptId /\ Fine(c, worker.event.rec)
    BY <1>9, <2>1, <2>3
  <2> HIDE DEF copies, Fine
  <2> QED BY <1>8, <2>1, <2>2, <2>4
<1>12. ASSUME NEW n \in Ids, WorkerSuperseded(n) PROVE AdmittedWorker'
  <2> DEFINE m == revs[n].cr
             phase == IF runs[m] \in {"failed", "succeeded"} THEN runs[m] ELSE "terminated"
             copies == {RevisionSynced(n, phase, m)}
  <2>1. ann[n].ver = n /\ Due(n) /\ Superseded(n)
    BY <1>10, <1>12 DEF WorkerSuperseded
  <2>2. phase \in RunPhase /\ m \in OptId
    BY DEF RunPhase, Ended, TypeOK, Revision
  <2>3. n < worker.event.rec
    <3>1. worker.event.rec \in Ids
      BY <1>0, <2>1, IdInt DEF Due
    <3> QED BY <2>1, <3>1 DEF Superseded, Admitted, AdmittedStore
  <2>4. copies \in SUBSET Copy /\ \A c \in copies : c.id \in OptId /\ Fine(c, worker.event.rec)
    <3> HIDE DEF phase, m
    <3> QED BY <1>9, <2>2, <2>3
  <2>5. Syncing(n, phase, copies) \/ worker' = With(worker.todo \ {n})
    BY <1>12, <2>1 DEF WorkerSuperseded
  <2> HIDE DEF copies, Fine, phase
  <2> QED BY <1>2, <1>8, <2>1, <2>2, <2>4, <2>5 DEF Due
<1>13. ASSUME NEW n \in Ids, WorkerRevisionGone(n) PROVE AdmittedWorker'
  BY <1>8, <1>13 DEF WorkerRevisionGone, RunPhase, Ended
<1>14. ASSUME NEW n \in Ids, WorkerNoRevision(n) \/ WorkerStops(n) PROVE AdmittedWorker'
  BY <1>3, <1>14 DEF WorkerNoRevision, WorkerStops
<1>15. CASE Restart
  BY <1>3, <1>15 DEF Restart
<1>16. CASE worker' = worker
  BY <1>0, <1>1, <1>16
<1> QED BY <1>4, <1>5, <1>6, <1>7, <1>11, <1>12, <1>13, <1>14, <1>15, <1>16, WorkerFrame

\* A request that has made its record does not add a revision.
LEMMA AfterNotAdd ==
  ASSUME NEW r \in Handler, NEW ok \in BOOLEAN
  PROVE  AfterRecord(r, ok).step # "add"
<1>1. [r EXCEPT !.step = "running", !.seen = {}].step = "running"
      /\ [r EXCEPT !.step = "apply", !.seen = {}].step = "apply" /\ Idle.step = "idle"
  BY DEF Handler, Idle
<1> QED BY <1>1 DEF AfterRecord

\* After its record a deploy goes on with the Put of its revision, the others are done.
LEMMA AfterAdmitted ==
  ASSUME NEW h \in Handlers, req[h] \in Handler, AdmittedRequest(req[h]), NEW ok \in BOOLEAN,
         req[h].step \in {"record", "list", "reset", "records"},
         req'[h] = AfterRecord(req[h], ok), nextId' = nextId, cr' = cr
  PROVE  AdmittedRequest(req[h])'
<1>1. CASE req[h].op = "deploy"
  <2>1. req'[h] = [req[h] EXCEPT !.step = "running", !.seen = {}]
    BY <1>1 DEF AfterRecord
  <2>2. /\ req'[h].op = "deploy" /\ req'[h].step = "running"
        /\ req'[h].id = req[h].id /\ req'[h].ver = req[h].ver
    BY <1>1, <2>1 DEF Handler
  <2> QED BY <1>1, <2>2 DEF AdmittedRequest, Newest
<1>2. CASE req[h].op = "recycle"
  BY <1>2 DEF AfterRecord, AdmittedRequest, Idle
<1> QED BY <1>1, <1>2 DEF AdmittedRequest

Asked(h) == NewRequest(h) \/ RequestStep(h) \/ RequestFails(h)

\* A step that is not one of a request leaves the CR's versions alone, and only the
\* worker's Put writes a revision.
LEMMA OtherStep ==
  ASSUME TypeOK, Next, \A h \in Handlers : ~ Asked(h)
  PROVE  /\ nextId' = nextId
         /\ \A e \in Envs : cr'[e].spec = cr[e].spec
         /\ revs' = revs \/ WorkerPutRevision
         /\ req' = req \/ Restart
<1>1. nextId' = nextId
  BY IdsFrame DEF Asked, NewRequest, RequestStep
<1>2. revs' = revs \/ WorkerPutRevision
  BY RevsFrame DEF Asked, RequestStep, RequestFails
<1>3. req' = req \/ Restart
  BY RequestFrame DEF Asked
<1>4. ASSUME NEW e \in Envs PROVE cr'[e].spec = cr[e].spec
  <2>1. ASSUME NEW f \in Envs, StartRun(f) PROVE cr'[e].spec = cr[e].spec
    BY <2>1 DEF StartRun, TypeOK
  <2>2. ASSUME NEW f \in Envs, NEW phase, AdvanceRun(f, phase) PROVE cr' = cr
    BY <2>2 DEF AdvanceRun
  <2>3. ASSUME NEW f \in Envs, TerminateWorkflow(f) \/ ResumeWorkflow(f) PROVE cr' = cr
    BY <2>3 DEF TerminateWorkflow, ResumeWorkflow
  <2>4. \A h \in Handlers : ~ Applies(h) /\ \A f \in Envs : ~ ApplicationEnvRecycle(h, f)
    BY DEF Applies, Asked, NewRequest, RequestStep, RequestFails
  <2> QED BY <2>1, <2>2, <2>3, <2>4, ClusterFrame DEF ControllerStep
<1> QED BY <1>1, <1>2, <1>3, <1>4

\* What the worker's Put does to a revision: over means that its run has ended, or that
\* a later one has started.
LEMMA WorkerPuts ==
  ASSUME TypeOK, Admitted, WorkerPutRevision, NEW v \in Ids
  PROVE  \/ revs'[v].status = revs[v].status
         \/ /\ RevExists(v) /\ revs'[v].status # "none"
            /\ revs'[v].status \in Over =>
                  runs[v] \in Ended \/ \E k \in Ids : v < k /\ runs[k] # "none"
<1>1. PICK c \in worker.rev : revs' = PutRevision(c)
  BY DEF WorkerPutRevision
<1>2. c \in Copy /\ c.status # "none" /\ (c.status \in Over => runs[c.id] \in Ended \/ c.id < worker.event.rec)
  BY DEF TypeOK, Worker, Admitted, AdmittedWorker
<1>3. worker.event.rec \in Ids /\ runs[worker.event.rec] # "none"
  <2>1. worker.event.rec \in OptId /\ worker.event.rec # 0
    BY DEF TypeOK, Worker, Event, Admitted, AdmittedWorker, WorkerPutRevision
  <2> QED BY <2>1, IdInt DEF Admitted, Carried, Reported
<1>4. revs'[v].status = revs[v].status \/ (RevExists(v) /\ c.id = v /\ revs'[v].status = c.status)
  BY <1>1, <1>2 DEF PutRevision, RevExists, TypeOK, Revision, Copy
<1> QED BY <1>2, <1>3, <1>4

\* A request that gets on: the deploy's version stays the newest, the CR is its own.
LEMMA AdmittedRequestStep ==
  ASSUME InTurn, TypeOK, TypeOK', Bound, Fresh, Admitted, Next, NEW h \in Handlers
  PROVE  AdmittedRequest(req[h])'
<1>0. AdmittedRequest(req[h]) /\ req[h] \in Handler /\ nextId \in Nat
  BY IdInt DEF Admitted, TypeOK
<1>1. CASE req'[h] = Idle
  BY <1>1 DEF Idle, AdmittedRequest
<1>2. CASE \A g \in Handlers : ~ Asked(g)
  <2>1. nextId' = nextId /\ \A e \in Envs : cr'[e].spec = cr[e].spec
    BY <1>2, OtherStep
  <2>2. req'[h] = req[h] \/ req'[h] = Idle
    BY <1>2, OtherStep DEF Restart
  <2>3. ASSUME req[h].step = "apply", Newest(req[h]), revs[req[h].id].status \notin Over \cup {"none"}
        PROVE  revs'[req[h].id].status \notin Over \cup {"none"}
    <3> DEFINE v == req[h].id
    <3>1. v \in Ids /\ runs[v] = "none" /\ v + 1 = nextId
      BY <2>3 DEF Newest, Fresh, FreshRequest, Unapplied
    <3>2. \A k \in Ids : v < k => runs[k] = "none"
      BY <1>0, <3>1 DEF Fresh, Ids
    <3>3. runs[v] \notin Ended
      BY <3>1 DEF Ended
    <3>4. CASE revs' = revs
      BY <2>3, <3>4
    <3>5. CASE WorkerPutRevision
      BY <2>3, <3>1, <3>2, <3>3, <3>5, WorkerPuts
    <3> QED BY <1>2, <3>4, <3>5, OtherStep
  <2>4. CASE req'[h] = req[h]
    BY <1>0, <2>1, <2>3, <2>4 DEF AdmittedRequest, Newest
  <2> QED BY <1>1, <2>2, <2>4
<1>3. CASE NewRequest(h)
  <2>1. ASSUME NEW w \in Workflows, DeployCheck(h, w, "deploy") PROVE AdmittedRequest(req[h])'
    BY <2>1 DEF DeployCheck, TypeOK, Idle, AdmittedRequest
  <2>2. ASSUME NEW e \in Envs, ApplicationEnvRecycle(h, e) PROVE AdmittedRequest(req[h])'
    <3>1. \A f \in Envs : cr'[f].spec = 0
      BY <2>2 DEF ApplicationEnvRecycle, TypeOK, InTurn
    <3> QED BY <2>2, <3>1 DEF ApplicationEnvRecycle, TypeOK, Idle, AdmittedRequest
  <2>3. CASE DeleteCheck(h)
    BY <2>3 DEF DeleteCheck, cluster, TypeOK, Idle, AdmittedRequest
  <2> QED BY <1>3, <2>1, <2>2, <2>3, PlainRequests DEF NewRequest
<1>4. CASE RequestStep(h)
  <2>1. CASE DeployAdd(h)
    <3>1. /\ req'[h].op = "deploy" /\ req'[h].step = "apply" /\ req'[h].seen = {}
          /\ req'[h].id = nextId /\ req'[h].ver = nextId
      BY <1>0, <2>1 DEF DeployAdd, TypeOK, AdmittedRequest, Handler
    <3>2. nextId \in Ids /\ nextId' = nextId + 1 /\ revs'[nextId].status = "init"
      BY <1>0, <2>1, IdInt, ConstantsAssumption DEF DeployAdd, Room, TypeOK, NoRevision, Ids
    <3> QED BY <3>1, <3>2 DEF AdmittedRequest, Newest, Over
  <2>2. CASE Apply(h)
    <3> DEFINE e == EnvOf[req[h].wf]
    <3>1. req[h].op = "deploy" /\ Newest(req[h])
      BY <1>0, <2>2 DEF AdmittedRequest, Apply
    <3>2. e \in Envs
      BY <2>2, ConstantsAssumption DEF Apply, Bound, RequestBound
    <3>3. \A f \in Envs : cr'[f].spec = req[h].id
      BY <2>2, <3>2 DEF Apply, TypeOK, InTurn
    <3>4. /\ req'[h].op = "deploy" /\ req'[h].step = "record"
          /\ req'[h].id = req[h].id /\ req'[h].ver = req[h].ver /\ nextId' = nextId
      BY <1>0, <2>2, <3>1 DEF Apply, TypeOK, Handler
    <3> QED BY <3>1, <3>3, <3>4 DEF AdmittedRequest, Newest
  <2>3. CASE DeployRunning(h) \/ DeleteWipe(h)
    BY <1>1, <2>3 DEF DeployRunning, DeleteWipe, TypeOK
  <2>4. CASE AddRecord(h)
    <3>1. /\ req'[h].op = req[h].op /\ req'[h].step = "list" /\ req[h].step = "record"
          /\ req'[h].id = req[h].id /\ req'[h].ver = req[h].ver /\ nextId' = nextId /\ cr' = cr
      BY <1>0, <2>4 DEF AddRecord, TypeOK, Handler, cluster
    <3> QED BY <1>0, <3>1 DEF AdmittedRequest, Newest
  <2>5. CASE ResetList(h)
    <3>1. /\ req'[h].op = req[h].op /\ req'[h].step = "reset" /\ req[h].step = "list"
          /\ req'[h].id = req[h].id /\ req'[h].ver = req[h].ver /\ nextId' = nextId /\ cr' = cr
      BY <1>0, <2>5 DEF ResetList, TypeOK, Handler, cluster
    <3>2. \A c \in req'[h].seen : c.id # req[h].ver
      <4>1. PICK others \in SUBSET Ids :
               /\ \A v \in others : v # req[h].ver
               /\ req'[h] = [req[h] EXCEPT !.step = "reset", !.seen = {CopyOf(v) : v \in others}]
        BY <2>5 DEF ResetList, TypeOK
      <4>2. req'[h].seen = {CopyOf(v) : v \in others}
        BY <1>0, <4>1 DEF Handler
      <4> QED BY <4>1, <4>2 DEF CopyOf
    <3> QED BY <1>0, <3>1, <3>2 DEF AdmittedRequest, Newest
  <2>6. CASE ResetRevisions(h)
    <3>1. /\ req'[h].op = req[h].op /\ req'[h].step = "records" /\ req[h].step = "reset"
          /\ req'[h].id = req[h].id /\ req'[h].ver = req[h].ver /\ nextId' = nextId /\ cr' = cr
      <4>1. /\ req[h].step = "reset" /\ nextId' = nextId /\ cr' = cr
            /\ \E seen : req'[h] = [req[h] EXCEPT !.step = "records", !.seen = seen]
        BY <2>6 DEF ResetRevisions, TypeOK, cluster
      <4> QED BY <1>0, <4>1 DEF Handler
    <3> QED BY <1>0, <3>1 DEF AdmittedRequest, Newest
  <2>7. CASE ResetRecords(h)
    <3>1. req[h].step = "records" /\ req'[h] = AfterRecord(req[h], TRUE) /\ nextId' = nextId /\ cr' = cr
      BY <2>7 DEF ResetRecords, TypeOK, cluster
    <3> QED BY <1>0, <3>1, AfterAdmitted
  <2> QED BY <1>4, <2>1, <2>2, <2>3, <2>4, <2>5, <2>6, <2>7, NothingRestored DEF RequestStep
<1>5. CASE RequestFails(h)
  <2>1. CASE ApplyFails(h) \/ NamespaceFails(h) \/ RunningFails(h)
    BY <1>1, <2>1 DEF ApplyFails, NamespaceFails, RunningFails, TypeOK
  <2>2. CASE RecordFails(h) \/ ResetFails(h)
    <3>1. /\ req[h].step \in {"record", "list", "reset"} /\ req'[h] = AfterRecord(req[h], FALSE)
          /\ nextId' = nextId /\ cr' = cr
      BY <2>2 DEF RecordFails, ResetFails, TypeOK, cluster
    <3> QED BY <1>0, <3>1, AfterAdmitted
  <2> QED BY <1>5, <2>1, <2>2, NothingRestored DEF RequestFails
<1> QED BY <1>2, <1>3, <1>4, <1>5 DEF InTurn, Asked

\* The revision of the CR holds up every deploy until its run has ended.
LEMMA AdmittedCRStep ==
  ASSUME InTurn, TypeOK, TypeOK', Bound, Fresh, Fresh', Admitted, AdmittedStore', Next,
         NEW e \in Envs, cr'[e].spec # 0
  PROVE  AdmittedCR(cr[e].spec)'
<1> DEFINE n == cr[e].spec
           Waited == (\E h \in Handlers : req[h].step = "add") \/ (\E v \in Ids : v > n /\ RevExists(v))
<1>0. n \in OptId /\ nextId \in Nat /\ (n # 0 => n \in Ids /\ AdmittedCR(n))
  BY IdInt DEF Admitted
\* A step after which the CR, its revision and its run are what they were.
<1>1. ASSUME cr'[e].spec = n,
             revs'[n].status # "none",
             revs'[n].status \in Over => runs'[n] \in Ended,
             \A k \in OptId : runs'[k] # "none" => k <= n,
             Waited' => Waited \/ runs[n] \in Ended
      PROVE  AdmittedCR(cr[e].spec)'
  <2>1. n # 0 /\ n \in Ids /\ AdmittedCR(n)
    BY <1>0, <1>1
  <2>2. Waited' => runs'[n] \in Ended
    BY <1>0, <1>1, <2>1, EndedStays DEF AdmittedCR
  <2>3. RevExists(cr[e].spec)'
    BY <1>1, <2>1 DEF RevExists
  <2> QED BY <1>1, <2>2, <2>3 DEF AdmittedCR
<1>2. ASSUME cr'[e].spec = n
      PROVE  \A k \in OptId : runs'[k] # "none" => k <= n
  <2> SUFFICES ASSUME NEW k \in OptId, runs'[k] # "none" PROVE k <= n
    OBVIOUS
  <2>1. n \in Ids /\ AdmittedCR(n)
    BY <1>0, <1>2
  <2>2. CASE runs[k] # "none"
    BY <2>1, <2>2 DEF AdmittedCR
  <2>3. CASE runs[k] = "none"
    <3>1. ASSUME NEW f \in Envs, StartRun(f) PROVE k = cr[f].spec
      BY <2>3, <3>1 DEF StartRun, TypeOK
    <3>2. ASSUME NEW f \in Envs, NEW phase, AdvanceRun(f, phase) PROVE FALSE
      BY <2>3, <3>2 DEF AdvanceRun, TypeOK
    <3>3. ASSUME NEW f \in Envs, TerminateWorkflow(f) \/ ResumeWorkflow(f) PROVE FALSE
      BY <2>3, <3>3 DEF TerminateWorkflow, ResumeWorkflow, TypeOK, Fresh, FreshCR
    <3>4. ASSUME NEW g \in Handlers, Applies(g) \/ \E f \in Envs : ApplicationEnvRecycle(g, f) PROVE runs' = runs
      BY <3>4 DEF Applies, Apply, ApplyFails, ApplicationEnvRecycle
    <3>5. k = n
      BY <2>3, <3>1, <3>2, <3>3, <3>4, ClusterFrame DEF ControllerStep, InTurn
    <3> QED BY <1>0, <3>5 DEF OptId
  <2> QED BY <2>2, <2>3
\* A step that leaves the revisions' existence and adds no revision.
<1>3. ASSUME \A v \in Ids : RevExists(v)' => RevExists(v),
             \A h \in Handlers : req'[h].step = "add" => req[h].step = "add",
             cr'[e].spec = n
      PROVE  Waited' => Waited
  BY <1>0, <1>3
<1>4. CASE \A g \in Handlers : ~ Asked(g)
  <2>1. cr'[e].spec = n /\ nextId' = nextId /\ n \in Ids /\ AdmittedCR(n)
    BY <1>0, <1>4, OtherStep
  <2>2. ASSUME NEW h \in Handlers, req'[h].step = "add" PROVE req[h].step = "add"
    BY <1>4, <2>2, OtherStep DEF Restart, Idle
  <2>3. CASE revs' = revs
    <3>1. RevExists(n) /\ (revs[n].status \in Over => runs'[n] \in Ended)
      BY <1>0, <2>1, EndedStays DEF AdmittedCR
    <3>2. Waited' => Waited
      BY <1>3, <2>1, <2>2, <2>3 DEF RevExists
    <3> QED BY <1>1, <1>2, <2>1, <2>3, <3>1, <3>2 DEF RevExists
  <2>4. CASE WorkerPutRevision
    <3>1. \A k \in Ids : n < k => runs[k] = "none"
      BY <1>0, <2>1, TypeFacts DEF AdmittedCR, OptId, Ids
    <3>2. revs'[n].status # "none" /\ (revs'[n].status \in Over => runs[n] \in Ended)
      BY <2>1, <2>4, <3>1, WorkerPuts DEF AdmittedCR, RevExists
    <3>3. revs'[n].status \in Over => runs'[n] \in Ended
      BY <1>0, <3>2, EndedStays
    <3>4. \A v \in Ids : RevExists(v)' => RevExists(v)
      BY <2>4, WorkerPuts DEF RevExists
    <3>5. Waited' => Waited
      BY <1>3, <2>1, <2>2, <3>4
    <3> QED BY <1>1, <1>2, <2>1, <3>2, <3>3, <3>5
  <2> QED BY <1>4, <2>3, <2>4, OtherStep
<1>5. ASSUME NEW h \in Handlers, Asked(h) PROVE AdmittedCR(cr[e].spec)'
  <2>0. AdmittedRequest(req[h]) /\ req[h] \in Handler /\ \A g \in Handlers : g = h
    BY DEF Admitted, TypeOK, InTurn
  <2>1. CASE cr' = cr
    <3>0. n \in Ids /\ AdmittedCR(n) /\ cr'[e].spec = n
      BY <1>0, <2>1
    <3>1. ASSUME revs' = revs, req'[h].step # "add" PROVE AdmittedCR(cr[e].spec)'
      <4>1. RevExists(n) /\ (revs[n].status \in Over => runs'[n] \in Ended)
        BY <1>0, <3>0, EndedStays DEF AdmittedCR
      <4>2. Waited' => Waited
        BY <1>3, <2>0, <3>0, <3>1 DEF RevExists
      <4> QED BY <1>1, <1>2, <3>0, <3>1, <4>1, <4>2 DEF RevExists
    <3>2. ASSUME NEW w \in Workflows, DeployCheck(h, w, "deploy") PROVE AdmittedCR(cr[e].spec)'
      <4>1. revs' = revs
        BY <3>2 DEF DeployCheck, store
      <4>2. RevExists(n) /\ (revs[n].status \in Over => runs'[n] \in Ended)
        BY <1>0, <3>0, EndedStays DEF AdmittedCR
      <4>3. runs[n] \in Ended
        <5>1. CASE \E v \in Ids : v > n /\ RevExists(v)
          BY <3>0, <5>1 DEF AdmittedCR
        <5>2. CASE \A v \in Ids : RevExists(v) => v <= n
          <6>1. \A v \in Ids : RevExists(v) => EnvOf[revs[v].wf] = EnvOf[w]
            BY ConstantsAssumption DEF Bound, RevExists, InTurn
          <6>2. DeployStatus(n) \in {"complete", "terminated", "failure"}
            BY <3>0, <3>2, <4>2, <5>2, <6>1 DEF DeployCheck, LastCompleted
          <6>3. DeployStatus(n) = revs[n].status
            BY <3>0 DEF DeployStatus, Admitted, AdmittedStore
          <6> QED BY <3>0, <6>2, <6>3 DEF AdmittedCR, Over
        <5> QED BY <1>0, <3>0, <5>1, <5>2 DEF Ids
      <4> QED BY <1>1, <1>2, <3>0, <4>1, <4>2, <4>3 DEF RevExists
    <3>3. CASE DeployAdd(h)
      <4>1. runs[n] \in Ended
        BY <3>0, <3>3 DEF DeployAdd, AdmittedCR
      <4>2. n < nextId
        BY <3>0 DEF AdmittedCR, Admitted, AdmittedStore
      <4>3. revs'[n] = revs[n]
        BY <1>0, <3>0, <3>3, <4>2 DEF DeployAdd, TypeOK
      <4>4. RevExists(n) /\ runs'[n] \in Ended
        BY <1>0, <3>0, <4>1, EndedStays DEF AdmittedCR
      <4> QED BY <1>1, <1>2, <3>0, <4>1, <4>3, <4>4 DEF RevExists
    <3>4. ASSUME \A v \in Ids : RevExists(v)' => RevExists(v), req'[h].step # "add",
                 revs'[n].status # "none", revs'[n].status \in Over => revs[n].status \in Over
          PROVE  AdmittedCR(cr[e].spec)'
      <4>1. revs'[n].status \in Over => runs'[n] \in Ended
        BY <1>0, <3>0, <3>4, EndedStays DEF AdmittedCR
      <4>2. Waited' => Waited
        BY <1>3, <2>0, <3>0, <3>4
      <4> QED BY <1>1, <1>2, <3>0, <3>4, <4>1, <4>2
    <3>5. CASE ApplyFails(h)
      <4>1. req[h].id # n /\ req[h].ver = req[h].id /\ req'[h].step # "add"
        BY <2>0, <3>0, <3>5 DEF ApplyFails, Fresh, FreshRequest, Unapplied, AdmittedRequest, Newest, TypeOK, Idle
      <4>2. \A v \in Ids : /\ RevExists(v)' => RevExists(v)
                           /\ v # req[h].ver => revs'[v] = revs[v]
        BY <3>5 DEF ApplyFails, PutRevision, Deployed, RevExists, TypeOK
      <4> QED BY <3>0, <3>4, <4>1, <4>2 DEF AdmittedCR, RevExists
    <3>6. CASE DeployRunning(h)
      <4>1. req'[h].step # "add"
        BY <3>6 DEF DeployRunning, TypeOK, Idle
      <4>2. \A v \in Ids : /\ RevExists(v)' => RevExists(v)
                           /\ \/ revs'[v] = revs[v]
                              \/ revs'[v].status = "running"
        BY <3>6 DEF DeployRunning, PutRevision, Deployed, RevExists, TypeOK
      <4> QED BY <3>0, <3>4, <4>1, <4>2 DEF AdmittedCR, RevExists, Over
    <3>7. CASE ResetRevisions(h) \/ ResetFails(h)
      <4>1. req[h].step = "reset" /\ req'[h].step # "add"
        <5>1. CASE ResetRevisions(h)
          <6>1. req[h].step = "reset" /\ \E seen : req'[h] = [req[h] EXCEPT !.step = "records", !.seen = seen]
            BY <5>1 DEF ResetRevisions, TypeOK
          <6> QED BY <2>0, <6>1 DEF Handler
        <5>2. CASE ResetFails(h)
          BY <2>0, <5>2, AfterNotAdd DEF ResetFails, TypeOK
        <5> QED BY <3>7, <5>1, <5>2
      <4>2. \A c \in req[h].seen : c.id # n
        BY <2>0, <3>0, <4>1 DEF AdmittedRequest, Ids
      <4>3. revs'[n] = revs[n] /\ \A v \in Ids : RevExists(v)' => RevExists(v)
        BY <3>0, <3>7, <4>2, ResetIs DEF RevExists
      <4> QED BY <3>0, <3>4, <4>1, <4>3 DEF AdmittedCR, RevExists
    <3>8. CASE DeleteWipe(h)
      BY <2>0, <3>0, <3>8 DEF DeleteWipe, AdmittedRequest, Ids
    <3>9. ASSUME ApplicationEnvRecycle(h, e) \/ Apply(h) PROVE AdmittedCR(cr[e].spec)'
      BY <2>1, <3>0, <3>9, <2>0, ConstantsAssumption DEF ApplicationEnvRecycle, Apply, TypeOK, Ids, InTurn, Bound, RequestBound, Fresh, FreshRequest, Unapplied
    <3>10. CASE DeleteCheck(h)
      BY <3>1, <3>10 DEF DeleteCheck, store, TypeOK, Idle
    <3>11. CASE AddRecord(h) \/ ResetList(h) \/ ResetRecords(h) \/ NamespaceFails(h) \/ RecordFails(h) \/ RunningFails(h)
      <4>1. revs' = revs
        BY <3>11 DEF AddRecord, ResetList, ResetRecords, NamespaceFails, RecordFails, RunningFails, store
      <4>2. req'[h].step # "add"
        <5>1. CASE AddRecord(h)
          BY <2>0, <5>1 DEF AddRecord, TypeOK, Handler
        <5>4. CASE ResetList(h)
          <6>1. \E seen : req'[h] = [req[h] EXCEPT !.step = "reset", !.seen = seen]
            BY <5>4 DEF ResetList, TypeOK
          <6> QED BY <2>0, <6>1 DEF Handler
        <5>2. CASE ResetRecords(h) \/ RecordFails(h)
          BY <2>0, <5>2, AfterNotAdd DEF ResetRecords, RecordFails, TypeOK
        <5>3. CASE NamespaceFails(h) \/ RunningFails(h)
          BY <5>3 DEF NamespaceFails, RunningFails, TypeOK, Idle
        <5> QED BY <3>11, <5>1, <5>2, <5>3, <5>4
      <4> QED BY <3>1, <4>1, <4>2
    <3> QED BY <1>5, <3>2, <3>3, <3>5, <3>6, <3>7, <3>8, <3>9, <3>10, <3>11, PlainRequests, NothingRestored
           DEF Asked, NewRequest, RequestStep, RequestFails, InTurn
  <2>2. CASE Apply(h)
    <3>0. PICK m : m = req[h].id
      OBVIOUS
    <3>1. req[h].op = "deploy" /\ Newest(req[h]) /\ revs[m].status \notin Over \cup {"none"}
      BY <2>0, <2>2, <3>0 DEF AdmittedRequest, Apply
    <3>2. EnvOf[req[h].wf] = e
      BY <2>2, ConstantsAssumption DEF Apply, Bound, RequestBound, InTurn
    <3>3. /\ cr'[e].spec = m /\ req'[h].step = "record"
          /\ revs' = revs /\ runs' = runs /\ nextId' = nextId
      BY <2>0, <2>2, <3>0, <3>1, <3>2 DEF Apply, TypeOK, Handler, store
    <3>4. m \in Ids /\ m + 1 = nextId
      BY <3>0, <3>1 DEF Newest
    <3>5. RevExists(m)' /\ revs'[m].status \notin Over
      BY <3>1, <3>3, <3>4 DEF RevExists
    <3>6. \A k \in OptId : runs'[k] # "none" => k <= m
      BY <1>0, <3>3, <3>4, IdInt DEF Fresh, OptId, Ids
    <3>7. \A v \in Ids : RevExists(v)' => ~ (v > m)
      BY <3>3, <3>4 DEF AdmittedStore, Ids
    <3>8. \A g \in Handlers : req'[g].step # "add"
      BY <2>0, <3>3
    <3> QED BY <3>3, <3>5, <3>6, <3>7, <3>8 DEF AdmittedCR
  <2>3. ASSUME NEW f \in Envs, ApplicationEnvRecycle(h, f) PROVE FALSE
    BY <2>3 DEF ApplicationEnvRecycle, TypeOK, InTurn
  <2>4. CASE ApplyFails(h)
    BY <2>1, <2>4 DEF ApplyFails, InTurn
  <2>5. cr' = cr \/ Apply(h) \/ ApplyFails(h) \/ \E f \in Envs : ApplicationEnvRecycle(h, f)
    <3>1. CASE NewRequest(h)
      BY <3>1 DEF NewRequest, DeployCheck, RollbackCheck, RollbackToCheck, DeleteCheck, cluster
    <3>2. CASE RequestStep(h)
      BY <3>2 DEF RequestStep, cluster, DeployAdd, DeployRunning, AddRecord, ResetList, ResetRevisions,
         ResetRecords, RollbackRecord, RollbackWithRevision, RollbackPutFails, DeleteWipe
    <3>3. CASE RequestFails(h)
      BY <3>3 DEF RequestFails, cluster, NamespaceFails, RunningFails, RecordFails, ResetFails, RestoreCRName
    <3> QED BY <1>5, <3>1, <3>2, <3>3 DEF Asked
  <2> QED BY <2>1, <2>2, <2>3, <2>4, <2>5
<1> QED BY <1>4, <1>5

\* For one environment and one request at a time, with any number of deploys, faults and
\* restarts of the leader: a deploy that is not forced never takes the place of a run
\* that has not ended.
THEOREM DeploysWait ==
  ASSUME InTurn
  PROVE  Spec => DeployWaitsForLast
<1> DEFINE Replaces(h) == req[h].op = "deploy" /\ req[h].step = "apply" /\ req'[h].step = "record"
           Ready(h) == LET n == cr[EnvOf[req[h].wf]].spec IN n # 0 => runs[n] \in Ended
<1>1. Init => Admitted /\ RecordedOnce
  <2>1. Init => AdmittedStore /\ AdmittedWorker /\ RecordedOnce
    BY DEF Init, AdmittedStore, AdmittedWorker, RevExists, NoRevision, NoRecord, Resting, NoEvent,
       RecordedOnce, Unrecorded, Idle
  <2>2. Init => Carried \subseteq {NoEvent}
    BY DEF Init, Carried, Resting
  <2>3. Reported(NoEvent)
    BY DEF Reported, NoEvent, Ended
  <2>4. Init => \A h \in Handlers : AdmittedRequest(req[h])
    BY DEF Init, AdmittedRequest, Idle
  <2>5. Init => \A e \in Envs : cr[e].spec = 0
    <3> SUFFICES ASSUME Init, NEW e \in Envs PROVE cr[e].spec = 0
      OBVIOUS
    <3>1. cr[e] = [spec |-> 0, status |-> 0]
      BY DEF Init
    <3> QED BY <3>1
  <2> QED BY <2>1, <2>2, <2>3, <2>4, <2>5 DEF Admitted
<1>2. IInv /\ IInv' /\ RecordedOnce /\ Admitted /\ [Next]_vars => (Admitted /\ RecordedOnce)'
  <2> SUFFICES ASSUME IInv, IInv', RecordedOnce, Admitted, [Next]_vars PROVE (Admitted /\ RecordedOnce)'
    OBVIOUS
  <2>1. CASE Next
    <3>0. /\ TypeOK /\ TypeOK' /\ Bound /\ Fresh /\ Fresh'
      BY DEF IInv
    <3>1. AdmittedStore' /\ RecordedOnce'
      BY <2>1, <3>0, AdmittedStoreStep, RecordedStep
    <3>2. \A ev \in Carried' : Reported(ev)'
      BY <2>1, <3>0, ReportedStep DEF Admitted
    <3>3. AdmittedWorker'
      BY <2>1, <3>0, AdmittedWorkerStep
    <3>4. \A h \in Handlers : AdmittedRequest(req[h])'
      BY <2>1, <3>0, AdmittedRequestStep
    <3>5. \A e \in Envs : cr'[e].spec # 0 => AdmittedCR(cr[e].spec)'
      BY <2>1, <3>0, <3>1, AdmittedCRStep
    <3> QED BY <3>1, <3>2, <3>3, <3>4, <3>5 DEF Admitted
  <2>2. CASE UNCHANGED vars
    BY <2>2 DEF vars, store, cluster, sync, Admitted, AdmittedStore, Carried, Reported, AdmittedWorker,
       AdmittedRequest, Newest, AdmittedCR, RevExists, RecordedOnce, Unrecorded
  <2> QED BY <2>1, <2>2
<1>3. IInv /\ Admitted /\ [Next]_vars => [\A h \in Handlers : Replaces(h) => Ready(h)]_vars
  <2> SUFFICES ASSUME IInv, Admitted, NEW h \in Handlers, Replaces(h), cr[EnvOf[req[h].wf]].spec # 0
               PROVE  runs[cr[EnvOf[req[h].wf]].spec] \in Ended
    OBVIOUS
  <2> DEFINE e == EnvOf[req[h].wf]
  <2>1. e \in Envs /\ TypeOK
    BY ConstantsAssumption DEF IInv, Bound, RequestBound
  <2>2. AdmittedCR(cr[e].spec) /\ cr[e].spec \in Int
    BY <2>1, IdInt DEF Admitted
  <2>3. Newest(req[h]) /\ revs[req[h].id].status # "none"
    BY DEF Admitted, AdmittedRequest
  <2>4. cr[e].spec # req[h].id /\ cr[e].spec < nextId
    BY <2>1 DEF IInv, Fresh, FreshCR, FreshRequest, Unapplied
  <2>5. req[h].id > cr[e].spec /\ RevExists(req[h].id)
    BY <2>2, <2>3, <2>4 DEF Newest, RevExists, Ids
  <2> QED BY <2>2, <2>3, <2>5 DEF AdmittedCR, Newest
<1>4. Spec => [][\A h \in Handlers : Replaces(h) => Ready(h)]_vars
  BY <1>1, <1>2, <1>3, Invariant, PTL DEF Spec
<1> QED BY <1>4 DEF DeployWaitsForLast

=============================================================================
