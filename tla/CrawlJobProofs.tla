--------------------------- MODULE CrawlJobProofs ---------------------------
(***************************************************************************)
(* Theorems about CrawlJob, for any jobs, rows, requests and workers:      *)
(* every variable keeps its type, no row is forgotten while no call        *)
(* throws, and with a single reconciliation worker no entity is made twice *)
(* and a job that has settled is reconciled.                               *)
(***************************************************************************)
EXTENDS CrawlJob, TLAPS

(***************************************************************************)
(* The actions, by who takes them.                                         *)
(***************************************************************************)
CallerStep(c) ==
    \/ \E o \in DOMAIN Target, j \in Job : Request(c, o, j)
    \/ Call(c) \/ CallerThrows(c)

WorkerStep(t) == Crawl(t) \/ WorkerThrows(t) \/ WorkerCrashes(t)

ReconcilerStep(w) == Reconcile(w) \/ ReconciliationThrows(w) \/ ReconcilerCrashes(w)

LEMMA NextSteps == Next => \/ \E c \in Caller : CallerStep(c)
                           \/ \E s \in Sender : Send(s)
                           \/ \E t \in Task : WorkerStep(t)
                           \/ \E w \in Reconciler : ReconcilerStep(w)
  BY DEF Next, CallerStep, WorkerStep, ReconcilerStep

(***************************************************************************)
(* Types.                                                                  *)
(***************************************************************************)

(* The statuses, requests and rows are what the tables in the code list.   *)
LEMMA Domains ==
    /\ DOMAIN Transitions = {"pending", "queued", "running", "paused", "reconciling",
                             "completed", "failed", "cancelled"}
    /\ DOMAIN Target = {"start", "pause", "resume", "cancel", "reconcile"}
    /\ \A o \in DOMAIN Target : Target[o] \in DOMAIN Transitions
  BY DEF Transitions, Target

LEMMA InitType == Init => TypeOK
  BY LimitAssumption, Domains DEF Init, TypeOK, Sender, Unfinished, Finished

LEMMA CallerType == ASSUME TypeOK, NEW c \in Caller, CallerStep(c) PROVE TypeOK'
  <1>1. CASE \E o \in DOMAIN Target, j \in Job : Request(c, o, j)
    <2>1. PICK o \in DOMAIN Target, j \in Job : Request(c, o, j)
      BY <1>1
    <2> QED BY <2>1, Domains DEF TypeOK, Request, CGoto, tableVars, queueVars, workerVars, callerVars, reconcilerVars
  <1>2. CASE CheckQuota(c)
    BY <1>2 DEF TypeOK, CheckQuota, CGoto, tableVars, queueVars, workerVars, callerVars, reconcilerVars
  <1>3. CASE WriteStatus(c)
    <2>1. CASE ~Allowed(c)
      BY <1>3, <2>1 DEF TypeOK, WriteStatus, CGoto, tableVars, queueVars, workerVars, callerVars, reconcilerVars
    <2>2. CASE Allowed(c)
      <3>1. cpc[c] = "write" /\ cjob[c] \in Job /\ op[c] \in DOMAIN Target
        BY <1>3 DEF TypeOK, WriteStatus
      <3>2. status' = [status EXCEPT ![cjob[c]] = Target[op[c]]]
        BY <1>3, <2>2 DEF WriteStatus
      <3>3. status' \in [Job -> DOMAIN Transitions]
        BY <3>1, <3>2, Domains DEF TypeOK
      <3> QED BY <1>3, <2>2, <3>1, <3>3
            DEF TypeOK, WriteStatus, CGoto, tableVars, queueVars, workerVars, callerVars, reconcilerVars
    <2> QED BY <2>1, <2>2
  <1>4. CASE CreateSchema(c)
    BY <1>4 DEF TypeOK, CreateSchema, Seeds, CGoto, Sender, tableVars, queueVars, workerVars, callerVars, reconcilerVars
  <1>5. CASE QueueReconciliation(c)
    BY <1>5 DEF TypeOK, QueueReconciliation, CGoto, tableVars, queueVars, workerVars, callerVars, reconcilerVars
  <1>6. CASE CallerThrows(c)
    BY <1>6, LimitAssumption DEF TypeOK, CallerThrows, Fault, Forget, CGoto, Sender, tableVars, queueVars, workerVars, callerVars, reconcilerVars
  <1> QED BY <1>1, <1>2, <1>3, <1>4, <1>5, <1>6 DEF CallerStep, Call

LEMMA SendType == ASSUME TypeOK, NEW s \in Sender, Send(s) PROVE TypeOK'
  <1>1. CASE EnqueueRow(s)
    BY <1>1 DEF TypeOK, EnqueueRow, Unfinished, tableVars, queueVars, workerVars, callerVars, reconcilerVars
  <1>2. CASE AddMessage(s)
    <2>1. pc' \in [Task -> {"none", "queued", "crawling", "extracted", "cap", "send",
                            "check", "fail", "trigger", "done"}]
      BY <1>2 DEF TypeOK, AddMessage
    <2>2. /\ cpc' \in [Caller -> {"idle", "quota", "write", "schema", "send", "queue", "done"}]
          /\ \A c \in Caller : cpc'[c] = cpc[c] \/ (c = s /\ cpc'[c] = "done")
      BY <1>2 DEF TypeOK, AddMessage
    <2> QED BY <1>2, <2>1, <2>2 DEF TypeOK, AddMessage, tableVars, queueVars, workerVars, callerVars, reconcilerVars
  <1> QED BY <1>1, <1>2 DEF Send

LEMMA WorkerType == ASSUME TypeOK, NEW t \in Task, WorkerStep(t) PROVE TypeOK'
  <1>1. CASE Skip(t)
    BY <1>1 DEF TypeOK, Skip, Goto, SetTask, Finished, tableVars, queueVars, workerVars, callerVars, reconcilerVars
  <1>2. CASE Begin(t)
    BY <1>2 DEF TypeOK, Begin, Goto, SetTask, Unfinished, tableVars, queueVars, workerVars, callerVars, reconcilerVars
  <1>3. CASE PageFails(t)
    BY <1>3 DEF TypeOK, PageFails, Goto, SetTask, Finished, tableVars, queueVars, workerVars, callerVars, reconcilerVars
  <1>4. CASE StoreExtraction(t)
    BY <1>4 DEF TypeOK, StoreExtraction, Goto, tableVars, queueVars, workerVars, callerVars, reconcilerVars
  <1>5. CASE CompleteTask(t)
    BY <1>5 DEF TypeOK, CompleteTask, Goto, SetTask, Finished, Sender, tableVars, queueVars, workerVars, callerVars, reconcilerVars
  <1>6. CASE CapLinks(t)
    BY <1>6 DEF TypeOK, CapLinks, Goto, Sender, tableVars, queueVars, workerVars, callerVars, reconcilerVars
  <1>7. CASE CheckCompletion(t)
    BY <1>7 DEF TypeOK, CheckCompletion, Goto, tableVars, queueVars, workerVars, callerVars, reconcilerVars
  <1>8. CASE FailJob(t)
    BY <1>8, Domains, RowAssumption DEF TypeOK, FailJob, Goto, tableVars, queueVars, workerVars, callerVars, reconcilerVars
  <1>9. CASE TriggerReconciliation(t)
    <2>1. jobOf[t] \in Job
      BY RowAssumption
    <2>2. recQueue' \in [Job -> Nat]
      BY <1>9, <2>1 DEF TypeOK, TriggerReconciliation
    <2> QED BY <1>9, <2>2 DEF TypeOK, TriggerReconciliation, Goto, tableVars, queueVars, workerVars, callerVars, reconcilerVars
  <1>10. CASE WorkerThrows(t)
    BY <1>10, LimitAssumption DEF TypeOK, WorkerThrows, Fault, Forget, Goto, Sender, tableVars, queueVars, workerVars, callerVars, reconcilerVars
  <1>11. CASE WorkerCrashes(t)
    BY <1>11, LimitAssumption DEF TypeOK, WorkerCrashes, Fault, Forget, Goto, Sender, tableVars, queueVars, workerVars, callerVars, reconcilerVars
  <1> QED BY <1>1, <1>2, <1>3, <1>4, <1>5, <1>6, <1>7, <1>8, <1>9, <1>10, <1>11 DEF WorkerStep, Crawl

LEMMA ReconcilerType == ASSUME TypeOK, NEW w \in Reconciler, ReconcilerStep(w) PROVE TypeOK'
  <1>1. CASE \E j \in Job : TakeReconciliation(w, j)
    <2>1. PICK j \in Job : TakeReconciliation(w, j)
      BY <1>1
    <2> QED BY <2>1 DEF TypeOK, TakeReconciliation, RGoto, tableVars, queueVars, workerVars, callerVars, reconcilerVars
  <1>2. CASE DeleteEntities(w)
    BY <1>2 DEF TypeOK, DeleteEntities, RGoto, tableVars, queueVars, workerVars, callerVars, reconcilerVars
  <1>3. CASE CreateEntity(w)
    BY <1>3 DEF TypeOK, CreateEntity, tableVars, queueVars, workerVars, callerVars, reconcilerVars
  <1>4. CASE CompleteJob(w)
    BY <1>4, Domains DEF TypeOK, CompleteJob, EndJob, RGoto, tableVars, queueVars, workerVars, callerVars, reconcilerVars
  <1>5. CASE Announce(w)
    BY <1>5 DEF TypeOK, Announce, RGoto, tableVars, queueVars, workerVars, callerVars, reconcilerVars
  <1>6. CASE ReconciliationThrows(w)
    BY <1>6, Domains, LimitAssumption DEF TypeOK, ReconciliationThrows, Fault, EndJob, RGoto, tableVars, queueVars, workerVars, callerVars, reconcilerVars
  <1>7. CASE ReconcilerCrashes(w)
    BY <1>7, LimitAssumption DEF TypeOK, ReconcilerCrashes, Fault, RGoto, tableVars, queueVars, workerVars, callerVars, reconcilerVars
  <1> QED BY <1>1, <1>2, <1>3, <1>4, <1>5, <1>6, <1>7 DEF ReconcilerStep, Reconcile

LEMMA TypeStep == TypeOK /\ [Next]_vars => TypeOK'
  <1> SUFFICES ASSUME TypeOK, [Next]_vars PROVE TypeOK'
    OBVIOUS
  <1>1. CASE Next
    BY <1>1, NextSteps, CallerType, SendType, WorkerType, ReconcilerType
  <1>2. CASE UNCHANGED vars
    BY <1>2 DEF TypeOK, vars, tableVars, queueVars, workerVars, callerVars, reconcilerVars
  <1> QED BY <1>1, <1>2

(* Every variable of the job manager and the workers keeps its type.       *)
THEOREM TypeCorrect == Spec => []TypeOK
  <1>1. Init => TypeOK
    BY InitType
  <1>2. TypeOK /\ [Next]_vars => TypeOK'
    BY TypeStep
  <1> QED BY <1>1, <1>2, PTL DEF Spec

(***************************************************************************)
(* No row is forgotten.                                                    *)
(***************************************************************************)

(* What a crawl worker's step does to the rows and messages: it stays with *)
(* its own task, and the links it takes on have no row.                    *)
WorkerMoves(t) ==
    /\ pc[t] # "none" /\ pc'[t] # "none"
    /\ \A u \in Task : u # t => pc'[u] = pc[u] /\ task'[u] = task[u]
    /\ task'[t] = task[t] \/ task'[t] \in {"in_progress"} \cup Finished
    /\ \A s \in Sender : s # t => todo'[s] = todo[s] /\ sending'[s] = sending[s]
    /\ \A u \in todo'[t] : u \in todo[t] \/ (u \in Task /\ parent[u] = t /\ task[u] = "none")
    /\ sending'[t] = NoTask \/ (sending'[t] = sending[t] /\ pc[t] # "send")
    /\ cpc' = cpc

(* Without a fault it also leaves its row finished or with itself.         *)
WorkerKeeps(t) ==
    /\ faults' = faults
    /\ task'[t] = "pending" => task[t] = "pending" /\ pc[t] # "queued"
    /\ task'[t] = "in_progress" =>
          \/ pc'[t] \in {"crawling", "extracted"}
          \/ task[t] = "in_progress" /\ pc[t] \notin {"crawling", "extracted"}
    /\ sending' = sending

LEMMA CrawlMoves == ASSUME TypeOK, NEW t \in Task, Crawl(t)
                    PROVE  WorkerMoves(t) /\ WorkerKeeps(t)
  <1>t. t \in Sender
    BY DEF Sender
  <1>1. CASE Skip(t)
    BY <1>t, <1>1 DEF TypeOK, WorkerMoves, WorkerKeeps, Skip, Goto, SetTask, Finished,
                    tableVars, callerVars, workerVars
  <1>2. CASE Begin(t)
    BY <1>t, <1>2 DEF TypeOK, WorkerMoves, WorkerKeeps, Begin, Goto, SetTask,
                    tableVars, callerVars, workerVars
  <1>3. CASE PageFails(t)
    BY <1>t, <1>3 DEF TypeOK, WorkerMoves, WorkerKeeps, PageFails, Goto, SetTask, Finished,
                    tableVars, callerVars, workerVars
  <1>4. CASE StoreExtraction(t)
    BY <1>t, <1>4 DEF TypeOK, WorkerMoves, WorkerKeeps, StoreExtraction, Goto,
                    tableVars, callerVars, workerVars
  <1>5. CASE CompleteTask(t)
    BY <1>t, <1>5 DEF TypeOK, WorkerMoves, WorkerKeeps, CompleteTask, Goto, SetTask, Finished,
                    tableVars, callerVars, workerVars
  <1>6. CASE CapLinks(t)
    BY <1>t, <1>6 DEF TypeOK, WorkerMoves, WorkerKeeps, CapLinks, Goto,
                    tableVars, callerVars, workerVars
  <1>7. CASE CheckCompletion(t)
    BY <1>t, <1>7 DEF TypeOK, WorkerMoves, WorkerKeeps, CheckCompletion, Goto,
                    tableVars, callerVars, workerVars
  <1>8. CASE FailJob(t)
    BY <1>t, <1>8 DEF TypeOK, WorkerMoves, WorkerKeeps, FailJob, Goto,
                    tableVars, callerVars, workerVars
  <1>9. CASE TriggerReconciliation(t)
    BY <1>t, <1>9 DEF TypeOK, WorkerMoves, WorkerKeeps, TriggerReconciliation, Goto,
                    tableVars, callerVars, workerVars
  <1> QED BY <1>1, <1>2, <1>3, <1>4, <1>5, <1>6, <1>7, <1>8, <1>9 DEF Crawl

LEMMA FaultMoves == ASSUME TypeOK, NEW t \in Task, WorkerThrows(t) \/ WorkerCrashes(t)
                    PROVE  WorkerMoves(t) /\ faults' # 0
  <1>t. t \in Sender
    BY DEF Sender
  <1>1. CASE WorkerThrows(t)
    BY <1>t, <1>1 DEF TypeOK, WorkerMoves, WorkerThrows, Fault, Forget, Goto, tableVars, callerVars
  <1>2. CASE WorkerCrashes(t)
    BY <1>t, <1>2 DEF TypeOK, WorkerMoves, WorkerCrashes, Fault, Forget, Goto, tableVars, callerVars
  <1> QED BY <1>1, <1>2

(* The senders' part of the invariant.                                     *)
LEMMA InitRows == Init => RowsBySenders /\ NoTaskForgotten
  BY DEF Init, RowsBySenders, RowFirst, LeftWithoutRow, SentWithoutMessage, SeedsUntouched,
         NoTaskForgotten

LEMMA WorkerRows == ASSUME TypeOK, RowsBySenders, NEW t \in Task, WorkerMoves(t)
                    PROVE  RowsBySenders'
  <1>t. t \in Sender /\ task[t] # "none" /\ task'[t] # "none"
    BY DEF Sender, RowsBySenders, RowFirst, WorkerMoves, Finished
  <1>1. \A u \in Task : task'[u] = "none" <=> task[u] = "none"
    BY <1>t DEF WorkerMoves
  <1>2. RowFirst'
    BY <1>t, <1>1 DEF RowsBySenders, RowFirst, WorkerMoves
  <1>3. LeftWithoutRow'
    <2> SUFFICES ASSUME NEW s \in Sender, NEW u \in todo'[s]
                 PROVE  parent[u] = s /\ task'[u] = "none"
      BY DEF LeftWithoutRow
    <2>1. CASE s = t
      <3>1. parent[u] = t /\ task[u] = "none"
        BY <1>t, <2>1 DEF WorkerMoves, RowsBySenders, LeftWithoutRow
      <3>2. u # t
        BY <1>t, <3>1
      <3>3. u \in Task
        BY <2>1, <1>t DEF WorkerMoves, TypeOK
      <3> QED BY <2>1, <3>1, <3>2, <3>3 DEF WorkerMoves
    <2>2. CASE s # t
      <3>1. u \in todo[s] /\ u \in Task
        BY <2>2 DEF WorkerMoves, TypeOK
      <3> QED BY <3>1, <1>1 DEF RowsBySenders, LeftWithoutRow
    <2> QED BY <2>1, <2>2
  <1>4. SentWithoutMessage'
    <2> SUFFICES ASSUME NEW s \in Sender, sending'[s] # NoTask
                 PROVE  /\ AtWork(s)'
                        /\ parent[sending'[s]] = s
                        /\ task'[sending'[s]] = "pending"
                        /\ pc'[sending'[s]] = "none"
      BY DEF SentWithoutMessage
    <2>1. s # t
      BY <1>t DEF WorkerMoves, RowsBySenders, SentWithoutMessage, AtWork
    <2>2. sending'[s] = sending[s] /\ sending[s] \in Task
      BY <2>1 DEF WorkerMoves, TypeOK
    <2>3. /\ AtWork(s)
          /\ parent[sending[s]] = s
          /\ task[sending[s]] = "pending"
          /\ pc[sending[s]] = "none"
      BY <2>2 DEF RowsBySenders, SentWithoutMessage
    <2>4. sending[s] # t
      BY <2>3 DEF WorkerMoves
    <2>5. AtWork(s)'
      BY <2>1, <2>3 DEF WorkerMoves, AtWork
    <2> QED BY <2>2, <2>3, <2>4, <2>5 DEF WorkerMoves
  <1>5. SeedsUntouched'
    BY <1>1 DEF RowsBySenders, SeedsUntouched, WorkerMoves
  <1> QED BY <1>2, <1>3, <1>4, <1>5 DEF RowsBySenders

LEMMA WorkerForgetsNone ==
    ASSUME TypeOK, RowsBySenders, NoTaskForgotten, NEW t \in Task,
           WorkerMoves(t), faults' = 0 => WorkerKeeps(t)
    PROVE  NoTaskForgotten'
  <1> SUFFICES ASSUME faults' = 0, NEW u \in Task
               PROVE  /\ task'[u] = "pending" => pc'[u] = "queued" \/ \E s \in Sender : sending'[s] = u
                      /\ task'[u] = "in_progress" => pc'[u] \in {"crawling", "extracted"}
    BY DEF NoTaskForgotten
  <1>1. WorkerKeeps(t) /\ faults = 0
    BY DEF WorkerKeeps
  <1>2. /\ task[u] = "pending" => pc[u] = "queued" \/ \E s \in Sender : sending[s] = u
        /\ task[u] = "in_progress" => pc[u] \in {"crawling", "extracted"}
    BY <1>1 DEF NoTaskForgotten
  <1>3. CASE u = t
    <2>1. \A s \in Sender : sending[s] # t
      BY ActorAssumption DEF RowsBySenders, SentWithoutMessage, WorkerMoves, TypeOK
    <2> QED BY <1>1, <1>2, <1>3, <2>1 DEF WorkerKeeps
  <1>4. CASE u # t
    BY <1>1, <1>2, <1>4 DEF WorkerKeeps, WorkerMoves
  <1> QED BY <1>3, <1>4

LEMMA EnqueueRows == ASSUME TypeOK, RowsBySenders, NoTaskForgotten, NEW s \in Sender, EnqueueRow(s)
                     PROVE  RowsBySenders' /\ NoTaskForgotten'
  <1>1. PICK t \in todo[s] :
           /\ task' = [task EXCEPT ![t] = "pending"]
           /\ todo' = [todo EXCEPT ![s] = @ \ {t}]
           /\ sending' = [sending EXCEPT ![s] = t]
    BY DEF EnqueueRow
  <1>2. /\ AtWork(s) /\ sending[s] = NoTask
        /\ pc' = pc /\ cpc' = cpc /\ faults' = faults
    BY DEF EnqueueRow, callerVars
  <1>3. t \in Task /\ parent[t] = s /\ task[t] = "none" /\ pc[t] = "none"
    BY DEF TypeOK, RowsBySenders, RowFirst, LeftWithoutRow
  <1>4. /\ task'[t] = "pending" /\ \A u \in Task : u # t => task'[u] = task[u]
        /\ todo'[s] = todo[s] \ {t} /\ \A r \in Sender : r # s => todo'[r] = todo[r]
        /\ sending'[s] = t /\ \A r \in Sender : r # s => sending'[r] = sending[r]
    BY <1>1, <1>3 DEF TypeOK
  <1>5. \A r \in Sender : AtWork(r)' <=> AtWork(r)
    BY <1>2 DEF AtWork
  <1>6. RowFirst'
    BY <1>2, <1>4 DEF RowsBySenders, RowFirst
  <1>7. LeftWithoutRow'
    <2> SUFFICES ASSUME NEW r \in Sender, NEW u \in todo'[r]
                 PROVE  parent[u] = r /\ task'[u] = "none"
      BY DEF LeftWithoutRow
    <2>1. u \in todo[r] /\ u \in Task /\ (r = s => u # t)
      BY <1>4 DEF TypeOK
    <2>2. parent[u] = r /\ task[u] = "none"
      BY <2>1 DEF RowsBySenders, LeftWithoutRow
    <2> QED BY <1>3, <1>4, <2>1, <2>2
  <1>8. SentWithoutMessage'
    <2> SUFFICES ASSUME NEW r \in Sender, sending'[r] # NoTask
                 PROVE  /\ AtWork(r)'
                        /\ parent[sending'[r]] = r
                        /\ task'[sending'[r]] = "pending"
                        /\ pc'[sending'[r]] = "none"
      BY DEF SentWithoutMessage
    <2>1. CASE r = s
      BY <1>2, <1>3, <1>4, <1>5, <2>1
    <2>2. CASE r # s
      <3>1. sending'[r] = sending[r] /\ sending[r] \in Task
        BY <1>4, <2>2 DEF TypeOK
      <3>2. /\ AtWork(r)
            /\ parent[sending[r]] = r
            /\ task[sending[r]] = "pending"
            /\ pc[sending[r]] = "none"
        BY <3>1 DEF RowsBySenders, SentWithoutMessage
      <3> QED BY <1>2, <1>3, <1>4, <1>5, <3>1, <3>2
    <2> QED BY <2>1, <2>2
  <1>9. SeedsUntouched'
    <2>1. \A c \in Caller : cpc[c] \in {"idle", "quota", "write", "schema"} => parent[t] # c
      BY <1>2, <1>3, ActorAssumption DEF AtWork
    <2> QED BY <1>2, <1>4, <2>1 DEF RowsBySenders, SeedsUntouched
  <1>10. NoTaskForgotten'
    <2>1. \A u \in Task : u # t => \A r \in Sender : sending[r] = u => sending'[r] = u
      BY <1>2, <1>4, ActorAssumption
    <2> QED BY <1>2, <1>3, <1>4, <2>1 DEF NoTaskForgotten
  <1> QED BY <1>6, <1>7, <1>8, <1>9, <1>10 DEF RowsBySenders

LEMMA AddMessages == ASSUME TypeOK, RowsBySenders, NoTaskForgotten, NEW s \in Sender, AddMessage(s)
                     PROVE  RowsBySenders' /\ NoTaskForgotten'
  <1> DEFINE t == sending[s]
  <1>1. /\ t \in Task /\ AtWork(s) /\ parent[t] = s /\ task[t] = "pending" /\ pc[t] = "none"
    BY DEF TypeOK, AddMessage, RowsBySenders, SentWithoutMessage
  <1>2. t # s
    BY <1>1 DEF AtWork
  <1>3. /\ task' = task /\ todo' = todo /\ faults' = faults
        /\ sending'[s] = NoTask /\ \A r \in Sender : r # s => sending'[r] = sending[r]
        /\ pc'[t] = "queued"
        /\ \A u \in Task : u # t /\ u # s => pc'[u] = pc[u]
        /\ s \in Task => pc'[s] \in {pc[s], "check"}
        /\ \A c \in Caller : c # s => cpc'[c] = cpc[c]
        /\ s \in Caller => cpc'[s] \in {cpc[s], "done"}
    BY <1>1, <1>2 DEF TypeOK, AddMessage, tableVars
  <1>4. \A r \in Sender : r # s /\ r # t => (AtWork(r)' <=> AtWork(r))
    BY <1>3 DEF AtWork, Sender
  <1>5. RowFirst'
    BY <1>1, <1>3 DEF RowsBySenders, RowFirst, AtWork
  <1>6. LeftWithoutRow'
    BY <1>3 DEF RowsBySenders, LeftWithoutRow
  <1>7. SentWithoutMessage'
    <2> SUFFICES ASSUME NEW r \in Sender, sending'[r] # NoTask
                 PROVE  /\ AtWork(r)'
                        /\ parent[sending'[r]] = r
                        /\ task'[sending'[r]] = "pending"
                        /\ pc'[sending'[r]] = "none"
      BY DEF SentWithoutMessage
    <2>1. r # s /\ sending'[r] = sending[r] /\ sending[r] \in Task
      BY <1>3 DEF TypeOK
    <2>2. /\ AtWork(r)
          /\ parent[sending[r]] = r
          /\ task[sending[r]] = "pending"
          /\ pc[sending[r]] = "none"
      BY <2>1 DEF RowsBySenders, SentWithoutMessage
    <2>3. r # t /\ sending[r] # t
      BY <1>1, <2>1, <2>2 DEF AtWork
    <2>4. sending[r] # s
      BY <1>1, <2>1, <2>2 DEF AtWork
    <2> QED BY <1>3, <1>4, <2>1, <2>2, <2>3, <2>4
  <1>8. SeedsUntouched'
    <2>1. \A c \in Caller : cpc'[c] \in {"idle", "quota", "write", "schema"} => cpc'[c] = cpc[c]
      BY <1>3
    <2> QED BY <1>3, <2>1 DEF RowsBySenders, SeedsUntouched
  <1>9. NoTaskForgotten'
    <2> SUFFICES ASSUME faults = 0, NEW u \in Task
                 PROVE  /\ task[u] = "pending" => pc'[u] = "queued" \/ \E r \in Sender : sending'[r] = u
                        /\ task[u] = "in_progress" => pc'[u] \in {"crawling", "extracted"}
      BY <1>3 DEF NoTaskForgotten
    <2>1. /\ task[u] = "pending" => pc[u] = "queued" \/ \E r \in Sender : sending[r] = u
          /\ task[u] = "in_progress" => pc[u] \in {"crawling", "extracted"}
      BY DEF NoTaskForgotten
    <2>2. CASE u = t
      BY <1>1, <1>3, <2>2
    <2>3. CASE u # t /\ u # s
      BY <1>3, <2>1, <2>3
    <2>4. CASE u = s
      <3>1. pc[u] = "send"
        BY <1>1, <2>4 DEF AtWork
      <3>2. \A r \in Sender : sending[r] # u
        BY <3>1, ActorAssumption DEF RowsBySenders, SentWithoutMessage, TypeOK
      <3> QED BY <2>1, <3>1, <3>2
    <2> QED BY <2>2, <2>3, <2>4
  <1> QED BY <1>5, <1>6, <1>7, <1>8, <1>9 DEF RowsBySenders

LEMMA CallerRows == ASSUME TypeOK, RowsBySenders, NoTaskForgotten, NEW c \in Caller, CallerStep(c)
                    PROVE  RowsBySenders' /\ NoTaskForgotten'
  <1>1. /\ task' = task /\ pc' = pc
        /\ \A s \in Sender : s # c => todo'[s] = todo[s] /\ sending'[s] = sending[s]
        /\ \A d \in Caller : d # c => cpc'[d] = cpc[d]
        /\ \A u \in todo'[c] : u \in todo[c] \/ (cpc[c] = "schema" /\ u \in Task /\ parent[u] = c)
        /\ sending'[c] = NoTask \/ (sending'[c] = sending[c] /\ cpc[c] # "send")
        /\ cpc'[c] \in {"idle", "quota", "write", "schema"}
             => cpc[c] \in {"idle", "quota", "write", "schema"}
        /\ faults' = 0 => faults = 0 /\ sending' = sending
    <2>c. c \in Sender
      BY DEF Sender
    <2>1. CASE \E o \in DOMAIN Target, j \in Job : Request(c, o, j)
      BY <2>1, <2>c DEF TypeOK, Request, CGoto, tableVars, workerVars
    <2>2. CASE CheckQuota(c)
      BY <2>2, <2>c DEF TypeOK, CheckQuota, CGoto, tableVars, workerVars
    <2>3. CASE WriteStatus(c)
      BY <2>3, <2>c DEF TypeOK, WriteStatus, CGoto, workerVars
    <2>4. CASE CreateSchema(c)
      BY <2>4, <2>c DEF TypeOK, CreateSchema, Seeds, CGoto
    <2>5. CASE QueueReconciliation(c)
      BY <2>5, <2>c DEF TypeOK, QueueReconciliation, CGoto, tableVars, workerVars
    <2>6. CASE CallerThrows(c)
      BY <2>6, <2>c DEF TypeOK, CallerThrows, Fault, Forget, CGoto, tableVars
    <2> QED BY <2>1, <2>2, <2>3, <2>4, <2>5, <2>6 DEF CallerStep, Call
  <1>2. RowFirst'
    BY <1>1 DEF RowsBySenders, RowFirst
  <1>3. LeftWithoutRow'
    <2> SUFFICES ASSUME NEW s \in Sender, NEW u \in todo'[s]
                 PROVE  parent[u] = s /\ task[u] = "none"
      BY <1>1 DEF LeftWithoutRow
    <2>1. CASE u \in todo[s]
      BY <2>1 DEF RowsBySenders, LeftWithoutRow
    <2>2. CASE u \notin todo[s]
      BY <1>1, <2>2 DEF RowsBySenders, SeedsUntouched
    <2> QED BY <2>1, <2>2
  <1>4. SentWithoutMessage'
    <2> SUFFICES ASSUME NEW s \in Sender, sending'[s] # NoTask
                 PROVE  /\ AtWork(s)'
                        /\ parent[sending'[s]] = s
                        /\ task[sending'[s]] = "pending"
                        /\ pc[sending'[s]] = "none"
      BY <1>1 DEF SentWithoutMessage
    <2>1. sending'[s] = sending[s]
      BY <1>1
    <2>2. AtWork(s)
      BY <2>1 DEF RowsBySenders, SentWithoutMessage
    <2>3. s # c
      BY <1>1, <2>2, ActorAssumption DEF AtWork
    <2>4. AtWork(s)'
      BY <1>1, <2>2, <2>3 DEF AtWork, Sender
    <2> QED BY <2>1, <2>4 DEF RowsBySenders, SentWithoutMessage
  <1>5. SeedsUntouched'
    BY <1>1 DEF RowsBySenders, SeedsUntouched
  <1>6. NoTaskForgotten'
    BY <1>1 DEF NoTaskForgotten
  <1> QED BY <1>2, <1>3, <1>4, <1>5, <1>6 DEF RowsBySenders

(* A reconciliation leaves the rows alone.                                 *)
LEMMA ReconcilerRows ==
    ASSUME TypeOK, RowsBySenders, NoTaskForgotten, NEW w \in Reconciler, ReconcilerStep(w)
    PROVE  RowsBySenders' /\ NoTaskForgotten'
  <1>1. /\ UNCHANGED <<task, pc, todo, sending, cpc>>
        /\ faults' = 0 => faults = 0
    BY DEF ReconcilerStep, Reconcile, TakeReconciliation, DeleteEntities, CreateEntity, CompleteJob,
           Announce, ReconciliationThrows, ReconcilerCrashes, EndJob, Fault, TypeOK,
           tableVars, workerVars, callerVars
  <1>2. RowsBySenders'
    BY <1>1 DEF RowsBySenders, RowFirst, LeftWithoutRow, SentWithoutMessage, SeedsUntouched, AtWork
  <1> QED BY <1>1, <1>2 DEF NoTaskForgotten

LEMMA RowsStep ==
    ASSUME TypeOK, RowsBySenders, NoTaskForgotten, [Next]_vars
    PROVE  RowsBySenders' /\ NoTaskForgotten'
  <1>1. TypeOK'
    BY TypeStep
  <1>2. ASSUME NEW c \in Caller, CallerStep(c) PROVE (RowsBySenders /\ NoTaskForgotten)'
    BY <1>2, CallerRows
  <1>3. ASSUME NEW s \in Sender, Send(s) PROVE (RowsBySenders /\ NoTaskForgotten)'
    BY <1>3, EnqueueRows, AddMessages DEF Send
  <1>4. ASSUME NEW t \in Task, WorkerStep(t) PROVE (RowsBySenders /\ NoTaskForgotten)'
    <2>1. WorkerMoves(t) /\ (faults' = 0 => WorkerKeeps(t))
      BY <1>4, CrawlMoves, FaultMoves DEF WorkerStep
    <2> QED BY <2>1, WorkerRows, WorkerForgetsNone
  <1>5. ASSUME NEW w \in Reconciler, ReconcilerStep(w) PROVE (RowsBySenders /\ NoTaskForgotten)'
    BY <1>5, ReconcilerRows
  <1>6. CASE UNCHANGED vars
    <2>1. task' = task /\ pc' = pc /\ todo' = todo /\ sending' = sending
          /\ cpc' = cpc /\ faults' = faults
      BY <1>6 DEF vars, tableVars, workerVars, callerVars
    <2>2. RowsBySenders'
      BY <2>1 DEF RowsBySenders, RowFirst, LeftWithoutRow, SentWithoutMessage, SeedsUntouched, AtWork
    <2> QED BY <1>1, <2>1, <2>2 DEF NoTaskForgotten
  <1> QED BY <1>1, <1>2, <1>3, <1>4, <1>5, <1>6, NextSteps

(* While no call throws and no worker crashes, a row that is not finished  *)
(* is in somebody's hands: jobs need no sweep for rows nobody will crawl.  *)
THEOREM NotForgotten == Spec => []NoTaskForgotten
  <1> DEFINE Inv == TypeOK /\ RowsBySenders /\ NoTaskForgotten
  <1>1. Init => Inv
    BY InitType, InitRows
  <1>2. Inv /\ [Next]_vars => Inv'
    BY TypeStep, RowsStep
  <1> QED BY <1>1, <1>2, PTL DEF Spec

(***************************************************************************)
(* No entity is made twice.                                                *)
(***************************************************************************)

LEMMA EntitiesStep ==
    ASSUME \A v, w \in Reconciler : v = w,
           TypeOK, EntitiesInHand, EntitiesNotDoubled, [Next]_vars
    PROVE  EntitiesInHand' /\ EntitiesNotDoubled'
  <1>1. TypeOK'
    BY TypeStep
  <1>2. CASE UNCHANGED <<entities, rpc, rjob, rseen>>
    <2>1. entities' = entities /\ rpc' = rpc /\ rjob' = rjob /\ rseen' = rseen
      BY <1>2
    <2> QED BY <1>1, <2>1 DEF EntitiesInHand, EntitiesNotDoubled
  <1>3. ASSUME NEW w \in Reconciler, NEW j \in Job, TakeReconciliation(w, j)
        PROVE  (EntitiesInHand /\ EntitiesNotDoubled)'
    BY <1>3 DEF TakeReconciliation, RGoto, tableVars, TypeOK, EntitiesInHand, EntitiesNotDoubled
  <1>4. ASSUME NEW w \in Reconciler, DeleteEntities(w)
        PROVE  (EntitiesInHand /\ EntitiesNotDoubled)'
    BY <1>4 DEF DeleteEntities, RGoto, TypeOK, EntitiesInHand, EntitiesNotDoubled
  <1>5. ASSUME NEW w \in Reconciler, CreateEntity(w)
        PROVE  (EntitiesInHand /\ EntitiesNotDoubled)'
    BY <1>5 DEF CreateEntity, TypeOK, EntitiesInHand, EntitiesNotDoubled
  <1>6. ASSUME NEW w \in Reconciler,
               \/ CompleteJob(w) \/ Announce(w)
               \/ ReconciliationThrows(w) \/ ReconcilerCrashes(w)
        PROVE  (EntitiesInHand /\ EntitiesNotDoubled)'
    BY <1>6 DEF CompleteJob, Announce, ReconciliationThrows, ReconcilerCrashes, EndJob, RGoto,
                tableVars, TypeOK, EntitiesInHand, EntitiesNotDoubled
  <1>7. Next => \/ UNCHANGED <<entities, rpc, rjob, rseen>>
                \/ \E w \in Reconciler : ReconcilerStep(w)
    <2>1. ASSUME NEW c \in Caller, CallerStep(c) PROVE UNCHANGED <<entities, rpc, rjob, rseen>>
      BY <2>1 DEF CallerStep, Call, Request, CheckQuota, WriteStatus, CreateSchema,
                  QueueReconciliation, CallerThrows, tableVars, reconcilerVars
    <2>2. ASSUME NEW s \in Sender, Send(s) PROVE UNCHANGED <<entities, rpc, rjob, rseen>>
      BY <2>2 DEF Send, EnqueueRow, AddMessage, tableVars, reconcilerVars
    <2>3. ASSUME NEW t \in Task, WorkerStep(t) PROVE UNCHANGED <<entities, rpc, rjob, rseen>>
      BY <2>3 DEF WorkerStep, Crawl, Skip, Begin, PageFails, StoreExtraction, CompleteTask,
                  CapLinks, CheckCompletion, FailJob, TriggerReconciliation, WorkerThrows,
                  WorkerCrashes, SetTask, tableVars, reconcilerVars
    <2> QED BY <2>1, <2>2, <2>3, NextSteps
  <1>8. ASSUME NEW w \in Reconciler, ReconcilerStep(w)
        PROVE  (EntitiesInHand /\ EntitiesNotDoubled)'
    BY <1>3, <1>4, <1>5, <1>6, <1>8 DEF ReconcilerStep, Reconcile
  <1>9. UNCHANGED vars => UNCHANGED <<entities, rpc, rjob, rseen>>
    BY DEF vars, tableVars, reconcilerVars
  <1> QED BY <1>1, <1>2, <1>7, <1>8, <1>9

(* One reconciliation worker never has more than one entity for a page's   *)
(* extraction, whatever failed or crashed before: each reconciliation      *)
(* deletes its job's entities first, and no other makes any meanwhile.     *)
THEOREM NotDoubled == ASSUME \A v, w \in Reconciler : v = w
                      PROVE  Spec => []EntitiesNotDoubled
  <1> DEFINE Inv == TypeOK /\ EntitiesInHand /\ EntitiesNotDoubled
  <1>1. Init => Inv
    BY InitType DEF Init, EntitiesInHand, EntitiesNotDoubled
  <1>2. Inv /\ [Next]_vars => Inv'
    BY TypeStep, EntitiesStep
  <1>3. Inv => EntitiesNotDoubled
    OBVIOUS
  <1> QED BY <1>1, <1>2, <1>3, PTL DEF Spec

(***************************************************************************)
(* A job that nothing is left to happen to is reconciled.                  *)
(***************************************************************************)

(* What senders have left stays in their job.                              *)
LEMMA SeedsStep ==
    ASSUME TypeOK, RowsBySenders, SeedsOfItsJob, [Next]_vars
    PROVE  SeedsOfItsJob'
  <1> SUFFICES ASSUME NEW c \in Caller
               PROVE  /\ cpc'[c] = "idle" => todo'[c] = {}
                      /\ \A t \in todo'[c] : jobOf[t] = cjob'[c]
                      /\ sending'[c] # NoTask => jobOf[sending'[c]] = cjob'[c]
    BY DEF SeedsOfItsJob
  <1>c. c \in Sender /\ c \notin Task
    BY ActorAssumption DEF Sender
  <1>1. CASE CallerStep(c)
    <2>1. CASE \E o \in DOMAIN Target, j \in Job : Request(c, o, j)
      <3>1. todo[c] = {} /\ sending[c] = NoTask
        BY <2>1, <1>c DEF Request, SeedsOfItsJob, RowsBySenders, SentWithoutMessage, AtWork
      <3> QED BY <2>1, <3>1 DEF Request, workerVars
    <2>2. CASE CheckQuota(c)
      BY <2>2 DEF CheckQuota, CGoto, TypeOK, workerVars, SeedsOfItsJob
    <2>3. CASE WriteStatus(c)
      BY <2>3 DEF WriteStatus, CGoto, TypeOK, workerVars, SeedsOfItsJob
    <2>4. CASE CreateSchema(c)
      BY <2>4, <1>c DEF CreateSchema, CGoto, Seeds, TypeOK, SeedsOfItsJob
    <2>5. CASE QueueReconciliation(c)
      BY <2>5 DEF QueueReconciliation, CGoto, TypeOK, workerVars, SeedsOfItsJob
    <2>6. CASE CallerThrows(c)
      BY <2>6, <1>c DEF CallerThrows, Forget, CGoto, TypeOK
    <2> QED BY <1>1, <2>1, <2>2, <2>3, <2>4, <2>5, <2>6 DEF CallerStep, Call
  <1>2. CASE \E d \in Caller : d # c /\ CallerStep(d)
    <2>1. UNCHANGED <<cpc[c], cjob[c], todo[c], sending[c]>>
      BY <1>2, <1>c DEF CallerStep, Call, Request, CheckQuota, WriteStatus, CreateSchema, QueueReconciliation,
              CallerThrows, Forget, CGoto, TypeOK, workerVars
    <2> QED BY <2>1 DEF SeedsOfItsJob
  <1>3. CASE \E s \in Sender : Send(s)
    <2>1. PICK s \in Sender : Send(s)
      BY <1>3
    <2>2. cjob' = cjob
      BY <2>1 DEF Send, EnqueueRow, AddMessage, callerVars
    <2>3. CASE EnqueueRow(s)
      <3>1. cpc' = cpc /\ \A t \in todo'[c] : t \in todo[c]
        BY <1>c, <2>3 DEF EnqueueRow, callerVars, TypeOK
      <3>2. sending'[c] = sending[c] \/ sending'[c] \in todo[c]
        BY <1>c, <2>3 DEF EnqueueRow, TypeOK
      <3> QED BY <2>2, <3>1, <3>2 DEF SeedsOfItsJob
    <2>4. CASE AddMessage(s)
      <3>1. todo' = todo /\ (cpc'[c] = cpc[c] \/ cpc'[c] = "done")
        BY <2>4 DEF AddMessage
      <3>2. sending'[c] \in {sending[c], NoTask}
        BY <1>c, <2>4 DEF AddMessage, TypeOK
      <3> QED BY <2>2, <3>1, <3>2 DEF SeedsOfItsJob
    <2> QED BY <2>1, <2>3, <2>4 DEF Send
  <1>4. CASE \E t \in Task : WorkerStep(t)
    <2>1. PICK t \in Task : WorkerStep(t)
      BY <1>4
    <2>2. WorkerMoves(t)
      BY <2>1, CrawlMoves, FaultMoves DEF WorkerStep
    <2>3. cjob' = cjob
      BY <2>1 DEF WorkerStep, Crawl, Skip, Begin, PageFails, StoreExtraction, CompleteTask, CapLinks,
                  CheckCompletion, FailJob, TriggerReconciliation, WorkerThrows, WorkerCrashes, callerVars
    <2> QED BY <1>c, <2>2, <2>3 DEF WorkerMoves, SeedsOfItsJob
  <1>5. CASE \E w \in Reconciler : ReconcilerStep(w)
    BY <1>5 DEF ReconcilerStep, Reconcile, TakeReconciliation, DeleteEntities, CreateEntity, CompleteJob,
           Announce, ReconciliationThrows, ReconcilerCrashes, EndJob, workerVars, callerVars, SeedsOfItsJob
  <1>6. CASE UNCHANGED vars
    BY <1>6 DEF vars, workerVars, callerVars, SeedsOfItsJob
  <1> QED BY <1>1, <1>2, <1>3, <1>4, <1>5, <1>6, NextSteps

(* What steps other than a reconciliation's do to the reconciliations, the *)
(* entities and the extractions.                                           *)
LeavesEntities ==
    /\ UNCHANGED <<entities, rpc, rjob, rseen>>
    /\ \A j \in Job : schema[j] => schema'[j]
    /\ \A j \in Job : recQueue[j] > 0 => recQueue'[j] > 0
    /\ faults' = 0 => faults = 0

LEMMA CallerLeaves == ASSUME TypeOK, NEW c \in Caller, CallerStep(c)
                      PROVE  LeavesEntities /\ UNCHANGED extracted
  <1>1. CASE \E o \in DOMAIN Target, j \in Job : Request(c, o, j)
    BY <1>1 DEF LeavesEntities, Request, TypeOK, tableVars, queueVars, reconcilerVars
  <1>2. CASE CheckQuota(c)
    BY <1>2 DEF LeavesEntities, CheckQuota, TypeOK, tableVars, queueVars, reconcilerVars
  <1>3. CASE WriteStatus(c)
    BY <1>3 DEF LeavesEntities, WriteStatus, TypeOK, queueVars, reconcilerVars
  <1>4. CASE CreateSchema(c)
    BY <1>4 DEF LeavesEntities, CreateSchema, TypeOK, queueVars, reconcilerVars
  <1>5. CASE QueueReconciliation(c)
    BY <1>5 DEF LeavesEntities, QueueReconciliation, TypeOK, tableVars, reconcilerVars
  <1>6. CASE CallerThrows(c)
    BY <1>6 DEF LeavesEntities, CallerThrows, Fault, TypeOK, tableVars, queueVars, reconcilerVars
  <1> QED BY <1>1, <1>2, <1>3, <1>4, <1>5, <1>6 DEF CallerStep, Call

LEMMA SendLeaves == ASSUME TypeOK, NEW s \in Sender, Send(s)
                    PROVE  LeavesEntities /\ UNCHANGED extracted
  BY DEF LeavesEntities, Send, EnqueueRow, AddMessage, TypeOK, tableVars, queueVars, reconcilerVars

LEMMA WorkerLeaves == ASSUME TypeOK, NEW t \in Task, WorkerStep(t)
                      PROVE  /\ LeavesEntities
                             /\ \/ UNCHANGED extracted
                                \/ /\ extracted' = extracted \cup {t} /\ schema[jobOf[t]]
                                   /\ pc[t] = "crawling" /\ pc'[t] = "extracted"
  <1>j. jobOf[t] \in Job
    BY RowAssumption
  <1>1. CASE StoreExtraction(t)
    BY <1>1 DEF LeavesEntities, StoreExtraction, Goto, TypeOK, queueVars, reconcilerVars
  <1>2. CASE TriggerReconciliation(t)
    BY <1>2, <1>j DEF LeavesEntities, TriggerReconciliation, TypeOK, tableVars, reconcilerVars
  <1>3. CASE WorkerThrows(t) \/ WorkerCrashes(t)
    BY <1>3 DEF LeavesEntities, WorkerThrows, WorkerCrashes, Fault, TypeOK, tableVars, queueVars, reconcilerVars
  <1>4. CASE \/ Skip(t) \/ Begin(t) \/ PageFails(t) \/ CompleteTask(t)
             \/ CapLinks(t) \/ CheckCompletion(t) \/ FailJob(t)
    BY <1>4 DEF LeavesEntities, Skip, Begin, PageFails, CompleteTask, CapLinks, CheckCompletion, FailJob,
                SetTask, TypeOK, tableVars, queueVars, reconcilerVars
  <1> QED BY <1>1, <1>2, <1>3, <1>4 DEF WorkerStep, Crawl

(* Entities stand for extractions only.                                    *)
LEMMA MadeStep ==
    ASSUME TypeOK, MadeOfExtractions, [Next]_vars
    PROVE  MadeOfExtractions'
  <1>1. ASSUME LeavesEntities,
               \/ UNCHANGED extracted
               \/ \E t \in Task : extracted' = extracted \cup {t} /\ schema[jobOf[t]]
        PROVE  MadeOfExtractions'
    <2>1. \A t \in extracted' : t \in Task /\ jobOf[t] \in Job /\ schema[jobOf[t]]
      BY <1>1, RowAssumption DEF TypeOK, MadeOfExtractions
    <2> QED BY <1>1, <2>1 DEF LeavesEntities, MadeOfExtractions
  <1>2. ASSUME NEW w \in Reconciler, ReconcilerStep(w)
        PROVE  MadeOfExtractions'
    <2>1. UNCHANGED <<schema, extracted>>
      BY <1>2 DEF ReconcilerStep, Reconcile, TakeReconciliation, DeleteEntities, CreateEntity, CompleteJob,
                  Announce, ReconciliationThrows, ReconcilerCrashes, EndJob, tableVars
    <2>2. \A v \in Reconciler : rseen'[v] \subseteq extracted
      BY <1>2 DEF ReconcilerStep, Reconcile, TakeReconciliation, DeleteEntities, CreateEntity, CompleteJob,
                  Announce, ReconciliationThrows, ReconcilerCrashes, EndJob, TypeOK, MadeOfExtractions
    <2>3. \A t \in Task : entities'[t] # 0 => entities[t] # 0 \/ t \in rseen[w]
      BY <1>2 DEF ReconcilerStep, Reconcile, TakeReconciliation, DeleteEntities, CreateEntity, CompleteJob,
                  Announce, ReconciliationThrows, ReconcilerCrashes, EndJob, TypeOK, tableVars
    <2> QED BY <2>1, <2>2, <2>3 DEF MadeOfExtractions
  <1>3. CASE UNCHANGED vars
    BY <1>3 DEF vars, tableVars, reconcilerVars, MadeOfExtractions
  <1> QED BY <1>1, <1>2, <1>3, NextSteps, CallerLeaves, SendLeaves, WorkerLeaves

(* The last of a job's pages to be done finds it complete.                 *)
LEMMA LastPage ==
    ASSUME TypeOK, RowsBySenders, NoTaskForgotten, faults = 0, NEW t \in Task, CheckCompletion(t),
           NEW j \in Job, jobOf[t] = j
    PROVE  InWork(j)' \/ Asked(j)' \/ Rows(j, {"completed"})' = {}
  <1>1. /\ pc[t] = "check" /\ task' = task /\ sending' = sending
        /\ \A u \in Task : u # t => pc'[u] = pc[u]
    BY DEF CheckCompletion, Goto, tableVars, TypeOK
  <1>2. CASE Rows(j, Unfinished) # {}
    <2>1. PICK u \in Task : jobOf[u] = j /\ task[u] \in Unfinished
      BY <1>2 DEF Rows
    <2>2. \A s \in Sender : sending[s] # t
      BY <1>1, ActorAssumption DEF RowsBySenders, SentWithoutMessage
    <2>3. \/ pc[u] \in {"queued", "crawling", "extracted"}
          \/ \E s \in Sender : sending[s] = u
      BY <2>1 DEF NoTaskForgotten, Unfinished
    <2>4. u # t
      BY <1>1, <2>2, <2>3
    <2> QED BY <1>1, <2>1, <2>3, <2>4 DEF InWork
  <1>3. CASE Rows(j, {"completed"}) = {}
    BY <1>1, <1>3 DEF Rows
  <1>4. CASE Rows(j, Unfinished) = {} /\ Rows(j, {"completed"}) # {}
    <2>1. pc'[t] = "trigger"
      BY <1>4 DEF CheckCompletion, Goto, TypeOK
    <2> QED BY <2>1 DEF Asked
  <1> QED BY <1>2, <1>3, <1>4

LEMMA WorkerEnds ==
    ASSUME TypeOK, RowsBySenders, NoTaskForgotten, EndsReconciled, faults = 0, NEW t \in Task, Crawl(t)
    PROVE  EndsReconciled'
  <1>1. WorkerMoves(t) /\ WorkerKeeps(t) /\ LeavesEntities
    BY CrawlMoves, WorkerLeaves DEF WorkerStep
  <1>2. \/ UNCHANGED extracted
        \/ extracted' = extracted \cup {t} /\ pc[t] = "crawling" /\ pc'[t] = "extracted"
    BY WorkerLeaves DEF WorkerStep
  <1>3. jobOf[t] \in Job
    BY RowAssumption
  <1> SUFFICES ASSUME NEW j \in Job
               PROVE  (InWork(j) \/ Asked(j) \/ BeingMade(j) \/ AllMade(j) \/ Rows(j, {"completed"}) = {})'
    BY DEF EndsReconciled
  <1>4. InWork(j) \/ Asked(j) \/ BeingMade(j) \/ AllMade(j) \/ Rows(j, {"completed"}) = {}
    BY DEF EndsReconciled
  <1>5. CASE pc'[t] \in {"queued", "crawling", "extracted", "cap", "send", "check"} /\ jobOf[t] = j
    BY <1>5 DEF InWork
  <1>6. CASE jobOf[t] # j \/ pc'[t] \notin {"queued", "crawling", "extracted", "cap", "send", "check"}
    <2>1. \A u \in extracted' : jobOf[u] = j => u \in extracted
      BY <1>2, <1>6
    <2>2. \A u \in extracted : u \in extracted'
      BY <1>2
    <2>3. BeingMade(j) => BeingMade(j)'
      <3>1. Extractions(j)' = Extractions(j)
        BY <2>1, <2>2 DEF Extractions
      <3>2. \A u \in Task : jobOf[u] = j => (u \in extracted <=> u \in extracted')
        BY <2>1, <2>2
      <3> QED BY <1>1, <3>1, <3>2 DEF BeingMade, LeavesEntities
    <2>4. AllMade(j) => AllMade(j)'
      BY <1>1, <2>1, <2>2 DEF AllMade, LeavesEntities
    <2>5. CASE jobOf[t] # j
      <3>1. InWork(j) => InWork(j)'
        BY <1>1, <2>5 DEF InWork, WorkerMoves, WorkerKeeps
      <3>2. Asked(j) => Asked(j)'
        BY <1>1, <2>5 DEF Asked, WorkerMoves, LeavesEntities, TypeOK
      <3>3. Rows(j, {"completed"}) = {} => Rows(j, {"completed"})' = {}
        BY <1>1, <2>5 DEF Rows, WorkerMoves
      <3> QED BY <1>4, <2>3, <2>4, <3>1, <3>2, <3>3
    <2>6. CASE jobOf[t] = j /\ CheckCompletion(t)
      BY <2>6, LastPage
    <2>7. CASE jobOf[t] = j /\ TriggerReconciliation(t)
      BY <1>3, <2>7 DEF TriggerReconciliation, Asked, TypeOK
    <2>8. CASE jobOf[t] = j /\ FailJob(t)
      <3>1. InWork(j) => InWork(j)'
        BY <1>1, <2>8 DEF InWork, WorkerMoves, WorkerKeeps, FailJob
      <3>2. Asked(j) => Asked(j)'
        BY <1>1, <2>8 DEF Asked, WorkerMoves, LeavesEntities, TypeOK, FailJob
      <3>3. Rows(j, {"completed"}) = {} => Rows(j, {"completed"})' = {}
        BY <2>8 DEF Rows, FailJob
      <3> QED BY <1>4, <2>3, <2>4, <3>1, <3>2, <3>3
    <2>9. CASE jobOf[t] = j /\ ~(CheckCompletion(t) \/ TriggerReconciliation(t) \/ FailJob(t))
      <3>1. pc'[t] \in {"queued", "crawling", "extracted", "cap", "send", "check"}
        BY <2>9 DEF Crawl, Skip, Begin, PageFails, StoreExtraction, CompleteTask, CapLinks, Goto, TypeOK
      <3> QED BY <1>6, <2>9, <3>1
    <2> QED BY <2>5, <2>6, <2>7, <2>8, <2>9
  <1> QED BY <1>5, <1>6

LEMMA CallerEnds ==
    ASSUME TypeOK, RowsBySenders, EndsReconciled, faults' = 0, NEW c \in Caller, CallerStep(c)
    PROVE  EndsReconciled'
  <1>1. LeavesEntities /\ UNCHANGED extracted
    BY CallerLeaves
  <1>2. UNCHANGED <<task, pc, sending>>
    BY DEF CallerStep, Call, Request, CheckQuota, WriteStatus, CreateSchema, QueueReconciliation,
           CallerThrows, Fault, TypeOK, tableVars, workerVars
  <1> SUFFICES ASSUME NEW j \in Job
               PROVE  (InWork(j) \/ Asked(j) \/ BeingMade(j) \/ AllMade(j) \/ Rows(j, {"completed"}) = {})'
    BY DEF EndsReconciled
  <1>3. InWork(j) \/ Asked(j) \/ BeingMade(j) \/ AllMade(j) \/ Rows(j, {"completed"}) = {}
    BY <1>1 DEF EndsReconciled, LeavesEntities
  <1>4. InWork(j) => InWork(j)'
    BY <1>2 DEF InWork
  <1>5. Asked(j) => Asked(j)'
    BY <1>1, <1>2 DEF Asked, LeavesEntities, TypeOK
  <1>6. /\ BeingMade(j) => BeingMade(j)'
        /\ AllMade(j) => AllMade(j)'
    BY <1>1 DEF BeingMade, AllMade, Extractions, LeavesEntities
  <1>7. Rows(j, {"completed"}) = {} => Rows(j, {"completed"})' = {}
    BY <1>2 DEF Rows
  <1> QED BY <1>3, <1>4, <1>5, <1>6, <1>7

LEMMA SendEnds ==
    ASSUME TypeOK, RowsBySenders, EndsReconciled, faults = 0, NEW s \in Sender, Send(s)
    PROVE  EndsReconciled'
  <1>1. LeavesEntities /\ UNCHANGED extracted
    BY SendLeaves
  <1> SUFFICES ASSUME NEW j \in Job
               PROVE  (InWork(j) \/ Asked(j) \/ BeingMade(j) \/ AllMade(j) \/ Rows(j, {"completed"}) = {})'
    BY DEF EndsReconciled
  <1>2. InWork(j) \/ Asked(j) \/ BeingMade(j) \/ AllMade(j) \/ Rows(j, {"completed"}) = {}
    BY DEF EndsReconciled
  <1>3. /\ BeingMade(j) => BeingMade(j)'
        /\ AllMade(j) => AllMade(j)'
    BY <1>1 DEF BeingMade, AllMade, Extractions, LeavesEntities
  <1>4. CASE EnqueueRow(s)
    <2>1. pc' = pc /\ \A r \in Sender : sending[r] \in Task => sending'[r] = sending[r]
      BY <1>4, ActorAssumption DEF EnqueueRow, TypeOK
    <2>2. \A u \in Task : task'[u] = task[u] \/ task'[u] = "pending"
      BY <1>4 DEF EnqueueRow, TypeOK
    <2>3. InWork(j) => InWork(j)'
      BY <2>1 DEF InWork
    <2>4. Asked(j) => Asked(j)'
      BY <1>1, <2>1 DEF Asked, LeavesEntities, TypeOK
    <2>5. Rows(j, {"completed"}) = {} => Rows(j, {"completed"})' = {}
      BY <2>2 DEF Rows
    <2> QED BY <1>2, <1>3, <2>3, <2>4, <2>5
  <1>5. CASE AddMessage(s)
    <2> DEFINE t == sending[s]
    <2>1. t \in Task /\ AtWork(s) /\ pc[t] = "none"
      BY <1>5 DEF AddMessage, TypeOK, RowsBySenders, SentWithoutMessage
    <2>2. /\ task' = task
          /\ pc'[t] = "queued"
          /\ \A u \in Task : u # t /\ u # s => pc'[u] = pc[u]
          /\ s \in Task => pc[s] = "send" /\ pc'[s] \in {"send", "check"}
          /\ \A r \in Sender : r # s => sending'[r] = sending[r]
      <3>1. s \in Task => pc[s] = "send" /\ t # s
        BY <2>1 DEF AtWork
      <3> QED BY <1>5, <2>1, <3>1 DEF AddMessage, TypeOK, tableVars
    <2>3. InWork(j) => InWork(j)'
      <3> SUFFICES ASSUME NEW u \in Task, jobOf[u] = j,
                          \/ pc[u] \in {"queued", "crawling", "extracted", "cap", "send", "check"}
                          \/ \E r \in Sender : sending[r] = u
                   PROVE  InWork(j)'
        BY DEF InWork
      <3>1. CASE u = t \/ u = s
        BY <2>2, <3>1 DEF InWork
      <3>2. CASE u # t /\ u # s
        <4>1. pc'[u] = pc[u]
          BY <2>2, <3>2
        <4>2. \A r \in Sender : sending[r] = u => sending'[r] = u
          BY <2>2, <3>2
        <4> QED BY <4>1, <4>2 DEF InWork
      <3> QED BY <3>1, <3>2
    <2>4. Asked(j) => Asked(j)'
      <3>1. \A u \in Task : pc[u] = "trigger" => pc'[u] = "trigger"
        BY <2>1, <2>2
      <3> QED BY <1>1, <3>1 DEF Asked, LeavesEntities, TypeOK
    <2>5. Rows(j, {"completed"}) = {} => Rows(j, {"completed"})' = {}
      BY <2>2 DEF Rows
    <2> QED BY <1>2, <1>3, <2>3, <2>4, <2>5
  <1> QED BY <1>4, <1>5 DEF Send

(* A reconciliation: it sees every extraction, or it is followed by one    *)
(* that does.                                                              *)
LEMMA ReconcilerEnds ==
    ASSUME TypeOK, EntitiesInHand, MadeOfExtractions, EndsReconciled, faults' = 0,
           NEW w \in Reconciler, \A v \in Reconciler : v = w, ReconcilerStep(w)
    PROVE  EndsReconciled'
  <1>1. Reconcile(w) /\ faults = 0
    BY LimitAssumption DEF ReconcilerStep, Reconcile, TakeReconciliation, DeleteEntities, CreateEntity, CompleteJob,
           Announce, ReconciliationThrows, ReconcilerCrashes, Fault, TypeOK
  <1>2. UNCHANGED <<task, extracted, schema, pc, sending>>
    BY <1>1 DEF Reconcile, TakeReconciliation, DeleteEntities, CreateEntity, CompleteJob, Announce, EndJob,
           tableVars, workerVars
  <1> SUFFICES ASSUME NEW j \in Job
               PROVE  (InWork(j) \/ Asked(j) \/ BeingMade(j) \/ AllMade(j) \/ Rows(j, {"completed"}) = {})'
    BY DEF EndsReconciled
  <1>3. InWork(j) \/ Asked(j) \/ BeingMade(j) \/ AllMade(j) \/ Rows(j, {"completed"}) = {}
    BY <1>1 DEF EndsReconciled
  <1>4. /\ InWork(j) => InWork(j)'
        /\ Rows(j, {"completed"}) = {} => Rows(j, {"completed"})' = {}
    BY <1>2 DEF InWork, Rows
  <1>5. ASSUME NEW k \in Job, TakeReconciliation(w, k)
        PROVE  (InWork(j) \/ Asked(j) \/ BeingMade(j) \/ AllMade(j) \/ Rows(j, {"completed"}) = {})'
    <2>1. /\ rpc[w] = "idle" /\ rjob'[w] = k /\ entities' = entities
          /\ rseen'[w] = Extractions(k)
          /\ rpc'[w] = IF schema[k] THEN "delete" ELSE "announce"
          /\ \A i \in Job : i # k => recQueue'[i] = recQueue[i]
      BY <1>5 DEF TakeReconciliation, RGoto, Extractions, TypeOK, tableVars
    <2>2. CASE k = j /\ schema[k]
      <3>1. rseen'[w] = Extractions(j)' /\ rpc'[w] = "delete" /\ rjob'[w] = j
        BY <1>2, <2>1, <2>2 DEF Extractions
      <3> QED BY <3>1 DEF BeingMade
    <2>3. CASE k = j /\ ~schema[k]
      <3>1. \A t \in Task : jobOf[t] = j => t \notin extracted /\ entities[t] = 0
        BY <2>3 DEF MadeOfExtractions
      <3>2. AllMade(j)'
        BY <1>2, <2>1, <2>3, <3>1 DEF AllMade
      <3> QED BY <3>2
    <2>4. CASE k # j
      <3>1. Asked(j) => Asked(j)'
        BY <1>2, <2>1, <2>4 DEF Asked
      <3>2. ~BeingMade(j)
        BY <2>1 DEF BeingMade
      <3>3. AllMade(j) => AllMade(j)'
        BY <1>2, <2>1, <2>4 DEF AllMade
      <3> QED BY <1>3, <1>4, <3>1, <3>2, <3>3
    <2> QED BY <2>2, <2>3, <2>4
  <1>6. ASSUME DeleteEntities(w) \/ CreateEntity(w) \/ CompleteJob(w) \/ Announce(w)
        PROVE  (InWork(j) \/ Asked(j) \/ BeingMade(j) \/ AllMade(j) \/ Rows(j, {"completed"}) = {})'
    <2>1. recQueue' = recQueue
      BY <1>6 DEF DeleteEntities, CreateEntity, CompleteJob, EndJob, Announce, queueVars
    <2>2. Asked(j) => Asked(j)'
      BY <1>2, <2>1 DEF Asked
    <2>3. CASE DeleteEntities(w)
      <3>1. /\ rpc[w] = "delete" /\ rpc'[w] = "create" /\ rjob' = rjob /\ rseen' = rseen
            /\ entities' = [t \in Task |-> IF jobOf[t] = rjob[w] THEN 0 ELSE entities[t]]
        BY <2>3 DEF DeleteEntities, RGoto, TypeOK
      <3>2. BeingMade(j) => BeingMade(j)'
        <4> SUFFICES ASSUME rjob[w] = j, rseen[w] = Extractions(j)
                     PROVE  BeingMade(j)'
          BY <3>1 DEF BeingMade
        <4>1. \A t \in Task : jobOf[t] = j => entities'[t] = 0 /\ t \notin extracted' \ rseen'[w]
          BY <1>2, <3>1 DEF Extractions
        <4> QED BY <3>1, <4>1 DEF BeingMade
      <3>3. AllMade(j) => AllMade(j)'
        <4> SUFFICES ASSUME AllMade(j) PROVE AllMade(j)'
          OBVIOUS
        <4>1. rjob[w] # j
          BY <3>1 DEF AllMade
        <4> QED BY <1>2, <3>1, <4>1 DEF AllMade
      <3> QED BY <1>3, <1>4, <2>2, <3>2, <3>3
    <2>4. CASE CreateEntity(w)
      <3>1. PICK t \in rseen[w] :
               /\ entities' = [entities EXCEPT ![t] = @ + 1]
               /\ rseen' = [rseen EXCEPT ![w] = @ \ {t}]
        BY <2>4 DEF CreateEntity
      <3>2. rpc[w] = "create" /\ rpc' = rpc /\ rjob' = rjob
        BY <2>4 DEF CreateEntity
      <3>3. t \in Task /\ t \in extracted /\ jobOf[t] = rjob[w]
        BY <3>1, <3>2 DEF TypeOK, EntitiesInHand, MadeOfExtractions
      <3>4. /\ entities'[t] = entities[t] + 1
            /\ \A u \in Task : u # t => entities'[u] = entities[u]
            /\ rseen'[w] = rseen[w] \ {t}
        BY <3>1, <3>3 DEF TypeOK
      <3>5. entities[t] = 0
        BY <3>1, <3>2 DEF EntitiesInHand
      <3>6. BeingMade(j) => BeingMade(j)'
        <4> SUFFICES ASSUME rjob[w] = j,
                            \A u \in Task : jobOf[u] = j =>
                                entities[u] = IF u \in extracted \ rseen[w] THEN 1 ELSE 0
                     PROVE  BeingMade(j)'
          BY <3>2 DEF BeingMade
        <4>1. \A u \in Task : jobOf[u] = j => entities'[u] = IF u \in extracted' \ rseen'[w] THEN 1 ELSE 0
          BY <1>2, <3>3, <3>4, <3>5
        <4> QED BY <3>2, <4>1 DEF BeingMade
      <3>7. AllMade(j) => AllMade(j)'
        <4> SUFFICES ASSUME AllMade(j) PROVE AllMade(j)'
          OBVIOUS
        <4>1. rjob[w] # j
          BY <3>2 DEF AllMade
        <4> QED BY <1>2, <3>2, <3>3, <3>4, <4>1 DEF AllMade
      <3> QED BY <1>3, <1>4, <2>2, <3>6, <3>7
    <2>5. CASE CompleteJob(w)
      <3>1. /\ rpc[w] = "create" /\ rseen[w] = {} /\ rpc'[w] = "announce"
            /\ rjob' = rjob /\ entities' = entities
        BY <2>5 DEF CompleteJob, EndJob, RGoto, TypeOK
      <3>2. BeingMade(j) => AllMade(j)'
        BY <1>2, <3>1 DEF BeingMade, AllMade
      <3>3. AllMade(j) => AllMade(j)'
        BY <1>2, <3>1 DEF AllMade
      <3> QED BY <1>3, <1>4, <2>2, <3>2, <3>3
    <2>6. CASE Announce(w)
      <3>1. rpc[w] = "announce" /\ rpc'[w] = "idle" /\ entities' = entities
        BY <2>6 DEF Announce, RGoto, TypeOK, tableVars
      <3>2. ~BeingMade(j)
        BY <3>1 DEF BeingMade
      <3>3. AllMade(j) => AllMade(j)'
        BY <1>2, <3>1 DEF AllMade
      <3> QED BY <1>3, <1>4, <2>2, <3>2, <3>3
    <2> QED BY <1>6, <2>3, <2>4, <2>5, <2>6
  <1> QED BY <1>1, <1>5, <1>6 DEF Reconcile

LEMMA EndsStep ==
    ASSUME \A v, w \in Reconciler : v = w,
           TypeOK, RowsBySenders, NoTaskForgotten, EntitiesInHand, MadeOfExtractions, EndsReconciled,
           [Next]_vars
    PROVE  EndsReconciled'
  <1>1. CASE faults' # 0
    BY <1>1 DEF EndsReconciled
  <1>2. CASE faults' = 0 /\ Next
    <2>1. ASSUME NEW t \in Task, WorkerStep(t) PROVE EndsReconciled'
      <3>1. Crawl(t)
        BY <1>2, <2>1, FaultMoves DEF WorkerStep
      <3>2. faults = 0
        BY <1>2, <3>1, CrawlMoves DEF WorkerKeeps
      <3> QED BY <3>1, <3>2, WorkerEnds
    <2>2. ASSUME NEW s \in Sender, Send(s) PROVE EndsReconciled'
      <3>1. faults = 0
        BY <1>2, <2>2, SendLeaves DEF LeavesEntities
      <3> QED BY <2>2, <3>1, SendEnds
    <2>3. ASSUME NEW c \in Caller, CallerStep(c) PROVE EndsReconciled'
      BY <1>2, <2>3, CallerEnds
    <2>4. ASSUME NEW w \in Reconciler, ReconcilerStep(w) PROVE EndsReconciled'
      BY <1>2, <2>4, ReconcilerEnds
    <2> QED BY <1>2, <2>1, <2>2, <2>3, <2>4, NextSteps
  <1>3. CASE UNCHANGED vars
    BY <1>3 DEF vars, tableVars, queueVars, workerVars, reconcilerVars, EndsReconciled, InWork, Asked, BeingMade,
                AllMade, Extractions, Rows
  <1> QED BY <1>1, <1>2, <1>3

(* When nothing is left to happen to a job, nobody looks again and no      *)
(* reconciliation is on its way.                                           *)
LEMMA QuietIsSettled ==
    ASSUME TypeOK, RowsBySenders, SeedsOfItsJob, NEW j \in Job, Quiet(j)
    PROVE  ~InWork(j) /\ ~Asked(j) /\ ~BeingMade(j)
  <1>1. ~Asked(j) /\ ~BeingMade(j)
    BY DEF Quiet, Asked, BeingMade
  <1>2. ASSUME NEW t \in Task, NEW s \in Sender, jobOf[t] = j, sending[s] = t PROVE FALSE
    <2>1. AtWork(s) /\ parent[t] = s
      BY <1>2, ActorAssumption DEF RowsBySenders, SentWithoutMessage
    <2>2. CASE s \in Task
      <3>1. jobOf[s] = j /\ pc[s] = "send"
        BY <1>2, <2>1, <2>2, LinkAssumption DEF AtWork
      <3> QED BY <2>2, <3>1 DEF Quiet
    <2>3. CASE s \in Caller
      <3>1. cjob[s] = j /\ cpc[s] = "send"
        BY <1>2, <2>1, <2>3, ActorAssumption DEF SeedsOfItsJob, AtWork
      <3> QED BY <2>3, <3>1 DEF Quiet
    <2> QED BY <2>2, <2>3 DEF Sender
  <1>3. ~InWork(j)
    BY <1>2 DEF InWork, Quiet
  <1> QED BY <1>1, <1>3

(* While no call throws and no worker crashes, however early and however   *)
(* often the workers find a job complete: once nothing is left to happen   *)
(* to it, every extraction has its one entity.                             *)
THEOREM Settled == ASSUME \A v, w \in Reconciler : v = w
                   PROVE  Spec => []SettledJobIsReconciled
  <1> DEFINE Inv == /\ TypeOK /\ RowsBySenders /\ NoTaskForgotten
                    /\ EntitiesInHand /\ EntitiesNotDoubled
                    /\ SeedsOfItsJob /\ MadeOfExtractions /\ EndsReconciled
  <1>1. Init => Inv
    <2> SUFFICES ASSUME Init PROVE Inv
      OBVIOUS
    <2>1. EntitiesInHand /\ EntitiesNotDoubled
      BY DEF Init, EntitiesInHand, EntitiesNotDoubled
    <2>2. SeedsOfItsJob /\ MadeOfExtractions
      BY DEF Init, SeedsOfItsJob, MadeOfExtractions, Sender
    <2>3. EndsReconciled
      BY DEF Init, EndsReconciled, Rows
    <2> QED BY InitType, InitRows, <2>1, <2>2, <2>3
  <1>2. Inv /\ [Next]_vars => Inv'
    BY TypeStep, RowsStep, EntitiesStep, SeedsStep, MadeStep, EndsStep
  <1>3. Inv => SettledJobIsReconciled
    <2> SUFFICES ASSUME Inv, faults = 0, NEW j \in Job, Quiet(j), Rows(j, {"completed"}) # {}
                 PROVE  AllMade(j)
      BY DEF SettledJobIsReconciled, AllMade
    <2> QED BY QuietIsSettled DEF EndsReconciled
  <1> QED BY <1>1, <1>2, <1>3, PTL DEF Spec

=============================================================================
