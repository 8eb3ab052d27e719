------------------------------ MODULE CrawlJob ------------------------------
(***************************************************************************)
(* Crawl jobs of the server: the job manager's requests                    *)
(* (packages/queue/src/job-manager.ts), the crawl workers                  *)
(* (workers/crawl-worker.ts and core's crawl-orchestrator.ts), and the     *)
(* reconciliation workers (workers/reconciliation-worker.ts and core's     *)
(* reconcile-orchestrator.ts), over the tables jobs and crawl_tasks and    *)
(* the queues of BullMQ.                                                   *)
(*                                                                         *)
(* No two of their queries share a transaction, so every query, and every  *)
(* message added to a queue, is a step of its own.                         *)
(***************************************************************************)
EXTENDS Integers, FiniteSets

CONSTANTS
    Job,            \* the tenant's jobs
    Task,           \* rows of crawl_tasks there may come to be
    Caller,         \* requests to the job manager
    Reconciler,     \* reconciliation workers
    NoTask,         \* no task
    NoJob,          \* no job
    jobOf,          \* [Task -> Job]
    parent,         \* [Task -> Task \cup Caller]: whose links or seeds lead to it
    MaxPages,       \* a job's crawl.maxPages
    MaxConcurrent,  \* the tenant's quota of running jobs
    MaxFaults       \* bound: how many calls throw, or workers crash

Sender == Task \cup Caller

ASSUME ActorAssumption ==
    /\ Task \cap Caller = {}
    /\ NoTask \notin Task
    /\ NoJob \notin Job
ASSUME RowAssumption ==
    /\ jobOf \in [Task -> Job]
    /\ parent \in [Task -> Sender]
(* A page's links are rows of its own job.                                 *)
ASSUME LinkAssumption == \A t \in Task : parent[t] \in Task => jobOf[parent[t]] = jobOf[t]
ASSUME LimitAssumption == MaxPages \in Nat /\ MaxConcurrent \in Nat /\ MaxFaults \in Nat

VARIABLES
    \* The tables.
    status,      \* jobs.status
    schema,      \* whether the job has a schema, version 1
    task,        \* crawl_tasks.status, "none" before the row
    extracted,   \* the tasks whose page has an extraction stored
    entities,    \* how many entities stand for a task's extraction
    \* The queues.
    recQueue,    \* how many reconciliation messages wait for the job
    announced,   \* whether job.completed went out
    \* What happens to a task's message, by the worker that has it.
    pc,
    \* What a worker, or a request that starts a job, still has to enqueue.
    todo,        \* links or seeds without a row
    sending,     \* the row whose message is not added yet
    \* The requests.
    cpc, op, cjob, seen,
    \* The reconciliation workers.
    rpc, rjob, rseen,
    faults       \* how many calls have thrown, or workers crashed

tableVars == <<status, schema, task, extracted, entities>>
queueVars == <<recQueue, announced>>
workerVars == <<pc, todo, sending>>
callerVars == <<cpc, op, cjob, seen>>
reconcilerVars == <<rpc, rjob, rseen>>
vars == <<tableVars, queueVars, workerVars, callerVars, reconcilerVars, faults>>

Transitions ==
    [pending     |-> {"queued"},
     queued      |-> {"running", "cancelled"},
     running     |-> {"paused", "reconciling", "failed", "cancelled"},
     paused      |-> {"running", "cancelled"},
     reconciling |-> {"completed", "failed"},
     completed   |-> {},
     failed      |-> {},
     cancelled   |-> {}]

(* What a request asks for, and the status it writes.                      *)
Target == [start |-> "running", pause |-> "paused", resume |-> "running",
           cancel |-> "cancelled", reconcile |-> "reconciling"]

(* createJob has made the jobs.                                            *)
Init ==
    /\ status = [j \in Job |-> "pending"]
    /\ schema = [j \in Job |-> FALSE]
    /\ task = [t \in Task |-> "none"]
    /\ extracted = {}
    /\ entities = [t \in Task |-> 0]
    /\ recQueue = [j \in Job |-> 0]
    /\ announced = [j \in Job |-> FALSE]
    /\ pc = [t \in Task |-> "none"]
    /\ todo = [s \in Sender |-> {}]
    /\ sending = [s \in Sender |-> NoTask]
    /\ cpc = [c \in Caller |-> "idle"]
    /\ op = [c \in Caller |-> "none"]
    /\ cjob = [c \in Caller |-> NoJob]
    /\ seen = [c \in Caller |-> "none"]
    /\ rpc = [w \in Reconciler |-> "idle"]
    /\ rjob = [w \in Reconciler |-> NoJob]
    /\ rseen = [w \in Reconciler |-> {}]
    /\ faults = 0

(***************************************************************************)
(* What the tables say: getJobStats counts the rows by status.             *)
(***************************************************************************)
Rows(j, statuses) == {t \in Task : jobOf[t] = j /\ task[t] \in statuses}
Unfinished == {"pending", "in_progress"}
Finished == {"completed", "failed", "skipped"}
Terminal == {"completed", "failed", "cancelled"}

(***************************************************************************)
(* The job manager.                                                        *)
(***************************************************************************)
CGoto(c, step) == cpc' = [cpc EXCEPT ![c] = step]

Seeds(c, j) == {t \in Task : parent[t] = c /\ jobOf[t] = j}

(* getJob, the first query of every request.  A job has seeds to start     *)
(* with.                                                                   *)
Request(c, o, j) ==
    /\ cpc[c] = "idle"
    /\ o = "start" => Seeds(c, j) # {}
    /\ op' = [op EXCEPT ![c] = o]
    /\ cjob' = [cjob EXCEPT ![c] = j]
    /\ seen' = [seen EXCEPT ![c] = status[j]]
    /\ CGoto(c, IF o = "start" THEN "quota" ELSE "write")
    /\ UNCHANGED <<tableVars, queueVars, workerVars, reconcilerVars, faults>>

(* startJob's quota: how many of the tenant's jobs say they are running.   *)
CheckQuota(c) ==
    /\ cpc[c] = "quota"
    /\ CGoto(c, IF Cardinality({j \in Job : status[j] = "running"}) >= MaxConcurrent
                THEN "done" ELSE "write")
    /\ UNCHANGED <<op, cjob, seen, tableVars, queueVars, workerVars, reconcilerVars, faults>>

(* JobStateMachine.transition on the status the request read.              *)
Allowed(c) ==
    IF op[c] = "start"
    THEN "queued" \in Transitions[seen[c]]
    ELSE Target[op[c]] \in Transitions[seen[c]]

(* The transition is refused, or the status is written, whatever it is by  *)
(* now.                                                                    *)
WriteStatus(c) ==
    /\ cpc[c] = "write"
    /\ IF Allowed(c)
       THEN /\ status' = [status EXCEPT ![cjob[c]] = Target[op[c]]]
            /\ CGoto(c, CASE op[c] = "start" -> "schema"
                          [] op[c] = "reconcile" -> "queue"
                          [] OTHER -> "done")
       ELSE CGoto(c, "done") /\ UNCHANGED status
    /\ UNCHANGED <<schema, task, extracted, entities>>
    /\ UNCHANGED <<op, cjob, seen, queueVars, workerVars, reconcilerVars, faults>>

(* startJob's schema, version 1, and then its seeds.                       *)
CreateSchema(c) ==
    /\ cpc[c] = "schema"
    /\ schema' = [schema EXCEPT ![cjob[c]] = TRUE]
    /\ todo' = [todo EXCEPT ![c] = Seeds(c, cjob[c])]
    /\ CGoto(c, "send")
    /\ UNCHANGED <<status, task, extracted, entities, pc, sending>>
    /\ UNCHANGED <<op, cjob, seen, queueVars, reconcilerVars, faults>>

(* triggerReconciliation's message.                                        *)
QueueReconciliation(c) ==
    /\ cpc[c] = "queue"
    /\ recQueue' = [recQueue EXCEPT ![cjob[c]] = @ + 1]
    /\ CGoto(c, "done")
    /\ UNCHANGED <<announced, op, cjob, seen, tableVars, workerVars, reconcilerVars, faults>>

(***************************************************************************)
(* A row for each seed or link, and then its message, one after another:   *)
(* by the request that starts the job, and by the worker of the page.      *)
(***************************************************************************)
(* A sender is a worker or a request that has rows and messages to add.    *)
AtWork(s) == IF s \in Task THEN pc[s] = "send" ELSE cpc[s] = "send"

EnqueueRow(s) ==
    /\ AtWork(s)
    /\ sending[s] = NoTask
    /\ \E t \in todo[s] :
         /\ task' = [task EXCEPT ![t] = "pending"]
         /\ todo' = [todo EXCEPT ![s] = @ \ {t}]
         /\ sending' = [sending EXCEPT ![s] = t]
    /\ UNCHANGED <<status, schema, extracted, entities, pc>>
    /\ UNCHANGED <<queueVars, callerVars, reconcilerVars, faults>>

(* Variant: no message for a job that is paused.                           *)
AddMessageUnlessPaused(s) ==
    /\ sending[s] # NoTask
    /\ sending' = [sending EXCEPT ![s] = NoTask]
    /\ pc' = [t \in Task |-> CASE t = sending[s] /\ status[jobOf[t]] # "paused" -> "queued"
                               [] t = s /\ todo[s] = {} -> "check"
                               [] OTHER -> pc[t]]
    /\ cpc' = [c \in Caller |-> IF c = s /\ todo[s] = {} THEN "done" ELSE cpc[c]]
    /\ UNCHANGED <<todo, op, cjob, seen, tableVars, queueVars, reconcilerVars, faults>>

AddMessage(s) ==
    /\ sending[s] # NoTask
    /\ sending' = [sending EXCEPT ![s] = NoTask]
    /\ pc' = [t \in Task |-> CASE t = sending[s] -> "queued"
                               [] t = s /\ todo[s] = {} -> "check"
                               [] OTHER -> pc[t]]
    /\ cpc' = [c \in Caller |-> IF c = s /\ todo[s] = {} THEN "done" ELSE cpc[c]]
    /\ UNCHANGED <<todo, op, cjob, seen, tableVars, queueVars, reconcilerVars, faults>>

(***************************************************************************)
(* The crawl workers: processCrawlJob on a task's message.                 *)
(***************************************************************************)
Goto(t, step) == pc' = [pc EXCEPT ![t] = step]
SetTask(t, s) ==
    /\ task' = [task EXCEPT ![t] = s]
    /\ UNCHANGED <<status, schema, extracted, entities>>

(* Out of the tenant's quota of pages or the page budget, or refused by    *)
(* robots.txt.                                                             *)
Skip(t) ==
    /\ pc[t] = "queued"
    /\ SetTask(t, "skipped")
    /\ Goto(t, "check")
    /\ UNCHANGED <<todo, sending, queueVars, callerVars, reconcilerVars, faults>>

(* processCrawlTask takes the task up.                                     *)
Begin(t) ==
    /\ pc[t] = "queued"
    /\ SetTask(t, "in_progress")
    /\ Goto(t, "crawling")
    /\ UNCHANGED <<todo, sending, queueVars, callerVars, reconcilerVars, faults>>

(* The page answers with an error, or a call of the orchestrator throws.   *)
PageFails(t) ==
    /\ pc[t] \in {"crawling", "extracted"}
    /\ SetTask(t, "failed")
    /\ Goto(t, "check")
    /\ UNCHANGED <<todo, sending, queueVars, callerVars, reconcilerVars, faults>>

(* The page is extractable, and its job has a schema.                      *)
StoreExtraction(t) ==
    /\ pc[t] = "crawling"
    /\ schema[jobOf[t]]
    /\ extracted' = extracted \cup {t}
    /\ Goto(t, "extracted")
    /\ UNCHANGED <<status, schema, task, entities, todo, sending>>
    /\ UNCHANGED <<queueVars, callerVars, reconcilerVars, faults>>

(* The task is completed, with the links its page led to; none of them has *)
(* a row yet.                                                              *)
CompleteTask(t) ==
    /\ pc[t] \in {"crawling", "extracted"}
    /\ SetTask(t, "completed")
    /\ \E links \in SUBSET {u \in Task : parent[u] = t /\ task[u] = "none"} :
         todo' = [todo EXCEPT ![t] = links]
    /\ Goto(t, "cap")
    /\ UNCHANGED <<sending, queueVars, callerVars, reconcilerVars, faults>>

(* capLinksByJobPageBudget: the links that fit beside the rows there are.  *)
CapLinks(t) ==
    LET room == MaxPages - Cardinality(Rows(jobOf[t], Unfinished \cup {"completed"}))
    IN  /\ pc[t] = "cap"
        /\ \E kept \in SUBSET todo[t] :
             /\ \/ Cardinality(kept) = room
                \/ kept = todo[t] /\ Cardinality(kept) < room
                \/ kept = {} /\ room < 0
             /\ todo' = [todo EXCEPT ![t] = kept]
             /\ Goto(t, IF kept = {} THEN "check" ELSE "send")
        /\ UNCHANGED <<sending, tableVars, queueVars, callerVars, reconcilerVars, faults>>

(* Variant: a failed page counts as still to do.                           *)
CheckFailedToo(t) ==
    /\ pc[t] = "check"
    /\ Goto(t, IF Rows(jobOf[t], Unfinished \cup {"failed"}) # {} THEN "done" ELSE "trigger")
    /\ UNCHANGED <<todo, sending, tableVars, queueVars, callerVars, reconcilerVars, faults>>

(* finalizeCrawlIfComplete reads the counts: there is more to do, or every *)
(* page failed, or the job is ready to reconcile.                          *)
CheckCompletion(t) ==
    LET j == jobOf[t]
    IN  /\ pc[t] = "check"
        /\ Goto(t, CASE Rows(j, Unfinished) # {} -> "done"
                     [] Rows(j, Unfinished) = {} /\ Rows(j, {"completed"}) = {}
                        /\ Rows(j, {"failed"}) # {} -> "fail"
                     [] OTHER -> "trigger")
        /\ UNCHANGED <<todo, sending, tableVars, queueVars, callerVars, reconcilerVars, faults>>

FailJob(t) ==
    /\ pc[t] = "fail"
    /\ status' = [status EXCEPT ![jobOf[t]] = "failed"]
    /\ Goto(t, "done")
    /\ UNCHANGED <<schema, task, extracted, entities, todo, sending>>
    /\ UNCHANGED <<queueVars, callerVars, reconcilerVars, faults>>

(* Variant: a job that is completed already is not reconciled again.       *)
TriggerUnlessCompleted(t) ==
    /\ pc[t] = "trigger"
    /\ recQueue' = [recQueue EXCEPT ![jobOf[t]] =
                       IF status[jobOf[t]] = "completed" THEN @ ELSE @ + 1]
    /\ Goto(t, "done")
    /\ UNCHANGED <<announced, todo, sending, tableVars, callerVars, reconcilerVars, faults>>

TriggerReconciliation(t) ==
    /\ pc[t] = "trigger"
    /\ recQueue' = [recQueue EXCEPT ![jobOf[t]] = @ + 1]
    /\ Goto(t, "done")
    /\ UNCHANGED <<announced, todo, sending, tableVars, callerVars, reconcilerVars, faults>>

(***************************************************************************)
(* The reconciliation workers: processReconciliation, and the webhook.     *)
(***************************************************************************)
RGoto(w, step) == rpc' = [rpc EXCEPT ![w] = step]

(* The job, its schema and its extractions are read; without a schema      *)
(* there is nothing to do.                                                 *)
TakeReconciliation(w, j) ==
    /\ rpc[w] = "idle"
    /\ recQueue[j] > 0
    /\ recQueue' = [recQueue EXCEPT ![j] = @ - 1]
    /\ rjob' = [rjob EXCEPT ![w] = j]
    /\ rseen' = [rseen EXCEPT ![w] = {t \in extracted : jobOf[t] = j}]
    /\ RGoto(w, IF schema[j] THEN "delete" ELSE "announce")
    /\ UNCHANGED <<announced, tableVars, workerVars, callerVars, faults>>

(* Variant: the entities of the reconciliation before stay.                *)
KeepEntities(w) ==
    /\ rpc[w] = "delete"
    /\ RGoto(w, "create")
    /\ UNCHANGED <<rjob, rseen, tableVars, queueVars, workerVars, callerVars, faults>>

(* entityRepo.deleteByJob: the entities of the reconciliation before.      *)
DeleteEntities(w) ==
    /\ rpc[w] = "delete"
    /\ entities' = [t \in Task |-> IF jobOf[t] = rjob[w] THEN 0 ELSE entities[t]]
    /\ RGoto(w, "create")
    /\ UNCHANGED <<rjob, rseen, status, schema, task, extracted>>
    /\ UNCHANGED <<queueVars, workerVars, callerVars, faults>>

(* The entities of what was read, one after another.                       *)
CreateEntity(w) ==
    /\ rpc[w] = "create"
    /\ \E t \in rseen[w] :
         /\ entities' = [entities EXCEPT ![t] = @ + 1]
         /\ rseen' = [rseen EXCEPT ![w] = @ \ {t}]
    /\ UNCHANGED <<rpc, rjob, status, schema, task, extracted>>
    /\ UNCHANGED <<queueVars, workerVars, callerVars, faults>>

(* The job is completed, or failed if a call threw.                        *)
EndJob(w, ending) ==
    /\ status' = [status EXCEPT ![rjob[w]] = ending]
    /\ RGoto(w, "announce")
    /\ rseen' = [rseen EXCEPT ![w] = {}]
    /\ UNCHANGED <<rjob, schema, task, extracted, entities>>
    /\ UNCHANGED <<queueVars, workerVars, callerVars>>

CompleteJob(w) ==
    /\ rpc[w] = "create"
    /\ rseen[w] = {}
    /\ EndJob(w, "completed")
    /\ UNCHANGED faults

(* The webhook job.completed, whatever the reconciliation came to.         *)
Announce(w) ==
    /\ rpc[w] = "announce"
    /\ announced' = [announced EXCEPT ![rjob[w]] = TRUE]
    /\ RGoto(w, "idle")
    /\ rjob' = [rjob EXCEPT ![w] = NoJob]
    /\ rseen' = [rseen EXCEPT ![w] = {}]
    /\ UNCHANGED <<recQueue, tableVars, workerVars, callerVars, faults>>

(***************************************************************************)
(* Calls that throw, and workers that crash.                               *)
(***************************************************************************)
Fault == faults < MaxFaults /\ faults' = faults + 1

(* Whatever the sender had left is not enqueued.                           *)
Forget(s) ==
    /\ todo' = [todo EXCEPT ![s] = {}]
    /\ sending' = [sending EXCEPT ![s] = NoTask]

(* The request answers with an error, part of it done.                     *)
CallerThrows(c) ==
    /\ Fault
    /\ cpc[c] \notin {"idle", "done"}
    /\ Forget(c)
    /\ CGoto(c, "done")
    /\ UNCHANGED <<pc, op, cjob, seen, tableVars, queueVars, reconcilerVars>>

(* processCrawlJob logs the error and returns, and the message is done; in *)
(* the orchestrator, marking the task failed threw too.                    *)
WorkerThrows(t) ==
    /\ Fault
    /\ pc[t] \notin {"none", "done"}
    /\ Forget(t)
    /\ Goto(t, IF pc[t] \in {"crawling", "extracted"} THEN "check" ELSE "done")
    /\ UNCHANGED <<tableVars, queueVars, callerVars, reconcilerVars>>

(* A worker crashes, and BullMQ hands its message to another.              *)
WorkerCrashes(t) ==
    /\ Fault
    /\ pc[t] \notin {"none", "queued", "done"}
    /\ Forget(t)
    /\ Goto(t, "queued")
    /\ UNCHANGED <<tableVars, queueVars, callerVars, reconcilerVars>>

(* processReconciliation marks the job failed, or that throws too.         *)
ReconciliationThrows(w) ==
    /\ Fault
    /\ rpc[w] \in {"delete", "create"}
    /\ EndJob(w, "failed") \/ EndJob(w, status[rjob[w]])

ReconcilerCrashes(w) ==
    /\ Fault
    /\ rpc[w] # "idle"
    /\ recQueue' = [recQueue EXCEPT ![rjob[w]] = @ + 1]
    /\ RGoto(w, "idle")
    /\ rjob' = [rjob EXCEPT ![w] = NoJob]
    /\ rseen' = [rseen EXCEPT ![w] = {}]
    /\ UNCHANGED <<announced, tableVars, workerVars, callerVars>>

-----------------------------------------------------------------------------
Call(c) ==
    \/ CheckQuota(c) \/ WriteStatus(c) \/ CreateSchema(c) \/ QueueReconciliation(c)

Send(s) == EnqueueRow(s) \/ AddMessage(s)

Crawl(t) ==
    \/ Skip(t) \/ Begin(t) \/ PageFails(t) \/ StoreExtraction(t) \/ CompleteTask(t)
    \/ CapLinks(t) \/ CheckCompletion(t) \/ FailJob(t) \/ TriggerReconciliation(t)

Reconcile(w) ==
    \/ \E j \in Job : TakeReconciliation(w, j)
    \/ DeleteEntities(w) \/ CreateEntity(w) \/ CompleteJob(w) \/ Announce(w)

Next ==
    \/ \E c \in Caller :
         \/ \E o \in DOMAIN Target, j \in Job : Request(c, o, j)
         \/ Call(c) \/ CallerThrows(c)
    \/ \E s \in Sender : Send(s)
    \/ \E t \in Task : Crawl(t) \/ WorkerThrows(t) \/ WorkerCrashes(t)
    \/ \E w \in Reconciler : Reconcile(w) \/ ReconciliationThrows(w) \/ ReconcilerCrashes(w)

Spec == Init /\ [][Next]_vars

(* A request that is being handled goes on, and so do the workers: BullMQ  *)
(* hands every message out, and every call of a worker has a timeout.      *)
(* Nobody has to make a request.                                           *)
Fairness ==
    /\ \A c \in Caller : WF_vars(Call(c))
    /\ \A s \in Sender : WF_vars(Send(s))
    /\ \A t \in Task : WF_vars(Crawl(t))
    /\ \A w \in Reconciler : WF_vars(Reconcile(w))

FairSpec == Spec /\ Fairness

-----------------------------------------------------------------------------
(***************************************************************************)
(* Properties.                                                             *)
(***************************************************************************)

(* The types of the variables: rows, messages, requests and workers are of *)
(* the shapes the job manager and the workers give them.                   *)
TypeOK ==
    /\ status \in [Job -> DOMAIN Transitions]
    /\ schema \in [Job -> BOOLEAN]
    /\ task \in [Task -> {"none"} \cup Unfinished \cup Finished]
    /\ extracted \in SUBSET Task
    /\ entities \in [Task -> Nat]
    /\ recQueue \in [Job -> Nat]
    /\ announced \in [Job -> BOOLEAN]
    /\ pc \in [Task -> {"none", "queued", "crawling", "extracted", "cap", "send",
                        "check", "fail", "trigger", "done"}]
    /\ todo \in [Sender -> SUBSET Task]
    /\ sending \in [Sender -> Task \cup {NoTask}]
    /\ cpc \in [Caller -> {"idle", "quota", "write", "schema", "send", "queue", "done"}]
    /\ op \in [Caller -> {"none"} \cup DOMAIN Target]
    /\ cjob \in [Caller -> Job \cup {NoJob}]
    /\ seen \in [Caller -> {"none"} \cup DOMAIN Transitions]
    /\ rpc \in [Reconciler -> {"idle", "delete", "create", "announce"}]
    /\ rjob \in [Reconciler -> Job \cup {NoJob}]
    /\ rseen \in [Reconciler -> SUBSET Task]
    /\ faults \in 0..MaxFaults
    /\ \A c \in Caller : cpc[c] \notin {"idle", "done"} =>
          cjob[c] \in Job /\ op[c] # "none" /\ seen[c] # "none"
    /\ \A w \in Reconciler : rpc[w] # "idle" => rjob[w] \in Job

(* Nothing is left to happen to the job.                                   *)
Quiet(j) ==
    /\ \A t \in Task : jobOf[t] = j => pc[t] \in {"none", "done"}
    /\ \A c \in Caller : cjob[c] = j => cpc[c] = "done"
    /\ recQueue[j] = 0
    /\ \A w \in Reconciler : rjob[w] # j

(* A row that is not finished is in somebody's hands: its message waits,   *)
(* its sender is about to add it, or a worker is at it.  There is no sweep *)
(* that would find it otherwise, and the job would never be complete.      *)
NoTaskForgotten ==
    faults = 0 =>
        \A t \in Task :
            /\ task[t] = "pending" => pc[t] = "queued" \/ \E s \in Sender : sending[s] = t
            /\ task[t] = "in_progress" => pc[t] \in {"crawling", "extracted"}

(* Workers check for completion on their own, and the job is reconciled as *)
(* often as one of them finds it complete, perhaps too early; yet when     *)
(* nothing is left to do, every extraction has its entity.                 *)
SettledJobIsReconciled ==
    faults = 0 =>
        \A j \in Job : Quiet(j) /\ Rows(j, {"completed"}) # {} =>
            \A t \in Task : jobOf[t] = j =>
                entities[t] = IF t \in extracted THEN 1 ELSE 0

(* With one reconciliation worker, no extraction's entity is made twice,   *)
(* whichever reconciliations failed or crashed half-way.                   *)
EntitiesNotDoubled == \A t \in Task : entities[t] <= 1

(* A job that is started ends, unless a call threw or somebody paused it,  *)
(* cancelled it or had it reconciled.                                      *)
JobEnds ==
    \/ <>(faults > 0 \/ \E c \in Caller : op[c] \notin {"none", "start"})
    \/ \A j \in Job : status[j] = "running" ~> status[j] \in {"completed", "failed"}

-----------------------------------------------------------------------------
(***************************************************************************)
(* The inductive invariants the proofs rest on.                            *)
(***************************************************************************)

(* A message has its row.                                                  *)
RowFirst == \A t \in Task : task[t] = "none" => pc[t] = "none"

(* What a sender has left is its own, and has no row.                      *)
LeftWithoutRow == \A s \in Sender : \A t \in todo[s] : parent[t] = s /\ task[t] = "none"

(* The row a sender is sending is its own, and has no message.             *)
SentWithoutMessage ==
    \A s \in Sender : sending[s] # NoTask =>
        /\ AtWork(s)
        /\ parent[sending[s]] = s
        /\ task[sending[s]] = "pending"
        /\ pc[sending[s]] = "none"

(* A request that has not come to its seeds has left them alone.           *)
SeedsUntouched ==
    \A c \in Caller, t \in Task :
        cpc[c] \in {"idle", "quota", "write", "schema"} /\ parent[t] = c => task[t] = "none"

(* A row and its message are one sender's to make, each once.              *)
RowsBySenders == RowFirst /\ LeftWithoutRow /\ SentWithoutMessage /\ SeedsUntouched

(* What a reconciliation has still to make, it has deleted.                *)
EntitiesInHand ==
    \A w \in Reconciler :
        /\ rpc[w] \in {"delete", "create"} => \A t \in rseen[w] : jobOf[t] = rjob[w]
        /\ rpc[w] = "create" => \A t \in rseen[w] : entities[t] = 0

(* What a request has left to enqueue belongs to its job.                  *)
SeedsOfItsJob ==
    \A c \in Caller :
        /\ cpc[c] = "idle" => todo[c] = {}
        /\ \A t \in todo[c] : jobOf[t] = cjob[c]
        /\ sending[c] # NoTask => jobOf[sending[c]] = cjob[c]

(* Entities are made of extractions, and extractions under a schema.       *)
MadeOfExtractions ==
    /\ \A t \in extracted : schema[jobOf[t]]
    /\ \A t \in Task : entities[t] # 0 => t \in extracted
    /\ \A w \in Reconciler : rseen[w] \subseteq extracted

Extractions(j) == {t \in extracted : jobOf[t] = j}

(* Somebody will look once more whether the job is complete.               *)
InWork(j) ==
    \E t \in Task :
        /\ jobOf[t] = j
        /\ \/ pc[t] \in {"queued", "crawling", "extracted", "cap", "send", "check"}
           \/ \E s \in Sender : sending[s] = t

(* A reconciliation is on its way.                                         *)
Asked(j) == recQueue[j] > 0 \/ \E t \in Task : jobOf[t] = j /\ pc[t] = "trigger"

(* A reconciliation that saw every extraction makes their entities.        *)
BeingMade(j) ==
    \E w \in Reconciler :
        /\ rjob[w] = j
        /\ \/ rpc[w] = "delete" /\ rseen[w] = Extractions(j)
           \/ /\ rpc[w] = "create"
              /\ \A t \in Task : jobOf[t] = j =>
                    entities[t] = IF t \in extracted \ rseen[w] THEN 1 ELSE 0

(* Every extraction has its entity, and no reconciliation is at them.      *)
AllMade(j) ==
    /\ \A w \in Reconciler : rjob[w] = j => rpc[w] \notin {"delete", "create"}
    /\ \A t \in Task : jobOf[t] = j => entities[t] = IF t \in extracted THEN 1 ELSE 0

(* However often a job is found complete, and reconciled too early, what   *)
(* is left is one of these.                                                *)
EndsReconciled ==
    faults = 0 =>
        \A j \in Job :
            \/ InWork(j) \/ Asked(j) \/ BeingMade(j) \/ AllMade(j)
            \/ Rows(j, {"completed"}) = {}

=============================================================================
