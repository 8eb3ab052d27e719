------------------------------ MODULE LocalRun ------------------------------
(***************************************************************************)
(* `spatula run`: the pipeline of a local project                          *)
(* (packages/core/src/pipeline/local-pipeline-runner.ts), run after run,   *)
(* over the tables of its SQLite file.                                     *)
(*                                                                         *)
(* One process runs at a time; it may crash anywhere, and a later run      *)
(* finds what it left.  SQLite's calls do not wait, so what the runner     *)
(* does between two waits (for the network, the model, or a timer) is one  *)
(* step: the pages in flight go on only while the crawl loop waits.        *)
(***************************************************************************)
EXTENDS Integers, FiniteSets

CONSTANTS
    Task,         \* rows of crawl_tasks there may come to be
    NoTask,       \* no task
    parent,       \* [Task -> Task \cup {NoTask}]: whose links lead to it, none for seeds
    Concurrency,  \* crawl.concurrency
    MaxPages,     \* crawl.maxPages
    MaxRetries,   \* MAX_RETRIES
    MaxFaults,    \* bound: crashes, late pages, failed reconciliations
    MaxRecrawls   \* bound: how often a new crawler has everything crawled again

ASSUME TaskAssumption == NoTask \notin Task /\ parent \in [Task -> Task \cup {NoTask}]
ASSUME LimitAssumption ==
    /\ Concurrency \in Nat \ {0} /\ MaxPages \in Nat /\ MaxRetries \in Nat \ {0}
    /\ MaxFaults \in Nat /\ MaxRecrawls \in Nat
ASSUME FiniteAssumption == IsFiniteSet(Task)

VARIABLES
    \* The tables.
    task,       \* crawl_tasks.status, "none" before the row
    extracted,  \* the tasks whose page has an extraction
    entities,   \* the tasks whose extraction an entity stands for
    runStatus,  \* runs.status of the latest run
    \* The process.
    pc,
    seeds,      \* seeds still to enqueue
    queue,      \* the priority queue
    held,       \* the item dequeued that waits for the semaphore
    stage,      \* where each page in flight is, "none" if it is not
    attempt,
    budget,     \* InMemoryPageBudget.count
    stopped,    \* isPaused
    crawled,    \* pagesProcessed > 0
    erred,      \* errors > 0
    known,      \* the extractions the reconciliation has loaded
    troubled,   \* history: a page was late in this run, or its reconciliation failed
    \* Bounds.
    faults, recrawls

tableVars == <<task, extracted, entities, runStatus>>
loopVars == <<seeds, queue, held, budget>>
pageVars == <<stage, attempt>>
flagVars == <<stopped, crawled, erred, troubled>>
boundVars == <<faults, recrawls>>
vars == <<tableVars, pc, loopVars, pageVars, flagVars, known, boundVars>>

Finished == {"completed", "failed", "skipped"}
Rows(statuses) == {t \in Task : task[t] \in statuses}
InFlight == {t \in Task : stage[t] # "none"}
Seeds == {t \in Task : parent[t] = NoTask}

Init ==
    /\ task = [t \in Task |-> "none"]
    /\ extracted = {}
    /\ entities = {}
    /\ runStatus = "none"
    /\ pc = "off"
    /\ seeds = {}
    /\ queue = {}
    /\ held = NoTask
    /\ stage = [t \in Task |-> "none"]
    /\ attempt = [t \in Task |-> 0]
    /\ budget = 0
    /\ stopped = FALSE
    /\ crawled = FALSE
    /\ erred = FALSE
    /\ known = {}
    /\ troubled = FALSE
    /\ faults = 0
    /\ recrawls = 0

(***************************************************************************)
(* Starting a run.                                                         *)
(***************************************************************************)
(* requeueTasks: everything if the crawler or the schema is new, else what *)
(* failed.  recoverCrashedTasks finds the rows in progress and leaves them,*)
(* as the repository has neither of the methods it looks for.              *)
Requeue(full) ==
    task' = [t \in Task |-> IF task[t] \in (IF full THEN Finished ELSE {"failed"})
                            THEN "pending" ELSE task[t]]

(* Variant: what failed or was skipped counts, not what was completed.     *)
BudgetOfFailed ==
    LET failed == Cardinality({t \in Task : task'[t] \in {"failed", "skipped"}})
    IN  IF failed < MaxPages THEN failed ELSE MaxPages

(* What was completed in earlier runs counts, up to the budget.            *)
SpentBudget ==
    LET completed == Cardinality({t \in Task : task'[t] = "completed"})
    IN  IF completed < MaxPages THEN completed ELSE MaxPages

(* The lock is taken, and the run has its row.  The project's seeds are    *)
(* all new at first, later those its user has added.                       *)
Start ==
    /\ pc = "off"
    /\ pc' = "seed"
    /\ runStatus' = "running"
    /\ \E full \in BOOLEAN :
         /\ full => recrawls < MaxRecrawls
         /\ Requeue(full)
         /\ recrawls' = IF full THEN recrawls + 1 ELSE recrawls
    /\ seeds' \in SUBSET {t \in Seeds : task[t] = "none"}
    /\ budget' = SpentBudget
    /\ UNCHANGED <<extracted, entities, queue, held, pageVars, flagVars, known, faults>>

EnqueueSeed ==
    /\ pc = "seed"
    /\ \E t \in seeds :
         /\ task' = [task EXCEPT ![t] = "pending"]
         /\ seeds' = seeds \ {t}
    /\ UNCHANGED <<extracted, entities, runStatus, pc, queue, held, budget>>
    /\ UNCHANGED <<pageVars, flagVars, known, boundVars>>

BeginCrawl ==
    /\ pc = "seed"
    /\ seeds = {}
    /\ pc' = "loop"
    /\ UNCHANGED <<tableVars, loopVars, pageVars, flagVars, known, boundVars>>

(***************************************************************************)
(* The crawl loop.                                                         *)
(***************************************************************************)
(* Variant: a page in flight that is pending is loaded again.              *)
LoadInFlight == IF queue = {} THEN Rows({"pending"}) ELSE queue

(* loadPendingIntoQueue, whenever the queue is empty.                      *)
Loaded == IF queue = {} THEN Rows({"pending"}) \ InFlight ELSE queue

(* The loop ends: the run was stopped, nothing is queued, or the budget is *)
(* used up.                                                                *)
EndLoop ==
    /\ pc = "loop"
    /\ stopped \/ Loaded = {} \/ budget >= MaxPages
    /\ queue' = IF stopped THEN queue ELSE Loaded
    /\ pc' = "drain"
    /\ UNCHANGED <<tableVars, seeds, held, budget, pageVars, flagVars, known, boundVars>>

(* The next page is taken, and starts unless the semaphore is full.        *)
Dequeue ==
    /\ pc = "loop"
    /\ ~stopped /\ budget < MaxPages
    /\ \E t \in Loaded :
         /\ queue' = Loaded \ {t}
         /\ budget' = budget + 1
         /\ IF Cardinality(InFlight) < Concurrency
            THEN /\ stage' = [stage EXCEPT ![t] = "start"]
                 /\ attempt' = [attempt EXCEPT ![t] = 1]
                 /\ UNCHANGED <<held, pc>>
            ELSE held' = t /\ pc' = "blocked" /\ UNCHANGED pageVars
    /\ UNCHANGED <<tableVars, seeds, flagVars, known, boundVars>>

(***************************************************************************)
(* The pages in flight: processTaskWithRetry and processCrawlTask.         *)
(***************************************************************************)
LoopWaits == pc \in {"blocked", "drain", "reconcile", "persist", "over"}

SetTask(t, s) == task' = [task EXCEPT ![t] = s]

(* The page is out of flight, and the semaphore wakes the loop.            *)
Release(t) ==
    /\ stage' = [u \in Task |-> CASE u = t -> "none" [] u = held -> "start" [] OTHER -> stage[u]]
    /\ attempt' = [u \in Task |-> CASE u = t -> 0 [] u = held -> 1 [] OTHER -> attempt[u]]
    /\ held' = NoTask
    /\ pc' = IF pc = "blocked" THEN "loop" ELSE pc

(* robots.txt blocks the page.                                             *)
SkipPage(t) ==
    /\ LoopWaits /\ stage[t] = "start"
    /\ SetTask(t, "skipped")
    /\ Release(t)
    /\ UNCHANGED <<extracted, entities, runStatus, seeds, queue, budget, flagVars, known, boundVars>>

BeginPage(t) ==
    /\ LoopWaits /\ stage[t] = "start"
    /\ SetTask(t, "in_progress")
    /\ stage' = [stage EXCEPT ![t] = "crawling"]
    /\ UNCHANGED <<extracted, entities, runStatus, pc, loopVars, attempt, flagVars, known, boundVars>>

StoreExtraction(t) ==
    /\ LoopWaits /\ stage[t] = "crawling"
    /\ extracted' = extracted \cup {t}
    /\ stage' = [stage EXCEPT ![t] = "extracted"]
    /\ UNCHANGED <<task, entities, runStatus, pc, loopVars, attempt, flagVars, known, boundVars>>

(* The page is completed, and its links get rows and are queued.  A        *)
(* schema evolution may follow.                                            *)
CompletePage(t) ==
    /\ LoopWaits /\ stage[t] \in {"crawling", "extracted"}
    /\ \E links \in SUBSET {u \in Task : parent[u] = t /\ task[u] = "none"} :
         /\ task' = [u \in Task |-> CASE u = t -> "completed" [] u \in links -> "pending"
                                      [] OTHER -> task[u]]
         /\ queue' = queue \cup links
    /\ stage' = [stage EXCEPT ![t] = "evolving"]
    /\ crawled' = TRUE
    /\ UNCHANGED <<extracted, entities, runStatus, pc, seeds, held, budget, attempt>>
    /\ UNCHANGED <<stopped, erred, troubled, known, boundVars>>

LeavePage(t) ==
    /\ LoopWaits /\ stage[t] = "evolving"
    /\ Release(t)
    /\ UNCHANGED <<tableVars, seeds, queue, budget, flagVars, known, boundVars>>

(* Variant: the retry is left to the loop.                                 *)
RetryByLoop(t) ==
    /\ LoopWaits /\ stage[t] \in {"start", "crawling", "extracted"}
    /\ attempt[t] < MaxRetries
    /\ SetTask(t, "pending")
    /\ Release(t)
    /\ UNCHANGED <<extracted, entities, runStatus, seeds, queue, budget, flagVars, known, boundVars>>

(* An answer or a call fails, and is worth another attempt after a while.  *)
RetryPage(t) ==
    /\ LoopWaits /\ stage[t] \in {"start", "crawling", "extracted"}
    /\ attempt[t] < MaxRetries
    /\ SetTask(t, "pending")
    /\ stage' = [stage EXCEPT ![t] = "resting"]
    /\ UNCHANGED <<extracted, entities, runStatus, pc, loopVars, attempt, flagVars, known, boundVars>>

(* Variant: the attempts are not counted.                                  *)
UncountedAttempt(t) ==
    /\ LoopWaits /\ stage[t] = "resting"
    /\ stage' = [stage EXCEPT ![t] = "start"]
    /\ UNCHANGED <<tableVars, pc, loopVars, attempt, flagVars, known, boundVars>>

NextAttempt(t) ==
    /\ LoopWaits /\ stage[t] = "resting"
    /\ stage' = [stage EXCEPT ![t] = "start"]
    /\ attempt' = [attempt EXCEPT ![t] = @ + 1]
    /\ UNCHANGED <<tableVars, pc, loopVars, flagVars, known, boundVars>>

(* It fails for good: an error not worth a retry, or the last attempt.     *)
FailPage(t) ==
    /\ LoopWaits /\ stage[t] \in {"start", "crawling", "extracted"}
    /\ SetTask(t, "failed")
    /\ erred' = TRUE
    /\ Release(t)
    /\ UNCHANGED <<extracted, entities, runStatus, seeds, queue, budget, stopped, crawled>>
    /\ UNCHANGED <<troubled, known, boundVars>>

(***************************************************************************)
(* After the loop.                                                         *)
(***************************************************************************)
Finalize(s) == pc' = "over" /\ runStatus' = s
AfterLoop ==
    \/ ~crawled /\ erred /\ Finalize("failed")
    \/ (crawled \/ ~erred) /\ stopped /\ Finalize("paused")
    \/ (crawled \/ ~erred) /\ ~stopped /\ pc' = "reconcile" /\ UNCHANGED runStatus

(* Variant: the pages in flight are not waited for.                        *)
DrainedAtOnce ==
    /\ pc = "drain"
    /\ AfterLoop
    /\ UNCHANGED <<task, extracted, entities, loopVars, pageVars, flagVars, known, boundVars>>

(* drainInflight: every page has left.                                     *)
Drained ==
    /\ pc = "drain"
    /\ InFlight = {}
    /\ AfterLoop
    /\ UNCHANGED <<task, extracted, entities, loopVars, pageVars, flagVars, known, boundVars>>

(* Or DRAIN_TIMEOUT_MS is over, and those that have not are left to go on. *)
DrainTimeout ==
    /\ pc = "drain"
    /\ InFlight # {}
    /\ faults < MaxFaults
    /\ faults' = faults + 1
    /\ troubled' = TRUE
    /\ AfterLoop
    /\ UNCHANGED <<task, extracted, entities, loopVars, pageVars, stopped, crawled, erred>>
    /\ UNCHANGED <<known, recrawls>>

(* processReconciliation loads the extractions and drops the entities.     *)
LoadExtractions ==
    /\ pc = "reconcile"
    /\ known' = extracted
    /\ IF extracted = {} THEN Finalize("completed") ELSE pc' = "persist" /\ UNCHANGED runStatus
    /\ entities' = {}
    /\ UNCHANGED <<task, extracted, loopVars, pageVars, flagVars, boundVars>>

PersistEntities ==
    /\ pc = "persist"
    /\ entities' = known
    /\ known' = {}
    /\ Finalize("completed")
    /\ UNCHANGED <<task, extracted, loopVars, pageVars, flagVars, boundVars>>

(* It fails, which it only logs.                                           *)
ReconciliationFails ==
    /\ pc = "persist"
    /\ faults < MaxFaults
    /\ faults' = faults + 1
    /\ troubled' = TRUE
    /\ known' = {}
    /\ Finalize("completed")
    /\ UNCHANGED <<task, extracted, entities, loopVars, pageVars, stopped, crawled, erred>>
    /\ UNCHANGED recrawls

(* The first Ctrl+C.  After the loop nothing reads the flag it sets.       *)
Stop ==
    /\ pc \in {"seed", "loop", "blocked", "drain"}
    /\ ~stopped
    /\ stopped' = TRUE
    /\ UNCHANGED <<tableVars, pc, loopVars, pageVars, crawled, erred, troubled, known>>
    /\ UNCHANGED boundVars

(* The process is gone, with all it had in memory.                         *)
Gone ==
    /\ pc' = "off"
    /\ seeds' = {} /\ queue' = {} /\ held' = NoTask /\ budget' = 0
    /\ stage' = [t \in Task |-> "none"]
    /\ attempt' = [t \in Task |-> 0]
    /\ stopped' = FALSE /\ crawled' = FALSE /\ erred' = FALSE /\ troubled' = FALSE
    /\ known' = {}

(* The database is closed on the pages still in flight.                    *)
Exit ==
    /\ pc = "over"
    /\ Gone
    /\ UNCHANGED <<tableVars, boundVars>>

(* A crash, or the second Ctrl+C.                                          *)
Crash ==
    /\ pc # "off"
    /\ faults < MaxFaults
    /\ faults' = faults + 1
    /\ Gone
    /\ UNCHANGED <<tableVars, recrawls>>

-----------------------------------------------------------------------------
Page(t) ==
    \/ SkipPage(t) \/ BeginPage(t) \/ StoreExtraction(t) \/ CompletePage(t) \/ LeavePage(t)
    \/ RetryPage(t) \/ NextAttempt(t) \/ FailPage(t)

Runner ==
    \/ EnqueueSeed \/ BeginCrawl \/ EndLoop \/ Dequeue \/ Drained
    \/ LoadExtractions \/ PersistEntities \/ Exit

Next ==
    \/ Start \/ Runner
    \/ \E t \in Task : Page(t)
    \/ DrainTimeout \/ ReconciliationFails \/ Stop \/ Crash

Spec == Init /\ [][Next]_vars

(* A process that runs goes on as long as anything it does can go on:      *)
(* every call a page makes has a timeout.  Nobody has to start one, and    *)
(* nothing has to fail, though the last attempt of a page ends it.         *)
FairSpec == Spec /\ WF_vars(Runner \/ \E t \in Task : Page(t))

-----------------------------------------------------------------------------
(***************************************************************************)
(* Properties.                                                             *)
(***************************************************************************)

(* The types of the variables: the tables' columns, and what the runner    *)
(* keeps in memory, which is nothing while no process runs.                *)
TypeOK ==
    /\ task \in [Task -> {"none", "pending", "in_progress"} \cup Finished]
    /\ extracted \in SUBSET Task /\ entities \in SUBSET Task /\ known \in SUBSET Task
    /\ runStatus \in {"none", "running", "completed", "failed", "paused"}
    /\ pc \in {"off", "seed", "loop", "blocked", "drain", "reconcile", "persist", "over"}
    /\ seeds \in SUBSET Task /\ queue \in SUBSET Task
    /\ held \in Task \cup {NoTask} /\ (held # NoTask <=> pc = "blocked")
    /\ stage \in [Task -> {"none", "start", "crawling", "extracted", "evolving", "resting"}]
    /\ attempt \in [Task -> 0..MaxRetries]
    /\ budget \in 0..MaxPages
    /\ stopped \in BOOLEAN /\ crawled \in BOOLEAN /\ erred \in BOOLEAN /\ troubled \in BOOLEAN
    /\ faults \in 0..MaxFaults /\ recrawls \in 0..MaxRecrawls
    /\ pc = "off" => InFlight = {} /\ queue = {}

(* A page is queued, held back by the semaphore, or in flight, and never   *)
(* two of these: it would be crawled twice, also at the same time.  While  *)
(* it waits for another attempt its row is pending, like one never begun.  *)
OnceInHand ==
    /\ queue \cap InFlight = {}
    /\ held \notin queue \cup InFlight

(* However often a project is run, stopped, and run again after a crash,   *)
(* no more than crawl.maxPages of its pages are completed.                 *)
BudgetKept == Cardinality(Rows({"completed"})) <= MaxPages

(* A run that says it is completed has an entity for every extraction,     *)
(* those of earlier runs, and of the pages that were still in flight when  *)
(* its loop ended, unless one was late or the reconciliation failed.       *)
CompletedRunIsReconciled ==
    pc = "over" /\ runStatus = "completed" /\ ~troubled => entities = extracted

(* A run ends, whatever its pages do.                                      *)
RunEnds == pc # "off" ~> pc = "off"

(* A process that is gone leaves its run's row running if it crashed.      *)
Crashed == pc = "off" /\ runStatus = "running"

(* What is pending when a run begins to crawl, the failed pages of earlier *)
(* runs among it, is settled by the run, unless it is stopped, crashes,    *)
(* leaves a late page behind, or runs out of budget.                       *)
PendingIsCrawled ==
    \A t \in Task :
        pc = "loop" /\ task[t] = "pending"
            ~> task[t] \in Finished \/ stopped \/ troubled \/ Crashed \/ budget = MaxPages

(* local-pipeline-runner.ts: the loop breaks when it is truly done, so a   *)
(* run that is completed within its budget leaves no page pending.         *)
CompletedRunIsDone ==
    pc = "over" /\ runStatus = "completed" /\ budget < MaxPages => Rows({"pending"}) = {}

=============================================================================
