# Spatula, in TLA+

Spatula's repository holds two products that share no code:

- the **platform** (`src/platform`): datasets of products, refreshed by runs (Cloudflare Workflows),
  published as snapshots, reviewed by their owner. Packages `core` (pure), `store` (Postgres),
  `worker` (API, Workflows, Durable Objects), `cli`, `console`.
- the **crawl product** (`src/packages`, `src/apps`): jobs that crawl a site, extract, reconcile
  entities and export. A server (API, BullMQ workers, Postgres, Redis) or a local runner (SQLite).

This directory specifies the parts where order, retries and crashes decide what is right, checks
them with TLC on small instances, and proves their safety with TLAPS for every instance.

## Inventory

| Part | State | Operations | What is hard | What makes it right |
| --- | --- | --- | --- | --- |
| Publication (`worker/publish.ts`, `store/snapshots.ts`, `core/gates.ts`) | rows of snapshots, `datasets.head_generation`, snapshot files and drafts in R2 | publish, hold, publish held, discard, supersede | runs that overlap, a step that runs twice at once, answers that race, reads before a transaction | one contiguous history in start order; files say what rows say; gates apply |
| Runs and the Refresh Workflow (`store/runs.ts`, `worker/workflow.ts`, `refresh.ts`, `api.ts`) | `runs`, Workflow instances | start, lose, finish, fail, restart | a Workflow that reads as lost may run on; steps run at least once | at most one run counted active; nothing made twice |
| Reviews (`worker/review.ts`, `store/decisions.ts`) | `review_items`, `decision_records`, `judgements` | open, move, answer, flag, reopen, replace, dismiss, close | an answer meets a question that a run moves or closes; people who disagree | a question is open while it can be answered; a person's answer outranks others'; a disagreement reaches the owner |
| Definitions and sources (`store/datasets.ts`) | definition, revision, sources, items | apply a definition, add and move pages | revision read outside the transaction that writes it | no definition is lost, revisions count |
| Statements and entities (`store/statements.ts`, `entities.ts`, `worker/match.ts`) | statements, entities, `entity_keys`, judgements | record, resolve, ask, judge | answers about pairs while runs match; a match step that stops between two commits | no page waits for nothing; a page joins one record |
| Politeness gate (`core/gate.ts`, `worker/gate-port.ts`, `host-gate.ts`, `requests.ts`) | one object per host: robots record, next slot, break, strains | robotsDue, opensAt, storeRobots, reserve, record | runs of several datasets at one host, slow and crossing answers, sleeping and crashing steps | slots apart, breaks kept, robots.txt obeyed |
| Sources and their pages (`store/listing.ts`, `fetches.ts`, `source-states.ts`, `worker/discovery.ts`) | `items`, `sources`: streaks, listings, counts of blocked runs | discover, probe, fetch, count, revive | reads that overlap and end out of order, a block counted twice, a step that runs again | a page goes and a source is refused only for what as many runs met |
| Captures and reading (`refresh.ts`, `worker/captures.ts`, `store/captures.ts`, `statements.ts`) | a page's stored copy and its mark, captures, bodies in R2, statements | fetch, reread, extract, ask the LLM, clean up, purge | a step that stops between two of its writes; a file that two datasets hold | what looks current was read; what is cited is kept; a refusal of AI input holds |
| Taxonomy, proposals, consumers (`store/proposals.ts`, `taxonomy.ts`, `worker/taxonomy-review.ts`, `core/taxonomy-changes.ts`) | taxonomy versions, proposals, streaks, the review log | review, decide, edit, revoke, undo, seed, change the scope | a review that reads, asks a model, and applies while people decide | autonomy is earned; a proposal is settled once; undoing is exact |
| Matching, identity, field rules (`core/matching.ts`, `identity.ts`, `survivorship.ts`) | none | pure functions: what a page joins, starts, asks about or waits for | a name that several records carry or will carry | a name joins only where it is settled |
| Jobs (`queue/job-manager.ts`, `state-machine.ts`) | `jobs.status` | create, start, pause, resume, cancel, trigger reconciliation | status read, checked, then written unconditionally | terminal statuses stay; a quota |
| Crawl and reconciliation workers (`queue/workers`, `core/pipeline`) | `crawl_tasks`, extractions, entities, BullMQ queues | crawl, enqueue links, check for completion, reconcile | rows and messages are two calls; workers count each other's rows | no task forgotten; the job ends reconciled |
| Schema evolution (`schema-orchestrator.ts`, `redis-lock.ts`) | schema versions, a lease in Redis | evolve | a lease that expires under an LLM call | versions are distinct |
| Queues, dead letters, webhooks, cleanup (`queue/*`) | BullMQ | retry, expire, delete | the order of deletes and foreign keys | cleanup ends |
| Local runner (`local-pipeline-runner.ts`) | SQLite and a queue in memory | crawl, finalize, resume | refills from the table race with what is in flight | each page once; nothing left pending |
| Circuit breaker, project lock | counters; a lock file | execute; acquire, release | state captured before an await; a stale lock broken by two | half-open lets one through; one holder |
| Crawlers, LLM clients, exporters, APIs, CLIs, consoles, deployment | I/O, text and screens | | | not modelled |

The parts meet in few places. A run **loads** a definition, asks the **gate** before each request,
lists the pages its **sources** name and fetches those that are due, turns their **captures** into
statements, **resolves** its pages to records and asks the match questions that raises,
**reviews the taxonomy**, and ends in **publication**, which asks a question when
a gate holds a snapshot. People's answers reach publication, the judgements that resolution reads, and
the proposals' decisions from the API, at the same time as runs, and applying a definition touches all of them: its revision is what a
page is read under, its sources have their pages, and its scope is the taxonomy's.

In the crawl product, a **job** request writes rows and adds messages, **crawl workers** write
rows and add messages of their own, and the worker that finds no row left adds the message of a
**reconciliation**, whose worker writes the job's last status and adds the webhook's message.

## Modules

| Module | What it is |
| --- | --- |
| `PublishedHistory` | the abstract specification: what consumers of a dataset may rely on |
| `Publication` | publication, runs and answers, with every read and transaction a step |
| `MCPublication` | its instances for TLC |
| `PublicationProofs` | type correctness, the inductive invariant, the safety theorems, the refinement |
| `SourcePages`, `MCSourcePages`, `SourcePagesProofs` | a source, its pages, and overlapping runs that read them; its proofs |
| `PageReading`, `MCPageReading`, `PageReadingProofs` | one page's copy, captures, files and statements; its proofs |
| `TaxonomyReview`, `MCTaxonomyReview`, `TaxonomyReviewProofs` | taxonomy versions, proposals and who decides them; its proofs |
| `Matching`, `MCMatching`, `MatchingProofs` | pages, records, match questions and people's answers; its proofs |
| `HostGate`, `MCHostGate`, `HostGateProofs` | the politeness gate, its instance, its proofs |
| `CrawlJob`, `MCCrawlJob`, `CrawlJobProofs` | jobs, crawl and reconciliation workers, instances, proofs |
| `LocalRun`, `MCLocalRun`, `LocalRunProofs` | the runner of a local project, its instance, its proofs |

Definitions have the names of the code's functions where there is one (`CommitSnapshot` is
`commitSnapshot`, `RobotsToKeep` is `robotsToKeep`); `PROJECT.json` maps each to its lines.
Definitions commented *Variant* are plausible mistakes; no specification uses them. They show that
the property named in `PROJECT.json` would notice.

### Publication

A dataset, its runs, and the owner's requests about held snapshots. A snapshot's ID is made from its
run's, so the rows are functions of runs: `state`, `generation`, `keyOf`, `recordsOf`, `revisionOf`,
`heldReason`, and `question`. `files` is R2: keys are a run (its draft), a try or an answer (a
publication's file has a random part). A file's content is its generation and its records, and a
record is just the product it is about.

- A run: `StartRun`, `Load`, then its snapshot step, then `Finish` or `Fail`; `RecordLost` is
  `api.ts` taking a run whose Workflow can't be found for failed, while the Workflow may go on, which
  is how two runs overlap; `Restart` restarts a Workflow from its finished steps.
- The snapshot step is executed by a `Try`. Several tries of one run may execute at once, since a step
  of a Workflow runs *at least* once. `CheckMade`, `BuildRecords`, `ReadLatest`, `ReadWaiting`,
  `ReadHead`, `CheckGates`, `CommitSnapshot`, `HoldSnapshot`, `SupersedeStale` are `publish()` from
  read to read; each transaction is one step, since it locks the dataset's row (or the snapshot's) from
  its start. `CutOff` ends a try anywhere.
- An answer: `AskAbout`, `ReadDraft`, `NextGeneration`, `PublishHeld` (three attempts, as in
  `publishHeldSnapshot`), `DiscardHeld`.
- `EditRecords` and `ApplyDefinition` are everything else that changes statements and the definition.
- Left out: a snapshot that breaks the published format, after which `publish()` ends and changes nothing
  (`publish.ts:206`-`215`).

**Fairness**: none; every property is a safety property, and nobody has to run or answer.

### SourcePages

One source of a dataset, the pages of it that one follows, and the runs. `ReadSitemap` and `EndRead`
read a sitemap, `FinishListing` is `finishListing` (the misses of a complete read), `Probe` and `Back`
are a refused source's one request and what a probe that gets through changes, `Plan` is
`dueItems`, `Ask`/`Record`/`PutOff` a page's fetch and `recordFetch` or `recordFailure`, `Count` is
`countSource`, with the blocks it takes back from the pages. `RevivePage`, `ReviveSource` and `Apply`
are the owner's; `Apply` leaves the source out of the definition, or has it back. A step may be carried
out and its result lost (`lost`), and then runs again with the site's new answer; a run that reads as
lost goes on while the next starts, and `Fail` ends a run anywhere. Time is the number of runs started.
`finished`, `goneBy`, `blame`, `blockedIn`, `took` and `said` are history that the properties compare with.

What it doesn't claim: a page's blocks are given back by the runs that counted them, so with four
or more overlapping runs a page can still be refused though each of its runs' sources was; a page that
blocks refused and that an overlapping run then reads otherwise is not given back; an older read that
lists a page late resets the misses that newer reads have counted; a fetch step that was put off and
runs again logs twice. A source's kind doesn't change, and runs that load a definition without the
source, and pages that move between sources, are left out.

### PageReading

One page, from its fetch to its statements, and its archive. `Fetch`, `Record`, `Capture`, `Resee` are
`fetchItem`; `Reread` plans what is stored; `Extract`, `Unread`, `Keep`, `File`, `Write`, `Llm`, `Mark`
are `extractItem` with its writes one by one. `Llm` is `askLlm` in the code's order: the step is `Skipped`
if the body leaves the LLM nothing to fill under the run's revision (`Fills`), whatever the site says; then
the site's refusal withdraws what the LLM said (`Refused`); then the step is skipped if no LLM is configured, or
`AskedOrReused`. `Prune`, `PruneFiles`, `PruneRows` are a run's
cleanup of captures, `PurgeFiles` and `PurgeRows` the owner's. `Again` runs a step once more after it
has stopped between any two writes, and `Fail` ends its run there. `SiteChanges` gives the page another
body, or the site another mind about AI input; `OtherFrees` and `OtherDeletes` are another dataset's
cleanup of a body that both held, which checks and then deletes.

What it leaves out: planning and the batch of one page are one step; whether a page is due is any
answer; the server is honest about 304; the LLM's budget; an interrupted deletion within one batch of
files; a purge that meets a run recorded as failed whose Workflow goes on; a definition that does not declare
ai-input itself, which `askLlm` treats as a refusal though `fetchItem` does not. `skipped` notes that the LLM step
was skipped when the page was last marked: then what the LLM said before stands (see below). `wavered` notes that a fetch
step that ran again got a different answer: then what is stored is one's and what is read is the other's
(`fetches.ts:82`), and the properties about the copy and about consent don't hold until a run has read
the page again.

Runs go one at a time (`MaxOverlap = 1`), as `startRunAlone` and the answer 409 see to
(`api.ts:278`-`302`). Two overlap only when a start has recorded as failed a run whose Workflow can't be
found and goes on after all; that case is modelled in `Publication` and `SourcePages`, and of the
properties here none survives it.

### TaxonomyReview

A feature's values, its versions, the review that ends each run, and the people who decide. `Ask`,
`Save`, `Look`, `Apply` are the review's step between its reads; a step that stops (`Stop`) runs again
from its start. `Accept`, `Edit`, `Reject`, `Revoke` and `Undo` are the transactions of `proposals.ts`,
for the owner or a consumer's reviewer. `ReadToApply` and `ApplyDefinition`, `ReadToSeed` and
`SeedTaxonomy`, are what applying a definition and seeding read and then write, each by a `Caller`, with any
number under way at once. A request is `overtaken` once another has written since it read, and the taxonomy
is `crossed` while the last to write was overtaken. `Applies`, `Applied`,
`Before` and `InverseChange` are `taxonomy-changes.ts` for adding, renaming, retiring and restoring.

Other changes of the tree (descriptions, moves, merges, splits, implications), retirements that
cascade, changed slugs, definitions without a scope, the cap on proposals and the rules for evidence
are left out.

### Matching

The pages of a dataset, the records they belong to, and the questions between. `BeginResolution`,
`PlanPage`, `CommitResolution` are `resolveEntities`: a transaction that reads the verdicts as it begins
(`View`), plans one page after another (`Plans` is `planMatch`), each seeing the ones before (`pass`), and
commits what it joined. `ReadQuestion`, `LeaveQuestion`, `Ask`, `Save`, `Judge`, `Review` are `matchItem`
with its commits one by one; `StopShort` ends a step between two of them, so that it runs again, and
`CutOff` ends the run anywhere. `AnswerOpen`, `FlagOpen`, `FlagAnswered`, `ReplaceAnswer` are the ends of
`answerReview` for match questions, each one transaction, of the owner or a reviewer, at any point of a run.
`Reread` gives a page other values between runs. `mode` is the run's: a decider is set up, none is, or
the dataset doesn't allow AI input. What a decider says is any answer, or none.

One record type, one kind of identifier and one key within one scope; all pages are live; a record is
the page it was started for, since a page starts at most one. Identifiers and names are tokens, and which
names are alike or differ by model marks are constants. A decider is sure or not: the threshold does not
change. Its six answers are the verdicts they amount to. The order of candidates, closest first or by
random ID, is any order (`FirstFew`). The evidence of a question is each member's values, where the code
merges those of the base pages: a change of evidence the code does not notice is left out. Notes,
conflicts and lineups are left out. One run goes at a time, with answers at any point; pages that leave
or come back are left out.

**Fairness** in these four: none; what must happen in the end depends on runs that nobody has to start.
`TwoRunsRead` says instead what two runs in a row, that nothing befalls, make good.

### HostGate

One host's gate, and runs that request pages of it. The Durable Object handles one call at a time, so
each call of the gate is a step, `RobotsDue`, `OpensAt`, `StoreRobots`, `Deny`/`Later`/`Reserve` (the
three ends of `reserve`), `RecordFine`/`RecordStrain` (`recordResponse`); what a run does in between,
`FetchRobots`, `Get`, `Wake`, is its own. A run that is put off sleeps outside its step and asks again
from the redirect it had come to; `StepRunsAgain` is a step that crashes and is executed again from its
start, whatever it had been granted. `Tick` is the clock; no step is urgent, so any step may come as
late as it likes.

robots.txt is abstracted to its verdict on the pages: allowed, disallowed, no rules (a 4xx), unknown
(a 5xx, a 429, no answer), or a challenge. Times are multiples of the pacing interval; `breakEnd`,
`answeredAt` and `told` are history that the properties compare with. A redirect to another host is a
request that ends, for this host.

**Fairness**: none, for the same reason.

### CrawlJob

Jobs' rows, tasks' rows, BullMQ's queues, and the actors: requests to the job manager (`Request` to
`QueueReconciliation`), the worker that has a task's message (`Skip`, `Begin`, `PageFails`,
`StoreExtraction`, `CompleteTask`, `CapLinks`, `EnqueueRow`, `AddMessage`, `CheckCompletion`, `FailJob`,
`TriggerReconciliation`) and reconciliation workers (`TakeReconciliation`, `DeleteEntities`,
`CreateEntity`, `EndJob`, `Announce`). No two queries share a transaction, so each is a step.
`CallerThrows`, `WorkerThrows`, `WorkerCrashes`, `ReconciliationThrows` and `ReconcilerCrashes` are
failures, at most `MaxFaults` of them. `CheckQuota` leaves out that a job starts all the same when its quota
can't be read (`job-manager.ts:92`-`98`, `crawl-worker.ts:44`-`47`) and the refusal of private seeds
(`job-manager.ts:102`-`110`). Which page leads to which is the constant `parent`; content,
classification and matching are data.

**Fairness** (`FairSpec`): weak fairness of each request in the middle of being handled, of each sender,
crawl worker and reconciliation worker. BullMQ hands every waiting message to a worker, and every call
a worker makes has a timeout, so an enabled step happens. Failures and new requests are under no fairness.

### LocalRun

`spatula run`, over any number of runs of one project: the tables of its SQLite file (`task`,
`extracted`, `entities`, `runStatus`), and what the process has in memory, which `Exit` and `Crash`
forget. Completing a page and adding each of its links are commits of their own
(`crawl-orchestrator.ts:278`, `local-pipeline-runner.ts:801`-`826`), which `CompletePage` takes together: a crash
between them, which loses links, is left out. The calls of SQLite do not wait, so what the runner does between two waits (for the network, a
model, or a timer) is one step. `pc` is where `run()` is: `Start`, `EnqueueSeed` and `BeginCrawl`; the
loop, `Dequeue` and `EndLoop`, with `Loaded` the refill of its queue; `Drained` or `DrainTimeout`;
`LoadExtractions`, then `PersistEntities` or `ReconciliationFails`. Each page in flight is at a `stage`
of `processTaskWithRetry`: `BeginPage`, `StoreExtraction`, `CompletePage` (which adds its links),
`LeavePage`, or `SkipPage`, `RetryPage`, `NextAttempt`, `FailPage`. Pages go on only while the loop
waits (`LoopWaits`), and leave through `Release`, the semaphore's. A task is a row, whatever its URL.
The database does not fail, and one process runs at a time, as the lock has it.

`Start` requeues either what failed or, for a new crawler, everything finished; and whatever seeds have
no row may be added, which covers the first run and those after a change of the configuration.

**Fairness** (`FairSpec`): weak fairness of everything the process does, as one action. The code's
calls have timeouts, so as long as something can go on something does; since a page has at most
`MaxRetries` attempts, no fairness between pages is needed. Nobody has to start a run, and crashes, late
pages and failures are under no fairness.

## Runs

| Run | Instance | Shows |
| --- | --- | --- |
| `publication` | 2 runs, 2 tries of the first and 1 of the second, 2 answers, 2 products, auto approval, the guard at 1 removal, statements change twice | the safety of publication, and that it implements `PublishedHistory` |
| `publication_gates` | 2 runs with a try each, 1 answer, balanced approval, a definition applied twice | `OwnerLetsDefinitionIn`, and `AtMostOneHeld` when both runs hold |
| `crawl_job` | 2 requests with a seed each, a link, one reconciliation worker, one fault | no task forgotten, reconciled when settled, no entity doubled, the job ends |
| `host_gate` | 2 runs with different intervals, time to 4 | slots, pacing, breaks, robots.txt |
| `local_run` | 2 seeds, a link, a budget of 2, 2 attempts, 1 fault, 1 new crawler | each page once, the budget across runs, reconciled when completed; runs end, what is pending is crawled |
| `local_run_done` | the same, a budget of 4, no fault | a violation |
| `source_pages` | one page, 3 runs, 2 at once, one lost result, one act of the owner, every streak of 2 | pages go and sources are refused only for what runs met, each counted once |
| `source_removed` | the same | a violation |
| `page_reading` | 2 bodies of which one says more, 2 revisions, 3 runs, one step that runs again, one event | what looks current was read, evidence, consent but where the LLM step was skipped, named files, recovery by two runs |
| `page_reading_llm` | the same bodies, one revision, 2 events | a violation |
| `matching` | 3 pages, 2 identifiers, 1 name each or a mark of it, one that may refuse AI input; 2 runs, 1 page that changes, 2 answers, 1 lost step or cut, 2 candidates and 2 questions | nobody waits in vain; deciders join a page once; a name joins where it is settled; persons outrank; flags wait |
| `taxonomy_review` | 3 values, 3 definitions of which one has another scope, 2 callers, 2 runs, 4 versions, 3 log entries, autonomy after 1 acceptance | autonomy earned, settled once, exact undoing, the scope but after a crossed write |

Why the bounds are enough to be worth something:

- *Publication.* Two runs are what it takes to overlap; three tries, two of them of one run, put two
  executions of one step beside a third of another run; two answers can both be about one snapshot, one
  publishing while the other discards. One removal is allowed, so with two products the guard both trips
  and passes. A third run brings no new pair; the proofs do not depend on the number.
- *CrawlJob.* Three tasks are two workers that count at the same time and a page that comes late; two
  requests are enough to write a stale status. With `MaxPages = 2` the budget cuts the link off in some
  behaviours. One fault is one crash at any point; it reaches every failure action.
- *HostGate.* With `BackoffMax = 3` and time up to 4 there are three strains in a row, so the
  break grows and meets its cap; `Hour = 2` and `Day = 3` let robots.txt be read again after an outage,
  a challenge, and a good read; `RetryAfter` is absent, shorter and longer than the break; a wait of one
  is taken inside the step and a longer one outside; the second put-off gives up. Time ends at
  `MaxTime`, so deadlock is not checked.

- *LocalRun.* The number of runs is not bounded, only what goes wrong in them: one crash, late page or
  failed reconciliation, at any point, then as many runs as one likes. The budget is smaller than the
  number of pages, so it is spent over several runs and requeued pages compete for it. The concurrency is
  1, so that the semaphore holds pages back within that budget; two pages in flight at once are left to
  the proofs, which hold for any concurrency.

- *SourcePages.* One page is enough, since pages meet only in the source's row, and what another page
  answers is what `heard` may be. Three runs, of which two overlap, let a run be overtaken; every limit
  is 2, so both the first and the last of a streak occur. The proofs hold for any limits and overlaps.
- *PageReading.* The second body says more than the first, and the second revision reads less from
  it, so statements come, stay and go. The first body leaves the LLM something to fill under the first
  revision only, the second under both, so the step is skipped, refused, asked and reused. Three runs are one that goes wrong, and the two that make up for
  it. One event and one step that runs again, at any point, meet every write of a run.
- *TaxonomyReview.* Two values can join, and one can take the name the other would have. Two runs overlap
  in everything they share. Three entries of the log are an acceptance, what it earns, and what breaks
  it. Two callers cross, also one that applies with one that seeds; of three definitions two have one
  scope, so an application with a new scope crosses one without. `MCExplored` keeps that within reach: definitions
  are applied, and the taxonomy is seeded, while the log has fewer than two entries and no review has run
  again, and requests cross only until a second review begins. The proofs have no such bounds.

- *Matching.* Three pages are two records and a page between them: two pages with different identifiers
  share a name, and the third gives the name alone, a name that differs by a mark, or one of the
  identifiers with a refusal of AI input, so a name is contested, shared, split off and joined, and rule, decider
  and consent each answer. `MaxCandidates = 2` is every other record a page can face; `MaxQuestions = 2`
  both cuts and doesn't. Two runs are a verdict and what the next run makes of it, or a
  cut-off run and the one that meets what it left; two answers of people disagree. Three runs with
  three answers, with every mode (that of a dataset that allows no AI input too) and no fault, were checked once with `MaxCandidates = 1` and show no more.

Deadlock is checked for `LocalRun`, where some run can always be started. Elsewhere a dataset, a job, and
time may simply come to their end.

The symmetry of tries of one run, answers and products is used only in runs that check safety.

## Findings

Three runs check what a document or comment says and find that the code does not do it; `PROJECT.json`
quotes the lines.

1. `local_run_done`. The crawl loop ends when the queue and the table are empty, also while pages are in
   flight. Links that these find are written and left, so a project with one seed is completed after one
   page, and every further run goes one level deeper.
2. `source_removed`. A run that loaded the definition with a source lists its pages after the owner
   applied one without it: the pages are live, their source removed, and later runs fail on them.
3. `page_reading_llm`. The LLM's statements are written before the hash of the page they are about. A run
   that ends in between leaves statements that the next run takes for its answer to an older page.

## What the model also shows

These follow from the models, or from reading the code for them; no run of the project checks them.

- *Publication.* Two executions of a step that holds write one draft key (`publish.ts:242`): the row is
  the first's, the file the last's, and the owner publishes what the row does not describe. `publish()`
  reads the latest snapshot (`publish.ts:172`), and later the head generation (`:199`): an answer that publishes
  between the two passes the compare-and-set, and the run's snapshot follows one that the removal guard
  never saw, against ADR 0004. With `INVARIANT GuardedAgainstPredecessor` and the instance of
  `publication`, TLC finds it in seconds.
- *CrawlJob.* Statuses are checked when read and written unconditionally, or by workers without a check
  (`job-manager.ts:169`), so a job leaves `completed`, `failed` or `cancelled`. A page is completed
  before its links have rows, so a worker that counts in between reconciles the job and
  `job.completed` goes out with pages left (`crawl-worker.ts:208`); `SettledJobIsReconciled` shows that a later
  reconciliation makes up for it when nothing fails. Entities are deleted before the model is asked
  (`reconcile-orchestrator.ts:64`), and two reconciliation workers interleave.
- *HostGate.* A slot granted up to 15 seconds ahead is used even if the host asks for a break in
  the meantime (`requests.ts:132`). Two runs read one robots.txt, and the older answer may be stored last
  (`gate-port.ts:105`, `:118`). An answer is paced by the interval of the last reservation, which may be
  another dataset's (`gate.ts:223`).
- *LocalRun.* The recovery of crashed tasks looks for repository methods that do not exist, so pages in
  flight at a crash are never crawled again (`local-pipeline-runner.ts:494`). A crash between two seeds of
  the first run loses the later ones (`:357`).
- *Locks and breakers.* Of two processes that break one stale lock, one deletes the other's
  (`project-lock.ts:23`). The circuit breaker's state is captured before a call and used after it
  (`circuit-breaker.ts:83`).
- *PageReading.* A skipped LLM step comes before the refusal of AI input. `fetchItem` says of a page
  that the LLM read while its site now says ai-input=no that "the LLM step withdraws what the LLM
  said and clears its hash" (`refresh.ts:969`-`974`). But `askLlm` returns before it looks at the
  refusal if nothing is left for the LLM to fill (`:1524`): nothing is withdrawn, and the page is
  marked current. And a step that is skipped, also for want of an LLM (`:1536`), leaves the hash as
  it was, so a mark may stand whose hash says nothing of what the LLM said since. So `ConsentHeld`,
  which is `ConsentHeldUnlessSkipped` without its condition, does not hold. TLC finds, with
  `INVARIANT ConsentHeld` and the instance of `page_reading`, in half a minute: a page is marked
  when no LLM is configured; the step runs again, the LLM answers, and the run ends before the page
  is marked again; the site refuses; the next run finds the mark current and no hash, and withdraws
  nothing. With `MaxLost = 0` it finds: the LLM reads a page; a revision leaves it nothing to fill;
  the site refuses; the next run skips the step and marks the page under the new revision with the
  LLM's statements on it.
- *SourcePages and PageReading.* A page read by two answers of one step (`fetches.ts:82`). A 304 under a
  new refusal of AI input leaves the mark, and a new revision leaves a question asked of the LLM as it
  is. A body whose file another dataset or an unfinished purge deleted is missed only when the page is
  read again. `applyDefinition` reads the revision outside its transaction, so two applications at once
  can store two definitions under one.
- *Matching.* `applyVerdict` judges a page "unsure" and opens the question in two commits
  (`match.ts:256`, `:269`). A run that is cut off in between leaves a page that every later resolution lets wait
  for a person, with no question for one (when a decider had weighed it, or none can be asked): without its
  condition on `used.torn`, `NobodyWaitsInVain` is violated. In the same way a decision that was saved and
  never judged is used later without the look at what else the page is judged to join, and two deciders'
  joins dispute the page. A match step that read the reviewer's answer (`match.ts:119`) puts it back over
  the owner's, who replaced it meanwhile: both are a person's. A person's answer that comes while a
  resolution plans is not seen by it: the page may join another record than the one the person
  names. An owner's "apart" in place of a reviewer's "same" does not undo the join that
  a run made in between, though the answer says that the page stays apart.
- *TaxonomyReview.* "The taxonomy keeps to the definition's scope" (`datasets.ts:240`), but an application reads the
  taxonomy outside the transaction that writes (`:241`), and seeding reads the definition before its own
  (`api.ts:841`). With `INVARIANT ScopeIsTheDefinitions`, which is `ScopeKept` without its condition, TLC finds in
  seconds that a definition applied while the taxonomy is seeded leaves it with the earlier one's scope; two
  definitions applied at once do the same. It stays so until the next application that finds the scopes apart.

## Proofs

Each theorem holds for all values of the constants under the module's named assumptions, which say that
the sets of actors are disjoint, that limits are natural numbers, and that owners (`runOf`, `jobOf`,
`parent`, `interval`) are functions of the right kind.

- **Publication.** `TypeCorrect` in `PublicationProofs`; everything else from the inductive invariant
  `IInv` (theorem `Invariant`). The safety properties are not inductive by themselves. A generation is
  taken once only because exactly published rows have one, at most the head (`RowsMatchState`), and a
  file stays as published only because its writer has nothing left to write (the same). Start order
  needs that starts are distinct and only started runs have rows (`StartsOrdered`) and that what is held
  is newer than all that was made (`HeldIsNewest`), which also gives `AtMostOneHeld`. That an answer
  never retries needs that the head stands still while the snapshot it is about is held
  (`HeadStandsStill`): every path that moves the head supersedes or releases what is held in the same
  transaction. `Implements` maps the initial states and every step to `PublishedHistory`.
  `LetsIn` (the owner lets each definition in) needs `LetInInv`: a run loads its definition once
  (`LoadedOnce`), the revision a try read with the previous snapshot is a published one's whatever is
  published since (`PreviousRead`), and what the gates let through is of that revision (`GatesPassed`).
- **SourcePages.** A page's `goneBy` is paid for by `ListingInv`: the misses counted since it was last
  listed are as many complete reads, each newer, because a read counts only as the newest so far
  (`readAt`). `StandingInv` and `CountedInv` say the same of blocked runs: a run's count comes after every
  counted one or is a repetition. For `BlocksCountOnce`: behind a page whose last answer is a block stands a
  run that hasn't taken its blocks back and is no newer than the page's last fetch (`BlameInv`).
  `CountSaysTheSame` is in the
  invariant itself: what a count that runs again would say follows from what the first one wrote.
- **TaxonomyReview.** `StreakInv`: a kind's streak is the number of its acceptances since the log's last
  break, so what is applied has earned it when it is logged (`Earns`). `Settles` from: only an open
  proposal is decided, and a version's proposal says that version. `Undoes` needs the history
  (`HistoryInv`: each version is the one before with its change), that undone versions came before, and
  `RetiredInv`: a retirement that hasn't been undone is its value's only one, and left it the name it
  had, for nothing else brings a value back. `Scopes` needs what a request has read (`ReadInv`): until it
  is overtaken, the scope it found is the taxonomy's, at whatever version it is by now.
- **Matching.** `FlagsWait` needs only the rows' types: each write of a question's row, a run's or a
  person's, keeps the flag or is the owner's answer. `Outranks` likewise, of judgements. `Settles` is about
  a whole resolution: `NamesOK` says of each page that joined by its name that its record owns the name,
  that every page of the name that has joined has that record, and that only pages known by a name
  alone are left, which find the same (`PlannedByName`). That is where the order of the three groups comes in: a page
  with an identifier, planned later, could make another record carry the name. `Agree` from `AgreeOK`:
  a saved decision that would join has been judged or is about to be, and a step that is about to save or
  judge one is about a page that deciders have joined to nothing else. `NobodyWaits` needs the history
  behind each wait (`AskedInv`): a pair judged unsure has its question open or is about to (`UnsureIsAsked`),
  a decision's own question is closed only by a person (`ClosedByPerson`), and a step acts on the decision as it is
  saved (`ActsOnDecision`). The rest is about one resolution: every page it lets wait is planned behind a pair or
  a name.
- **HostGate.** `GateInv`: the next slot is an interval after the last answer (`AfterAnswers`) and
  after every slot that was given out (`AfterSlots`), the stored break covers each break owed
  (`AfterBreaks`), and rules in force are what the host last said (`RulesAsTold`). Each conjunct is what
  one action property (`AnswersPaced`, `BreaksRespected`, `AskedAsTold`) or invariant (`SlotsApart`)
  needs of the state before the step.
- **CrawlJob.** `NotForgotten` from `RowsBySenders`: a row and its message are one sender's to make, each
  once (`RowFirst`, `LeftWithoutRow`, `SentWithoutMessage`, `SeedsUntouched`). `NotDoubled` from
  `EntitiesInHand`, and from the assumption, in its statement, that there is one reconciliation worker:
  what a reconciliation has yet to make, it has deleted. The repository's deployments run one, with
  concurrency 1; with two the property does not hold. `Settled` under the same assumption, from
  `EndsReconciled`: in a job with a completed page somebody will still look whether it is complete (`InWork`), a
  reconciliation is on its way (`Asked`), one that saw every extraction makes their entities (`BeingMade`), or
  each has its own (`AllMade`). So a reconciliation that came too early is always followed by another, as the page
  it missed is still in work. `LinkAssumption` (a link is of its page's job) is what keeps jobs apart.

- **LocalRun.** `OnceInHand` needs that what is in hand has a row (`InHandHasRow`), since new links are
  those without. `BudgetKept` from `ClaimsInBudget`: what is completed, in flight or held back never
  outnumbers the loop's count, which a new run starts from what is completed. `CompletedRunIsReconciled`
  from `Quiet`: after a drain without trouble nothing is in flight to add an extraction.

- **PageReading.** `TypeCorrect` holds for any number of runs at once. The rest assumes, in its statement,
  `MaxOverlap <= 1`, and comes from `OneRunInv`: `PageInv` of the page, and for the run that goes, `RunInv`.
  None of the five properties is inductive.
  For `ReadIfCurrent`, the fetch step must change the mark with the copy (`ViewKept`: the page is as the run
  loaded it, but for what its logged answers changed), and what is read must be what is stored, unless two answers
  came (`ReadsTheCopy`). For `Evidence`, what a cleanup has chosen stays unused until its rows go
  (`PrunesUnused`), since no other step of the run cites or captures in between.
  `Consent` and `Recovers` say what a run *leaves* if nothing befalls it, so `QuietRun` follows such a run from
  step to step: what it finds (`Ready`: the page is read, or will be), is told, reads and leaves (`IsRead`,
  `Consents`). `Ready` is what makes the second run the last: after the first, the page is read, or has
  forgotten a copy whose file was gone.
  `Consent` excepts pages marked when the LLM step was skipped, which the code leaves as they are.
  The attempt to prove it was a finding about the model: the property used to hold without a
  condition on `wavered`, but only because one event is too few to break it. With five, a step that is told
  of the refusal and then not leaves the LLM's statements on a page whose last logged answer is the refusal.

Only model-checked: `JobEnds`, `RunEnds` and `PendingIsCrawled`, which are liveness under fairness and beyond the
proof system, like ENABLED. Every invariant and every action property of a passing run is a theorem.

The type invariants (`TypeOK`) of publication, jobs, the gate, the local runner and sources are proved and
no longer part of a run.

## Not modelled

Serialisation and rendering; the content of pages, records, and robots.txt; the LLM; HTTP; BullMQ's own
retries, which the code sets per queue and the models take as messages that come once. `CheckQuota` is
modelled with one job, which cannot exceed a quota. The steps of a run that classify pages and
decide values of the taxonomy are data: their results are statements, which `Publication` lets change
while runs go. So are the pure functions on text (keys, similarity, survivorship, extraction, URL
normalisation).

Of the crawl product, schema evolution with its Redis lease, dead letters, webhook deliveries, the
cleanup, the circuit breaker and the project lock have no module; each is a few writes around calls, and
what reading them shows is under "What the model also shows". Crawlers, exporters, APIs, CLIs and
consoles are I/O. `PROJECT.json` lists every component with its status, and every hazard no property
covers with the reason.
