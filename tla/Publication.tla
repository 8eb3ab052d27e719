---------------------------- MODULE Publication ----------------------------
(***************************************************************************)
(* Snapshots of one dataset of the platform: how a run's records become a  *)
(* snapshot that is published or held (platform/worker/src/publish.ts),    *)
(* the transactions that change a snapshot's state                         *)
(* (platform/store/src/snapshots.ts), the runs that may overlap            *)
(* (platform/store/src/runs.ts, platform/worker/src/api.ts), and the       *)
(* owner's answers to the question about a held snapshot                   *)
(* (platform/worker/src/review.ts).                                        *)
(*                                                                         *)
(* A step of a Workflow runs at least once and may run twice at the same   *)
(* time, so a run executes its snapshot step in several TRIES.  Every read *)
(* a try makes is a step of its own; every database transaction is one     *)
(* step, since it holds the dataset's row from its start (lockDataset).    *)
(***************************************************************************)
EXTENDS Integers, FiniteSets

CONSTANTS
    Run,          \* the dataset's runs
    Try,          \* executions of a run's snapshot step
    Answer,       \* the owner's requests about a held snapshot
    Product,      \* what a record is about
    NoRun,        \* no run
    runOf,        \* [Try -> Run]
    Approval,     \* the dataset's approval preset
    MaxRemovals,  \* gates.maxRemovals.count
    MaxShare,     \* gates.maxRemovals.share, in percent
    MaxRevision,  \* bound: how often a definition is applied
    MaxEdits      \* bound: how often the statements change

(* A snapshot's ID is made from its run's, so a run stands for its         *)
(* snapshot, and for the key of its draft; a publication's file has a key  *)
(* of its writer's own.                                                    *)
Key == Run \cup Try \cup Answer

ASSUME TryAssumption == runOf \in [Try -> Run]
ASSUME RunAssumption == NoRun \notin Run
ASSUME KeyAssumption ==
    Run \cap Try = {} /\ Run \cap Answer = {} /\ Try \cap Answer = {}
ASSUME GateAssumption ==
    /\ Approval \in {"auto", "balanced", "manual"}
    /\ MaxRemovals \in Nat
    /\ MaxShare \in Nat

PublishAttempts == 3

VARIABLES
    \* The runs, and their Workflows.
    clock,         \* how many runs have started
    startedAt,     \* runs.started_at: the run's place in the order, 0 if none
    status,        \* runs.status
    workflow,      \* where the run's Workflow is
    loadedAt,      \* the definition revision the run loaded
    \* The dataset.
    revision,      \* datasets.revision
    records,       \* the products whose record is complete, as statements stand
    edits,         \* how often they have changed
    headGen,       \* datasets.head_generation
    \* The rows of snapshots, one for each run at most, and their questions.
    state,         \* "none" while there is no row
    generation,    \* 0 while the row has none
    revisionOf,    \* the definition revision its records came from
    recordsOf,     \* what its records_sha256 is the hash of
    keyOf,         \* the key of its file
    heldReason,    \* whether the gates gave a reason to hold it
    question,      \* the review item about it
    \* The blob store.
    files,
    \* What each try of a snapshot step knows.
    pc, built, prev, prevRevision, nextGen,
    \* What each of the owner's requests knows.
    apc, about, draft, answerGen, attempt

runVars == <<clock, startedAt, status, workflow, loadedAt>>
dataVars == <<revision, records, edits>>
rowVars == <<state, generation, revisionOf, recordsOf, keyOf, heldReason>>
storeVars == <<headGen, rowVars, question>>
tryVars == <<pc, built, prev, prevRevision, nextGen>>
answerVars == <<apc, about, draft, answerGen, attempt>>
vars == <<runVars, dataVars, storeVars, files, tryVars, answerVars>>

NoFile == [gen |-> -1, records |-> {}]

Init ==
    /\ clock = 0
    /\ startedAt = [r \in Run |-> 0]
    /\ status = [r \in Run |-> "none"]
    /\ workflow = [r \in Run |-> "none"]
    /\ loadedAt = [r \in Run |-> 0]
    /\ revision = 1
    /\ records = {}
    /\ edits = 0
    /\ headGen = 0
    /\ state = [r \in Run |-> "none"]
    /\ generation = [r \in Run |-> 0]
    /\ revisionOf = [r \in Run |-> 0]
    /\ recordsOf = [r \in Run |-> {}]
    /\ keyOf = [r \in Run |-> r]
    /\ heldReason = [r \in Run |-> FALSE]
    /\ question = [r \in Run |-> "none"]
    /\ files = [k \in Key |-> NoFile]
    /\ pc = [t \in Try |-> "idle"]
    /\ built = [t \in Try |-> {}]
    /\ prev = [t \in Try |-> NoFile]
    /\ prevRevision = [t \in Try |-> 0]
    /\ nextGen = [t \in Try |-> 0]
    /\ apc = [a \in Answer |-> "idle"]
    /\ about = [a \in Answer |-> NoRun]
    /\ draft = [a \in Answer |-> {}]
    /\ answerGen = [a \in Answer |-> 0]
    /\ attempt = [a \in Answer |-> 0]

(***************************************************************************)
(* What the snapshot table says.                                           *)
(***************************************************************************)
Made(r) == state[r] # "none"
IsHeld(r) == state[r] = "held"
IsPublished(r) == state[r] = "published"

(* Variant: only a snapshot that waits counts, not one in any state.       *)
OvertakenByHeld(r) == \E q \in Run : IsHeld(q) /\ startedAt[q] > startedAt[r]

(* newerRunSnapshot: a run that started after r has a snapshot, whatever   *)
(* became of it.                                                           *)
Overtaken(r) == \E q \in Run : Made(q) /\ startedAt[q] > startedAt[r]

(* latestSnapshot.                                                         *)
IsLatest(r) ==
    /\ IsPublished(r)
    /\ \A q \in Run : IsPublished(q) => generation[q] <= generation[r]

(* Variant: the questions of what is superseded stay open.                 *)
SupersedeQuietly ==
    /\ state' = [r \in Run |-> IF IsHeld(r) THEN "superseded" ELSE state[r]]
    /\ UNCHANGED question

(* supersedeHeld: what is held is superseded, and its question dismissed.  *)
SupersedeHeld ==
    /\ state' = [r \in Run |-> IF IsHeld(r) THEN "superseded" ELSE state[r]]
    /\ question' = [r \in Run |-> IF IsHeld(r) /\ question[r] = "open"
                                  THEN "dismissed" ELSE question[r]]

(* Variant: the row goes in beside what is held.                           *)
StoreRowBeside(r, rowState) ==
    /\ state' = [state EXCEPT ![r] = rowState]
    /\ question' = [question EXCEPT ![r] = IF rowState = "held" THEN "open" ELSE question[r]]

(* The same in the transaction that stores r's row, in the state given,    *)
(* with the question it opens.                                             *)
StoreRow(r, rowState) ==
    /\ state' = [q \in Run |-> IF q = r THEN rowState
                                ELSE IF IsHeld(q) THEN "superseded" ELSE state[q]]
    /\ question' = [q \in Run |-> IF q = r
                                  THEN IF rowState = "held" THEN "open" ELSE question[q]
                                  ELSE IF IsHeld(q) /\ question[q] = "open"
                                       THEN "dismissed" ELSE question[q]]

(***************************************************************************)
(* Runs.                                                                   *)
(***************************************************************************)

(* startRunAlone: no other run's row says it is running.                   *)
StartRun(r) ==
    /\ status[r] = "none"
    /\ \A q \in Run : status[q] # "running"
    /\ clock' = clock + 1
    /\ startedAt' = [startedAt EXCEPT ![r] = clock + 1]
    /\ status' = [status EXCEPT ![r] = "running"]
    /\ workflow' = [workflow EXCEPT ![r] = "created"]
    /\ UNCHANGED <<loadedAt, dataVars, storeVars, files, tryVars, answerVars>>

(* The load step: the run keeps the definition it found.                   *)
Load(r) ==
    /\ workflow[r] = "created"
    /\ workflow' = [workflow EXCEPT ![r] = "going"]
    /\ loadedAt' = [loadedAt EXCEPT ![r] = revision]
    /\ UNCHANGED <<clock, startedAt, status, dataVars, storeVars, files, tryVars, answerVars>>

(* viewRun reads the Workflow as stopped or lost, and the next start       *)
(* records the run failed, though its Workflow may run on.                 *)
RecordLost(r) ==
    /\ status[r] = "running"
    /\ status' = [status EXCEPT ![r] = "failed"]
    /\ UNCHANGED <<clock, startedAt, workflow, loadedAt, dataVars, storeVars, files, tryVars, answerVars>>

(* finishRun: a complete run stays complete, a failed one can complete.    *)
Finish(r) ==
    /\ workflow[r] = "stepped"
    /\ workflow' = [workflow EXCEPT ![r] = "ended"]
    /\ status' = [status EXCEPT ![r] = "complete"]
    /\ UNCHANGED <<clock, startedAt, loadedAt, dataVars, storeVars, files, tryVars, answerVars>>

(* A step's retries are spent, before the snapshot step, in it, or after   *)
(* it: the run's fail step records it, whatever the run published.         *)
Fail(r) ==
    /\ workflow[r] \in {"created", "going", "stepped"}
    /\ workflow' = [workflow EXCEPT ![r] = "ended"]
    /\ status' = [status EXCEPT ![r] = IF status[r] = "complete" THEN "complete" ELSE "failed"]
    /\ UNCHANGED <<clock, startedAt, loadedAt, dataVars, storeVars, files, tryVars, answerVars>>

(* A failed Workflow restarted by hand, from its finished steps: it loads  *)
(* its definition only once.                                               *)
Restart(r) ==
    /\ workflow[r] = "ended"
    /\ status[r] = "failed"
    /\ workflow' = [workflow EXCEPT ![r] = IF loadedAt[r] = 0 THEN "created" ELSE "going"]
    /\ UNCHANGED <<clock, startedAt, status, loadedAt, dataVars, storeVars, files, tryVars, answerVars>>

(* Statements are written by the runs that are going, and by the answers   *)
(* and claims of people at any time.                                       *)
EditRecords ==
    /\ edits < MaxEdits
    /\ edits' = edits + 1
    /\ records' \in (SUBSET Product) \ {records}
    /\ UNCHANGED <<runVars, revision, storeVars, files, tryVars, answerVars>>

(* applyDefinition with a changed definition.                              *)
ApplyDefinition ==
    /\ revision < MaxRevision
    /\ revision' = revision + 1
    /\ UNCHANGED <<runVars, records, edits, storeVars, files, tryVars, answerVars>>

(***************************************************************************)
(* publish(): one try of a run's snapshot step.                            *)
(***************************************************************************)
Goto(t, step) == pc' = [pc EXCEPT ![t] = step]

Forget(t) ==
    /\ built' = [built EXCEPT ![t] = {}]
    /\ prev' = [prev EXCEPT ![t] = NoFile]
    /\ prevRevision' = [prevRevision EXCEPT ![t] = 0]
    /\ nextGen' = [nextGen EXCEPT ![t] = 0]

(* The try returned a result, which the Workflow keeps for the step.       *)
Return(t) ==
    /\ Goto(t, "done")
    /\ Forget(t)
    /\ workflow' = [workflow EXCEPT ![runOf[t]] =
                        IF workflow[runOf[t]] = "going" THEN "stepped" ELSE workflow[runOf[t]]]
    /\ UNCHANGED <<clock, startedAt, status, loadedAt>>

(* The try threw, and the Workflow runs the step again.                    *)
Throw(t) ==
    /\ Goto(t, "idle")
    /\ Forget(t)
    /\ UNCHANGED runVars

(* snapshotOfRun and newerRunSnapshot.                                     *)
CheckMade(t) ==
    /\ pc[t] = "idle"
    /\ workflow[runOf[t]] = "going"
    /\ IF Made(runOf[t]) \/ Overtaken(runOf[t])
       THEN Return(t)
       ELSE Goto(t, "build") /\ UNCHANGED <<runVars, built, prev, prevRevision, nextGen>>
    /\ UNCHANGED <<dataVars, storeVars, files, answerVars>>

(* buildRecords from the current statements.                               *)
BuildRecords(t) ==
    /\ pc[t] = "build"
    /\ built' = [built EXCEPT ![t] = records]
    /\ Goto(t, IF records = {} THEN "supersede" ELSE "latest")
    /\ UNCHANGED <<prev, prevRevision, nextGen, runVars, dataVars, storeVars, files, answerVars>>

(* The latest published snapshot, and its records, read from its file.     *)
ReadLatest(t) ==
    /\ pc[t] = "latest"
    /\ \/ /\ \A r \in Run : ~IsPublished(r)
          /\ Goto(t, "waiting")
          /\ UNCHANGED <<prev, prevRevision>>
       \/ \E r \in Run :
            /\ IsLatest(r)
            /\ IF recordsOf[r] = built[t]
               THEN Goto(t, "supersede") /\ UNCHANGED <<prev, prevRevision>>
               ELSE /\ Goto(t, "waiting")
                    /\ prev' = [prev EXCEPT ![t] = files[keyOf[r]]]
                    /\ prevRevision' = [prevRevision EXCEPT ![t] = revisionOf[r]]
    /\ UNCHANGED <<built, nextGen, runVars, dataVars, storeVars, files, answerVars>>

(* The snapshot that waits: unchanged if it is of the same records and     *)
(* from the same definition.                                               *)
ReadWaiting(t) ==
    /\ pc[t] = "waiting"
    /\ IF \E r \in Run : /\ IsHeld(r)
                         /\ recordsOf[r] = built[t]
                         /\ revisionOf[r] = loadedAt[runOf[t]]
       THEN Return(t)
       ELSE Goto(t, "head") /\ UNCHANGED <<runVars, built, prev, prevRevision, nextGen>>
    /\ UNCHANGED <<dataVars, storeVars, files, answerVars>>

(* headGenerationOf: the snapshot's generation is the one after.           *)
ReadHead(t) ==
    /\ pc[t] = "head"
    /\ Goto(t, "gates")
    /\ nextGen' = [nextGen EXCEPT ![t] = headGen + 1]
    /\ UNCHANGED <<built, prev, prevRevision, runVars, dataVars, storeVars, files, answerVars>>

TooManyRemoved(before, after) ==
    LET removed == Cardinality(before \ after)
    IN  \/ removed > MaxRemovals
        \/ removed * 100 > Cardinality(before) * MaxShare

(* Variant: balanced approval forgets that the definition changed.         *)
GatesForgetRevision(t) ==
    /\ revision = loadedAt[runOf[t]]
    /\ ~TooManyRemoved(prev[t].records, built[t])
    /\ Approval # "manual"
    /\ Approval = "balanced" => prev[t] # NoFile

(* checkGates.                                                             *)
GatesOpen(t) ==
    LET loaded == loadedAt[runOf[t]]
    IN  /\ revision = loaded
        /\ ~TooManyRemoved(prev[t].records, built[t])
        /\ Approval # "manual"
        /\ Approval = "balanced" => prev[t] # NoFile /\ prevRevision[t] = loaded

(* A held snapshot's file goes to the key its run's snapshot has.          *)
CheckGates(t) ==
    /\ pc[t] = "gates"
    /\ IF GatesOpen(t)
       THEN Goto(t, "commit") /\ UNCHANGED files
       ELSE /\ Goto(t, "hold")
            /\ files' = [files EXCEPT ![runOf[t]] = [gen |-> 0, records |-> built[t]]]
    /\ UNCHANGED <<built, prev, prevRevision, nextGen, runVars, dataVars, storeVars, answerVars>>

(* Variant: all tries of a run's step write one file.                      *)
RunKey(t) == runOf[t]

(* The key of a publication's file: newId('try') makes it the try's own.   *)
TryKey(t) == t

(* The rest of the row that goes in with t's snapshot.                     *)
FillRow(t, gen, key, held) ==
    LET r == runOf[t]
    IN  /\ generation' = [generation EXCEPT ![r] = gen]
        /\ revisionOf' = [revisionOf EXCEPT ![r] = loadedAt[r]]
        /\ recordsOf' = [recordsOf EXCEPT ![r] = built[t]]
        /\ keyOf' = [keyOf EXCEPT ![r] = key]
        /\ heldReason' = [heldReason EXCEPT ![r] = held]

(* Variant: the head is set, not compared and set.                         *)
CommitWithoutCompare(t) ==
    /\ pc[t] = "commit"
    /\ files' = [files EXCEPT ![TryKey(t)] = [gen |-> nextGen[t], records |-> built[t]]]
    /\ ~Overtaken(runOf[t])
    /\ ~Made(runOf[t])
    /\ headGen' = nextGen[t]
    /\ StoreRow(runOf[t], "published")
    /\ FillRow(t, nextGen[t], TryKey(t), FALSE)
    /\ Return(t)
    /\ UNCHANGED <<dataVars, answerVars>>

(* unlessNewerRun around commitSnapshot: overtaken; the head moved first,  *)
(* or the run's row is there already, so the insert breaks the primary key *)
(* and the transaction is rolled back; or the head moves and the row goes  *)
(* in, and what was held is superseded.                                    *)
CommitSnapshot(t) ==
    /\ pc[t] = "commit"
    /\ files' = [files EXCEPT ![TryKey(t)] = [gen |-> nextGen[t], records |-> built[t]]]
    /\ \/ /\ Overtaken(runOf[t])
          /\ Return(t)
          /\ UNCHANGED storeVars
       \/ /\ ~Overtaken(runOf[t])
          /\ headGen # nextGen[t] - 1 \/ Made(runOf[t])
          /\ Throw(t)
          /\ UNCHANGED storeVars
       \/ /\ ~Overtaken(runOf[t])
          /\ headGen = nextGen[t] - 1
          /\ ~Made(runOf[t])
          /\ headGen' = nextGen[t]
          /\ StoreRow(runOf[t], "published")
          /\ FillRow(t, nextGen[t], TryKey(t), FALSE)
          /\ Return(t)
    /\ UNCHANGED <<dataVars, answerVars>>

(* Variant: the held snapshot goes in without asking for newer runs.       *)
HoldUnguarded(t) ==
    /\ pc[t] = "hold"
    /\ IF Made(runOf[t])
       THEN UNCHANGED storeVars
       ELSE /\ StoreRow(runOf[t], "held")
            /\ FillRow(t, 0, runOf[t], TRUE)
            /\ UNCHANGED headGen
    /\ Return(t)
    /\ UNCHANGED <<dataVars, files, answerVars>>

(* unlessNewerRun around holdSnapshot: a snapshot that is stored already   *)
(* changes nothing.                                                        *)
HoldSnapshot(t) ==
    /\ pc[t] = "hold"
    /\ IF Overtaken(runOf[t]) \/ Made(runOf[t])
       THEN UNCHANGED storeVars
       ELSE /\ StoreRow(runOf[t], "held")
            /\ FillRow(t, 0, runOf[t], TRUE)
            /\ UNCHANGED headGen
    /\ Return(t)
    /\ UNCHANGED <<dataVars, files, answerVars>>

(* No record is complete, or the published records are found again: what   *)
(* is held is out of date, unless a newer run has a snapshot.              *)
SupersedeStale(t) ==
    /\ pc[t] = "supersede"
    /\ IF Overtaken(runOf[t]) THEN UNCHANGED <<state, question>> ELSE SupersedeHeld
    /\ Return(t)
    /\ UNCHANGED <<headGen, generation, revisionOf, recordsOf, keyOf, heldReason>>
    /\ UNCHANGED <<dataVars, files, answerVars>>

(* A try is cut off anywhere: a timeout, an exception, a restart.          *)
CutOff(t) ==
    /\ pc[t] \notin {"idle", "done"}
    /\ Throw(t)
    /\ UNCHANGED <<dataVars, storeVars, files, answerVars>>

(***************************************************************************)
(* The owner's answers to a publication question.                          *)
(***************************************************************************)
AGoto(a, step) == apc' = [apc EXCEPT ![a] = step]

(* answerReview finds the question open, and the answer is publish or      *)
(* discard.                                                                *)
AskAbout(a, r) ==
    /\ apc[a] = "idle"
    /\ question[r] = "open"
    /\ AGoto(a, "publish") \/ AGoto(a, "discard")
    /\ about' = [about EXCEPT ![a] = r]
    /\ UNCHANGED <<draft, answerGen, attempt, runVars, dataVars, storeVars, files, tryVars>>

(* publishHeldSnapshot reads the row, and the draft if it is still held.   *)
ReadDraft(a) ==
    /\ apc[a] = "publish"
    /\ IF IsHeld(about[a])
       THEN AGoto(a, "head") /\ draft' = [draft EXCEPT ![a] = files[about[a]].records]
       ELSE AGoto(a, "done") /\ UNCHANGED draft
    /\ UNCHANGED <<about, answerGen, attempt, runVars, dataVars, storeVars, files, tryVars>>

(* Variant: the generation is the head's own.                              *)
HeadGeneration(a) ==
    /\ apc[a] = "head"
    /\ AGoto(a, "commit")
    /\ answerGen' = [answerGen EXCEPT ![a] = headGen]
    /\ UNCHANGED <<about, draft, attempt, runVars, dataVars, storeVars, files, tryVars>>

NextGeneration(a) ==
    /\ apc[a] = "head"
    /\ AGoto(a, "commit")
    /\ answerGen' = [answerGen EXCEPT ![a] = headGen + 1]
    /\ UNCHANGED <<about, draft, attempt, runVars, dataVars, storeVars, files, tryVars>>

(* The owner's answer closes the question.                                 *)
Decide(r) == question' = [question EXCEPT ![r] = IF question[r] = "open"
                                                 THEN "decided" ELSE question[r]]

(* The file goes to a key of the answer's own, and publishHeld runs:       *)
(* stale; the head moved, so the next generation is tried, three times in  *)
(* all; or published.                                                      *)
PublishHeld(a) ==
    LET r == about[a]
    IN  /\ apc[a] = "commit"
        /\ files' = [files EXCEPT ![a] = [gen |-> answerGen[a], records |-> draft[a]]]
        /\ \/ /\ ~IsHeld(r)
              /\ AGoto(a, "done")
              /\ UNCHANGED <<attempt, headGen, state, generation, keyOf, question>>
           \/ /\ IsHeld(r)
              /\ headGen # answerGen[a] - 1
              /\ AGoto(a, IF attempt[a] + 1 < PublishAttempts THEN "head" ELSE "gaveUp")
              /\ attempt' = [attempt EXCEPT ![a] = attempt[a] + 1]
              /\ UNCHANGED <<headGen, state, generation, keyOf, question>>
           \/ /\ IsHeld(r)
              /\ headGen = answerGen[a] - 1
              /\ headGen' = answerGen[a]
              /\ state' = [state EXCEPT ![r] = "published"]
              /\ generation' = [generation EXCEPT ![r] = answerGen[a]]
              /\ keyOf' = [keyOf EXCEPT ![r] = a]
              /\ Decide(r)
              /\ AGoto(a, "done")
              /\ UNCHANGED attempt
        /\ UNCHANGED <<revisionOf, recordsOf, heldReason, about, draft, answerGen>>
        /\ UNCHANGED <<runVars, dataVars, tryVars>>

DiscardHeld(a) ==
    LET r == about[a]
    IN  /\ apc[a] = "discard"
        /\ IF IsHeld(r)
           THEN state' = [state EXCEPT ![r] = "discarded"] /\ Decide(r)
           ELSE UNCHANGED <<state, question>>
        /\ AGoto(a, "done")
        /\ UNCHANGED <<headGen, generation, revisionOf, recordsOf, keyOf, heldReason>>
        /\ UNCHANGED <<about, draft, answerGen, attempt, runVars, dataVars, files, tryVars>>

Next ==
    \/ \E r \in Run :
         StartRun(r) \/ Load(r) \/ RecordLost(r) \/ Finish(r) \/ Fail(r) \/ Restart(r)
    \/ EditRecords
    \/ ApplyDefinition
    \/ \E t \in Try :
         \/ CheckMade(t) \/ BuildRecords(t) \/ ReadLatest(t) \/ ReadWaiting(t)
         \/ ReadHead(t) \/ CheckGates(t) \/ CommitSnapshot(t) \/ HoldSnapshot(t)
         \/ SupersedeStale(t) \/ CutOff(t)
    \/ \E a \in Answer :
         \/ \E r \in Run : AskAbout(a, r)
         \/ ReadDraft(a) \/ NextGeneration(a) \/ PublishHeld(a) \/ DiscardHeld(a)

Spec == Init /\ [][Next]_vars

-----------------------------------------------------------------------------
(***************************************************************************)
(* Properties.                                                             *)
(***************************************************************************)
File == [gen : Int, records : SUBSET Product]

(* The types of the variables: the rows, review items, files, and what the *)
(* tries and the owner's requests know are of the shapes publish.ts and    *)
(* snapshots.ts give them.                                                 *)
TypeOK ==
    /\ clock \in Nat
    /\ startedAt \in [Run -> Nat]
    /\ status \in [Run -> {"none", "running", "complete", "failed"}]
    /\ workflow \in [Run -> {"none", "created", "going", "stepped", "ended"}]
    /\ loadedAt \in [Run -> Nat]
    /\ revision \in Nat
    /\ records \in SUBSET Product
    /\ edits \in Nat
    /\ headGen \in Nat
    /\ state \in [Run -> {"none", "held", "published", "superseded", "discarded"}]
    /\ generation \in [Run -> Nat]
    /\ revisionOf \in [Run -> Nat]
    /\ recordsOf \in [Run -> SUBSET Product]
    /\ keyOf \in [Run -> Key]
    /\ heldReason \in [Run -> BOOLEAN]
    /\ question \in [Run -> {"none", "open", "decided", "dismissed"}]
    /\ files \in [Key -> File]
    /\ pc \in [Try -> {"idle", "build", "latest", "waiting", "head", "gates",
                       "commit", "hold", "supersede", "done"}]
    /\ built \in [Try -> SUBSET Product]
    /\ prev \in [Try -> File]
    /\ prevRevision \in [Try -> Nat]
    /\ nextGen \in [Try -> Nat]
    /\ apc \in [Answer -> {"idle", "publish", "head", "commit", "discard", "gaveUp", "done"}]
    /\ about \in [Answer -> Run \cup {NoRun}]
    /\ \A a \in Answer : apc[a] # "idle" => about[a] \in Run
    /\ draft \in [Answer -> SUBSET Product]
    /\ answerGen \in [Answer -> Nat]
    /\ attempt \in [Answer -> Nat]

(* At most one snapshot of the dataset waits for the owner, without a      *)
(* unique index to say so (holdSnapshot).                                  *)
AtMostOneHeld == \A r, q \in Run : IsHeld(r) /\ IsHeld(q) => r = q

(* The generations of the published snapshots are 1 up to the head, each   *)
(* taken once, whichever of the publications raced for it.                 *)
GenerationsContiguous ==
    /\ \A r \in Run : IsPublished(r) => generation[r] \in 1..headGen
    /\ \A r, q \in Run : IsPublished(r) /\ IsPublished(q) /\ generation[r] = generation[q] => r = q
    /\ \A g \in 1..headGen : \E r \in Run : IsPublished(r) /\ generation[r] = g

(* Generations follow the order the runs started in: once a newer run has  *)
(* a snapshot, an older run's never follows it, published by the run or    *)
(* released by the owner.                                                  *)
PublishedInStartOrder ==
    \A r, q \in Run :
        IsPublished(r) /\ IsPublished(q) /\ generation[r] < generation[q]
            => startedAt[r] < startedAt[q]

(* A held snapshot's question closes with it, and only with it: the owner  *)
(* is asked about a snapshot exactly while it can be published.            *)
QuestionFollowsSnapshot == \A r \in Run : question[r] = "open" <=> IsHeld(r)

(* The file a published row names says the row's generation, and the       *)
(* records the run built unless it was held, though tries of one step and  *)
(* answers sent at once all wrote files for the same snapshot.             *)
FileMatchesRow ==
    \A r \in Run : IsPublished(r) =>
        LET file == files[keyOf[r]]
        IN  /\ file.gen = generation[r]
            /\ ~heldReason[r] => file.records = recordsOf[r]

(* Whatever moves the head leaves nothing held, so publishHeldSnapshot     *)
(* never finds the head moved under a snapshot that is still held, and     *)
(* never gives up.                                                         *)
AnswerNeverGivesUp == \A a \in Answer : apc[a] # "gaveUp" /\ attempt[a] = 0

(* Under balanced approval the owner lets each definition in: whatever is  *)
(* published from a definition revision, a snapshot made from the same     *)
(* revision was held first, and the owner published it.                    *)
OwnerLetsDefinitionIn ==
    Approval = "balanced" =>
        \A r \in Run : IsPublished(r) =>
            \E q \in Run : /\ IsPublished(q) /\ heldReason[q]
                          /\ generation[q] <= generation[r]
                          /\ revisionOf[q] = revisionOf[r]

(* The dataset's history, as its consumers may rely on it.                 *)
History == INSTANCE PublishedHistory WITH
    head <- headGen,
    number <- generation,
    waiting <- {r \in Run : IsHeld(r)},
    made <- {r \in Run : Made(r)}

(* Runs, retries, tries at once, and answers together implement it.        *)
ImplementsHistory == History!Spec

(* ADR 0004: the guard trips when a snapshot drops more of the last        *)
(* published records than the dataset allows.  So a run's own publication  *)
(* drops no more of the generation before it.  It does not hold: an answer *)
(* may publish between ReadLatest and ReadHead (README).                   *)
GuardedAgainstPredecessor ==
    \A r, q \in Run :
        /\ IsPublished(r) /\ IsPublished(q)
        /\ generation[q] = generation[r] + 1
        /\ ~heldReason[q]
        => ~TooManyRemoved(files[keyOf[r]].records, recordsOf[q])
-----------------------------------------------------------------------------
(***************************************************************************)
(* The inductive invariant the proofs rest on.                             *)
(***************************************************************************)

(* Started runs have a place of their own in the order, and only a started *)
(* run's step runs or makes a snapshot.                                    *)
StartsOrdered ==
    /\ \A r \in Run : startedAt[r] <= clock
    /\ \A r \in Run : status[r] = "none" => startedAt[r] = 0
    /\ \A r \in Run : workflow[r] # "none" => startedAt[r] > 0
    /\ \A t \in Try : pc[t] \notin {"idle", "done"} => startedAt[runOf[t]] > 0
    /\ \A r \in Run : Made(r) => startedAt[r] > 0
    /\ \A r, q \in Run : startedAt[r] = startedAt[q] /\ startedAt[r] > 0 => r = q

(* Exactly the published rows have a generation, and each names the file   *)
(* of a writer that has nothing left to write.                             *)
RowsMatchState ==
    \A r \in Run :
        /\ IsPublished(r) <=> generation[r] > 0
        /\ generation[r] <= headGen
        /\ IsHeld(r) => heldReason[r]
        /\ IsPublished(r) =>
              \/ /\ keyOf[r] \in Try
                 /\ runOf[keyOf[r]] = r
                 /\ pc[keyOf[r]] = "done"
              \/ /\ keyOf[r] \in Answer
                 /\ apc[keyOf[r]] = "done"

(* What is held is newer than every snapshot made.                         *)
HeldIsNewest == \A r \in Run : IsHeld(r) => ~Overtaken(r)

(* While a snapshot an answer is about is held, the head does not move.    *)
HeadStandsStill ==
    \A a \in Answer :
        /\ apc[a] # "idle" => Made(about[a])
        /\ apc[a] = "commit" /\ IsHeld(about[a]) => answerGen[a] = headGen + 1

IInv ==
    /\ TypeOK
    /\ StartsOrdered
    /\ RowsMatchState
    /\ HeldIsNewest
    /\ QuestionFollowsSnapshot
    /\ PublishedInStartOrder
    /\ GenerationsContiguous
    /\ FileMatchesRow
    /\ HeadStandsStill
    /\ AnswerNeverGivesUp

(* What OwnerLetsDefinitionIn rests on besides: a run loads its definition *)
(* once, before its step runs;                                            *)
LoadedOnce ==
    /\ revision > 0
    /\ \A r \in Run : status[r] = "none" => workflow[r] = "none"
    /\ \A r \in Run : workflow[r] \in {"none", "created"} => loadedAt[r] = 0
    /\ \A r \in Run : workflow[r] \in {"going", "stepped"} => loadedAt[r] > 0
    /\ \A t \in Try : pc[t] \notin {"idle", "done"} => loadedAt[runOf[t]] > 0

(* a try that read a previous snapshot knows the revision of one that is   *)
(* published, whatever was published since;                                *)
PreviousRead ==
    \A t \in Try :
        /\ pc[t] \in {"idle", "build", "latest"} => prev[t] = NoFile
        /\ pc[t] \in {"waiting", "head", "gates", "commit"} /\ prev[t] # NoFile =>
              \E r \in Run : IsPublished(r) /\ revisionOf[r] = prevRevision[t]

(* and one the gates let through, from the revision its run loaded.        *)
GatesPassed ==
    Approval = "balanced" =>
        \A t \in Try : pc[t] = "commit" =>
            prev[t] # NoFile /\ prevRevision[t] = loadedAt[runOf[t]]

LetInInv == LoadedOnce /\ PreviousRead /\ GatesPassed /\ OwnerLetsDefinitionIn

=============================================================================
