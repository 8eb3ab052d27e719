---------------------------- MODULE PageReading ----------------------------
(***************************************************************************)
(* A page of a dataset and its archive: how runs fetch the page, keep its  *)
(* body and its captures, and read its statements from them (fetchItem,    *)
(* rereadItem and extractItem of platform/worker/src/refresh.ts, captures  *)
(* of worker and store, recordFetch and recordExtraction of fetches.ts,    *)
(* writeStatements of statements.ts, and the purge of api.ts).             *)
(*                                                                         *)
(* A step of a run writes more than once: the body's file, the fetch, the  *)
(* capture, the statements, the mark that the page is read.  It may stop   *)
(* after any of them and run again, as long as its run goes on, or its run *)
(* may end there.  Meanwhile the site changes, the owner applies           *)
(* revisions and purges, and another dataset that held the same body may   *)
(* delete its file.                                                        *)
(*                                                                         *)
(* The record type has no taxonomy and no decided field, so reading a page *)
(* ends with the extract step, which asks an LLM for what is missing.      *)
(***************************************************************************)
EXTENDS Integers, FiniteSets

CONSTANTS
    Hash,           \* bodies, each under its hash
    NoHash,         \* no stored copy
    FirstSite,      \* the page's body at first; its site allows AI input then
    Value,          \* what pages say
    Says,           \* the values a body gives, under each revision
    Fills,          \* the revisions under which a body leaves the LLM something to fill
    Unsaid,         \* a value that no current statement has
    NoCapture,      \* the citation of a statement that cites none
    KeepEarlier,    \* CAPTURE_KEEP_EARLIER
    MaxRuns,        \* bound: runs
    MaxOverlap,     \* bound: runs that go at once
    MaxLost,        \* bound: steps that run again
    MaxRev,         \* bound: revisions
    MaxEvents       \* bound: what the site, the owner and other datasets do

ASSUME HashAssumption == NoHash \notin Hash /\ FirstSite \in Hash
ASSUME BoundAssumption ==
    /\ KeepEarlier \in Nat /\ MaxRuns \in Nat /\ MaxOverlap \in Nat /\ MaxLost \in Nat
    /\ MaxRev \in Nat \ {0} /\ MaxEvents \in Nat

Run == 1..MaxRuns
Rev == 1..MaxRev
Retry == 0      \* retryTag: no revision's mark

ASSUME SaysAssumption == Says \in [Hash -> [Rev -> SUBSET Value]] /\ Fills \in [Hash -> SUBSET Rev]

(* A capture's ID comes from its fetch, which a run and an attempt make,   *)
(* and its body.                                                           *)
CaptureId == Run \X (0..MaxLost) \X Hash
ASSUME CaptureAssumption == NoCapture \notin CaptureId /\ Unsaid \notin CaptureId \cup {NoCapture}

VARIABLES
    \* The site, the definition, and other datasets.
    site, noAi,     \* the page's body now, and whether its site says ai-input=no
    rev,            \* the definition's revision
    doomed,         \* the bodies another dataset found that nothing holds
    purging,        \* a purge has deleted files and not yet rows
    \* The files.
    bodies,         \* hashes with a file
    reads,          \* captures with a file of what was read
    \* The page's rows.
    stored,         \* items.contentHash, and the validators that came with it
    mark,           \* extractedWith: a revision, or what is none
    llmHash,        \* extractInputHash: the body the LLM was asked about
    lastRead,       \* lastOutcome is changed or unchanged
    refusal,        \* latestRead's signals: "yes" if ai-input=no, "none" before a read
    captures,
    cite,           \* the current statements, by value, with what they cite
    llm,            \* the body whose answer the LLM's statements are
    \* A run.
    clock, pc,
    knows,          \* context.revision
    view,           \* the page as its batch loaded it
    got,            \* the fetch step's result
    attempt, logged,
    asked,          \* what the LLM step came to
    pruning,        \* the captures the cleanup deletes, and the bodies it frees
    \* History.
    told,           \* the answers the run's fetch step got
    wavered,        \* a run's fetch step got different answers, and no run that got one read the page
    skipped,        \* the LLM step was skipped when the page was last marked
    damaged,        \* bodies deleted by another dataset or an unfinished purge
    spoiled,        \* runs that something befell
    smooth,         \* runs in a row, up to two, that nothing befell
    \* Bounds.
    lost, events, requests

worldVars == <<site, noAi, rev, doomed, purging, events>>
fileVars == <<bodies, reads, damaged>>
itemVars == <<stored, mark, llmHash, lastRead, refusal>>
saidVars == <<cite, llm>>
pageVars == <<itemVars, captures, saidVars, wavered, skipped>>
fetchVars == <<view, got, attempt, logged, told>>
restVars == <<asked, pruning>>
endVars == <<spoiled, smooth>>
vars == <<worldVars, fileVars, pageVars, clock, pc, knows, fetchVars, restVars, endVars, lost,
          requests>>

Going == {r \in Run : pc[r] \notin {"off", "ended"}}

NoView == [hash |-> NoHash, mark |-> Retry, llm |-> NoHash]
Nothing == [outcome |-> "none", hash |-> NoHash, full |-> FALSE, no |-> FALSE, current |-> FALSE,
            cap |-> NoCapture]
NoPrune == [ids |-> {}, freed |-> {}]

Init ==
    /\ site = FirstSite /\ noAi = FALSE /\ rev = 1 /\ doomed = {} /\ purging = FALSE
    /\ bodies = {} /\ reads = {} /\ damaged = {}
    /\ stored = NoHash /\ mark = Retry /\ llmHash = NoHash /\ lastRead = FALSE /\ refusal = "none"
    /\ captures = {}
    /\ cite = [v \in Value |-> Unsaid]
    /\ llm = NoHash
    /\ clock = 0
    /\ pc = [r \in Run |-> "off"]
    /\ knows = [r \in Run |-> 1]
    /\ view = [r \in Run |-> NoView]
    /\ got = [r \in Run |-> Nothing]
    /\ attempt = [r \in Run |-> 0]
    /\ logged = [r \in Run |-> FALSE]
    /\ asked = [r \in Run |-> "none"]
    /\ pruning = [r \in Run |-> NoPrune]
    /\ told = [r \in Run |-> {}]
    /\ wavered = FALSE /\ skipped = FALSE
    /\ spoiled = {} /\ smooth = 0
    /\ lost = 0 /\ events = 0 /\ requests = 0

(* The latest capture: the last one fetched.                               *)
Latest == CHOOSE c \in captures : \A d \in captures : d.at <= c.at

Held == {c.hash : c \in captures} \cup {stored}

Goto(r, to) == pc' = [pc EXCEPT ![r] = to]
Spoil(r) == spoiled' = spoiled \cup {r} /\ UNCHANGED smooth
SpoilAll == spoiled' = spoiled \cup Going /\ smooth' = 0

(* A step's last write is done: its result is kept, or it runs again.      *)
Done(r, next, first) ==
    \/ Goto(r, next) /\ UNCHANGED <<lost, endVars>>
    \/ lost < MaxLost /\ lost' = lost + 1 /\ Goto(r, first) /\ Spoil(r)

-----------------------------------------------------------------------------
(* A run starts and finds the page due.                                    *)

(* Not while a purge holds the dataset's lock.                             *)
Start(r) ==
    /\ r = clock + 1
    /\ ~purging
    /\ Cardinality(Going) < MaxOverlap
    /\ clock' = r
    /\ knows' = [knows EXCEPT ![r] = rev]
    /\ Goto(r, "plan")
    /\ UNCHANGED <<worldVars, fileVars, pageVars, fetchVars, restVars, endVars, lost, requests>>

(* dueItems: `outdated`, and its latest capture is of the stored copy.     *)
Outdated(r) ==
    /\ mark # knows[r] /\ lastRead
    /\ captures # {} /\ Latest.hash = stored

(* The plan, and the batch: the page as the run's steps see it.  A page    *)
(* that is due only for its statements is read again from its capture.     *)
Plan(r) ==
    /\ pc[r] = "plan"
    /\ view' = [view EXCEPT ![r] = [hash |-> stored, mark |-> mark, llm |-> llmHash]]
    /\ \/ Outdated(r) /\ Goto(r, "reread")
       \/ Goto(r, "fetch")
    /\ UNCHANGED <<worldVars, fileVars, pageVars, clock, knows, got, attempt, logged, told, restVars,
                   endVars, lost, requests>>

CanReread(r) ==
    /\ captures # {} /\ refusal # "none"
    /\ Latest.hash = view[r].hash /\ Latest.hash \in bodies

(* rereadOf: the latest read and its capture, as if the page were fetched  *)
(* unchanged.                                                              *)
Reread(r) ==
    /\ pc[r] = "reread"
    /\ IF CanReread(r)
       THEN /\ got' = [got EXCEPT ![r] =
                         [outcome |-> "unchanged", hash |-> Latest.hash, full |-> FALSE,
                          no |-> refusal = "yes", current |-> FALSE, cap |-> Latest.id]]
            /\ Goto(r, "extract")
       ELSE Goto(r, "fetch") /\ UNCHANGED got
    /\ UNCHANGED <<worldVars, fileVars, pageVars, clock, knows, view, attempt, logged, told, restVars,
                   endVars, lost, requests>>

-----------------------------------------------------------------------------
(* The fetch step.                                                         *)

(* The page's statements are this revision's, and not the LLM's where the  *)
(* site refuses it.                                                        *)
IsCurrent(r, no) == view[r].mark = knows[r] /\ ~(no /\ view[r].llm # NoHash)

(* The site answers: with the page, with 304 to the validators of the copy *)
(* the run loaded, or with no page.  A body that isn't that copy is kept   *)
(* before the fetch is logged.                                             *)
Fetch(r) ==
    /\ pc[r] = "fetch"
    /\ requests' = requests + 1
    /\ \/ /\ got' = [got EXCEPT ![r] =
                       [outcome |-> IF site = view[r].hash THEN "unchanged" ELSE "changed",
                        hash |-> site, full |-> TRUE, no |-> noAi,
                        current |-> IsCurrent(r, noAi), cap |-> NoCapture]]
          /\ bodies' = IF site = view[r].hash THEN bodies ELSE bodies \cup {site}
          /\ damaged' = IF site = view[r].hash THEN damaged ELSE damaged \ {site}
          /\ UNCHANGED endVars
       \/ /\ view[r].hash = site
          /\ got' = [got EXCEPT ![r] =
                       [outcome |-> "unchanged", hash |-> site, full |-> FALSE, no |-> noAi,
                        current |-> IsCurrent(r, noAi), cap |-> NoCapture]]
          /\ UNCHANGED <<bodies, damaged, endVars>>
       \/ /\ got' = [got EXCEPT ![r] = [Nothing EXCEPT !.outcome = "failed"]]
          /\ Spoil(r)
          /\ UNCHANGED <<bodies, damaged>>
    /\ Goto(r, "record")
    /\ UNCHANGED <<worldVars, reads, pageVars, clock, knows, view, attempt, logged, told, restVars, lost>>

MarkKept(g) == mark
MarkOf(g) == IF g.outcome = "changed" THEN Retry ELSE mark

(* recordFetch, in one transaction; an attempt that is in the log already  *)
(* writes nothing.  A changed page isn't current until it is read.         *)
Record(r) ==
    /\ pc[r] = "record"
    /\ IF logged[r] THEN UNCHANGED itemVars
       ELSE /\ stored' = IF got[r].full THEN got[r].hash ELSE stored
            /\ mark' = MarkOf(got[r])
            /\ lastRead' = (got[r].outcome # "failed")
            /\ refusal' = IF got[r].outcome = "failed" THEN refusal
                          ELSE IF got[r].no THEN "yes" ELSE "no"
            /\ UNCHANGED llmHash
    /\ logged' = [logged EXCEPT ![r] = TRUE]
    /\ told' = [told EXCEPT ![r] = @ \cup {<<got[r].hash, got[r].no>>}]
    /\ wavered' = (wavered \/ Cardinality(told'[r]) > 1)
    /\ Goto(r, "capture")
    /\ UNCHANGED <<worldVars, fileVars, captures, saidVars, skipped, clock, knows, view, got, attempt,
                   restVars, endVars, lost, requests>>

(* captureOf: a page read unchanged keeps its latest capture if that is of *)
(* the stored copy; otherwise the copy gets one, once for each fetch.      *)
Capture(r) ==
    LET g == got[r]
        id == <<r, attempt[r], g.hash>>
    IN
    /\ pc[r] = "capture"
    /\ \/ /\ g.outcome = "failed"
          /\ UNCHANGED <<captures, got>>
       \/ /\ g.outcome = "unchanged" /\ captures # {} /\ Latest.hash = g.hash
          /\ got' = [got EXCEPT ![r].cap = Latest.id]
          /\ UNCHANGED captures
       \/ /\ g.outcome = "changed" \/ (g.outcome = "unchanged" /\ ~(captures # {} /\ Latest.hash = g.hash))
          /\ got' = [got EXCEPT ![r].cap = id]
          /\ captures' = IF \E c \in captures : c.id = id THEN captures
                         ELSE captures \cup {[id |-> id, hash |-> g.hash, at |-> requests, named |-> FALSE]}
    /\ Goto(r, "resee")
    /\ UNCHANGED <<worldVars, fileVars, itemVars, saidVars, wavered, skipped, clock, knows, view, attempt, logged,
                   told, restVars, endVars, lost, requests>>

(* A value seen again keeps its citation, and takes this one if it has     *)
(* none.                                                                   *)
Citing(c, cap) == IF c = NoCapture THEN cap ELSE c

(* reseeStatements, for a page that is unchanged and current; and the end  *)
(* of the step.  Only a page that isn't current is read.                   *)
Resee(r) ==
    /\ pc[r] = "resee"
    /\ cite' = IF got[r].outcome = "unchanged" /\ got[r].current
               THEN [v \in Value |-> Citing(cite[v], got[r].cap)] ELSE cite
    /\ Done(r, IF \/ got[r].outcome = "changed"
                  \/ got[r].outcome = "unchanged" /\ ~got[r].current
               THEN "extract" ELSE "prune", "fetch")
    /\ UNCHANGED <<worldVars, fileVars, itemVars, captures, llm, wavered, skipped, clock, knows, fetchVars, restVars,
                   requests>>

(* A fetch step that runs again is put off by its host, and its next       *)
(* attempt logs a fetch of its own.                                        *)
PutOff(r) ==
    /\ pc[r] = "fetch" /\ logged[r]
    /\ logged' = [logged EXCEPT ![r] = FALSE]
    /\ attempt' = [attempt EXCEPT ![r] = @ + 1]
    /\ UNCHANGED <<worldVars, fileVars, pageVars, clock, pc, knows, view, got, told, restVars, endVars, lost,
                   requests>>

-----------------------------------------------------------------------------
(* The extract step.                                                       *)

ForgetNothing == stored' = stored

(* forgetStoredCopy: the next fetch stores the page again.                 *)
ForgetStoredCopy == stored' = NoHash

(* The page is read from its stored copy.  If the file is missing, the     *)
(* page forgets the copy.                                                  *)
Extract(r) ==
    /\ pc[r] = "extract"
    /\ \/ /\ got[r].hash \notin bodies
          /\ ForgetStoredCopy
          /\ Goto(r, "unread")
          /\ UNCHANGED endVars
       \/ /\ got[r].hash \in bodies
          /\ \/ Goto(r, "keep") /\ UNCHANGED endVars
             \/ Goto(r, "unread") /\ Spoil(r)   \* it can't be read
          /\ UNCHANGED stored
    /\ UNCHANGED <<worldVars, fileVars, mark, llmHash, lastRead, refusal, captures, saidVars, wavered, skipped, clock,
                   knows, fetchVars, restVars, lost, requests>>

Unread(r) ==
    /\ pc[r] = "unread"
    /\ mark' = Retry
    /\ Done(r, "prune", "extract")
    /\ UNCHANGED <<worldVars, fileVars, stored, llmHash, lastRead, refusal, captures, saidVars, wavered, skipped,
                   clock, knows, fetchVars, restVars, requests>>

KeepUnnamed(r) ==
    /\ pc[r] = "keep"
    /\ \/ /\ \E c \in captures : c.id = got[r].cap /\ ~c.named
          /\ Goto(r, "file")
       \/ Goto(r, "write")
    /\ UNCHANGED <<worldVars, fileVars, pageVars, clock, knows, fetchVars, restVars, endVars, lost, requests>>

(* storeRead: the capture's row names the file before it is written.       *)
(* keepRead goes on when this fails.                                       *)
Keep(r) ==
    /\ pc[r] = "keep"
    /\ \/ /\ \E c \in captures :
               /\ c.id = got[r].cap /\ ~c.named
               /\ captures' = (captures \ {c}) \cup {[c EXCEPT !.named = TRUE]}
          /\ Goto(r, "file")
       \/ /\ Goto(r, "write")
          /\ UNCHANGED captures
    /\ UNCHANGED <<worldVars, fileVars, itemVars, saidVars, wavered, skipped, clock, knows, fetchVars, restVars,
                   endVars, lost, requests>>

File(r) ==
    /\ pc[r] = "file"
    /\ reads' \in {reads, reads \cup {got[r].cap}}
    /\ Goto(r, "write")
    /\ UNCHANGED <<worldVars, bodies, damaged, pageVars, clock, knows, fetchVars, restVars, endVars, lost,
                   requests>>

(* writeStatements: what the page says is current, and nothing else is.  A *)
(* citation of a capture that isn't there fails the write.                 *)
Write(r) ==
    LET W == Says[got[r].hash][knows[r]] IN
    /\ pc[r] = "write"
    /\ \E c \in captures : c.id = got[r].cap
    /\ cite' = [v \in Value |-> IF v \notin W THEN Unsaid
                                ELSE IF cite[v] = Unsaid THEN got[r].cap
                                ELSE Citing(cite[v], got[r].cap)]
    /\ Goto(r, "llm")
    /\ UNCHANGED <<worldVars, fileVars, itemVars, captures, llm, wavered, skipped, clock, knows, fetchVars, restVars,
                   endVars, lost, requests>>

RefusedLlm(r) == llm' = llm /\ asked' = [asked EXCEPT ![r] = "cleared"] /\ UNCHANGED endVars

(* The site refuses AI input: what the LLM said is withdrawn.              *)
Refused(r) ==
    /\ llm' = NoHash
    /\ asked' = [asked EXCEPT ![r] = "cleared"]
    /\ UNCHANGED endVars

Skipped(r) == asked' = [asked EXCEPT ![r] = "skipped"] /\ UNCHANGED <<llm, endVars>>

(* The answer to a question it was asked before is reused; a new question  *)
(* is asked, unless the budget is spent, and may get no answer.  A         *)
(* revision that leaves something to fill leaves the question as it is.    *)
AskedOrReused(r) ==
    IF view[r].llm = got[r].hash
    THEN asked' = [asked EXCEPT ![r] = "answered"] /\ UNCHANGED <<llm, endVars>>
    ELSE \/ /\ llm' = got[r].hash
            /\ asked' = [asked EXCEPT ![r] = "answered"]
            /\ UNCHANGED endVars
         \/ /\ asked' = [asked EXCEPT ![r] = "retry"]
            /\ Spoil(r)
            /\ UNCHANGED llm

(* askLlm: the step is skipped if the page leaves the LLM nothing to fill, *)
(* before the site's refusal is looked at, or if no LLM is configured.     *)
Llm(r) ==
    /\ pc[r] = "llm"
    /\ IF knows[r] \notin Fills[got[r].hash] THEN Skipped(r)
       ELSE IF got[r].no THEN Refused(r)
       ELSE Skipped(r) \/ AskedOrReused(r)
    /\ Goto(r, "mark")
    /\ UNCHANGED <<worldVars, fileVars, itemVars, captures, cite, wavered, skipped, clock, knows, fetchVars,
                   pruning, lost, requests>>

(* recordExtraction: the page is marked as read under the run's revision,  *)
(* unless the LLM is to be asked again.  A skipped step leaves the hash.   *)
Mark(r) ==
    /\ pc[r] = "mark"
    /\ mark' = IF asked[r] = "retry" THEN Retry ELSE knows[r]
    /\ llmHash' = CASE asked[r] = "cleared" -> NoHash
                    [] asked[r] = "answered" -> got[r].hash
                    [] asked[r] \in {"retry", "skipped"} -> llmHash
    /\ skipped' = (asked[r] = "skipped")
    /\ wavered' = (Cardinality(told[r]) > 1)
    /\ Done(r, "prune", "extract")
    /\ UNCHANGED <<worldVars, fileVars, stored, lastRead, refusal, captures, saidVars, clock, knows,
                   fetchVars, restVars, requests>>

-----------------------------------------------------------------------------
(* The cleanup, and the end of a run.                                      *)

Copy(c) == c.hash = Latest.hash

PrunableAnyway(old) ==
    {c \in captures \ {Latest} :
        \/ Copy(c)
        \/ c.at < old
        \/ Cardinality({d \in captures \ {Latest} : Copy(d) = Copy(c) /\ d.at > c.at}) >= KeepEarlier}

(* prunableCaptures: an earlier capture is kept while it isn't a copy of   *)
(* the latest, is one of the ten latest, and is younger than a year, or    *)
(* while a current statement cites it.                                     *)
Prunable(old) ==
    {c \in captures \ {Latest} :
        /\ \/ Copy(c)
           \/ c.at < old
           \/ Cardinality({d \in captures \ {Latest} : Copy(d) = Copy(c) /\ d.at > c.at}) >= KeepEarlier
        /\ \A v \in Value : cite[v] # c.id}

(* freedKeys: bodies that no other capture holds, nor the page.            *)
Freed(P) == {c.hash : c \in P} \ ({c.hash : c \in captures \ P} \cup {stored})

(* What the page's steps returned is of no more use.                       *)
Forget(r) ==
    /\ view' = [view EXCEPT ![r] = NoView]
    /\ got' = [got EXCEPT ![r] = Nothing]
    /\ attempt' = [attempt EXCEPT ![r] = 0]
    /\ logged' = [logged EXCEPT ![r] = FALSE]
    /\ told' = [told EXCEPT ![r] = {}]
    /\ asked' = [asked EXCEPT ![r] = "none"]

Prune(r) ==
    /\ pc[r] = "prune"
    /\ Forget(r)
    /\ \E old \in 0..requests :
         LET P == IF captures = {} THEN {} ELSE Prunable(old) IN
         /\ pruning' = [pruning EXCEPT ![r] = [ids |-> {c.id : c \in P}, freed |-> Freed(P)]]
         /\ Goto(r, IF P = {} THEN "end" ELSE "files")
    /\ UNCHANGED <<worldVars, fileVars, pageVars, clock, knows, endVars, lost, requests>>

(* The files go first and the rows after.  A failure is a note.            *)
PruneFiles(r) ==
    /\ pc[r] = "files"
    /\ \/ /\ bodies' = bodies \ pruning[r].freed
          /\ reads' = reads \ pruning[r].ids
          /\ Goto(r, "rows")
       \/ Goto(r, "end") /\ UNCHANGED <<bodies, reads>>
    /\ UNCHANGED <<worldVars, damaged, pageVars, clock, knows, fetchVars, restVars, endVars, lost, requests>>

(* A statement that cited a deleted capture cites none.                    *)
DeleteCaptures(ids) ==
    /\ captures' = {c \in captures : c.id \notin ids}
    /\ cite' = [v \in Value |-> IF cite[v] \in ids THEN NoCapture ELSE cite[v]]

PruneRows(r) ==
    /\ pc[r] = "rows"
    /\ \/ DeleteCaptures(pruning[r].ids) /\ Done(r, "end", "prune")
       \/ Goto(r, "end") /\ UNCHANGED <<captures, cite, lost, endVars>>
    /\ UNCHANGED <<worldVars, fileVars, itemVars, llm, wavered, skipped, clock, knows, fetchVars, restVars, requests>>

Ended(r) ==
    /\ Goto(r, "ended")
    /\ knows' = [knows EXCEPT ![r] = 1]
    /\ pruning' = [pruning EXCEPT ![r] = NoPrune]
    /\ spoiled' = spoiled \ {r}

End(r) ==
    /\ pc[r] = "end"
    /\ Ended(r)
    /\ smooth' = IF r \in spoiled THEN 0 ELSE IF smooth = 2 THEN 2 ELSE smooth + 1
    /\ UNCHANGED <<worldVars, fileVars, pageVars, clock, fetchVars, asked, lost, requests>>

(* A step that stopped partway runs again.                                 *)
Again(r) ==
    /\ lost < MaxLost /\ lost' = lost + 1
    /\ \/ pc[r] \in {"record", "capture", "resee"} /\ Goto(r, "fetch")
       \/ pc[r] \in {"unread", "keep", "file", "write", "llm", "mark"} /\ Goto(r, "extract")
       \/ pc[r] \in {"files", "rows"} /\ Goto(r, "prune")
    /\ Spoil(r)
    /\ UNCHANGED <<worldVars, fileVars, pageVars, clock, knows, fetchVars, restVars, requests>>

(* A step has failed for good, and the run with it.                        *)
Fail(r) ==
    /\ r \in Going
    /\ Forget(r) /\ Ended(r)
    /\ smooth' = 0
    /\ UNCHANGED <<worldVars, fileVars, pageVars, clock, lost, requests>>

-----------------------------------------------------------------------------
(* The site, the owner, and other datasets.                                *)

Event == events < MaxEvents /\ events' = events + 1

runVars == <<clock, pc, knows, fetchVars, restVars, lost, requests>>

SiteChanges ==
    /\ Event
    /\ \/ site' \in Hash \ {site} /\ UNCHANGED noAi
       \/ noAi' = ~noAi /\ UNCHANGED site
    /\ SpoilAll
    /\ UNCHANGED <<rev, doomed, purging, fileVars, pageVars, runVars>>

Apply ==
    /\ rev < MaxRev
    /\ rev' = rev + 1
    /\ SpoilAll
    /\ UNCHANGED <<site, noAi, doomed, purging, events, fileVars, pageVars, runVars>>

(* Another dataset's cleanup or purge, of bodies it held too: it finds     *)
(* what nothing else holds, and deletes the files.                         *)
OtherFrees ==
    /\ Event
    /\ doomed = {}
    /\ \E h \in Hash \ Held : doomed' = {h}
    /\ UNCHANGED <<site, noAi, rev, purging, fileVars, pageVars, runVars, endVars>>

OtherDeletes ==
    /\ doomed # {}
    /\ bodies' = bodies \ doomed
    /\ damaged' = damaged \cup doomed
    /\ doomed' = {}
    /\ SpoilAll
    /\ UNCHANGED <<site, noAi, rev, purging, events, reads, pageVars, runVars>>

(* The purge of the page's source, while no run goes: the files, then the  *)
(* rows, which may fail to commit.                                         *)
PurgeFiles ==
    /\ Event
    /\ Going = {} /\ ~purging
    /\ purging' = TRUE
    /\ bodies' = bodies \ Held
    /\ reads' = reads \ {c.id : c \in {d \in captures : d.named}}
    /\ damaged' = damaged \cup (Held \ {NoHash})
    /\ SpoilAll
    /\ UNCHANGED <<site, noAi, rev, doomed, pageVars, runVars>>

PurgeRows ==
    /\ purging
    /\ purging' = FALSE
    /\ \/ /\ DeleteCaptures({c.id : c \in captures})
          /\ stored' = NoHash
          /\ UNCHANGED <<mark, llmHash, lastRead, refusal, llm, wavered, skipped>>
       \/ UNCHANGED pageVars
    /\ UNCHANGED <<site, noAi, rev, doomed, events, fileVars, runVars, endVars>>

Next ==
    \/ \E r \in Run :
         \/ Start(r) \/ Plan(r) \/ Reread(r)
         \/ Fetch(r) \/ Record(r) \/ Capture(r) \/ Resee(r) \/ PutOff(r)
         \/ Extract(r) \/ Unread(r) \/ Keep(r) \/ File(r) \/ Write(r) \/ Llm(r) \/ Mark(r)
         \/ Prune(r) \/ PruneFiles(r) \/ PruneRows(r) \/ End(r)
         \/ Again(r) \/ Fail(r)
    \/ SiteChanges \/ Apply \/ OtherFrees \/ OtherDeletes \/ PurgeFiles \/ PurgeRows

Spec == Init /\ [][Next]_vars
-----------------------------------------------------------------------------
(* Properties.                                                             *)

TypeOK ==
    /\ site \in Hash /\ noAi \in BOOLEAN /\ rev \in Rev /\ doomed \subseteq Hash /\ purging \in BOOLEAN
    /\ bodies \subseteq Hash /\ reads \subseteq CaptureId /\ damaged \subseteq Hash
    /\ stored \in Hash \cup {NoHash} /\ mark \in Rev \cup {Retry} /\ llmHash \in Hash \cup {NoHash}
    /\ lastRead \in BOOLEAN /\ refusal \in {"none", "yes", "no"}
    /\ captures \subseteq [id : CaptureId, hash : Hash, at : Nat, named : BOOLEAN]
    /\ cite \in [Value -> CaptureId \cup {NoCapture, Unsaid}]
    /\ llm \in Hash \cup {NoHash}
    /\ clock \in 0..MaxRuns
    /\ pc \in [Run -> {"off", "plan", "reread", "fetch", "record", "capture", "resee", "extract", "unread",
                       "keep", "file", "write", "llm", "mark", "prune", "files", "rows", "end", "ended"}]
    /\ knows \in [Run -> Rev]
    /\ view \in [Run -> [hash : Hash \cup {NoHash}, mark : Rev \cup {Retry}, llm : Hash \cup {NoHash}]]
    /\ got \in [Run -> [outcome : {"none", "changed", "unchanged", "failed"}, hash : Hash \cup {NoHash},
                        full : BOOLEAN, no : BOOLEAN, current : BOOLEAN,
                        cap : CaptureId \cup {NoCapture}]]
    /\ attempt \in [Run -> 0..MaxLost] /\ logged \in [Run -> BOOLEAN]
    /\ asked \in [Run -> {"none", "skipped", "cleared", "answered", "retry"}]
    /\ pruning \in [Run -> [ids : SUBSET CaptureId, freed : SUBSET Hash]]
    /\ told \in [Run -> SUBSET ((Hash \cup {NoHash}) \X BOOLEAN)]
    /\ wavered \in BOOLEAN /\ skipped \in BOOLEAN /\ spoiled \subseteq Run /\ smooth \in 0..2
    /\ lost \in 0..MaxLost /\ events \in 0..MaxEvents /\ requests \in Nat

Current == {v \in Value : cite[v] # Unsaid}

(* A page that looks current was read: its statements are what its stored  *)
(* copy says under the definition's revision, wherever a run stopped.  Not *)
(* so if the fetch step got different answers as it ran again, for then    *)
(* the copy of one is stored and the other is read.                        *)
CurrentMeansRead ==
    mark = rev /\ stored # NoHash /\ ~wavered => Current = Says[stored][rev]

(* After a run that nothing befell, nothing the LLM said stands on a page  *)
(* that looks current and was last read under the site's refusal of AI     *)
(* input, whatever earlier runs left.  Not so if a fetch step got          *)
(* different answers and no run has read the page since, or if the LLM     *)
(* step was skipped when the page was last marked.                         *)
ConsentHeldUnlessSkipped ==
    Going = {} /\ smooth > 0 /\ refusal = "yes" /\ mark = rev /\ ~wavered /\ ~skipped => llm = NoHash

(* The same of every page, as fetchItem has it (refresh.ts): the LLM step  *)
(* withdraws what the LLM said and clears its hash.                        *)
ConsentHeld ==
    Going = {} /\ smooth > 0 /\ refusal = "yes" /\ mark = rev /\ ~wavered => llm = NoHash

(* A current statement that cites a capture has its evidence: the capture  *)
(* is kept, its body says the value, and the body's file is there, unless  *)
(* another dataset or an unfinished purge deleted it.                      *)
EvidenceKept ==
    \A v \in Value : cite[v] \in CaptureId =>
        \E c \in captures :
            /\ c.id = cite[v]
            /\ \E k \in Rev : v \in Says[c.hash][k]
            /\ c.hash \in bodies \cup damaged

(* Every file of what was read is named by its capture's row, which is how *)
(* cleanups and purges find it.                                            *)
ReadsAreNamed == \A id \in reads : \E c \in captures : c.id = id /\ c.named

(* Whatever befell the page, two runs in a row that nothing befalls leave  *)
(* it read under the definition's revision.                                *)
TwoRunsRead == Going = {} /\ smooth = 2 => mark = rev

(* The LLM's statements on a current page are its answer to the page, if   *)
(* the LLM step was not skipped when the page was last marked.             *)
LlmReadThisPage == mark # Retry /\ ~wavered /\ ~skipped /\ stored # NoHash => llm \in {NoHash, stored}
-----------------------------------------------------------------------------
(* The inductive invariant, in its parts: TypeInv holds however many runs  *)
(* go at once, and OneRunInv while one goes at a time.                     *)

FetchPc == {"fetch", "record", "capture", "resee"}
ReadPc == {"extract", "unread", "keep", "file", "write", "llm", "mark"}

(* A step runs again only as `lost` counts, a run starts afresh, and the   *)
(* page is marked after the LLM step.                                      *)
StepsCounted ==
    \A r \in Run :
      /\ r > clock => pc[r] = "off"
      /\ attempt[r] <= lost
      /\ pc[r] = "fetch" /\ logged[r] => attempt[r] < lost
      /\ pc[r] \in {"off", "plan", "reread"} => ~logged[r] /\ told[r] = {}
      /\ pc[r] = "mark" => asked[r] # "none"

CapturesIdentified == \A c \in captures : c.id[3] = c.hash /\ c.at <= requests

AnswersHaveBodies ==
    \A r \in Run :
      /\ got[r].outcome \in {"changed", "unchanged"} => got[r].hash \in Hash
      /\ IsFiniteSet(told[r])
      /\ pc[r] = "file" => got[r].cap \in CaptureId

TypeInv == TypeOK /\ StepsCounted /\ CapturesIdentified /\ AnswersHaveBodies

OneGoes == \A r, s \in Going : r = s

PurgeIsAlone == purging => Going = {} /\ reads = {} /\ smooth = 0

(* Only a purge takes a citation away, and the page isn't current then.    *)
UncitedIsUnread == (\E v \in Value : cite[v] = NoCapture) => stored = NoHash \/ mark = Retry

LlmIsKnown == mark = rev /\ ~wavered /\ ~skipped /\ llmHash = NoHash => llm = NoHash

(* After a run that nothing befell, the page is read, or will be.          *)
IsRead == mark = rev /\ (stored \in bodies \/ ~noAi \/ llmHash = NoHash)
Ready == (smooth > 0 => stored = NoHash \/ IsRead) /\ (smooth = 2 => IsRead)
Consents == refusal = "yes" /\ mark = rev /\ ~wavered /\ ~skipped => llm = NoHash
BetweenRuns == Going = {} => Ready /\ (smooth > 0 => Consents)

PageInv ==
    /\ OneGoes /\ PurgeIsAlone /\ mark <= rev /\ UncitedIsUnread /\ LlmIsKnown /\ BetweenRuns
    /\ ReadsAreNamed /\ EvidenceKept /\ CurrentMeansRead

(* While a capture's read is written, its row names it; once the cleanup   *)
(* has deleted files, no capture it deletes has one.                       *)
FilesFollowRows(r) ==
    /\ pc[r] = "file" => \E c \in captures : c.id = got[r].cap /\ c.named
    /\ pc[r] = "rows" => reads \cap pruning[r].ids = {}

(* The answer that the run goes by.                                        *)
AnswerKnown(r) ==
    /\ pc[r] \in {"record", "capture", "resee"} =>
         /\ got[r].outcome \in {"changed", "unchanged", "failed"}
         /\ got[r].outcome = "changed" => got[r].full /\ got[r].hash # view[r].hash
         /\ got[r].outcome = "unchanged" => got[r].hash = view[r].hash
         /\ got[r].outcome # "failed" => got[r].current = IsCurrent(r, got[r].no)
         /\ got[r].outcome = "failed" => got[r].hash = NoHash /\ ~got[r].full
    /\ pc[r] \in {"capture", "resee"} => <<got[r].hash, got[r].no>> \in told[r]
    /\ pc[r] = "resee" /\ got[r].outcome # "failed" =>
         got[r].cap \in CaptureId /\ got[r].cap[3] = got[r].hash
    /\ pc[r] \in ReadPc =>
         /\ got[r].hash \in Hash
         /\ got[r].cap \in CaptureId /\ got[r].cap[3] = got[r].hash

(* The page is as the run loaded it, but for what the fetches it logged    *)
(* changed.                                                                *)
ViewKept(r) ==
    pc[r] \in FetchPc \cup {"reread"} =>
      /\ pc[r] = "reread" => mark # knows[r]
      /\ llmHash = view[r].llm
      /\ mark = Retry \/ (mark = view[r].mark /\ stored = view[r].hash)
      /\ told[r] = {} => stored = view[r].hash /\ mark = view[r].mark /\ ~logged[r]
      /\ \A h \in Hash \cup {NoHash}, n \in BOOLEAN : told[r] = {<<h, n>>} =>
           IF h \in {NoHash, view[r].hash} THEN stored = view[r].hash /\ mark = view[r].mark
           ELSE stored = h /\ mark = Retry
      /\ (\E v \in Value : cite[v] = NoCapture) => view[r].hash = NoHash \/ view[r].mark = Retry

(* What a run reads is what is stored, unless its answers wavered.         *)
ReadsTheCopy(r) ==
    pc[r] \in ReadPc =>
      /\ Cardinality(told[r]) <= 1 => stored \in {NoHash, got[r].hash}
      /\ mark = knows[r] /\ Cardinality(told[r]) <= 1 /\ ~skipped => got[r].no \/ llmHash # NoHash
      /\ pc[r] \notin {"extract", "unread"} => got[r].hash \in bodies \cup damaged
      /\ pc[r] \in {"llm", "mark"} =>
           /\ Current = Says[got[r].hash][knows[r]]
           /\ \A v \in Value : cite[v] # NoCapture
      /\ pc[r] = "mark" /\ asked[r] = "cleared" => llm = NoHash /\ got[r].no

(* The cleanup deletes nothing that is cited, and frees nothing held.      *)
PrunesUnused(r) ==
    pc[r] \in {"files", "rows"} =>
      /\ \A v \in Value : cite[v] \notin pruning[r].ids
      /\ \A c \in captures : c.id \notin pruning[r].ids => c.hash \notin pruning[r].freed
      /\ stored \notin pruning[r].freed

(* A run that nothing has befallen: what it finds, is told, and leaves.    *)
QuietRun(r) ==
    /\ knows[r] = rev
    /\ pc[r] \in {"plan", "reread", "fetch", "record"} => ~logged[r] /\ told[r] = {} /\ Ready
    /\ pc[r] \in {"record", "capture", "resee"} =>
         /\ got[r].outcome \in {"changed", "unchanged"}
         /\ got[r].hash = site /\ got[r].no = noAi
         /\ got[r].outcome = "changed" => got[r].hash \in bodies
    /\ pc[r] \in {"capture", "resee"} =>
         /\ told[r] = {<<got[r].hash, got[r].no>>}
         /\ got[r].outcome = "unchanged" => Ready
    /\ pc[r] \in {"capture", "resee"} \cup ReadPc =>
         /\ refusal = "yes" => got[r].no
         /\ Cardinality(told[r]) <= 1
    /\ pc[r] \in ReadPc \ {"unread"} => stored = got[r].hash
    /\ pc[r] \in ReadPc \ {"extract", "unread"} => got[r].hash \in bodies
    /\ pc[r] = "extract" /\ smooth > 0 => got[r].hash \in bodies
    /\ pc[r] = "unread" => stored = NoHash /\ smooth = 0
    /\ pc[r] = "mark" => asked[r] # "retry" /\ (got[r].no => asked[r] \in {"cleared", "skipped"})
    /\ pc[r] \in {"prune", "files", "rows", "end"} =>
         /\ (stored = NoHash /\ smooth = 0) \/ IsRead
         /\ Consents

RunInv(r) ==
    r \in Going =>
      /\ mark <= knows[r] /\ knows[r] <= rev
      /\ Cardinality(told[r]) > 1 => wavered
      /\ FilesFollowRows(r) /\ AnswerKnown(r) /\ ViewKept(r) /\ ReadsTheCopy(r) /\ PrunesUnused(r)
      /\ r \notin spoiled => QuietRun(r)

OneRunInv == PageInv /\ \A r \in Run : RunInv(r)
=============================================================================
