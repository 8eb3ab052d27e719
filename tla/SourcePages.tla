---------------------------- MODULE SourcePages ----------------------------
(***************************************************************************)
(* One source of a dataset, its pages, and the runs that read them         *)
(* (platform/store/src/listing.ts, fetches.ts, source-states.ts, and the   *)
(* steps of platform/worker/src/refresh.ts and discovery.ts that call      *)
(* them).                                                                  *)
(*                                                                         *)
(* A run lists the pages its sitemaps name, or, when the source stands     *)
(* refused, probes it with one request; it reads the pages that are due;   *)
(* and it counts how the source met it.  A step of a run may be carried    *)
(* out and its result lost: then it runs again, with a new answer from the *)
(* site.  Runs may overlap, once the start of one has recorded another as  *)
(* failed whose Workflow goes on.  The owner revives and applies           *)
(* definitions while runs go.                                              *)
(*                                                                         *)
(* Time is the number of runs started, so a run's start is its number, and *)
(* what is asked before the next run starts is asked at that time.         *)
(***************************************************************************)
EXTENDS Integers, FiniteSets

CONSTANTS
    Page,               \* addresses of the source the model follows
    NoPage,             \* no page
    GoneAfter,          \* GONE_AFTER
    RefusedAfter,       \* REFUSED_AFTER
    MissingGoneAfter,   \* MISSING_GONE_AFTER
    RefuseAfterRuns,    \* REFUSE_AFTER_RUNS
    MaxRuns,            \* bound: runs
    MaxOverlap,         \* bound: runs that go at once
    MaxEvents           \* bound: results that are lost, and what the owner does

ASSUME PageAssumption == NoPage \notin Page
ASSUME AfterAssumption ==
    /\ GoneAfter \in Nat \ {0} /\ RefusedAfter \in Nat \ {0}
    /\ MissingGoneAfter \in Nat \ {0} /\ RefuseAfterRuns \in Nat \ {0}
ASSUME BoundAssumption == MaxRuns \in Nat /\ MaxOverlap \in Nat /\ MaxEvents \in Nat

Run == 1..MaxRuns
Time == 0..MaxRuns  \* 0: never

VARIABLES
    clock,        \* the runs started
    kind,         \* sources.kind
    \* The page's row of items.
    status,       \* status, "none" before the row
    outcome,      \* lastOutcome: gone, blocked, or what counts toward neither
    streak,       \* outcomeStreak, of gones and blocks
    fetchedAt,    \* lastFetchedAt
    listedAt,     \* listedAt
    missing,      \* missingStreak
    \* The source's row of sources.
    removed,      \* removedAt is set
    blockedRuns, refusedAt, countedAt, lastProbe,
    readAt,       \* listedAt of the source: its last complete read
    \* A run.
    pc,
    probing,      \* the source stood refused as the run started
    probe,        \* what its probe met
    heard,        \* what the source's answers say of the site, the most telling of them
    read,         \* the read of the sitemaps: empty, listed, or partial
    plan,         \* the pages still to read
    asking,       \* the page it asks for
    askedAt,      \* since when
    logged,       \* runs and pages whose attempt under way is in the fetch log
    \* History.
    finished,     \* the complete reads that were counted
    goneBy,       \* what made the page gone: its answers or its listings
    blame,        \* the runs whose blocks are the page's streak
    blockedIn,    \* the runs whose blocks are the source's count
    took,         \* the runs that took their blocks back from the pages
    said,         \* what a count said that runs again, while nobody has written the source since
    \* Bounds.
    lost, owned

pageVars == <<status, outcome, streak, fetchedAt, listedAt, missing, goneBy, blame>>
standingVars == <<blockedRuns, refusedAt, lastProbe, blockedIn>>
sourceVars == <<removed, standingVars, countedAt, readAt, finished, took>>
readVars == <<probe, heard, read>>
askVars == <<plan, asking, askedAt, logged>>
worldVars == <<clock, kind, owned>>
vars == <<worldVars, pageVars, sourceVars, pc, probing, readVars, askVars, said, lost>>

Going == {r \in Run : pc[r] \notin {"off", "ended"}}
NotSaid == [blocked |-> -1, refused |-> FALSE]

Init ==
    /\ clock = 0
    /\ kind \in {"sitemap", "pages"}
    /\ status = [p \in Page |-> IF kind = "pages" THEN "live" ELSE "none"]
    /\ outcome = [p \in Page |-> "other"]
    /\ streak = [p \in Page |-> 0]
    /\ fetchedAt = [p \in Page |-> 0]
    /\ listedAt = [p \in Page |-> 0]
    /\ missing = [p \in Page |-> 0]
    /\ removed = FALSE
    /\ blockedRuns = 0 /\ refusedAt = 0 /\ countedAt = 0 /\ lastProbe = "none"
    /\ readAt = 0
    /\ pc = [r \in Run |-> "off"]
    /\ probing = [r \in Run |-> FALSE]
    /\ probe = [r \in Run |-> "unasked"]
    /\ heard = [r \in Run |-> "unasked"]
    /\ read = [r \in Run |-> "empty"]
    /\ plan = [r \in Run |-> {}]
    /\ asking = [r \in Run |-> NoPage]
    /\ askedAt = [r \in Run |-> 0]
    /\ logged = {}
    /\ finished = {}
    /\ goneBy = [p \in Page |-> "none"]
    /\ blame = [p \in Page |-> {}]
    /\ blockedIn = {}
    /\ took = {}
    /\ said = [r \in Run |-> NotSaid]
    /\ lost = 0
    /\ owned = 0

(* sourceVerdict, answer by answer: a run got through if any answer did,   *)
(* and was refused if any was and none got through.                        *)
Heard(before, site) ==
    IF "through" \in {before, site} THEN "through"
    ELSE IF "refused" \in {before, site} THEN "refused" ELSE "none"

(* A step's result is kept, or lost, and then the step runs again.         *)
Kept == lost' = lost
Lost == lost + owned < MaxEvents /\ lost' = lost + 1

(* The source's row is written: what an earlier count said no longer       *)
(* follows from it.                                                        *)
Unsaid == said' = [r \in Run |-> NotSaid]

-----------------------------------------------------------------------------
(* The start of a run, and its read of the sitemaps.                       *)

(* The run loads a definition that has the source, and how it stands.      *)
Start(r) ==
    /\ r = clock + 1
    /\ ~removed
    /\ Cardinality(Going) < MaxOverlap
    /\ clock' = r
    /\ probing' = [probing EXCEPT ![r] = refusedAt # 0]
    /\ pc' = [pc EXCEPT ![r] = IF kind = "sitemap" THEN "read"
                               ELSE IF refusedAt # 0 THEN "probe" ELSE "plan"]
    /\ UNCHANGED <<kind, owned, pageVars, sourceVars, readVars, askVars, said, lost>>

(* The upsert's condition: a later read's listing is left as it is.        *)
Listable(r, p) == listedAt[p] <= r

RelistedGone(p) == IF status[p] \in {"none", "excluded", "gone"} THEN "live" ELSE status[p]

(* A page comes back if it had left the definition or gone missing.        *)
Relisted(p) ==
    IF \/ status[p] \in {"none", "excluded"}
       \/ status[p] = "gone" /\ missing[p] >= MissingGoneAfter
    THEN "live" ELSE status[p]

ListPages(r, S) ==
    LET W == {p \in S : Listable(r, p)} IN
    /\ status' = [p \in Page |-> IF p \in W THEN Relisted(p) ELSE status[p]]
    /\ listedAt' = [p \in Page |-> IF p \in W THEN r ELSE listedAt[p]]
    /\ missing' = [p \in Page |-> IF p \in W THEN 0 ELSE missing[p]]
    /\ goneBy' = [p \in Page |-> IF status'[p] = "gone" THEN goneBy[p] ELSE "none"]
    /\ UNCHANGED <<outcome, streak, fetchedAt, blame>>

(* The run asks for a sitemap.  One that is read lists pages, of which     *)
(* some may not be among those followed; one that isn't leaves the read    *)
(* incomplete, and so does a read that keeps only some of its pages.       *)
(* The first answer is the probe of a source that stands refused.          *)
SitemapRead(r, site, S, more, complete) ==
    /\ ListPages(r, S)
    /\ S # {} \/ more => site = "through"
    /\ \/ /\ Lost
          /\ UNCHANGED <<pc, readVars>>
       \/ /\ Kept
          /\ heard' = [heard EXCEPT ![r] = Heard(@, site)]
          /\ read' = [read EXCEPT ![r] = IF @ = "partial" \/ ~complete THEN "partial"
                                         ELSE IF more \/ \E p \in S : Listable(r, p) THEN "listed"
                                         ELSE @]
          /\ IF probing[r] /\ probe[r] = "unasked"
             THEN /\ probe' = [probe EXCEPT ![r] = site]
                  /\ pc' = [pc EXCEPT ![r] = IF site = "through" THEN "read" ELSE "plan"]
             ELSE UNCHANGED <<probe, pc>>

ReadSitemap(r) ==
    /\ pc[r] = "read"
    /\ \E site \in {"through", "refused", "none"}, S \in SUBSET Page,
          more \in BOOLEAN, complete \in BOOLEAN :
         /\ complete => site = "through"
         /\ SitemapRead(r, site, S, more, complete)
    /\ UNCHANGED <<worldVars, probing, sourceVars, askVars, said>>

(* What follows the reads and the probe: the step that brings the source   *)
(* back, if the probe got through, and the plan.                           *)
AfterReads(met) == IF met = "through" THEN "back" ELSE "plan"

(* The sitemaps are all read.  Only a complete read that listed a page is  *)
(* counted.                                                                *)
EndRead(r) ==
    /\ pc[r] = "read"
    /\ heard[r] # "unasked"
    /\ pc' = [pc EXCEPT ![r] = IF read[r] = "listed" THEN "finish" ELSE AfterReads(probe[r])]
    /\ UNCHANGED <<worldVars, probing, pageVars, sourceVars, readVars, askVars, said, lost>>

Missed(r) == {p \in Page : status[p] = "live" /\ listedAt[p] < r}

CountedByNewer(r) == readAt > r
ReadCounted(r) == readAt >= r

(* finishListing: live pages the read left out are one read closer to      *)
(* gone, once for each read.                                               *)
FinishListing(r) ==
    /\ pc[r] = "finish"
    /\ \/ Kept /\ pc' = [pc EXCEPT ![r] = AfterReads(probe[r])]
       \/ Lost /\ UNCHANGED pc
    /\ IF ReadCounted(r)
       THEN UNCHANGED <<pageVars, readAt, finished>>
       ELSE /\ missing' = [p \in Page |-> IF p \in Missed(r) THEN missing[p] + 1 ELSE missing[p]]
            /\ status' = [p \in Page |-> IF p \in Missed(r) /\ missing[p] + 1 >= MissingGoneAfter
                                         THEN "gone" ELSE status[p]]
            /\ goneBy' = [p \in Page |-> IF status[p] # "gone" /\ status'[p] = "gone"
                                         THEN "listings" ELSE goneBy[p]]
            /\ readAt' = r
            /\ finished' = finished \cup {r}
            /\ UNCHANGED <<outcome, streak, fetchedAt, listedAt, blame>>
    /\ UNCHANGED <<worldVars, probing, removed, standingVars, countedAt, took, readVars, askVars, said>>

-----------------------------------------------------------------------------
(* Pages are asked for and read.                                           *)

Live == {p \in Page : status[p] = "live"}

(* A refused pages source is probed with its least recently read page.     *)
Probe(r) ==
    /\ pc[r] = "probe"
    /\ \/ /\ Live = {}
          /\ pc' = [pc EXCEPT ![r] = "plan"]
          /\ UNCHANGED <<asking, askedAt>>
       \/ \E p \in Live :
            /\ \A q \in Live : fetchedAt[p] <= fetchedAt[q]
            /\ pc' = [pc EXCEPT ![r] = "probed"]
            /\ asking' = [asking EXCEPT ![r] = p]
            /\ askedAt' = [askedAt EXCEPT ![r] = clock]
    /\ UNCHANGED <<worldVars, probing, pageVars, sourceVars, readVars, plan, logged, said, lost>>

(* LIVE: no blocked runs, no refusal, no probe.                            *)
SourceLive == blockedRuns' = 0 /\ refusedAt' = 0 /\ lastProbe' = "none" /\ blockedIn' = {}

(* A probe that got through makes the source live again: liveAgain.        *)
Back(r) ==
    /\ pc[r] = "back"
    /\ \/ Kept /\ pc' = [pc EXCEPT ![r] = "plan"]
       \/ Lost /\ UNCHANGED pc
    /\ SourceLive
    /\ Unsaid
    /\ UNCHANGED <<worldVars, probing, pageVars, removed, countedAt, readAt, finished, took, readVars, askVars>>

(* dueItems and the batch that loads them: some of the live pages, as far  *)
(* as they are due, within the budget, and not left by a pause; none of a  *)
(* source that is refused.  A probe's page was read already.               *)
Plan(r) ==
    /\ pc[r] = "plan"
    /\ \E S \in SUBSET Live :
         /\ refusedAt # 0 => S = {}
         /\ \A p \in S : <<r, p>> \notin logged
         /\ plan' = [plan EXCEPT ![r] = S]
    /\ pc' = [pc EXCEPT ![r] = "items"]
    /\ UNCHANGED <<worldVars, probing, pageVars, sourceVars, readVars, asking, askedAt, logged, said, lost>>

Ask(r, p) ==
    /\ pc[r] = "items" /\ asking[r] = NoPage
    /\ p \in plan[r]
    /\ asking' = [asking EXCEPT ![r] = p]
    /\ askedAt' = [askedAt EXCEPT ![r] = clock]
    /\ UNCHANGED <<worldVars, probing, pageVars, sourceVars, pc, readVars, plan, logged, said, lost>>

(* What an answer is to the page, and what it says of the site.  Reads and *)
(* failures move neither streak.                                           *)
Answer ==
    {"other"} \X {"through", "refused", "none"}
        \cup {<<"gone", "through">>, <<"blocked", "refused">>, <<"blocked", "none">>}

Streak(p, o) == IF o = "other" THEN 0 ELSE IF outcome[p] = o THEN streak[p] + 1 ELSE 1

(* Only a live page becomes gone or refused.                               *)
Fetched(p, o) ==
    IF status[p] = "live" /\ o = "gone" /\ Streak(p, o) >= GoneAfter THEN "gone"
    ELSE IF status[p] = "live" /\ o = "blocked" /\ Streak(p, o) >= RefusedAfter THEN "refused"
    ELSE status[p]

(* recordFetch: an attempt that is in the log already moves nothing.       *)
RecordFetch(r, p, o) ==
    IF <<r, p>> \in logged THEN UNCHANGED <<pageVars, logged>>
    ELSE /\ status' = [status EXCEPT ![p] = Fetched(p, o)]
         /\ outcome' = [outcome EXCEPT ![p] = o]
         /\ streak' = [streak EXCEPT ![p] = Streak(p, o)]
         /\ fetchedAt' = [fetchedAt EXCEPT ![p] = askedAt[r]]
         /\ goneBy' = [goneBy EXCEPT ![p] = IF status[p] # "gone" /\ Fetched(p, o) = "gone"
                                            THEN "answers" ELSE @]
         /\ blame' = [blame EXCEPT ![p] = IF o # "blocked" THEN {}
                                          ELSE IF Streak(p, o) = 1 THEN {r} ELSE @ \cup {r}]
         /\ logged' = logged \cup {<<r, p>>}
         /\ UNCHANGED <<listedAt, missing>>

(* The answer comes and is recorded.  If the step's result is lost, the    *)
(* step runs again and returns its own answer; when its host then asks it  *)
(* to wait, the next attempt logs a fetch of its own.                      *)
Record(r) ==
    /\ asking[r] # NoPage
    /\ \E a \in Answer :
         /\ RecordFetch(r, asking[r], a[1])
         /\ \/ /\ Lost
               /\ askedAt' = [askedAt EXCEPT ![r] = clock]
               /\ UNCHANGED <<pc, readVars, plan, asking>>
            \/ /\ Kept
               /\ heard' = [heard EXCEPT ![r] = Heard(@, a[2])]
               /\ probe' = [probe EXCEPT ![r] = IF pc[r] = "probed" THEN a[2] ELSE @]
               /\ pc' = [pc EXCEPT ![r] = IF @ = "probed" THEN AfterReads(a[2]) ELSE @]
               /\ plan' = [plan EXCEPT ![r] = @ \ {asking[r]}]
               /\ asking' = [asking EXCEPT ![r] = NoPage]
               /\ askedAt' = [askedAt EXCEPT ![r] = 0]
               /\ UNCHANGED read
    /\ UNCHANGED <<worldVars, probing, sourceVars, said>>

PutOff(r) ==
    /\ asking[r] # NoPage
    /\ <<r, asking[r]>> \in logged
    /\ logged' = logged \ {<<r, asking[r]>>}
    /\ askedAt' = [askedAt EXCEPT ![r] = clock]
    /\ UNCHANGED <<worldVars, probing, pageVars, sourceVars, pc, readVars, plan, asking, said, lost>>

-----------------------------------------------------------------------------
(* The run's verdict.                                                      *)

ProbeFailed(r) == probing[r] /\ probe[r] \in {"refused", "none"}

Verdict(r) ==
    IF ProbeFailed(r) THEN "untouched"
    ELSE IF heard[r] = "through" THEN "through"
    ELSE IF heard[r] = "refused" THEN "blocked" ELSE "untouched"

TakenBackAfter(r) == {p \in Page : outcome[p] = "blocked" /\ fetchedAt[p] > r}

(* A page last asked for since the run started, and blocked.               *)
TakenBack(r) == {p \in Page : outcome[p] = "blocked" /\ fetchedAt[p] >= r}

TakeBack(r) ==
    /\ streak' = [p \in Page |-> IF p \in TakenBack(r) THEN 0 ELSE streak[p]]
    /\ status' = [p \in Page |-> IF p \in TakenBack(r) /\ status[p] = "refused"
                                 THEN "live" ELSE status[p]]
    /\ blame' = [p \in Page |-> IF p \in TakenBack(r) THEN {} ELSE blame[p]]
    /\ took' = took \cup {r}
    /\ UNCHANGED <<outcome, fetchedAt, listedAt, missing, goneBy>>

Counts(r) == Verdict(r) = "blocked" /\ refusedAt = 0

AgainSinceRun(r) ==
    [blocked |-> IF Verdict(r) = "blocked" /\ ~(refusedAt # 0 /\ refusedAt <= r)
                 THEN blockedRuns ELSE -1,
     refused |-> refusedAt = r]

(* What a count says of a source that this run has counted already: the    *)
(* blocked runs, or -1, and whether this run refused the source.           *)
Again(r) ==
    [blocked |-> IF Verdict(r) = "blocked" /\ ~(refusedAt # 0 /\ refusedAt < r)
                 THEN blockedRuns ELSE -1,
     refused |-> refusedAt = r]

CountFirst(r) ==
    LET runs == blockedRuns + 1
        refuses == Counts(r) /\ runs >= RefuseAfterRuns
    IN
    /\ countedAt' = r
    /\ IF Verdict(r) = "through"
       THEN SourceLive
       ELSE /\ blockedRuns' = IF Counts(r) THEN runs ELSE blockedRuns
            /\ refusedAt' = IF refuses THEN r ELSE refusedAt
            /\ lastProbe' = IF ProbeFailed(r) /\ refusedAt # 0
                             THEN IF probe[r] = "refused" THEN "blocked" ELSE "no_answer"
                             ELSE lastProbe
            /\ blockedIn' = IF Counts(r) THEN blockedIn \cup {r} ELSE blockedIn
    /\ said' = [q \in Run |-> IF q = r /\ lost' # lost
                              THEN [blocked |-> IF Counts(r) THEN runs ELSE -1, refused |-> refuses]
                              ELSE NotSaid]
    /\ IF Verdict(r) = "blocked" \/ (ProbeFailed(r) /\ refusedAt # 0)
       THEN TakeBack(r) ELSE UNCHANGED <<pageVars, took>>

(* The run ends, and its Workflow forgets what its steps returned.         *)
End(r) ==
    /\ pc' = [pc EXCEPT ![r] = "ended"]
    /\ probe' = [probe EXCEPT ![r] = "unasked"]
    /\ probing' = [probing EXCEPT ![r] = FALSE]
    /\ heard' = [heard EXCEPT ![r] = "unasked"]
    /\ read' = [read EXCEPT ![r] = "empty"]
    /\ plan' = [plan EXCEPT ![r] = {}]
    /\ asking' = [asking EXCEPT ![r] = NoPage]
    /\ askedAt' = [askedAt EXCEPT ![r] = 0]
    /\ logged' = {l \in logged : l[1] # r}

RunCountedByNewer(r) == countedAt > r
RunCounted(r) == countedAt >= r

(* recordSourceRuns: an older run counts nothing, and a run counts once.   *)
Count(r) ==
    /\ pc[r] = "items" /\ plan[r] = {} /\ asking[r] = NoPage
    /\ \/ Kept /\ End(r)
       \/ Lost /\ UNCHANGED <<pc, probing, readVars, askVars>>
    /\ IF RunCounted(r)
       THEN /\ said' = [said EXCEPT ![r] = IF lost' = lost THEN NotSaid ELSE @]
            /\ UNCHANGED <<pageVars, standingVars, countedAt, took>>
       ELSE CountFirst(r)
    /\ UNCHANGED <<worldVars, removed, readAt, finished>>

(* A step throws, and the run ends without a count.                        *)
Fail(r) ==
    /\ r \in Going
    /\ End(r)
    /\ said' = [said EXCEPT ![r] = NotSaid]
    /\ UNCHANGED <<worldVars, pageVars, sourceVars, lost>>

-----------------------------------------------------------------------------
(* The owner.                                                              *)

Owner == lost + owned < MaxEvents /\ owned' = owned + 1 /\ UNCHANGED <<clock, kind>>

(* spatula revive --source: reviveSources                                  *)
ReviveSource ==
    /\ Owner
    /\ ~removed /\ (blockedRuns > 0 \/ refusedAt # 0)
    /\ SourceLive
    /\ Unsaid
    /\ UNCHANGED <<pageVars, removed, countedAt, readAt, finished, took, pc, probing, readVars, askVars, lost>>

(* spatula revive: reviveItems                                             *)
RevivePage(p) ==
    /\ Owner
    /\ status[p] \in {"refused", "gone"}
    /\ status' = [status EXCEPT ![p] = "live"]
    /\ outcome' = [outcome EXCEPT ![p] = "other"]
    /\ streak' = [streak EXCEPT ![p] = 0]
    /\ missing' = [missing EXCEPT ![p] = 0]
    /\ fetchedAt' = [fetchedAt EXCEPT ![p] = 0]
    /\ goneBy' = [goneBy EXCEPT ![p] = "none"]
    /\ blame' = [blame EXCEPT ![p] = {}]
    /\ UNCHANGED <<listedAt, sourceVars, pc, probing, readVars, askVars, said, lost>>

(* applyDefinition, of a definition with the source or without it.  The    *)
(* definition lists the pages of a pages source.                           *)
Applied(keep, S, p) ==
    IF ~keep \/ (kind = "pages" /\ p \notin S)
    THEN IF status[p] = "none" THEN "none" ELSE "excluded"
    ELSE IF kind = "pages" /\ status[p] \in {"none", "excluded"} THEN "live" ELSE status[p]

Apply ==
    /\ Owner
    /\ \E keep \in BOOLEAN, S \in SUBSET Page :
         /\ ~keep => ~removed
         /\ removed' = ~keep
         /\ status' = [p \in Page |-> Applied(keep, S, p)]
    /\ goneBy' = [p \in Page |-> IF status'[p] = "gone" THEN goneBy[p] ELSE "none"]
    /\ UNCHANGED <<outcome, streak, fetchedAt, listedAt, missing, blame, standingVars, countedAt,
                   readAt, finished, took, pc, probing, readVars, askVars, said, lost>>

Next ==
    \/ \E r \in Run :
         \/ Start(r) \/ ReadSitemap(r) \/ EndRead(r) \/ FinishListing(r)
         \/ Probe(r) \/ Back(r) \/ Plan(r) \/ Record(r) \/ PutOff(r)
         \/ Count(r) \/ Fail(r)
         \/ \E p \in Page : Ask(r, p)
    \/ ReviveSource \/ Apply
    \/ \E p \in Page : RevivePage(p)

Spec == Init /\ [][Next]_vars
-----------------------------------------------------------------------------
(* Properties.                                                             *)

TypeOK ==
    /\ clock \in Time /\ kind \in {"sitemap", "pages"}
    /\ status \in [Page -> {"none", "live", "gone", "refused", "excluded"}]
    /\ outcome \in [Page -> {"other", "gone", "blocked"}]
    /\ streak \in [Page -> Nat]
    /\ fetchedAt \in [Page -> Time] /\ listedAt \in [Page -> Time]
    /\ missing \in [Page -> 0..MissingGoneAfter]
    /\ removed \in BOOLEAN
    /\ blockedRuns \in 0..RefuseAfterRuns /\ refusedAt \in Time /\ countedAt \in Time
    /\ lastProbe \in {"none", "blocked", "no_answer"}
    /\ readAt \in Time
    /\ pc \in [Run -> {"off", "read", "finish", "probe", "probed", "back", "plan", "items", "ended"}]
    /\ probing \in [Run -> BOOLEAN]
    /\ probe \in [Run -> {"unasked", "through", "refused", "none"}]
    /\ heard \in [Run -> {"unasked", "through", "refused", "none"}]
    /\ read \in [Run -> {"empty", "listed", "partial"}]
    /\ plan \in [Run -> SUBSET Page]
    /\ asking \in [Run -> Page \cup {NoPage}] /\ askedAt \in [Run -> Time]
    /\ logged \subseteq Run \X Page
    /\ finished \subseteq Run
    /\ goneBy \in [Page -> {"none", "answers", "listings"}]
    /\ blame \in [Page -> SUBSET Run]
    /\ blockedIn \subseteq Run /\ took \subseteq Run
    /\ said \in [Run -> [blocked : Int, refused : BOOLEAN]]
    /\ lost \in 0..MaxEvents /\ owned \in 0..MaxEvents

(* A page goes missing only after MISSING_GONE_AFTER complete reads, each  *)
(* of another run, and each newer than the newest read that listed it:     *)
(* however reads overlap, end out of order, or run their steps again.      *)
GoneIsEarned ==
    \A p \in Page :
        goneBy[p] = "listings" =>
            Cardinality({r \in finished : r > listedAt[p]}) >= MissingGoneAfter

(* A page that is gone because its address answered so stays gone, however *)
(* often it is listed, until the owner brings it back.                     *)
NotFoundStaysGone ==
    [][\A p \in Page : goneBy[p] = "answers" => goneBy'[p] = "answers" \/ owned' # owned]_vars

(* A source's blocked runs are as many runs, none counted twice, since it  *)
(* was last got through to or revived; it is refused by the last of        *)
(* REFUSE_AFTER_RUNS such runs, and only a refused source keeps a probe.   *)
StandingIsEarned ==
    /\ blockedRuns = Cardinality(blockedIn)
    /\ refusedAt # 0 => /\ refusedAt \in blockedIn
                        /\ \A r \in blockedIn : r <= refusedAt
                        /\ blockedRuns = RefuseAfterRuns
    /\ lastProbe # "none" => refusedAt # 0

(* Blocks that a run's source counts are not the page's to count: no page  *)
(* whose last answer is a block is refused by blocks of runs that all took *)
(* theirs back.                                                            *)
BlocksCountOnce ==
    \A p \in Page : status[p] = "refused" /\ outcome[p] = "blocked" => ~(blame[p] \subseteq took)

(* A count that runs again would say what it said the first time, as long  *)
(* as nobody else has written the source.                                  *)
CountSaysTheSame == \A r \in Run : said[r] # NotSaid => Again(r) = said[r]

(* The pages of a source that has left the definition are excluded, with   *)
(* the source, until they return.                                          *)
RemovedSourceHasNoPages == removed => \A p \in Page : status[p] # "live"
=============================================================================
