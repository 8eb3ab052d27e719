------------------------------ MODULE HostGate ------------------------------
(***************************************************************************)
(* The politeness one host gets: the gate of platform/core/src/gate.ts,    *)
(* kept by the host's Durable Object (platform/worker/src/host-gate.ts),   *)
(* and the runs of datasets that ask it for each request                   *)
(* (gate-port.ts and requests.ts).                                         *)
(*                                                                         *)
(* The object handles one call at a time, so every call of the gate is a   *)
(* step; between the calls of one run there is time, and other runs.       *)
(* Times are in units of the pacing interval, and a step may come late.    *)
(***************************************************************************)
EXTENDS Integers

CONSTANTS
    Run,            \* runs that fetch from the host, each one request at a time
    interval,       \* [Run -> Nat]: the interval the run's dataset asks for
    MinInterval,    \* MIN_INTERVAL_MS
    CrawlDelay,     \* the Crawl-delay of the host's robots.txt
    MaxInlineWait,  \* MAX_INLINE_WAIT_MS
    MaxWaits,       \* MAX_WAITS
    MaxRedirects,   \* MAX_REDIRECTS
    BackoffBase,    \* BACKOFF_BASE_MS
    BackoffMax,     \* BACKOFF_MAX_MS
    Hour, Day,
    RetryAfter,     \* what a Retry-After may ask for, 0 if there is none
    MaxTime         \* bound: when time ends

ASSUME PaceAssumption ==
    /\ interval \in [Run -> Nat]
    /\ MinInterval \in Nat \ {0}
    /\ CrawlDelay \in Nat /\ MaxInlineWait \in Nat
ASSUME CountAssumption == MaxWaits \in Nat /\ MaxRedirects \in Nat
ASSUME BreakAssumption ==
    /\ BackoffBase \in Nat /\ BackoffMax \in Nat
    /\ Hour \in Nat /\ Day \in Nat /\ MaxTime \in Nat
    /\ RetryAfter \subseteq Nat

VARIABLES
    now,
    \* The gate's stored state.
    robots, nextAt, intervalMs, backoffUntil, failures,
    \* The runs' requests.
    pc,
    hop,         \* redirects followed
    attempt,     \* how often the request was put off
    resume,      \* the hop the request was last put off at
    wake,        \* when a run that was put off asks again
    slot,        \* when a request that may go is to start
    read,        \* the answer to robots.txt that is to be stored
    \* History.
    answeredAt,  \* when the last answer came to the gate
    breakEnd,    \* when the longest break owed to the host ends
    told         \* what the last answer to robots.txt but a challenge said

gateVars == <<robots, nextAt, intervalMs, backoffUntil, failures>>
requestVars == <<hop, attempt, resume, wake, slot, read>>
historyVars == <<answeredAt, breakEnd, told>>
vars == <<now, gateVars, pc, requestVars, historyVars>>

Larger(a, b) == IF a >= b THEN a ELSE b
Smaller(a, b) == IF a <= b THEN a ELSE b

(***************************************************************************)
(* robots.txt.                                                             *)
(***************************************************************************)
(* Rules that allow or disallow the pages, no rules ("open"), or nothing   *)
(* known ("down"); "none" before the first read.                           *)
Rules == {"allow", "disallow"}
Never == -1

RobotsAnswer == Rules \cup {"open", "down", "challenge"}
RobotsRecords == [status : Rules \cup {"none", "open", "down"}, fetchedAt : Nat,
                  challengedAt : Nat \cup {Never}]

NoRecord == [status |-> "none", fetchedAt |-> 0, challengedAt |-> Never]

RobotsNeedsRefresh ==
    \/ robots.status = "none"
    \/ /\ robots.challengedAt = Never \/ now - robots.challengedAt >= Hour
       /\ now - robots.fetchedAt >= IF robots.status = "down" THEN Hour ELSE Day

(* Variant: a challenge reads as having no rules, as a 403 does.           *)
ChallengeIsOpen(answer) ==
    [status |-> IF answer = "challenge" THEN "open" ELSE answer,
     fetchedAt |-> now,
     challengedAt |-> IF answer = "challenge" THEN now ELSE Never]

(* A challenge says nothing of the host's rules.                           *)
RobotsRecord(answer) ==
    [status |-> IF answer = "challenge" THEN "down" ELSE answer,
     fetchedAt |-> now,
     challengedAt |-> IF answer = "challenge" THEN now ELSE Never]

(* A challenge leaves rules, or their absence, in force.                   *)
RobotsToKeep(record) ==
    IF record.challengedAt = Never \/ robots.status \in {"none", "down"}
    THEN record
    ELSE [robots EXCEPT !.challengedAt = record.challengedAt]

GateInterval(record, r) ==
    Larger(Larger(MinInterval, interval[r]), IF record.status \in Rules THEN CrawlDelay ELSE 0)

(***************************************************************************)
(* A request through the gate: GatePort.reserve asks whether robots.txt is *)
(* due, reads it when the host is open for a request, and reserves.        *)
(***************************************************************************)
Goto(r, step) == pc' = [pc EXCEPT ![r] = step]

Init ==
    /\ now = 0
    /\ robots = NoRecord
    /\ nextAt = 0
    /\ intervalMs = MinInterval
    /\ backoffUntil = 0
    /\ failures = 0
    /\ pc = [r \in Run |-> "idle"]
    /\ hop = [r \in Run |-> 0]
    /\ attempt = [r \in Run |-> 0]
    /\ resume = [r \in Run |-> 0]
    /\ wake = [r \in Run |-> 0]
    /\ slot = [r \in Run |-> 0]
    /\ read = [r \in Run |-> NoRecord]
    /\ answeredAt = -MinInterval
    /\ breakEnd = 0
    /\ told = "none"

(* The run comes to its next page.                                         *)
Request(r) ==
    /\ pc[r] = "idle"
    /\ Goto(r, "due")
    /\ UNCHANGED <<now, gateVars, requestVars, historyVars>>

(* The request ends, and what the run knew of it is gone.                  *)
End(r) ==
    /\ Goto(r, "idle")
    /\ hop' = [hop EXCEPT ![r] = 0]
    /\ attempt' = [attempt EXCEPT ![r] = 0]
    /\ resume' = [resume EXCEPT ![r] = 0]
    /\ wake' = [wake EXCEPT ![r] = 0]
    /\ slot' = [slot EXCEPT ![r] = 0]
    /\ read' = [read EXCEPT ![r] = NoRecord]

RobotsDue(r) ==
    /\ pc[r] = "due"
    /\ Goto(r, IF RobotsNeedsRefresh THEN "opens" ELSE "reserve")
    /\ UNCHANGED <<now, gateVars, requestVars, historyVars>>

(* The request is put off, and its run sleeps; after MaxWaits times it is  *)
(* given up instead.                                                       *)
PutOff(r, until) ==
    IF attempt[r] >= MaxWaits
    THEN End(r)
    ELSE /\ Goto(r, "asleep")
         /\ attempt' = [attempt EXCEPT ![r] = @ + 1]
         /\ resume' = [resume EXCEPT ![r] = hop[r]]
         /\ wake' = [wake EXCEPT ![r] = until]
         /\ UNCHANGED <<hop, slot, read>>

(* robots.txt is asked for, if the host is open.                           *)
OpensAt(r) ==
    /\ pc[r] = "opens"
    /\ LET opensAt == Larger(nextAt, backoffUntil)
       IN  IF opensAt > now
           THEN PutOff(r, opensAt)
           ELSE Goto(r, "fetch") /\ UNCHANGED requestVars
    /\ UNCHANGED <<now, gateVars, historyVars>>

(* fetchRobots gets an answer, with the redirects it led through.          *)
FetchRobots(r) ==
    /\ pc[r] = "fetch"
    /\ \E answer \in RobotsAnswer :
         /\ read' = [read EXCEPT ![r] = RobotsRecord(answer)]
    /\ Goto(r, "store")
    /\ UNCHANGED <<now, gateVars, hop, attempt, resume, wake, slot, historyVars>>

StoreRobots(r) ==
    /\ pc[r] = "store"
    /\ robots' = RobotsToKeep(read[r])
    /\ nextAt' = Larger(nextAt, now + GateInterval(robots', r))
    /\ Goto(r, "reserve")
    /\ answeredAt' = now
    /\ told' = IF read[r].challengedAt = Never THEN read[r].status ELSE told
    /\ read' = [read EXCEPT ![r] = NoRecord]
    /\ UNCHANGED <<now, intervalMs, backoffUntil, failures>>
    /\ UNCHANGED <<hop, attempt, resume, wake, slot, breakEnd>>

(* reserve, when robots.txt is unreachable or disallows the page.          *)
Deny(r) ==
    /\ pc[r] = "reserve"
    /\ robots.status \in {"none", "down", "disallow"}
    /\ End(r)
    /\ UNCHANGED <<now, gateVars, historyVars>>

Start == Larger(now, Larger(nextAt, backoffUntil))

(* reserve, when the request may go but not soon.                          *)
Later(r) ==
    /\ pc[r] = "reserve"
    /\ robots.status \in {"allow", "open"}
    /\ Start - now > MaxInlineWait
    /\ PutOff(r, Start)
    /\ UNCHANGED <<now, gateVars, historyVars>>

(* Variant: the next slot is counted from now, not from this one.          *)
ReserveFromNow(r) ==
    /\ pc[r] = "reserve"
    /\ robots.status \in {"allow", "open"}
    /\ Start - now <= MaxInlineWait
    /\ slot' = [slot EXCEPT ![r] = Start]
    /\ intervalMs' = GateInterval(robots, r)
    /\ nextAt' = Larger(nextAt, now + intervalMs')
    /\ Goto(r, "waiting")
    /\ UNCHANGED <<now, robots, backoffUntil, failures>>
    /\ UNCHANGED <<hop, attempt, resume, wake, read, historyVars>>

(* reserve: the request gets the next slot.                                *)
Reserve(r) ==
    /\ pc[r] = "reserve"
    /\ robots.status \in {"allow", "open"}
    /\ Start - now <= MaxInlineWait
    /\ slot' = [slot EXCEPT ![r] = Start]
    /\ intervalMs' = GateInterval(robots, r)
    /\ nextAt' = Start + intervalMs'
    /\ Goto(r, "waiting")
    /\ UNCHANGED <<now, robots, backoffUntil, failures>>
    /\ UNCHANGED <<hop, attempt, resume, wake, read, historyVars>>

(* The wait is over, and the request leaves.                               *)
Get(r) ==
    /\ pc[r] = "waiting"
    /\ now >= slot[r]
    /\ Goto(r, "asking")
    /\ UNCHANGED <<now, gateVars, requestVars, historyVars>>

(***************************************************************************)
(* The answer, and what the gate makes of it: recordResponse.              *)
(***************************************************************************)
(* The break after so many strains in a row, without a Retry-After.        *)
Backoff(strains) == Smaller(BackoffMax, BackoffBase * 2 ^ (strains - 1))

(* Variant: the interval counts from the request, not from the answer.     *)
Unpaced == UNCHANGED nextAt

Paced == nextAt' = Larger(nextAt, now + intervalMs)

(* Neither too many requests, nor a block, nor an outage.                  *)
RecordFine(r) ==
    /\ pc[r] = "asking"
    /\ Paced
    /\ failures' = 0
    /\ \/ End(r)
       \/ /\ hop[r] < MaxRedirects
          /\ hop' = [hop EXCEPT ![r] = @ + 1]
          /\ slot' = [slot EXCEPT ![r] = 0]
          /\ Goto(r, "due")
          /\ UNCHANGED <<attempt, resume, wake, read>>
    /\ answeredAt' = now
    /\ UNCHANGED <<now, robots, intervalMs, backoffUntil, breakEnd, told>>

(* Variant: a Retry-After stands in for the break.                         *)
ObeyRetryAfter(r) ==
    /\ pc[r] = "asking"
    /\ Paced
    /\ failures' = failures + 1
    /\ \E retryAfter \in RetryAfter :
         backoffUntil' = Larger(backoffUntil,
             now + IF retryAfter = 0 THEN Backoff(failures') ELSE Smaller(retryAfter, Hour))
    /\ End(r)
    /\ answeredAt' = now
    /\ breakEnd' = Larger(breakEnd, now + Backoff(failures'))
    /\ UNCHANGED <<now, robots, intervalMs, told>>

RecordStrain(r) ==
    /\ pc[r] = "asking"
    /\ Paced
    /\ failures' = failures + 1
    /\ \E retryAfter \in RetryAfter :
         backoffUntil' = Larger(backoffUntil,
             now + Larger(Backoff(failures'), Smaller(retryAfter, Hour)))
    /\ End(r)
    /\ answeredAt' = now
    /\ breakEnd' = Larger(breakEnd, now + Backoff(failures'))
    /\ UNCHANGED <<now, robots, intervalMs, told>>

(***************************************************************************)
(* Sleep, crashes and time.                                                *)
(***************************************************************************)
BeginStep(r) ==
    /\ hop' = [hop EXCEPT ![r] = resume[r]]
    /\ wake' = [wake EXCEPT ![r] = 0]
    /\ slot' = [slot EXCEPT ![r] = 0]
    /\ read' = [read EXCEPT ![r] = NoRecord]
    /\ Goto(r, "due")
    /\ UNCHANGED <<attempt, resume>>

Wake(r) ==
    /\ pc[r] = "asleep"
    /\ now >= wake[r]
    /\ BeginStep(r)
    /\ UNCHANGED <<now, gateVars, historyVars>>

(* The run's step crashes, and Workflows runs it again from its start.     *)
StepRunsAgain(r) ==
    /\ pc[r] \notin {"idle", "asleep"}
    /\ BeginStep(r)
    /\ UNCHANGED <<now, gateVars, historyVars>>

Tick ==
    /\ now < MaxTime
    /\ now' = now + 1
    /\ UNCHANGED <<gateVars, pc, requestVars, historyVars>>

-----------------------------------------------------------------------------
Next ==
    \/ \E r \in Run :
         \/ Request(r) \/ RobotsDue(r) \/ OpensAt(r) \/ FetchRobots(r) \/ StoreRobots(r)
         \/ Deny(r) \/ Later(r) \/ Reserve(r) \/ Get(r) \/ RecordFine(r) \/ RecordStrain(r)
         \/ Wake(r) \/ StepRunsAgain(r)
    \/ Tick

Spec == Init /\ [][Next]_vars

-----------------------------------------------------------------------------
(***************************************************************************)
(* Properties.                                                             *)
(***************************************************************************)

(* The types of the variables: the gate's stored state, and what a run     *)
(* keeps of its request.                                                   *)
TypeOK ==
    /\ now \in Nat
    /\ robots \in RobotsRecords
    /\ nextAt \in Nat /\ intervalMs \in Nat \ {0} /\ backoffUntil \in Int /\ failures \in Nat
    /\ pc \in [Run -> {"idle", "due", "opens", "fetch", "store", "reserve", "waiting", "asking",
                       "asleep"}]
    /\ hop \in [Run -> 0..MaxRedirects]
    /\ attempt \in [Run -> 0..MaxWaits]
    /\ resume \in [Run -> 0..MaxRedirects]
    /\ wake \in [Run -> Nat]
    /\ slot \in [Run -> Nat]
    /\ read \in [Run -> RobotsRecords]
    /\ answeredAt \in Int /\ breakEnd \in Int
    /\ told \in Rules \cup {"none", "open", "down"}

Granted(r) == pc[r] \in {"waiting", "asking"}
IsGranted(r) == pc[r] # "waiting" /\ pc'[r] = "waiting"
ReadsRobots(r) == pc[r] # "fetch" /\ pc'[r] = "fetch"

(* Two runs never hold the same slot of the host, and the later one is as  *)
(* far from the earlier as the earlier's dataset asks.                     *)
SlotsApart ==
    \A q, r \in Run : q # r /\ Granted(q) /\ Granted(r) /\ slot[q] <= slot[r] =>
        slot[q] + Larger(MinInterval, interval[q]) <= slot[r]

(* An interval passes after the last answer before a request that was not  *)
(* granted yet may start, or robots.txt is read: a slow answer doesn't eat *)
(* into the wait, whichever run it was for.                                *)
AnswersPaced ==
    [][\A r \in Run :
          /\ IsGranted(r) => slot'[r] >= answeredAt + MinInterval
          /\ ReadsRobots(r) => now >= answeredAt + MinInterval]_vars

(* A strained host gets its break, which doubles with each strain: no slot *)
(* is granted within it, and robots.txt is not read, whatever Retry-After  *)
(* and the answers to other requests said.                                 *)
BreaksRespected ==
    [][\A r \in Run :
          /\ IsGranted(r) => slot'[r] >= breakEnd
          /\ ReadsRobots(r) => now >= breakEnd]_vars

(* A page is asked for only when the last answer to robots.txt that was no *)
(* challenge allows it; a host that answers challenges is taken at its     *)
(* earlier word.                                                           *)
AskedAsTold == [][\A r \in Run : IsGranted(r) => told \in {"allow", "open"}]_vars

(***************************************************************************)
(* The inductive invariant the proofs rest on: what the gate keeps is      *)
(* after every answer, every break and every slot it gave out.             *)
(***************************************************************************)
AfterAnswers == intervalMs >= MinInterval /\ nextAt >= answeredAt + MinInterval

AfterBreaks == backoffUntil >= breakEnd

AfterSlots ==
    \A r \in Run : Granted(r) => slot[r] + Larger(MinInterval, interval[r]) <= nextAt

(* What is in force is what the host said last, challenges aside.          *)
RulesAsTold ==
    /\ robots.status \notin {"none", "down"} => told = robots.status
    /\ \A r \in Run : read[r].challengedAt # Never => read[r].status = "down"

GateInv == AfterAnswers /\ AfterBreaks /\ AfterSlots /\ SlotsApart /\ RulesAsTold

=============================================================================
