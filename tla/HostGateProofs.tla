---------------------------- MODULE HostGateProofs --------------------------
(***************************************************************************)
(* Theorems about HostGate, for any number of runs and any intervals: the  *)
(* slots a host gives out are apart, and keep the distance from every      *)
(* answer and every break.                                                 *)
(***************************************************************************)
EXTENDS HostGate, TLAPS

RunStep(r) ==
    \/ Request(r) \/ RobotsDue(r) \/ OpensAt(r) \/ FetchRobots(r) \/ StoreRobots(r)
    \/ Deny(r) \/ Later(r) \/ Reserve(r) \/ Get(r) \/ RecordFine(r) \/ RecordStrain(r)
    \/ Wake(r) \/ StepRunsAgain(r)

LEMMA NextSteps == Next => (\E r \in Run : RunStep(r)) \/ Tick
  BY DEF Next, RunStep

(***************************************************************************)
(* Arithmetic.                                                             *)
(***************************************************************************)

(* The larger and the smaller of two numbers.                              *)
LEMMA LargerFacts == \A a, b \in Int : /\ Larger(a, b) \in Int
                                      /\ Larger(a, b) >= a /\ Larger(a, b) >= b
                                      /\ (Larger(a, b) = a \/ Larger(a, b) = b)
  BY DEF Larger

LEMMA SmallerFacts == \A a, b \in Int : Smaller(a, b) \in Int
  BY DEF Smaller

(* A break is a number of units of time, whatever the strains.             *)
LEMMA BackoffType == ASSUME NEW n \in Nat PROVE Backoff(n + 1) \in Int
  <1>1. \A k \in Nat : 2 ^ k \in Int
    BY Z3
  <1>2. 2 ^ ((n + 1) - 1) \in Int
    BY <1>1
  <1>3. BackoffBase * 2 ^ ((n + 1) - 1) \in Int
    BY <1>2, BreakAssumption
  <1> QED BY <1>3, SmallerFacts, BreakAssumption DEF Backoff

(* A host's interval is what is asked for, and never none.                 *)
LEMMA IntervalType == ASSUME NEW record, NEW r \in Run
                      PROVE  /\ GateInterval(record, r) \in Nat \ {0}
                             /\ GateInterval(record, r) >= MinInterval
                             /\ GateInterval(record, r) >= Larger(MinInterval, interval[r])
                             /\ Larger(MinInterval, interval[r]) \in Nat
                             /\ Larger(MinInterval, interval[r]) >= MinInterval
  BY PaceAssumption DEF GateInterval, Larger

LEMMA StartType == ASSUME TypeOK PROVE Start \in Nat /\ Start >= nextAt /\ Start >= backoffUntil
  BY DEF TypeOK, Start, Larger

LEMMA RecordTypes == ASSUME TypeOK
                     PROVE  /\ NoRecord \in RobotsRecords
                            /\ \A answer \in RobotsAnswer : RobotsRecord(answer) \in RobotsRecords
                            /\ \A record \in RobotsRecords : RobotsToKeep(record) \in RobotsRecords
  BY DEF TypeOK, NoRecord, RobotsRecord, RobotsToKeep, RobotsRecords, RobotsAnswer, Rules, Never

(***************************************************************************)
(* Types.                                                                  *)
(***************************************************************************)
LEMMA InitType == Init => TypeOK
  BY PaceAssumption, CountAssumption DEF Init, TypeOK, NoRecord, RobotsRecords, Rules, Never

(* A request that ends, or begins its step again, keeps its locals' types. *)
LEMMA EndType == ASSUME TypeOK, NEW r \in Run, End(r) \/ BeginStep(r)
                 PROVE  /\ pc' \in [Run -> {"idle", "due", "opens", "fetch", "store", "reserve",
                                           "waiting", "asking", "asleep"}]
                        /\ hop' \in [Run -> 0..MaxRedirects]
                        /\ attempt' \in [Run -> 0..MaxWaits]
                        /\ resume' \in [Run -> 0..MaxRedirects]
                        /\ wake' \in [Run -> Nat]
                        /\ slot' \in [Run -> Nat]
                        /\ read' \in [Run -> RobotsRecords]
  BY RecordTypes, CountAssumption DEF TypeOK, End, BeginStep, Goto

LEMMA PutOffType == ASSUME TypeOK, NEW r \in Run, NEW until \in Nat, PutOff(r, until)
                    PROVE  /\ pc' \in [Run -> {"idle", "due", "opens", "fetch", "store", "reserve",
                                              "waiting", "asking", "asleep"}]
                           /\ hop' \in [Run -> 0..MaxRedirects]
                           /\ attempt' \in [Run -> 0..MaxWaits]
                           /\ resume' \in [Run -> 0..MaxRedirects]
                           /\ wake' \in [Run -> Nat]
                           /\ slot' \in [Run -> Nat]
                           /\ read' \in [Run -> RobotsRecords]
  <1>1. CASE attempt[r] >= MaxWaits
    BY <1>1, EndType DEF PutOff
  <1>2. CASE ~(attempt[r] >= MaxWaits)
    BY <1>2, CountAssumption DEF TypeOK, PutOff, Goto
  <1> QED BY <1>1, <1>2

LEMMA RunType == ASSUME TypeOK, NEW r \in Run, RunStep(r) PROVE TypeOK'
  <1>1. CASE Request(r)
    BY <1>1 DEF TypeOK, Request, Goto, gateVars, requestVars, historyVars
  <1>2. CASE RobotsDue(r)
    BY <1>2 DEF TypeOK, RobotsDue, Goto, gateVars, requestVars, historyVars
  <1>3. CASE OpensAt(r)
    <2>1. CASE Larger(nextAt, backoffUntil) > now
      <3>1. Larger(nextAt, backoffUntil) \in Nat
        BY DEF TypeOK, Larger
      <3>2. PutOff(r, Larger(nextAt, backoffUntil))
        BY <1>3, <2>1 DEF OpensAt
      <3> QED BY <1>3, <3>1, <3>2, PutOffType DEF TypeOK, OpensAt, gateVars, historyVars
    <2>2. CASE ~(Larger(nextAt, backoffUntil) > now)
      BY <1>3, <2>2 DEF TypeOK, OpensAt, Goto, gateVars, requestVars, historyVars
    <2> QED BY <2>1, <2>2
  <1>4. CASE FetchRobots(r)
    BY <1>4, RecordTypes DEF TypeOK, FetchRobots, Goto, gateVars, historyVars
  <1>5. CASE StoreRobots(r)
    <2>1. robots' \in RobotsRecords /\ read' \in [Run -> RobotsRecords]
      BY <1>5, RecordTypes DEF TypeOK, StoreRobots
    <2>2. nextAt' \in Nat
      BY <1>5, IntervalType DEF TypeOK, StoreRobots, Larger
    <2>3. told' \in Rules \cup {"none", "open", "down"}
      BY <1>5 DEF TypeOK, StoreRobots, RobotsRecords
    <2> QED BY <1>5, <2>1, <2>2, <2>3 DEF TypeOK, StoreRobots, Goto
  <1>6. CASE Deny(r)
    BY <1>6, EndType DEF TypeOK, Deny, gateVars, historyVars
  <1>7. CASE Later(r)
    BY <1>7, StartType, PutOffType DEF TypeOK, Later, gateVars, historyVars
  <1>8. CASE Reserve(r)
    <2>1. intervalMs' \in Nat \ {0} /\ nextAt' \in Nat
      BY <1>8, StartType, IntervalType DEF Reserve
    <2> QED BY <1>8, <2>1, StartType DEF TypeOK, Reserve, Goto, historyVars
  <1>9. CASE Get(r)
    BY <1>9 DEF TypeOK, Get, Goto, gateVars, requestVars, historyVars
  <1>10. CASE RecordFine(r)
    <2>1. nextAt' \in Nat
      BY <1>10 DEF TypeOK, RecordFine, Paced, Larger
    <2>2. CASE End(r)
      BY <1>10, <2>1, <2>2, EndType DEF TypeOK, RecordFine
    <2>3. CASE ~End(r)
      BY <1>10, <2>1, <2>3, CountAssumption DEF TypeOK, RecordFine, Goto
    <2> QED BY <2>2, <2>3
  <1>11. CASE RecordStrain(r)
    <2>1. nextAt' \in Nat
      BY <1>11 DEF TypeOK, RecordStrain, Paced, Larger
    <2>2. Backoff(failures') \in Int
      BY <1>11, BackoffType DEF TypeOK, RecordStrain
    <2>3. backoffUntil' \in Int
      BY <1>11, <2>2, BreakAssumption DEF TypeOK, RecordStrain, Larger, Smaller
    <2>4. breakEnd' \in Int
      BY <1>11, <2>2 DEF TypeOK, RecordStrain, Larger
    <2> QED BY <1>11, <2>1, <2>3, <2>4, EndType DEF TypeOK, RecordStrain
  <1>12. CASE Wake(r)
    BY <1>12, EndType DEF TypeOK, Wake, gateVars, historyVars
  <1>13. CASE StepRunsAgain(r)
    BY <1>13, EndType DEF TypeOK, StepRunsAgain, gateVars, historyVars
  <1> QED BY <1>1, <1>2, <1>3, <1>4, <1>5, <1>6, <1>7, <1>8, <1>9, <1>10, <1>11, <1>12, <1>13 DEF RunStep

LEMMA TypeStep == TypeOK /\ [Next]_vars => TypeOK'
  <1> SUFFICES ASSUME TypeOK, [Next]_vars PROVE TypeOK'
    OBVIOUS
  <1>1. CASE Tick
    BY <1>1 DEF TypeOK, Tick, gateVars, requestVars, historyVars
  <1>2. CASE UNCHANGED vars
    BY <1>2 DEF TypeOK, vars, gateVars, requestVars, historyVars
  <1> QED BY <1>1, <1>2, NextSteps, RunType

(* The gate's stored state and what the runs keep have their types.        *)
THEOREM TypeCorrect == Spec => []TypeOK
  <1>1. Init => TypeOK
    BY InitType
  <1>2. TypeOK /\ [Next]_vars => TypeOK'
    BY TypeStep
  <1> QED BY <1>1, <1>2, PTL DEF Spec

(***************************************************************************)
(* What the gate keeps.                                                    *)
(***************************************************************************)

(* A run's step that leaves the gate alone gives out no slot, and what it  *)
(* may have read of robots.txt is a record of an answer.                   *)
Quiet ==
    /\ robots' = robots /\ nextAt' = nextAt /\ intervalMs' = intervalMs
    /\ backoffUntil' = backoffUntil
    /\ answeredAt' = answeredAt /\ breakEnd' = breakEnd /\ told' = told
    /\ \A q \in Run : Granted(q)' => Granted(q) /\ slot'[q] = slot[q]
    /\ \A q \in Run : read'[q] = read[q] \/ (read'[q].challengedAt # Never => read'[q].status = "down")

LEMMA Challenges == /\ NoRecord.challengedAt = Never
                    /\ \A answer : RobotsRecord(answer).challengedAt # Never
                                      => RobotsRecord(answer).status = "down"
  BY DEF NoRecord, RobotsRecord

(* An end of a request, or a new start of its step, gives out no slot.     *)
LEMMA EndQuiet == ASSUME TypeOK, NEW r \in Run, End(r) \/ BeginStep(r)
                  PROVE  /\ \A q \in Run : Granted(q)' => Granted(q) /\ slot'[q] = slot[q]
                         /\ \A q \in Run : read'[q] = read[q]
                               \/ (read'[q].challengedAt # Never => read'[q].status = "down")
  <1>1. /\ pc'[r] \in {"idle", "due"} /\ read'[r] = NoRecord
        /\ \A q \in Run : q # r => pc'[q] = pc[q] /\ slot'[q] = slot[q] /\ read'[q] = read[q]
    BY DEF TypeOK, End, BeginStep, Goto
  <1> QED BY <1>1, Challenges DEF Granted

LEMMA PutOffQuiet == ASSUME TypeOK, NEW r \in Run, NEW until \in Nat, PutOff(r, until)
                     PROVE  /\ \A q \in Run : Granted(q)' => Granted(q) /\ slot'[q] = slot[q]
                            /\ \A q \in Run : read'[q] = read[q]
                                  \/ (read'[q].challengedAt # Never => read'[q].status = "down")
  <1>1. CASE attempt[r] >= MaxWaits
    BY <1>1, EndQuiet DEF PutOff
  <1>2. CASE ~(attempt[r] >= MaxWaits)
    BY <1>2 DEF TypeOK, PutOff, Goto, Granted
  <1> QED BY <1>1, <1>2

LEMMA QuietSteps == ASSUME TypeOK, NEW r \in Run,
                           \/ Request(r) \/ RobotsDue(r) \/ OpensAt(r) \/ FetchRobots(r)
                           \/ Deny(r) \/ Later(r) \/ Get(r) \/ Wake(r) \/ StepRunsAgain(r)
                    PROVE  Quiet
  <1>1. CASE Request(r)
    BY <1>1 DEF TypeOK, Request, Goto, Quiet, Granted, gateVars, requestVars, historyVars
  <1>2. CASE RobotsDue(r)
    BY <1>2 DEF TypeOK, RobotsDue, Goto, Quiet, Granted, gateVars, requestVars, historyVars
  <1>3. CASE OpensAt(r)
    <2>1. CASE Larger(nextAt, backoffUntil) > now
      <3>1. Larger(nextAt, backoffUntil) \in Nat
        BY DEF TypeOK, Larger
      <3>2. PutOff(r, Larger(nextAt, backoffUntil))
        BY <1>3, <2>1 DEF OpensAt
      <3> QED BY <1>3, <3>1, <3>2, PutOffQuiet DEF OpensAt, Quiet, gateVars, historyVars
    <2>2. CASE ~(Larger(nextAt, backoffUntil) > now)
      BY <1>3, <2>2 DEF TypeOK, OpensAt, Goto, Quiet, Granted, gateVars, requestVars, historyVars
    <2> QED BY <2>1, <2>2
  <1>4. CASE FetchRobots(r)
    <2>1. PICK answer \in RobotsAnswer : read' = [read EXCEPT ![r] = RobotsRecord(answer)]
      BY <1>4 DEF FetchRobots
    <2>2. \A q \in Run : read'[q] = read[q] \/ read'[q] = RobotsRecord(answer)
      BY <2>1 DEF TypeOK
    <2>3. \A q \in Run : Granted(q)' => Granted(q) /\ slot'[q] = slot[q]
      BY <1>4 DEF TypeOK, FetchRobots, Goto, Granted
    <2> QED BY <1>4, <2>2, <2>3, Challenges DEF FetchRobots, Quiet, gateVars, historyVars
  <1>5. CASE Deny(r)
    BY <1>5, EndQuiet DEF Deny, Quiet, gateVars, historyVars
  <1>6. CASE Later(r)
    BY <1>6, StartType, PutOffQuiet DEF Later, Quiet, gateVars, historyVars
  <1>7. CASE Get(r)
    BY <1>7 DEF TypeOK, Get, Goto, Quiet, Granted, gateVars, requestVars, historyVars
  <1>8. CASE Wake(r)
    BY <1>8, EndQuiet DEF Wake, Quiet, gateVars, historyVars
  <1>9. CASE StepRunsAgain(r)
    BY <1>9, EndQuiet DEF StepRunsAgain, Quiet, gateVars, historyVars
  <1> QED BY <1>1, <1>2, <1>3, <1>4, <1>5, <1>6, <1>7, <1>8, <1>9

LEMMA QuietInv == ASSUME GateInv, Quiet PROVE GateInv'
  <1>1. AfterAnswers' /\ AfterBreaks'
    BY DEF GateInv, AfterAnswers, AfterBreaks, Quiet
  <1>2. AfterSlots'
    BY DEF GateInv, AfterSlots, Quiet
  <1>3. SlotsApart'
    BY DEF GateInv, SlotsApart, Quiet
  <1>4. RulesAsTold'
    BY DEF GateInv, RulesAsTold, Quiet
  <1> QED BY <1>1, <1>2, <1>3, <1>4 DEF GateInv

(* The gate puts its next slot off, and gives none out.                    *)
LEMMA NoSlotInv ==
    ASSUME TypeOK, GateInv, nextAt' \in Nat, nextAt' >= nextAt,
           \A q \in Run : Granted(q)' => Granted(q) /\ slot'[q] = slot[q]
    PROVE  AfterSlots' /\ SlotsApart'
  <1>1. AfterSlots'
    <2> SUFFICES ASSUME NEW q \in Run, Granted(q)'
                 PROVE  slot'[q] + Larger(MinInterval, interval[q]) <= nextAt'
      BY DEF AfterSlots
    <2>1. slot'[q] = slot[q] /\ slot[q] + Larger(MinInterval, interval[q]) <= nextAt
      BY DEF GateInv, AfterSlots
    <2>2. slot[q] \in Nat /\ Larger(MinInterval, interval[q]) \in Nat
      BY IntervalType DEF TypeOK
    <2> QED BY <2>1, <2>2 DEF TypeOK
  <1>2. SlotsApart'
    BY DEF GateInv, SlotsApart
  <1> QED BY <1>1, <1>2

LEMMA StoreInv == ASSUME TypeOK, GateInv, NEW r \in Run, StoreRobots(r) PROVE GateInv'
  <1>1. /\ intervalMs' = intervalMs /\ backoffUntil' = backoffUntil /\ breakEnd' = breakEnd
        /\ answeredAt' = now
        /\ nextAt' = Larger(nextAt, now + GateInterval(robots', r))
        /\ robots' = RobotsToKeep(read[r])
    BY DEF StoreRobots
  <1>2. GateInterval(robots', r) \in Nat /\ GateInterval(robots', r) >= MinInterval
    BY IntervalType
  <1>3. nextAt' \in Nat /\ nextAt' >= nextAt /\ nextAt' >= now + MinInterval
    BY <1>1, <1>2, PaceAssumption DEF TypeOK, Larger
  <1>4. AfterAnswers' /\ AfterBreaks'
    BY <1>1, <1>3 DEF GateInv, AfterAnswers, AfterBreaks
  <1>5. \A q \in Run : Granted(q)' => Granted(q) /\ slot'[q] = slot[q]
    BY DEF TypeOK, StoreRobots, Goto, Granted
  <1>6. RulesAsTold'
    <2>1. \A q \in Run : read'[q] = read[q] \/ read'[q] = NoRecord
      BY DEF TypeOK, StoreRobots
    <2>2. \A q \in Run : read'[q].challengedAt # Never => read'[q].status = "down"
      BY <2>1, Challenges DEF GateInv, RulesAsTold
    <2>3. robots'.status \notin {"none", "down"} => told' = robots'.status
      <3>1. CASE read[r].challengedAt = Never
        BY <1>1, <3>1 DEF RobotsToKeep, StoreRobots
      <3>2. CASE read[r].challengedAt # Never /\ robots.status \in {"none", "down"}
        BY <1>1, <3>2 DEF RobotsToKeep, GateInv, RulesAsTold
      <3>3. CASE read[r].challengedAt # Never /\ robots.status \notin {"none", "down"}
        <4>1. robots'.status = robots.status
          BY <1>1, <3>3 DEF RobotsToKeep, TypeOK, RobotsRecords
        <4>2. told' = told
          BY <3>3 DEF StoreRobots
        <4> QED BY <3>3, <4>1, <4>2 DEF GateInv, RulesAsTold
      <3> QED BY <3>1, <3>2, <3>3
    <2> QED BY <2>2, <2>3 DEF RulesAsTold
  <1> QED BY <1>3, <1>4, <1>5, <1>6, NoSlotInv DEF GateInv

(* A slot given out is after every slot held.                              *)
LEMMA ReserveInv == ASSUME TypeOK, GateInv, NEW r \in Run, Reserve(r) PROVE GateInv'
  <1>1. /\ intervalMs' = GateInterval(robots, r) /\ nextAt' = Start + intervalMs'
        /\ UNCHANGED <<robots, backoffUntil, answeredAt, breakEnd, told, read>>
    BY DEF Reserve, historyVars
  <1>2. /\ intervalMs' \in Nat /\ intervalMs' >= MinInterval
        /\ intervalMs' >= Larger(MinInterval, interval[r])
        /\ Start \in Nat /\ Start >= nextAt
    BY <1>1, IntervalType, StartType
  <1>3. /\ slot'[r] = Start
        /\ \A q \in Run : q # r => slot'[q] = slot[q] /\ (Granted(q)' => Granted(q))
    BY DEF TypeOK, Reserve, Goto, Granted
  <1>4. \A q \in Run : /\ slot[q] \in Nat
                       /\ Larger(MinInterval, interval[q]) \in Nat
                       /\ Larger(MinInterval, interval[q]) >= MinInterval
    BY IntervalType DEF TypeOK
  <1>5. \A q \in Run : Granted(q) => slot[q] + Larger(MinInterval, interval[q]) <= nextAt
    BY DEF GateInv, AfterSlots
  <1>6. AfterAnswers' /\ AfterBreaks'
    <2>1. nextAt >= answeredAt + MinInterval
      BY DEF GateInv, AfterAnswers
    <2> QED BY <1>1, <1>2, <2>1, PaceAssumption DEF GateInv, AfterAnswers, AfterBreaks, TypeOK
  <1>7. AfterSlots'
    <2> SUFFICES ASSUME NEW q \in Run, Granted(q)'
                 PROVE  slot'[q] + Larger(MinInterval, interval[q]) <= nextAt'
      BY DEF AfterSlots
    <2>1. CASE q = r
      BY <1>1, <1>2, <1>3, <1>4, <2>1
    <2>2. CASE q # r
      BY <1>1, <1>2, <1>3, <1>4, <1>5, <2>2 DEF TypeOK
    <2> QED BY <2>1, <2>2
  <1>8. SlotsApart'
    <2> SUFFICES ASSUME NEW p \in Run, NEW q \in Run, p # q, Granted(p)', Granted(q)',
                        slot'[p] <= slot'[q]
                 PROVE  slot'[p] + Larger(MinInterval, interval[p]) <= slot'[q]
      BY DEF SlotsApart
    <2>1. CASE q = r
      <3>1. slot[p] + Larger(MinInterval, interval[p]) <= nextAt /\ slot'[p] = slot[p]
        BY <1>3, <1>5, <2>1
      <3> QED BY <1>2, <1>3, <1>4, <2>1, <3>1 DEF TypeOK
    <2>2. CASE p = r
      <3>1. slot[q] + Larger(MinInterval, interval[q]) <= nextAt /\ slot'[q] = slot[q]
        BY <1>3, <1>5, <2>2
      <3>2. slot[q] < Start
        BY <1>2, <1>4, <3>1, PaceAssumption DEF TypeOK
      <3> QED BY <1>2, <1>3, <1>4, <2>2, <3>1, <3>2
    <2>3. CASE p # r /\ q # r
      BY <1>3, <2>3 DEF GateInv, SlotsApart
    <2> QED BY <2>1, <2>2, <2>3
  <1>9. RulesAsTold'
    BY <1>1 DEF GateInv, RulesAsTold
  <1> QED BY <1>6, <1>7, <1>8, <1>9 DEF GateInv

LEMMA AnswerInv == ASSUME TypeOK, GateInv, NEW r \in Run, RecordFine(r) \/ RecordStrain(r)
                   PROVE  GateInv'
  <1>1. /\ nextAt' = Larger(nextAt, now + intervalMs)
        /\ answeredAt' = now
        /\ UNCHANGED <<robots, intervalMs, told>>
    BY DEF RecordFine, RecordStrain, Paced
  <1>2. nextAt' \in Nat /\ nextAt' >= nextAt /\ nextAt' >= now + MinInterval
    BY <1>1, PaceAssumption DEF TypeOK, GateInv, AfterAnswers, Larger
  <1>3. AfterAnswers'
    BY <1>1, <1>2 DEF GateInv, AfterAnswers
  <1>4. AfterBreaks'
    <2>1. CASE RecordFine(r)
      BY <2>1 DEF RecordFine, GateInv, AfterBreaks
    <2>2. CASE RecordStrain(r)
      <3>1. Backoff(failures') \in Int
        BY <2>2, BackoffType DEF TypeOK, RecordStrain
      <3>2. PICK retryAfter \in RetryAfter :
               backoffUntil' = Larger(backoffUntil,
                   now + Larger(Backoff(failures'), Smaller(retryAfter, Hour)))
        BY <2>2 DEF RecordStrain
      <3>3. breakEnd' = Larger(breakEnd, now + Backoff(failures'))
        BY <2>2 DEF RecordStrain
      <3>4. Smaller(retryAfter, Hour) \in Int
        BY SmallerFacts, BreakAssumption
      <3>5. /\ Larger(Backoff(failures'), Smaller(retryAfter, Hour)) \in Int
            /\ Larger(Backoff(failures'), Smaller(retryAfter, Hour)) >= Backoff(failures')
        BY <3>1, <3>4, LargerFacts
      <3>6. /\ backoffUntil' \in Int /\ backoffUntil' >= backoffUntil
            /\ backoffUntil' >= now + Larger(Backoff(failures'), Smaller(retryAfter, Hour))
        BY <3>2, <3>5, LargerFacts DEF TypeOK
      <3>7. breakEnd' = breakEnd \/ breakEnd' = now + Backoff(failures')
        BY <3>1, <3>3, LargerFacts DEF TypeOK
      <3> QED BY <3>1, <3>5, <3>6, <3>7 DEF TypeOK, GateInv, AfterBreaks
    <2> QED BY <2>1, <2>2
  <1>5. \A q \in Run : Granted(q)' => Granted(q) /\ slot'[q] = slot[q]
    <2>1. CASE End(r)
      BY <2>1, EndQuiet
    <2>2. CASE ~End(r)
      BY <2>2 DEF TypeOK, RecordFine, RecordStrain, Goto, Granted
    <2> QED BY <2>1, <2>2
  <1>6. RulesAsTold'
    <2>1. CASE End(r)
      BY <1>1, <2>1, EndQuiet DEF GateInv, RulesAsTold
    <2>2. CASE ~End(r)
      BY <1>1, <2>2 DEF RecordFine, RecordStrain, GateInv, RulesAsTold
    <2> QED BY <2>1, <2>2
  <1> QED BY <1>2, <1>3, <1>4, <1>5, <1>6, NoSlotInv DEF GateInv

LEMMA InitInv == Init => GateInv
  <1> SUFFICES ASSUME Init PROVE GateInv
    OBVIOUS
  <1>1. AfterAnswers /\ AfterBreaks
    BY PaceAssumption DEF Init, AfterAnswers, AfterBreaks
  <1>2. AfterSlots /\ SlotsApart
    BY DEF Init, AfterSlots, SlotsApart, Granted
  <1>3. RulesAsTold
    BY DEF Init, RulesAsTold, NoRecord, Never
  <1> QED BY <1>1, <1>2, <1>3 DEF GateInv

LEMMA InvStep == TypeOK /\ GateInv /\ [Next]_vars => GateInv'
  <1> SUFFICES ASSUME TypeOK, GateInv, [Next]_vars PROVE GateInv'
    OBVIOUS
  <1>1. ASSUME NEW r \in Run, RunStep(r) PROVE GateInv'
    BY <1>1, QuietSteps, QuietInv, StoreInv, ReserveInv, AnswerInv DEF RunStep
  <1>2. CASE Tick
    <2>1. Quiet
      BY <1>2 DEF Tick, Quiet, Granted, gateVars, requestVars, historyVars
    <2> QED BY <2>1, QuietInv
  <1>3. CASE UNCHANGED vars
    <2>1. Quiet
      BY <1>3 DEF vars, Quiet, Granted, gateVars, requestVars, historyVars
    <2> QED BY <2>1, QuietInv
  <1> QED BY <1>1, <1>2, <1>3, NextSteps

(* The inductive invariant.                                                *)
THEOREM Invariant == Spec => [](TypeOK /\ GateInv)
  <1>1. Init => TypeOK /\ GateInv
    BY InitType, InitInv
  <1>2. (TypeOK /\ GateInv) /\ [Next]_vars => (TypeOK /\ GateInv)'
    BY TypeStep, InvStep
  <1> QED BY <1>1, <1>2, PTL DEF Spec

(* No two runs hold slots of a host closer than their datasets ask: the    *)
(* Durable Object gives each slot out once.                                *)
THEOREM Apart == Spec => []SlotsApart
  <1>1. TypeOK /\ GateInv => SlotsApart
    BY DEF GateInv
  <1> QED BY <1>1, Invariant, PTL

(***************************************************************************)
(* What a step may never do.                                               *)
(***************************************************************************)

(* A slot is given out by reserve, and robots.txt is read after opensAt.   *)
LEMMA SlotSteps == ASSUME TypeOK, [Next]_vars, NEW r \in Run
                   PROVE  /\ IsGranted(r) => Reserve(r)
                          /\ ReadsRobots(r) => OpensAt(r) /\ Larger(nextAt, backoffUntil) <= now
  <1>1. ASSUME NEW q \in Run, RunStep(q), q # r PROVE pc'[r] = pc[r]
    <2>1. \E step : Goto(q, step)
      BY <1>1 DEF RunStep, Request, RobotsDue, OpensAt, FetchRobots, StoreRobots, Deny, Later,
                  Reserve, Get, RecordFine, RecordStrain, Wake, StepRunsAgain, PutOff, End, BeginStep
    <2> QED BY <1>1, <2>1 DEF Goto, TypeOK
  <1>2. CASE UNCHANGED vars \/ Tick
    BY <1>2 DEF vars, Tick, IsGranted, ReadsRobots
  <1>3. CASE RunStep(r)
    <2>1. OpensAt(r) /\ pc'[r] = "fetch" => Larger(nextAt, backoffUntil) <= now
      BY DEF TypeOK, OpensAt, PutOff, End, Goto, Larger
    <2>2. CASE Reserve(r)
      BY <2>2 DEF TypeOK, Reserve, Goto, ReadsRobots
    <2>3. CASE OpensAt(r)
      BY <2>1, <2>3 DEF TypeOK, OpensAt, PutOff, End, Goto, IsGranted, ReadsRobots
    <2>4. CASE ~Reserve(r) /\ ~OpensAt(r)
      <3>1. \/ pc[r] = "waiting" /\ Goto(r, "asking")
            \/ \E step \in {"idle", "due", "opens", "store", "reserve", "asleep"} : Goto(r, step)
        BY <1>3, <2>4 DEF RunStep, Request, RobotsDue, FetchRobots, StoreRobots, Deny, Later,
                          Get, RecordFine, RecordStrain, Wake, StepRunsAgain, PutOff, End, BeginStep
      <3> QED BY <3>1 DEF TypeOK, Goto, IsGranted, ReadsRobots
    <2> QED BY <2>2, <2>3, <2>4
  <1> QED BY <1>1, <1>2, <1>3, NextSteps DEF IsGranted, ReadsRobots

(* A slot that is given out starts after the last answer's interval and    *)
(* after every break, and so does a read of robots.txt.                    *)
LEMMA SlotTimes == ASSUME TypeOK, GateInv, [Next]_vars, NEW r \in Run
                   PROVE  /\ IsGranted(r) => /\ slot'[r] >= answeredAt + MinInterval
                                             /\ slot'[r] >= breakEnd
                                             /\ told \in {"allow", "open"}
                          /\ ReadsRobots(r) => now >= answeredAt + MinInterval /\ now >= breakEnd
  <1>1. /\ nextAt >= answeredAt + MinInterval /\ backoffUntil >= breakEnd
        /\ nextAt \in Nat /\ backoffUntil \in Int /\ now \in Nat
        /\ answeredAt + MinInterval \in Int /\ breakEnd \in Int
    BY PaceAssumption DEF TypeOK, GateInv, AfterAnswers, AfterBreaks
  <1>2. ASSUME IsGranted(r)
        PROVE  /\ slot'[r] >= answeredAt + MinInterval /\ slot'[r] >= breakEnd
               /\ told \in {"allow", "open"}
    <2>1. Reserve(r)
      BY <1>2, SlotSteps
    <2>2. slot'[r] = Start /\ robots.status \in {"allow", "open"}
      BY <2>1 DEF TypeOK, Reserve
    <2>3. told = robots.status
      BY <2>2 DEF GateInv, RulesAsTold
    <2> QED BY <1>1, <2>2, <2>3, StartType
  <1>3. ASSUME ReadsRobots(r) PROVE now >= answeredAt + MinInterval /\ now >= breakEnd
    <2>1. Larger(nextAt, backoffUntil) <= now
      BY <1>3, SlotSteps
    <2>2. now >= nextAt /\ now >= backoffUntil
      BY <1>1, <2>1 DEF Larger
    <2> QED BY <1>1, <2>2
  <1> QED BY <1>2, <1>3

(* A slow answer doesn't eat into the next wait, whichever run it was for. *)
THEOREM PacedByAnswers == Spec => AnswersPaced
  <1>1. TypeOK /\ GateInv /\ [Next]_vars =>
          [\A r \in Run : /\ IsGranted(r) => slot'[r] >= answeredAt + MinInterval
                          /\ ReadsRobots(r) => now >= answeredAt + MinInterval]_vars
    BY SlotTimes
  <1> QED BY <1>1, Invariant, PTL DEF Spec, AnswersPaced

(* No slot is given out within a break, and robots.txt is not read in one. *)
THEOREM BreaksKept == Spec => BreaksRespected
  <1>1. TypeOK /\ GateInv /\ [Next]_vars =>
          [\A r \in Run : /\ IsGranted(r) => slot'[r] >= breakEnd
                          /\ ReadsRobots(r) => now >= breakEnd]_vars
    BY SlotTimes
  <1> QED BY <1>1, Invariant, PTL DEF Spec, BreaksRespected

(* A slot is given out only under rules the host gave last.                *)
THEOREM Told == Spec => AskedAsTold
  <1>1. TypeOK /\ GateInv /\ [Next]_vars =>
          [\A r \in Run : IsGranted(r) => told \in {"allow", "open"}]_vars
    BY SlotTimes
  <1> QED BY <1>1, Invariant, PTL DEF Spec, AskedAsTold

=============================================================================
