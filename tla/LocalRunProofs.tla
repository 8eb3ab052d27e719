--------------------------- MODULE LocalRunProofs ---------------------------
(***************************************************************************)
(* Theorems about LocalRun, for any pages, any concurrency and any budget: *)
(* no page is crawled twice at once, the budget holds from run to run, and *)
(* a run that is completed is reconciled.                                  *)
(***************************************************************************)
EXTENDS LocalRun, FiniteSetTheorems, TLAPS

LEMMA NextSteps == Next => \/ Start \/ Runner \/ \E t \in Task : Page(t)
                           \/ DrainTimeout \/ ReconciliationFails \/ Stop \/ Crash
  BY DEF Next

(***************************************************************************)
(* Types.                                                                  *)
(***************************************************************************)

(* A page that rests has another attempt to come.                          *)
RestingMayRetry == \A t \in Task : stage[t] = "resting" => attempt[t] < MaxRetries

Types == TypeOK /\ RestingMayRetry

LEMMA SpentBudgetType == SpentBudget \in 0..MaxPages
  <1>1. Cardinality({t \in Task : task'[t] = "completed"}) \in Nat
    BY FS_Subset, FS_CardinalityType, FiniteAssumption
  <1> QED BY <1>1, LimitAssumption DEF SpentBudget

LEMMA LoadedType == ASSUME TypeOK PROVE Loaded \in SUBSET Task
  BY DEF TypeOK, Loaded, Rows, InFlight

LEMMA GoneTypes == ASSUME Types, Gone, UNCHANGED tableVars,
                          faults' \in 0..MaxFaults, UNCHANGED recrawls
                   PROVE  Types'
  <1>1. InFlight' = {}
    BY DEF Gone, InFlight
  <1>2. attempt' \in [Task -> 0..MaxRetries] /\ budget' \in 0..MaxPages
    BY LimitAssumption DEF Gone
  <1>3. TypeOK'
    BY <1>1, <1>2 DEF Types, TypeOK, Gone, tableVars, Finished
  <1>4. RestingMayRetry'
    BY DEF RestingMayRetry, Gone
  <1> QED BY <1>3, <1>4 DEF Types

LEMMA ReleaseTypes == ASSUME Types, NEW t \in Task, LoopWaits, Release(t)
                      PROVE  /\ stage' \in [Task -> {"none", "start", "crawling", "extracted",
                                                     "evolving", "resting"}]
                             /\ attempt' \in [Task -> 0..MaxRetries]
                             /\ held' \in Task \cup {NoTask}
                             /\ pc' \in {"loop", "drain", "reconcile", "persist", "over"}
                             /\ held' # NoTask <=> pc' = "blocked"
                             /\ RestingMayRetry'
  <1> USE LimitAssumption DEF Types, TypeOK, Release, LoopWaits
  <1>1. stage' \in [Task -> {"none", "start", "crawling", "extracted", "evolving", "resting"}]
    OBVIOUS
  <1>2. attempt' \in [Task -> 0..MaxRetries]
    OBVIOUS
  <1>3. held' \in Task \cup {NoTask} /\ pc' \in {"loop", "drain", "reconcile", "persist", "over"}
    OBVIOUS
  <1>4. RestingMayRetry'
    <2> SUFFICES ASSUME NEW u \in Task, stage'[u] = "resting" PROVE attempt'[u] < MaxRetries
      BY DEF RestingMayRetry
    <2>1. u # t /\ u # held /\ stage[u] = "resting"
      OBVIOUS
    <2>2. attempt'[u] = attempt[u]
      BY <2>1
    <2> QED BY <2>1, <2>2 DEF RestingMayRetry
  <1> QED BY <1>1, <1>2, <1>3, <1>4

LEMMA TypesStep == Types /\ [Next]_vars => Types'
  <1> SUFFICES ASSUME Types, [Next]_vars PROVE Types'
    OBVIOUS
  <1> USE LimitAssumption, TaskAssumption
  <1>1. CASE Start
    BY <1>1, SpentBudgetType
    DEF Types, TypeOK, RestingMayRetry, Start, Requeue, pageVars, flagVars, Finished, InFlight, Seeds
  <1>2. CASE Runner
    <2>1. CASE EnqueueSeed
      BY <2>1 DEF Types, TypeOK, RestingMayRetry, EnqueueSeed, pageVars, flagVars, boundVars, Finished, InFlight
    <2>2. CASE BeginCrawl
      BY <2>2 DEF Types, TypeOK, RestingMayRetry, BeginCrawl, tableVars, loopVars, pageVars, flagVars,
                  boundVars, InFlight
    <2>3. CASE EndLoop
      BY <2>3, LoadedType DEF Types, TypeOK, RestingMayRetry, EndLoop, tableVars, pageVars, flagVars,
                  boundVars, InFlight
    <2>4. CASE Dequeue
      BY <2>4, LoadedType DEF Types, TypeOK, RestingMayRetry, Dequeue, tableVars, pageVars, flagVars,
                  boundVars, InFlight
    <2>5. CASE Drained
      BY <2>5 DEF Types, TypeOK, RestingMayRetry, Drained, AfterLoop, Finalize, loopVars, pageVars,
                  flagVars, boundVars, InFlight
    <2>6. CASE LoadExtractions
      BY <2>6 DEF Types, TypeOK, RestingMayRetry, LoadExtractions, Finalize, loopVars, pageVars,
                  flagVars, boundVars, InFlight
    <2>7. CASE PersistEntities
      BY <2>7 DEF Types, TypeOK, RestingMayRetry, PersistEntities, Finalize, loopVars, pageVars,
                  flagVars, boundVars, InFlight
    <2>8. CASE Exit
      BY <2>8, GoneTypes DEF Exit, Types, TypeOK, boundVars
    <2> QED BY <1>2, <2>1, <2>2, <2>3, <2>4, <2>5, <2>6, <2>7, <2>8 DEF Runner
  <1>3. ASSUME NEW t \in Task, Page(t) PROVE Types'
    <2>1. CASE SkipPage(t)
      BY <2>1, ReleaseTypes DEF Types, TypeOK, SkipPage, SetTask, Finished, flagVars, boundVars
    <2>2. CASE BeginPage(t)
      BY <2>2 DEF Types, TypeOK, RestingMayRetry, BeginPage, LoopWaits, SetTask, loopVars, flagVars,
                  boundVars, InFlight
    <2>3. CASE StoreExtraction(t)
      BY <2>3 DEF Types, TypeOK, RestingMayRetry, StoreExtraction, LoopWaits, loopVars, flagVars,
                  boundVars, InFlight
    <2>4. CASE CompletePage(t)
      BY <2>4 DEF Types, TypeOK, RestingMayRetry, CompletePage, LoopWaits, Finished, boundVars, InFlight
    <2>5. CASE LeavePage(t)
      BY <2>5, ReleaseTypes DEF Types, TypeOK, LeavePage, tableVars, flagVars, boundVars
    <2>6. CASE RetryPage(t)
      BY <2>6 DEF Types, TypeOK, RestingMayRetry, RetryPage, LoopWaits, SetTask, loopVars, flagVars,
                  boundVars, InFlight
    <2>7. CASE NextAttempt(t)
      BY <2>7 DEF Types, TypeOK, RestingMayRetry, NextAttempt, LoopWaits, tableVars, loopVars, flagVars,
                  boundVars, InFlight
    <2>8. CASE FailPage(t)
      BY <2>8, ReleaseTypes DEF Types, TypeOK, FailPage, SetTask, Finished, boundVars
    <2> QED BY <1>3, <2>1, <2>2, <2>3, <2>4, <2>5, <2>6, <2>7, <2>8 DEF Page
  <1>4. CASE DrainTimeout
    BY <1>4 DEF Types, TypeOK, RestingMayRetry, DrainTimeout, AfterLoop, Finalize, loopVars, pageVars, InFlight
  <1>5. CASE ReconciliationFails
    BY <1>5 DEF Types, TypeOK, RestingMayRetry, ReconciliationFails, Finalize, loopVars, pageVars, InFlight
  <1>6. CASE Stop
    BY <1>6 DEF Types, TypeOK, RestingMayRetry, Stop, tableVars, loopVars, pageVars, boundVars, InFlight
  <1>7. CASE Crash
    BY <1>7, GoneTypes DEF Crash, Types, TypeOK
  <1>8. CASE UNCHANGED vars
    BY <1>8 DEF Types, TypeOK, RestingMayRetry, vars, tableVars, loopVars, pageVars, flagVars, boundVars, InFlight
  <1>9. CASE \E t \in Task : Page(t)
    BY <1>3, <1>9
  <1> QED BY <1>1, <1>2, <1>4, <1>5, <1>6, <1>7, <1>8, <1>9, NextSteps

LEMMA TypesInit == Init => Types
  <1> SUFFICES ASSUME Init PROVE Types
    OBVIOUS
  <1>1. InFlight = {}
    BY DEF Init, InFlight
  <1>2. attempt \in [Task -> 0..MaxRetries] /\ budget \in 0..MaxPages
    BY LimitAssumption DEF Init
  <1>3. faults \in 0..MaxFaults /\ recrawls \in 0..MaxRecrawls
    BY LimitAssumption DEF Init
  <1>4. TypeOK
    BY <1>1, <1>2, <1>3 DEF Init, TypeOK
  <1>5. RestingMayRetry
    BY DEF Init, RestingMayRetry
  <1> QED BY <1>4, <1>5 DEF Types

(* The variables keep their types in every run: no page has more than      *)
(* MaxRetries attempts, and the loop takes no more than its budget.        *)
THEOREM TypeCorrect == Spec => []TypeOK
  <1>1. Types => TypeOK
    BY DEF Types
  <1> QED BY <1>1, TypesInit, TypesStep, PTL DEF Spec

(***************************************************************************)
(* What is in hand.                                                        *)
(***************************************************************************)

(* What is queued, held back, or in flight has a row, so a link to it is   *)
(* none of the new ones that a page adds.                                  *)
InHand == queue \cup InFlight \cup ({held} \ {NoTask})
InHandHasRow == \A t \in InHand : task[t] # "none"

HandInv == Types /\ OnceInHand /\ InHandHasRow

LEMMA HandInit == Init => OnceInHand /\ InHandHasRow
  BY TaskAssumption DEF Init, OnceInHand, InHandHasRow, InHand, InFlight

(* Once the process is gone nothing is in hand.                            *)
LEMMA GoneEmpty == Gone => /\ InFlight' = {} /\ InHand' = {} /\ OnceInHand' /\ InHandHasRow'
  BY TaskAssumption DEF Gone, OnceInHand, InHandHasRow, InHand, InFlight

(* A page that leaves makes room for the one held back.                    *)
LEMMA ReleaseKeepsHand ==
    ASSUME HandInv, NEW t \in Task, t \in InFlight, Release(t), UNCHANGED queue,
           \A u \in Task : task[u] # "none" => task'[u] # "none"
    PROVE  OnceInHand' /\ InHandHasRow'
  <1>1. InFlight' = (InFlight \ {t}) \cup ({held} \ {NoTask})
    BY TaskAssumption DEF HandInv, Types, TypeOK, OnceInHand, Release, InFlight
  <1>2. held' = NoTask
    BY DEF Release
  <1>3. InHand' \subseteq InHand /\ InHand \subseteq Task
    BY <1>1, <1>2 DEF InHand, InFlight, HandInv, Types, TypeOK
  <1>4. OnceInHand'
    BY <1>1, <1>2, TaskAssumption DEF OnceInHand, HandInv, Types, TypeOK, InFlight
  <1>5. InHandHasRow'
    BY <1>3 DEF InHandHasRow, HandInv
  <1> QED BY <1>4, <1>5

LEMMA HandStep == HandInv /\ [Next]_vars => OnceInHand' /\ InHandHasRow'
  <1> SUFFICES ASSUME HandInv, [Next]_vars PROVE OnceInHand' /\ InHandHasRow'
    OBVIOUS
  <1>0. /\ queue \in SUBSET Task /\ held \in Task \cup {NoTask} /\ InFlight \in SUBSET Task
        /\ stage \in [Task -> {"none", "start", "crawling", "extracted", "evolving", "resting"}]
        /\ DOMAIN task = Task /\ InHand \subseteq Task
    BY DEF HandInv, Types, TypeOK, InFlight, InHand
  <1>a. ASSUME UNCHANGED <<queue, held, InFlight>>,
               \A u \in Task : task[u] # "none" => task'[u] # "none"
        PROVE  OnceInHand' /\ InHandHasRow'
    BY <1>0, <1>a DEF HandInv, OnceInHand, InHandHasRow, InHand
  <1>1. CASE Start
    <2>1. UNCHANGED <<queue, held, InFlight>>
      BY <1>1 DEF Start, pageVars, InFlight
    <2>2. \A u \in Task : task[u] # "none" => task'[u] # "none"
      BY <1>1 DEF Start, Requeue
    <2> QED BY <1>a, <2>1, <2>2
  <1>2. CASE Runner
    <2>1. CASE EnqueueSeed
      <3>1. UNCHANGED <<queue, held, InFlight>>
        BY <2>1 DEF EnqueueSeed, pageVars, InFlight
      <3>2. \A u \in Task : task[u] # "none" => task'[u] # "none"
        BY <1>0, <2>1 DEF EnqueueSeed
      <3> QED BY <1>a, <3>1, <3>2
    <2>2. CASE BeginCrawl \/ Drained \/ LoadExtractions \/ PersistEntities
      <3>1. UNCHANGED <<queue, held, InFlight, task>>
        BY <2>2 DEF BeginCrawl, Drained, LoadExtractions, PersistEntities, tableVars, loopVars,
                    pageVars, InFlight
      <3> QED BY <1>a, <3>1
    <2>3. CASE EndLoop
      <3>1. UNCHANGED <<held, task, InFlight>>
        BY <2>3 DEF EndLoop, pageVars, tableVars, InFlight
      <3>2. held = NoTask
        BY <2>3 DEF EndLoop, HandInv, Types, TypeOK
      <3>3. queue' = queue \/ queue' = Rows({"pending"}) \ InFlight
        BY <2>3 DEF EndLoop, Loaded
      <3> QED BY <1>0, <3>1, <3>2, <3>3, TaskAssumption
              DEF HandInv, OnceInHand, InHandHasRow, InHand, Rows
    <2>4. CASE Dequeue
      <3>1. PICK t \in Loaded :
              /\ queue' = Loaded \ {t}
              /\ IF Cardinality(InFlight) < Concurrency
                 THEN /\ stage' = [stage EXCEPT ![t] = "start"]
                      /\ UNCHANGED held
                 ELSE held' = t /\ UNCHANGED pageVars
        BY <2>4 DEF Dequeue
      <3>2. held = NoTask /\ UNCHANGED task
        BY <2>4 DEF Dequeue, HandInv, Types, TypeOK, tableVars
      <3>3. Loaded \subseteq Task /\ Loaded \cap InFlight = {} /\ \A u \in Loaded : task[u] # "none"
        BY <1>0 DEF Loaded, Rows, HandInv, OnceInHand, InHandHasRow, InHand
      <3>4. CASE Cardinality(InFlight) < Concurrency
        <4>1. InFlight' = InFlight \cup {t} /\ held' = NoTask
          BY <1>0, <3>1, <3>2, <3>3, <3>4 DEF InFlight
        <4> QED BY <1>0, <3>1, <3>2, <3>3, <4>1, TaskAssumption
                DEF HandInv, OnceInHand, InHandHasRow, InHand
      <3>5. CASE ~(Cardinality(InFlight) < Concurrency)
        <4>1. InFlight' = InFlight /\ held' = t
          BY <3>1, <3>5 DEF InFlight, pageVars
        <4> QED BY <1>0, <3>1, <3>2, <3>3, <4>1, TaskAssumption
                DEF HandInv, OnceInHand, InHandHasRow, InHand
      <3> QED BY <3>4, <3>5
    <2>5. CASE Exit
      BY <2>5, GoneEmpty DEF Exit
    <2> QED BY <1>2, <2>1, <2>2, <2>3, <2>4, <2>5 DEF Runner
  <1>3. ASSUME NEW t \in Task, Page(t) PROVE OnceInHand' /\ InHandHasRow'
    <2>1. CASE SkipPage(t) \/ FailPage(t) \/ LeavePage(t)
      <3>1. t \in InFlight /\ Release(t) /\ UNCHANGED queue
        BY <2>1 DEF SkipPage, FailPage, LeavePage, InFlight
      <3>2. \A u \in Task : task[u] # "none" => task'[u] # "none"
        BY <1>0, <2>1 DEF SkipPage, FailPage, LeavePage, SetTask, tableVars
      <3> QED BY <3>1, <3>2, ReleaseKeepsHand
    <2>2. CASE BeginPage(t) \/ StoreExtraction(t) \/ RetryPage(t) \/ NextAttempt(t)
      <3>1. UNCHANGED <<queue, held, InFlight>>
        BY <1>0, <2>2 DEF BeginPage, StoreExtraction, RetryPage, NextAttempt, loopVars, InFlight
      <3>2. \A u \in Task : task[u] # "none" => task'[u] # "none"
        BY <1>0, <2>2 DEF BeginPage, StoreExtraction, RetryPage, NextAttempt, SetTask, tableVars
      <3> QED BY <1>a, <3>1, <3>2
    <2>3. CASE CompletePage(t)
      <3>1. PICK links \in SUBSET {u \in Task : parent[u] = t /\ task[u] = "none"} :
              /\ task' = [u \in Task |-> CASE u = t -> "completed" [] u \in links -> "pending"
                                           [] OTHER -> task[u]]
              /\ queue' = queue \cup links
        BY <2>3 DEF CompletePage
      <3>2. InFlight' = InFlight /\ held' = held
        BY <1>0, <2>3 DEF CompletePage, InFlight
      <3>3. links \cap InHand = {}
        BY DEF HandInv, InHandHasRow
      <3>4. \A u \in Task : u \in links \/ task[u] # "none" => task'[u] # "none"
        BY <3>1
      <3> QED BY <1>0, <3>1, <3>2, <3>3, <3>4, TaskAssumption
              DEF HandInv, OnceInHand, InHandHasRow, InHand
    <2> QED BY <1>3, <2>1, <2>2, <2>3 DEF Page
  <1>4. CASE DrainTimeout \/ ReconciliationFails \/ Stop \/ UNCHANGED vars
    <2>1. UNCHANGED <<queue, held, InFlight, task>>
      BY <1>4 DEF DrainTimeout, ReconciliationFails, Stop, vars, tableVars, loopVars, pageVars, InFlight
    <2> QED BY <1>a, <2>1
  <1>5. CASE Crash
    BY <1>5, GoneEmpty DEF Crash
  <1>6. CASE \E t \in Task : Page(t)
    BY <1>3, <1>6
  <1> QED BY <1>1, <1>2, <1>4, <1>5, <1>6, NextSteps

(* No page is in hand twice, so none is crawled twice at the same time,    *)
(* for any number of pages and any concurrency.                            *)
THEOREM Once == Spec => []OnceInHand
  <1>1. HandInv /\ [Next]_vars => HandInv'
    BY HandStep, TypesStep DEF HandInv
  <1>2. Init => HandInv
    BY HandInit, TypesInit DEF HandInv
  <1>3. HandInv => OnceInHand
    BY DEF HandInv
  <1> QED BY <1>1, <1>2, <1>3, PTL DEF Spec

(***************************************************************************)
(* The budget.                                                             *)
(***************************************************************************)

(* The pages the budget has been spent on: what is completed, now or in    *)
(* earlier runs, and what may yet be.                                      *)
Claimed == Rows({"completed"}) \cup InFlight \cup ({held} \ {NoTask})
ClaimsInBudget == pc # "off" => Cardinality(Claimed) <= budget

BudgetInv == HandInv /\ BudgetKept /\ ClaimsInBudget

LEMMA SubsetsFinite == \A S \in SUBSET Task : IsFiniteSet(S) /\ Cardinality(S) \in Nat
  BY FiniteAssumption, FS_Subset, FS_CardinalityType

LEMMA SmallerSet == \A S, T \in SUBSET Task : S \subseteq T => Cardinality(S) <= Cardinality(T)
  BY SubsetsFinite, FS_Subset

LEMMA ClaimedType == ASSUME Types
                     PROVE  /\ Claimed \in SUBSET Task /\ Rows({"completed"}) \in SUBSET Task
                            /\ Cardinality(Claimed) \in Nat
                            /\ Cardinality(Rows({"completed"})) <= Cardinality(Claimed)
  <1>1. Claimed \in SUBSET Task /\ Rows({"completed"}) \in SUBSET Task
    BY DEF Types, TypeOK, Claimed, Rows, InFlight
  <1>2. Rows({"completed"}) \subseteq Claimed
    BY DEF Claimed
  <1> QED BY <1>1, <1>2, SubsetsFinite, SmallerSet

LEMMA BudgetInit == Init => BudgetKept /\ ClaimsInBudget
  <1> SUFFICES ASSUME Init PROVE BudgetKept /\ ClaimsInBudget
    OBVIOUS
  <1>1. Rows({"completed"}) = {}
    BY DEF Init, Rows
  <1> QED BY <1>1, FS_EmptySet, LimitAssumption DEF Init, BudgetKept, ClaimsInBudget

(* While the process runs, the claims bound what is completed.             *)
LEMMA ClaimsKeepBudget == Types /\ pc # "off" /\ ClaimsInBudget => BudgetKept
  <1> SUFFICES ASSUME Types, pc # "off", ClaimsInBudget PROVE BudgetKept
    OBVIOUS
  <1>1. budget <= MaxPages /\ budget \in Nat
    BY LimitAssumption DEF Types, TypeOK
  <1>2. Cardinality(Rows({"completed"})) \in Nat
    BY ClaimedType, SubsetsFinite
  <1> QED BY <1>1, <1>2, ClaimedType, LimitAssumption DEF ClaimsInBudget, BudgetKept

(* Claims that no step adds to stay within the budget.                     *)
LEMMA FewerClaims ==
    ASSUME BudgetInv, pc # "off", Claimed' \subseteq Claimed, UNCHANGED budget
    PROVE  ClaimsInBudget'
  <1>1. Claimed \in SUBSET Task /\ Claimed' \in SUBSET Task
    BY ClaimedType DEF BudgetInv, HandInv
  <1>2. Cardinality(Claimed') <= Cardinality(Claimed)
    BY <1>1, SmallerSet
  <1>3. Cardinality(Claimed') \in Nat /\ Cardinality(Claimed) \in Nat
    BY <1>1, SubsetsFinite
  <1>4. budget \in Nat
    BY LimitAssumption DEF BudgetInv, HandInv, Types, TypeOK
  <1> QED BY <1>2, <1>3, <1>4 DEF BudgetInv, ClaimsInBudget

(* Once the process is gone, what it completed is within the budget.       *)
LEMMA GoneInBudget ==
    ASSUME BudgetInv, Gone, UNCHANGED tableVars
    PROVE  BudgetKept' /\ ClaimsInBudget'
  BY DEF BudgetInv, BudgetKept, ClaimsInBudget, Gone, tableVars, Rows

LEMMA BudgetStep == BudgetInv /\ [Next]_vars => BudgetKept' /\ ClaimsInBudget'
  <1> SUFFICES ASSUME BudgetInv, [Next]_vars PROVE BudgetKept' /\ ClaimsInBudget'
    OBVIOUS
  <1>0. /\ Types' /\ HandInv
        /\ queue \in SUBSET Task /\ held \in Task \cup {NoTask} /\ InFlight \in SUBSET Task
        /\ stage \in [Task -> {"none", "start", "crawling", "extracted", "evolving", "resting"}]
        /\ DOMAIN task = Task /\ budget \in Nat
    BY TypesStep, LimitAssumption DEF BudgetInv, HandInv, Types, TypeOK, InFlight
  <1>a. ASSUME ClaimsInBudget', pc' # "off" PROVE BudgetKept' /\ ClaimsInBudget'
    <2>1. (Types /\ pc # "off" /\ ClaimsInBudget => BudgetKept)'
      BY ClaimsKeepBudget, PTL
    <2> QED BY <1>0, <1>a, <2>1
  <1>b. ASSUME pc # "off", pc' # "off", Claimed' \subseteq Claimed, UNCHANGED budget
        PROVE  BudgetKept' /\ ClaimsInBudget'
    BY <1>a, <1>b, FewerClaims
  <1>c. ASSUME pc # "off", pc' # "off", UNCHANGED <<held, InFlight, budget>>,
               \A u \in Task : task'[u] = "completed" => task[u] = "completed" \/ u \in InFlight
        PROVE  BudgetKept' /\ ClaimsInBudget'
    <2>1. Claimed' \subseteq Claimed
      BY <1>c DEF Claimed, Rows
    <2> QED BY <1>b, <1>c, <2>1
  <1>1. CASE Start
    <2> DEFINE done == {t \in Task : task'[t] = "completed"}
    <2>1. done \subseteq Rows({"completed"}) /\ Rows({"completed"}) \in SUBSET Task
      BY <1>0, <1>1 DEF Start, Requeue, Rows
    <2>2. Cardinality(done) <= MaxPages
      <3>1. Cardinality(done) <= Cardinality(Rows({"completed"}))
        BY <2>1, SmallerSet
      <3> QED BY <2>1, <3>1, SubsetsFinite, LimitAssumption DEF BudgetInv, BudgetKept
    <2>3. budget' = Cardinality(done)
      <3>1. Cardinality(done) \in Nat
        BY <2>1, SubsetsFinite
      <3>2. budget' = IF Cardinality(done) < MaxPages THEN Cardinality(done) ELSE MaxPages
        BY <1>1 DEF Start, SpentBudget
      <3> QED BY <2>2, <3>1, <3>2, LimitAssumption
    <2>4. Claimed' = done
      BY <1>0, <1>1 DEF Start, Claimed, Rows, InFlight, pageVars, HandInv, Types, TypeOK
    <2>5. Cardinality(Claimed') <= budget'
      BY <2>1, <2>3, <2>4, SubsetsFinite
    <2> QED BY <1>1, <1>a, <2>5 DEF ClaimsInBudget, Start
  <1>2. CASE Runner
    <2>1. CASE EnqueueSeed \/ BeginCrawl \/ EndLoop \/ Drained \/ LoadExtractions \/ PersistEntities
      <3>1. UNCHANGED <<held, InFlight, budget>>
        BY <2>1 DEF EnqueueSeed, BeginCrawl, EndLoop, Drained, LoadExtractions, PersistEntities,
                    loopVars, pageVars, InFlight
      <3>2. \A u \in Task : task'[u] = "completed" => task[u] = "completed"
        BY <1>0, <2>1 DEF EnqueueSeed, BeginCrawl, EndLoop, Drained, LoadExtractions,
                          PersistEntities, tableVars
      <3>3. pc # "off" /\ pc' # "off"
        BY <2>1 DEF EnqueueSeed, BeginCrawl, EndLoop, Drained, LoadExtractions, PersistEntities,
                    AfterLoop, Finalize
      <3> QED BY <1>c, <3>1, <3>2, <3>3
    <2>2. CASE Dequeue
      <3>1. PICK t \in Loaded :
              /\ budget' = budget + 1
              /\ IF Cardinality(InFlight) < Concurrency
                 THEN /\ stage' = [stage EXCEPT ![t] = "start"]
                      /\ UNCHANGED <<held, pc>>
                 ELSE held' = t /\ pc' = "blocked" /\ UNCHANGED pageVars
        BY <2>2 DEF Dequeue
      <3>2. pc # "off" /\ pc' # "off" /\ held = NoTask /\ UNCHANGED task /\ t \in Task
        BY <1>0, <2>2, <3>1 DEF Dequeue, HandInv, Types, TypeOK, tableVars, Loaded, Rows
      <3>3. Claimed' \subseteq Claimed \cup {t}
        BY <1>0, <3>1, <3>2 DEF Claimed, InFlight, Rows, pageVars
      <3>4. Claimed \in SUBSET Task /\ Claimed \cup {t} \in SUBSET Task
        BY <1>0, <3>2, ClaimedType DEF HandInv
      <3>5. Cardinality(Claimed \cup {t}) <= Cardinality(Claimed) + 1
        BY <3>4, SubsetsFinite, FS_AddElement
      <3>6. Cardinality(Claimed') <= Cardinality(Claimed \cup {t})
        BY <3>3, <3>4, SmallerSet
      <3>7. Cardinality(Claimed) <= budget
        BY <3>2 DEF BudgetInv, ClaimsInBudget
      <3>8. /\ Cardinality(Claimed') \in Nat /\ Cardinality(Claimed \cup {t}) \in Nat
            /\ Cardinality(Claimed) \in Nat
        BY <3>3, <3>4, SubsetsFinite
      <3>9. Cardinality(Claimed') <= budget'
        BY <1>0, <3>1, <3>5, <3>6, <3>7, <3>8
      <3> QED BY <1>a, <3>2, <3>9 DEF ClaimsInBudget
    <2>3. CASE Exit
      BY <2>3, GoneInBudget DEF Exit
    <2> QED BY <1>2, <2>1, <2>2, <2>3 DEF Runner
  <1>3. ASSUME NEW t \in Task, Page(t) PROVE BudgetKept' /\ ClaimsInBudget'
    <2>0. LoopWaits /\ pc # "off" /\ t \in InFlight
      BY <1>3 DEF Page, SkipPage, BeginPage, StoreExtraction, CompletePage, LeavePage, RetryPage,
                  NextAttempt, FailPage, LoopWaits, InFlight
    <2>1. CASE SkipPage(t) \/ FailPage(t) \/ LeavePage(t)
      <3>1. Release(t) /\ UNCHANGED budget
        BY <2>1 DEF SkipPage, FailPage, LeavePage
      <3>2. \A u \in Task : task'[u] = "completed" => task[u] = "completed"
        BY <1>0, <2>1 DEF SkipPage, FailPage, LeavePage, SetTask, tableVars
      <3>3. Claimed' \subseteq Claimed
        <4>1. InFlight' \subseteq InFlight \cup ({held} \ {NoTask}) /\ held' = NoTask
          BY <3>1, TaskAssumption DEF Release, InFlight
        <4>2. Rows({"completed"})' \subseteq Rows({"completed"})
          BY <3>2 DEF Rows
        <4> QED BY <4>1, <4>2 DEF Claimed
      <3>4. pc' # "off"
        BY <2>0, <3>1 DEF Release
      <3> QED BY <1>b, <2>0, <3>1, <3>3, <3>4
    <2>2. CASE BeginPage(t) \/ StoreExtraction(t) \/ CompletePage(t) \/ RetryPage(t) \/ NextAttempt(t)
      <3>1. UNCHANGED <<held, InFlight, budget, pc>>
        BY <1>0, <2>2 DEF BeginPage, StoreExtraction, CompletePage, RetryPage, NextAttempt, loopVars,
                          InFlight
      <3>2. \A u \in Task : task'[u] = "completed" => task[u] = "completed" \/ u = t
        BY <1>0, <2>2 DEF BeginPage, StoreExtraction, CompletePage, RetryPage, NextAttempt, SetTask,
                          tableVars
      <3> QED BY <1>c, <2>0, <3>1, <3>2
    <2> QED BY <1>3, <2>1, <2>2 DEF Page
  <1>4. CASE DrainTimeout \/ ReconciliationFails \/ Stop
    <2>1. UNCHANGED <<held, InFlight, budget, task>>
      BY <1>4 DEF DrainTimeout, ReconciliationFails, Stop, tableVars, loopVars, pageVars, InFlight
    <2>2. pc # "off" /\ pc' # "off"
      BY <1>4 DEF DrainTimeout, ReconciliationFails, Stop, AfterLoop, Finalize
    <2> QED BY <1>c, <2>1, <2>2
  <1>5. CASE Crash
    BY <1>5, GoneInBudget DEF Crash
  <1>6. CASE UNCHANGED vars
    BY <1>6 DEF BudgetInv, BudgetKept, ClaimsInBudget, Claimed, Rows, InFlight, vars, tableVars,
                loopVars, pageVars
  <1>7. CASE \E t \in Task : Page(t)
    BY <1>3, <1>7
  <1> QED BY <1>1, <1>2, <1>4, <1>5, <1>6, <1>7, NextSteps

(* However often the project is run, and wherever a run crashes, no more   *)
(* pages are completed than crawl.maxPages.                                *)
THEOREM WithinBudget == Spec => []BudgetKept
  <1>1. BudgetInv /\ [Next]_vars => BudgetInv'
    BY BudgetStep, HandStep, TypesStep DEF BudgetInv, HandInv
  <1>2. Init => BudgetInv
    BY BudgetInit, HandInit, TypesInit DEF BudgetInv, HandInv
  <1>3. BudgetInv => BudgetKept
    BY DEF BudgetInv
  <1> QED BY <1>1, <1>2, <1>3, PTL DEF Spec

(***************************************************************************)
(* The reconciliation.                                                     *)
(***************************************************************************)

AfterDrain == {"reconcile", "persist", "over"}

(* After a drain without trouble no page is in flight, and what the        *)
(* reconciliation has loaded is all there is.                              *)
Quiet == pc \in AfterDrain /\ ~troubled => InFlight = {}
KnowsAll == pc = "persist" /\ ~troubled => known = extracted

ReconciledInv == Types /\ Quiet /\ KnowsAll /\ CompletedRunIsReconciled

LEMMA ReconciledStep == ReconciledInv /\ [Next]_vars
                            => Quiet' /\ KnowsAll' /\ CompletedRunIsReconciled'
  <1> SUFFICES ASSUME ReconciledInv, [Next]_vars
               PROVE  Quiet' /\ KnowsAll' /\ CompletedRunIsReconciled'
    OBVIOUS
  <1> USE DEF ReconciledInv, Quiet, KnowsAll, CompletedRunIsReconciled, AfterDrain
  <1>1. CASE Start
    BY <1>1 DEF Start
  <1>2. CASE Runner
    <2>1. CASE EnqueueSeed \/ BeginCrawl \/ EndLoop \/ Dequeue
      BY <2>1 DEF EnqueueSeed, BeginCrawl, EndLoop, Dequeue
    <2>2. CASE Drained
      BY <2>2 DEF Drained, AfterLoop, Finalize, pageVars, InFlight
    <2>3. CASE LoadExtractions
      BY <2>3 DEF LoadExtractions, Finalize, pageVars, flagVars, InFlight
    <2>4. CASE PersistEntities
      BY <2>4 DEF PersistEntities, Finalize, pageVars, flagVars, InFlight
    <2>5. CASE Exit
      BY <2>5 DEF Exit, Gone
    <2> QED BY <1>2, <2>1, <2>2, <2>3, <2>4, <2>5 DEF Runner
  <1>3. ASSUME NEW t \in Task, Page(t)
        PROVE  Quiet' /\ KnowsAll' /\ CompletedRunIsReconciled'
    <2>1. LoopWaits /\ t \in InFlight /\ UNCHANGED troubled
      BY <1>3 DEF Page, SkipPage, BeginPage, StoreExtraction, CompletePage, LeavePage, RetryPage,
                  NextAttempt, FailPage, InFlight, flagVars
    <2>2. pc' = pc \/ (pc = "blocked" /\ pc' = "loop")
      BY <1>3 DEF Page, SkipPage, BeginPage, StoreExtraction, CompletePage, LeavePage, RetryPage,
                  NextAttempt, FailPage, Release
    <2>3. pc \in AfterDrain => troubled
      BY <2>1
    <2> QED BY <2>1, <2>2, <2>3
  <1>4. CASE DrainTimeout \/ ReconciliationFails
    BY <1>4 DEF DrainTimeout, ReconciliationFails
  <1>5. CASE Stop
    BY <1>5 DEF Stop
  <1>6. CASE Crash
    BY <1>6 DEF Crash, Gone
  <1>7. CASE UNCHANGED vars
    BY <1>7 DEF vars, tableVars, pageVars, flagVars, InFlight
  <1>8. CASE \E t \in Task : Page(t)
    BY <1>3, <1>8
  <1> QED BY <1>1, <1>2, <1>4, <1>5, <1>6, <1>7, <1>8, NextSteps

(* A run recorded as completed has an entity for every extraction, unless  *)
(* a page was late or the reconciliation failed.                           *)
THEOREM Reconciled == Spec => []CompletedRunIsReconciled
  <1>1. ReconciledInv /\ [Next]_vars => ReconciledInv'
    BY ReconciledStep, TypesStep DEF ReconciledInv
  <1>2. Init => ReconciledInv
    BY TypesInit DEF Init, ReconciledInv, Quiet, KnowsAll, CompletedRunIsReconciled, AfterDrain
  <1>3. ReconciledInv => CompletedRunIsReconciled
    BY DEF ReconciledInv
  <1> QED BY <1>1, <1>2, <1>3, PTL DEF Spec

=============================================================================
