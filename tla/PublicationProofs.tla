------------------------- MODULE PublicationProofs -------------------------
(***************************************************************************)
(* Proofs about Publication, for every set of runs, tries, and answers:    *)
(* its types, what its snapshots keep to, that it implements               *)
(* PublishedHistory, and that under balanced approval the owner lets each  *)
(* definition in.                                                          *)
(***************************************************************************)
EXTENDS Publication, TLAPS

USE TryAssumption

(* The steps of a run's Workflow, and the world's.                         *)
RunStep ==
    \/ \E r \in Run :
         StartRun(r) \/ Load(r) \/ RecordLost(r) \/ Finish(r) \/ Fail(r) \/ Restart(r)
    \/ EditRecords
    \/ ApplyDefinition

(* The steps of a try that change neither the rows nor a file but a draft. *)
QuietTryStep(t) ==
    \/ CheckMade(t) \/ BuildRecords(t) \/ ReadLatest(t) \/ ReadWaiting(t)
    \/ ReadHead(t) \/ CheckGates(t) \/ CutOff(t)

(* The answer steps that change nothing but what the answer knows.         *)
QuietAnswerStep(a) ==
    (\E r \in Run : AskAbout(a, r)) \/ ReadDraft(a) \/ NextGeneration(a)

-----------------------------------------------------------------------------
(* Type correctness.                                                       *)

LEMMA InitType == Init => TypeOK
  BY DEF Init, TypeOK, NoFile, File, Key

LEMMA RunStepType == ASSUME TypeOK, RunStep PROVE TypeOK'
  <1>1. ASSUME NEW r \in Run, StartRun(r) PROVE TypeOK'
    BY <1>1 DEF TypeOK, StartRun, dataVars, storeVars, rowVars, tryVars, answerVars
  <1>2. ASSUME NEW r \in Run, Load(r) PROVE TypeOK'
    BY <1>2 DEF TypeOK, Load, dataVars, storeVars, rowVars, tryVars, answerVars
  <1>3. ASSUME NEW r \in Run, RecordLost(r) PROVE TypeOK'
    BY <1>3 DEF TypeOK, RecordLost, dataVars, storeVars, rowVars, tryVars, answerVars
  <1>4. ASSUME NEW r \in Run, Finish(r) PROVE TypeOK'
    BY <1>4 DEF TypeOK, Finish, dataVars, storeVars, rowVars, tryVars, answerVars
  <1>5. ASSUME NEW r \in Run, Fail(r) PROVE TypeOK'
    BY <1>5 DEF TypeOK, Fail, dataVars, storeVars, rowVars, tryVars, answerVars
  <1>6. ASSUME NEW r \in Run, Restart(r) PROVE TypeOK'
    BY <1>6 DEF TypeOK, Restart, dataVars, storeVars, rowVars, tryVars, answerVars
  <1>7. CASE EditRecords
    BY <1>7 DEF TypeOK, EditRecords, runVars, storeVars, rowVars, tryVars, answerVars
  <1>8. CASE ApplyDefinition
    BY <1>8 DEF TypeOK, ApplyDefinition, runVars, storeVars, rowVars, tryVars, answerVars
  <1> QED BY <1>1, <1>2, <1>3, <1>4, <1>5, <1>6, <1>7, <1>8 DEF RunStep

(* A try that returns or throws forgets what it knew.                      *)
LEMMA ForgetType == ASSUME TypeOK, NEW t \in Try, Forget(t)
                    PROVE  /\ built' \in [Try -> SUBSET Product]
                           /\ prev' \in [Try -> File]
                           /\ prevRevision' \in [Try -> Nat]
                           /\ nextGen' \in [Try -> Nat]
  <1>1. NoFile \in File
    BY DEF NoFile, File
  <1> QED BY <1>1 DEF TypeOK, Forget

LEMMA ReturnType == ASSUME TypeOK, NEW t \in Try, Return(t)
                    PROVE  /\ pc' \in [Try -> {"idle", "build", "latest", "waiting", "head",
                                               "gates", "commit", "hold", "supersede", "done"}]
                           /\ workflow' \in [Run -> {"none", "created", "going", "stepped", "ended"}]
                           /\ built' \in [Try -> SUBSET Product]
                           /\ prev' \in [Try -> File]
                           /\ prevRevision' \in [Try -> Nat]
                           /\ nextGen' \in [Try -> Nat]
  BY ForgetType DEF TypeOK, Return, Goto

LEMMA ThrowType == ASSUME TypeOK, NEW t \in Try, Throw(t)
                    PROVE  /\ pc' \in [Try -> {"idle", "build", "latest", "waiting", "head",
                                               "gates", "commit", "hold", "supersede", "done"}]
                           /\ built' \in [Try -> SUBSET Product]
                           /\ prev' \in [Try -> File]
                           /\ prevRevision' \in [Try -> Nat]
                           /\ nextGen' \in [Try -> Nat]
  BY ForgetType DEF TypeOK, Throw, Goto

LEMMA QuietTryType == ASSUME TypeOK, NEW t \in Try, QuietTryStep(t) PROVE TypeOK'
  <1>1. CASE CheckMade(t)
    <2>1. CASE Return(t)
      BY <1>1, <2>1, ReturnType DEF TypeOK, CheckMade, Return, dataVars, storeVars, rowVars, answerVars
    <2>2. CASE Goto(t, "build") /\ UNCHANGED <<runVars, built, prev, prevRevision, nextGen>>
      BY <1>1, <2>2 DEF TypeOK, CheckMade, Goto, runVars, dataVars, storeVars, rowVars, answerVars
    <2> QED BY <1>1, <2>1, <2>2 DEF CheckMade
  <1>2. CASE BuildRecords(t)
    BY <1>2 DEF TypeOK, BuildRecords, Goto, runVars, dataVars, storeVars, rowVars, answerVars
  <1>3. CASE ReadLatest(t)
    <2>1. \A r \in Run : files[keyOf[r]] \in File
      BY DEF TypeOK
    <2>2. prev' \in [Try -> File] /\ prevRevision' \in [Try -> Nat]
      <3>1. CASE UNCHANGED <<prev, prevRevision>>
        BY <3>1 DEF TypeOK
      <3>2. ASSUME NEW r \in Run,
                   prev' = [prev EXCEPT ![t] = files[keyOf[r]]],
                   prevRevision' = [prevRevision EXCEPT ![t] = revisionOf[r]]
            PROVE  prev' \in [Try -> File] /\ prevRevision' \in [Try -> Nat]
        <4>1. files[keyOf[r]] \in File
          BY <2>1
        <4>2. revisionOf[r] \in Nat
          BY DEF TypeOK
        <4>3. prev \in [Try -> File] /\ prevRevision \in [Try -> Nat]
          BY DEF TypeOK
        <4> QED BY <3>2, <4>1, <4>2, <4>3
      <3>3. \/ UNCHANGED <<prev, prevRevision>>
            \/ \E r \in Run : /\ prev' = [prev EXCEPT ![t] = files[keyOf[r]]]
                              /\ prevRevision' = [prevRevision EXCEPT ![t] = revisionOf[r]]
        BY <1>3 DEF ReadLatest
      <3> QED BY <3>1, <3>2, <3>3
    <2>3. pc' = [pc EXCEPT ![t] = "waiting"] \/ pc' = [pc EXCEPT ![t] = "supersede"]
      BY <1>3 DEF ReadLatest, Goto
    <2>4. UNCHANGED <<built, nextGen, runVars, dataVars, storeVars, files, answerVars>>
      BY <1>3 DEF ReadLatest
    <2>5. pc' \in [Try -> {"idle", "build", "latest", "waiting", "head", "gates",
                          "commit", "hold", "supersede", "done"}]
      BY <2>3 DEF TypeOK
    <2> QED BY <2>2, <2>4, <2>5 DEF TypeOK, runVars, dataVars, storeVars, rowVars, answerVars
  <1>4. CASE ReadWaiting(t)
    <2>1. CASE Return(t)
      BY <1>4, <2>1, ReturnType DEF TypeOK, ReadWaiting, Return, dataVars, storeVars, rowVars, answerVars
    <2>2. CASE Goto(t, "head") /\ UNCHANGED <<runVars, built, prev, prevRevision, nextGen>>
      BY <1>4, <2>2 DEF TypeOK, ReadWaiting, Goto, runVars, dataVars, storeVars, rowVars, answerVars
    <2> QED BY <1>4, <2>1, <2>2 DEF ReadWaiting
  <1>5. CASE ReadHead(t)
    BY <1>5 DEF TypeOK, ReadHead, Goto, runVars, dataVars, storeVars, rowVars, answerVars
  <1>6. CASE CheckGates(t)
    <2>1. [gen |-> 0, records |-> built[t]] \in File
      BY DEF TypeOK, File
    <2>2. runOf[t] \in Key
      BY TryAssumption DEF Key
    <2>3. files' \in [Key -> File]
      <3>1. files \in [Key -> File]
        BY DEF TypeOK
      <3>2. CASE UNCHANGED files
        BY <3>1, <3>2
      <3>3. CASE files' = [files EXCEPT ![runOf[t]] = [gen |-> 0, records |-> built[t]]]
        BY <2>1, <2>2, <3>1, <3>3
      <3> QED BY <1>6, <3>2, <3>3 DEF CheckGates
    <2>4. pc' = [pc EXCEPT ![t] = "commit"] \/ pc' = [pc EXCEPT ![t] = "hold"]
      BY <1>6 DEF CheckGates, Goto
    <2>5. UNCHANGED <<built, prev, prevRevision, nextGen, runVars, dataVars, storeVars, answerVars>>
      BY <1>6 DEF CheckGates
    <2> QED BY <2>3, <2>4, <2>5 DEF TypeOK, runVars, dataVars, storeVars, rowVars, answerVars
  <1>7. CASE CutOff(t)
    BY <1>7, ThrowType DEF TypeOK, CutOff, Throw, runVars, dataVars, storeVars, rowVars, answerVars
  <1> QED BY <1>1, <1>2, <1>3, <1>4, <1>5, <1>6, <1>7 DEF QuietTryStep

LEMMA StoreRowType == ASSUME TypeOK, NEW r \in Run, NEW s \in {"held", "published"}, StoreRow(r, s)
                      PROVE  /\ state' \in [Run -> {"none", "held", "published", "superseded", "discarded"}]
                             /\ question' \in [Run -> {"none", "open", "decided", "dismissed"}]
  BY DEF TypeOK, StoreRow, IsHeld

LEMMA FillRowType == ASSUME TypeOK, NEW t \in Try, NEW g \in Nat, NEW k \in Key, NEW h \in BOOLEAN,
                            FillRow(t, g, k, h)
                     PROVE  /\ generation' \in [Run -> Nat]
                            /\ revisionOf' \in [Run -> Nat]
                            /\ recordsOf' \in [Run -> SUBSET Product]
                            /\ keyOf' \in [Run -> Key]
                            /\ heldReason' \in [Run -> BOOLEAN]
  BY DEF TypeOK, FillRow

LEMMA CommitType == ASSUME TypeOK, NEW t \in Try, CommitSnapshot(t) PROVE TypeOK'
  <1>1. [gen |-> nextGen[t], records |-> built[t]] \in File
    BY DEF TypeOK, File
  <1>2. files' \in [Key -> File]
    BY <1>1 DEF TypeOK, CommitSnapshot, TryKey, Key
  <1>3. CASE Return(t) /\ UNCHANGED storeVars
    BY <1>2, <1>3, ReturnType DEF TypeOK, CommitSnapshot, Return, dataVars, storeVars, rowVars, answerVars
  <1>4. CASE Throw(t) /\ UNCHANGED storeVars
    BY <1>2, <1>4, ThrowType DEF TypeOK, CommitSnapshot, Throw, runVars, dataVars, storeVars, rowVars, answerVars
  <1>5. CASE /\ headGen' = nextGen[t]
             /\ StoreRow(runOf[t], "published")
             /\ FillRow(t, nextGen[t], TryKey(t), FALSE)
             /\ Return(t)
    <2>1. runOf[t] \in Run /\ nextGen[t] \in Nat /\ TryKey(t) \in Key
      BY DEF TypeOK, TryKey, Key
    <2> QED BY <1>2, <1>5, <2>1, ReturnType, StoreRowType, FillRowType
            DEF TypeOK, CommitSnapshot, Return, dataVars, answerVars
  <1> QED BY <1>3, <1>4, <1>5 DEF CommitSnapshot

LEMMA HoldType == ASSUME TypeOK, NEW t \in Try, HoldSnapshot(t) PROVE TypeOK'
  <1>1. Return(t) /\ UNCHANGED <<dataVars, files, answerVars>>
    BY DEF HoldSnapshot
  <1>2. CASE UNCHANGED storeVars
    BY <1>1, <1>2, ReturnType DEF TypeOK, Return, dataVars, storeVars, rowVars, answerVars
  <1>3. CASE /\ StoreRow(runOf[t], "held")
             /\ FillRow(t, 0, runOf[t], TRUE)
             /\ UNCHANGED headGen
    <2>1. runOf[t] \in Run /\ runOf[t] \in Key
      BY DEF Key
    <2> QED BY <1>1, <1>3, <2>1, ReturnType, StoreRowType, FillRowType
            DEF TypeOK, Return, dataVars, answerVars
  <1> QED BY <1>2, <1>3 DEF HoldSnapshot

LEMMA SupersedeType == ASSUME TypeOK, NEW t \in Try, SupersedeStale(t) PROVE TypeOK'
  <1>1. /\ Return(t)
        /\ UNCHANGED <<headGen, generation, revisionOf, recordsOf, keyOf, heldReason>>
        /\ UNCHANGED <<dataVars, files, answerVars>>
    BY DEF SupersedeStale
  <1>2. /\ state' \in [Run -> {"none", "held", "published", "superseded", "discarded"}]
        /\ question' \in [Run -> {"none", "open", "decided", "dismissed"}]
    <2>1. CASE UNCHANGED <<state, question>>
      BY <2>1 DEF TypeOK
    <2>2. CASE SupersedeHeld
      BY <2>2 DEF TypeOK, SupersedeHeld, IsHeld
    <2> QED BY <2>1, <2>2 DEF SupersedeStale
  <1> QED BY <1>1, <1>2, ReturnType DEF TypeOK, Return, dataVars, answerVars

LEMMA AnswerStepType ==
    ASSUME TypeOK, NEW a \in Answer,
           QuietAnswerStep(a) \/ PublishHeld(a) \/ DiscardHeld(a)
    PROVE  TypeOK'
  <1>1. ASSUME NEW r \in Run, AskAbout(a, r) PROVE TypeOK'
    BY <1>1 DEF TypeOK, AskAbout, AGoto, runVars, dataVars, storeVars, rowVars, tryVars
  <1>2. CASE ReadDraft(a)
    <2>1. CASE /\ IsHeld(about[a])
               /\ AGoto(a, "head")
               /\ draft' = [draft EXCEPT ![a] = files[about[a]].records]
      <3>1. about[a] \in Run
        BY <1>2 DEF TypeOK, ReadDraft
      <3>2. files[about[a]].records \in SUBSET Product
        BY <3>1 DEF TypeOK, Key, File
      <3> QED BY <1>2, <2>1, <3>2
              DEF TypeOK, ReadDraft, AGoto, runVars, dataVars, storeVars, rowVars, tryVars
    <2>2. CASE AGoto(a, "done") /\ UNCHANGED draft
      BY <1>2, <2>2 DEF TypeOK, ReadDraft, AGoto, runVars, dataVars, storeVars, rowVars, tryVars
    <2> QED BY <1>2, <2>1, <2>2 DEF ReadDraft
  <1>3. CASE NextGeneration(a)
    BY <1>3 DEF TypeOK, NextGeneration, AGoto, runVars, dataVars, storeVars, rowVars, tryVars
  <1>4. CASE PublishHeld(a)
    <2>1. [gen |-> answerGen[a], records |-> draft[a]] \in File
      BY DEF TypeOK, File
    <2>2. files' \in [Key -> File]
      BY <1>4, <2>1 DEF TypeOK, PublishHeld, Key
    <2>3. a \in Key /\ about[a] \in Run
      BY <1>4 DEF PublishHeld, Key, TypeOK
    <2>4. /\ UNCHANGED <<revisionOf, recordsOf, heldReason, about, draft, answerGen>>
          /\ UNCHANGED <<runVars, dataVars, tryVars>>
          /\ apc[a] = "commit"
      BY <1>4 DEF PublishHeld
    <2>5. CASE /\ AGoto(a, "done")
               /\ UNCHANGED <<attempt, headGen, state, generation, keyOf, question>>
      BY <2>2, <2>4, <2>5 DEF TypeOK, AGoto, runVars, dataVars, tryVars
    <2>6. CASE /\ AGoto(a, IF attempt[a] + 1 < PublishAttempts THEN "head" ELSE "gaveUp")
               /\ attempt' = [attempt EXCEPT ![a] = attempt[a] + 1]
               /\ UNCHANGED <<headGen, state, generation, keyOf, question>>
      BY <2>2, <2>4, <2>6 DEF TypeOK, AGoto, runVars, dataVars, tryVars
    <2>7. CASE /\ headGen' = answerGen[a]
               /\ state' = [state EXCEPT ![about[a]] = "published"]
               /\ generation' = [generation EXCEPT ![about[a]] = answerGen[a]]
               /\ keyOf' = [keyOf EXCEPT ![about[a]] = a]
               /\ Decide(about[a])
               /\ AGoto(a, "done")
               /\ UNCHANGED attempt
      BY <2>2, <2>3, <2>4, <2>7 DEF TypeOK, AGoto, Decide, runVars, dataVars, tryVars
    <2> QED BY <1>4, <2>5, <2>6, <2>7 DEF PublishHeld
  <1>5. CASE DiscardHeld(a)
    <2>1. about[a] \in Run
      BY <1>5 DEF DiscardHeld, TypeOK
    <2>2. /\ AGoto(a, "done")
          /\ UNCHANGED <<headGen, generation, revisionOf, recordsOf, keyOf, heldReason>>
          /\ UNCHANGED <<about, draft, answerGen, attempt, runVars, dataVars, files, tryVars>>
          /\ apc[a] = "discard"
      BY <1>5 DEF DiscardHeld
    <2>3. CASE state' = [state EXCEPT ![about[a]] = "discarded"] /\ Decide(about[a])
      BY <2>1, <2>2, <2>3 DEF TypeOK, AGoto, Decide, runVars, dataVars, tryVars
    <2>4. CASE UNCHANGED <<state, question>>
      BY <2>1, <2>2, <2>4 DEF TypeOK, AGoto, runVars, dataVars, tryVars
    <2> QED BY <1>5, <2>3, <2>4 DEF DiscardHeld
  <1> QED BY <1>1, <1>2, <1>3, <1>4, <1>5 DEF QuietAnswerStep

LEMMA NextCases ==
    ASSUME Next
    PROVE  \/ RunStep
           \/ \E t \in Try : QuietTryStep(t) \/ CommitSnapshot(t) \/ HoldSnapshot(t) \/ SupersedeStale(t)
           \/ \E a \in Answer : QuietAnswerStep(a) \/ PublishHeld(a) \/ DiscardHeld(a)
  BY DEF Next, RunStep, QuietTryStep, QuietAnswerStep

LEMMA StepType == TypeOK /\ [Next]_vars => TypeOK'
  <1> SUFFICES ASSUME TypeOK, [Next]_vars PROVE TypeOK'
    OBVIOUS
  <1>1. CASE UNCHANGED vars
    BY <1>1 DEF TypeOK, vars, runVars, dataVars, storeVars, rowVars, tryVars, answerVars
  <1>2. CASE Next
    BY <1>2, NextCases, RunStepType, QuietTryType, CommitType, HoldType, SupersedeType, AnswerStepType
  <1> QED BY <1>1, <1>2

(* The types of Publication hold in every state of every behavior.         *)
THEOREM TypeCorrect == Spec => []TypeOK
  BY InitType, StepType, PTL DEF Spec

-----------------------------------------------------------------------------
(* What snapshots keep to.  A step is one of seven kinds, by what it does  *)
(* to the rows: it starts a run, leaves the rows alone, or publishes,      *)
(* holds, supersedes, releases, or discards a snapshot.  Each part of the  *)
(* invariant is shown kept by each kind, from what the kind says alone.    *)

USE RunAssumption, KeyAssumption

(* What a writer that has ended keeps: its end, and its file.              *)
EndsKept ==
    /\ \A t \in Try : pc[t] = "done" => pc'[t] = "done" /\ files'[t] = files[t]
    /\ \A a \in Answer : apc[a] = "done" => apc'[a] = "done" /\ files'[a] = files[a]

(* The rows are left as they are.                                          *)
RowsKept == UNCHANGED <<startedAt, storeVars>> /\ EndsKept

(* A try publishes its run's snapshot, holds it, or finds the held one out *)
(* of date.                                                                *)
PublishesRow(t) ==
    LET r == runOf[t]
    IN  /\ pc[t] = "commit"
        /\ ~Overtaken(r)
        /\ ~Made(r)
        /\ nextGen[t] = headGen + 1
        /\ headGen' = headGen + 1
        /\ StoreRow(r, "published")
        /\ FillRow(t, headGen + 1, t, FALSE)
        /\ files' = [files EXCEPT ![t] = [gen |-> headGen + 1, records |-> built[t]]]
        /\ pc' = [pc EXCEPT ![t] = "done"]
        /\ UNCHANGED <<startedAt, answerVars>>

HoldsRow(t) ==
    LET r == runOf[t]
    IN  /\ pc[t] = "hold"
        /\ ~Overtaken(r)
        /\ ~Made(r)
        /\ StoreRow(r, "held")
        /\ FillRow(t, 0, r, TRUE)
        /\ pc' = [pc EXCEPT ![t] = "done"]
        /\ UNCHANGED <<startedAt, headGen, files, answerVars>>

DropsHeld(t) ==
    /\ pc[t] = "supersede"
    /\ SupersedeHeld
    /\ pc' = [pc EXCEPT ![t] = "done"]
    /\ UNCHANGED <<startedAt, headGen, generation, revisionOf, recordsOf, keyOf, heldReason>>
    /\ UNCHANGED <<files, answerVars>>

(* An answer publishes what is held, or discards it.                       *)
ReleasesRow(a) ==
    LET r == about[a]
    IN  /\ apc[a] = "commit"
        /\ r \in Run
        /\ IsHeld(r)
        /\ headGen = answerGen[a] - 1
        /\ headGen' = answerGen[a]
        /\ state' = [state EXCEPT ![r] = "published"]
        /\ generation' = [generation EXCEPT ![r] = answerGen[a]]
        /\ keyOf' = [keyOf EXCEPT ![r] = a]
        /\ files' = [files EXCEPT ![a] = [gen |-> answerGen[a], records |-> draft[a]]]
        /\ Decide(r)
        /\ apc' = [apc EXCEPT ![a] = "done"]
        /\ UNCHANGED <<startedAt, revisionOf, recordsOf, heldReason>>
        /\ UNCHANGED <<about, draft, answerGen, attempt, tryVars>>

DiscardsRow(a) ==
    LET r == about[a]
    IN  /\ apc[a] = "discard"
        /\ r \in Run
        /\ IsHeld(r)
        /\ state' = [state EXCEPT ![r] = "discarded"]
        /\ Decide(r)
        /\ apc' = [apc EXCEPT ![a] = "done"]
        /\ UNCHANGED <<startedAt, headGen, generation, revisionOf, recordsOf, keyOf, heldReason>>
        /\ UNCHANGED <<about, draft, answerGen, attempt, files, tryVars>>

(* The tries and the answers, while the rows are left alone.               *)
AnswersKept ==
    \/ UNCHANGED answerVars
    \/ \E a \in Answer : QuietAnswerStep(a)
    \/ \E a \in Answer :
         apc[a] # "idle" /\ AGoto(a, "done") /\ UNCHANGED <<about, answerGen, attempt>>

RowStep ==
    \/ \E t \in Try : PublishesRow(t) \/ HoldsRow(t) \/ DropsHeld(t)
    \/ \E a \in Answer : ReleasesRow(a) \/ DiscardsRow(a)

-----------------------------------------------------------------------------
(* Every step is of one of the kinds.                                      *)

LEMMA RunStepKind ==
    ASSUME TypeOK, RunStep
    PROVE  /\ UNCHANGED <<storeVars, answerVars, pc>>
           /\ EndsKept
           /\ UNCHANGED <<startedAt>> \/ \E r \in Run : StartRun(r)
  BY DEF RunStep, StartRun, Load, RecordLost, Finish, Fail, Restart, EditRecords,
         ApplyDefinition, EndsKept, tryVars, answerVars, storeVars, rowVars, runVars

LEMMA QuietTryKind ==
    ASSUME TypeOK, NEW t \in Try, QuietTryStep(t)
    PROVE  RowsKept /\ UNCHANGED answerVars
  <1>1. ASSUME NEW u \in Try, pc[u] = "done" PROVE pc'[u] = "done"
    <2>1. t # u => pc'[u] = pc[u]
      BY DEF TypeOK, QuietTryStep, CheckMade, BuildRecords, ReadLatest, ReadWaiting, ReadHead,
             CheckGates, CutOff, Goto, Return, Throw
    <2>2. pc[t] # "done"
      BY DEF QuietTryStep, CheckMade, BuildRecords, ReadLatest, ReadWaiting, ReadHead,
             CheckGates, CutOff
    <2> QED BY <1>1, <2>1, <2>2
  <1>2. \A k \in Key : k \notin Run => files'[k] = files[k]
    <2>1. CASE CheckGates(t)
      <3>1. \/ files' = files
            \/ files' = [files EXCEPT ![runOf[t]] = [gen |-> 0, records |-> built[t]]]
        BY <2>1 DEF CheckGates
      <3>2. runOf[t] \in Run
        OBVIOUS
      <3>3. ASSUME NEW k \in Key, k \notin Run PROVE files'[k] = files[k]
        <4>1. k # runOf[t]
          BY <3>2, <3>3
        <4>2. files \in [Key -> File]
          BY DEF TypeOK
        <4> QED BY <3>1, <4>1, <4>2
      <3> QED BY <3>3
    <2>2. CASE ~CheckGates(t)
      <3>1. files' = files
        BY <2>2 DEF QuietTryStep, CheckMade, BuildRecords, ReadLatest, ReadWaiting, ReadHead, CutOff
      <3> QED BY <3>1
    <2> QED BY <2>1, <2>2
  <1>3. UNCHANGED <<startedAt, storeVars, answerVars>>
    BY DEF QuietTryStep, CheckMade, BuildRecords, ReadLatest, ReadWaiting, ReadHead,
           CheckGates, CutOff, Return, Throw, runVars
  <1>4. apc' = apc
    BY <1>3 DEF answerVars
  <1>5. \A k \in Try \cup Answer : k \in Key /\ k \notin Run
    BY DEF Key
  <1> QED BY <1>1, <1>2, <1>3, <1>4, <1>5 DEF RowsKept, EndsKept

LEMMA CommitKind ==
    ASSUME TypeOK, NEW t \in Try, CommitSnapshot(t)
    PROVE  (RowsKept /\ UNCHANGED answerVars) \/ PublishesRow(t)
  <1>1. /\ pc[t] = "commit"
        /\ files' = [files EXCEPT ![t] = [gen |-> nextGen[t], records |-> built[t]]]
        /\ UNCHANGED <<dataVars, answerVars>>
    BY DEF CommitSnapshot, TryKey
  <1>2. CASE UNCHANGED storeVars /\ (Return(t) \/ Throw(t))
    <2>1. UNCHANGED startedAt
      BY <1>2 DEF Return, Throw, runVars
    <2>2. ASSUME NEW u \in Try, pc[u] = "done" PROVE pc'[u] = "done" /\ u # t
      BY <1>1, <1>2, <2>2 DEF Return, Throw, Goto, TypeOK
    <2>3. \A k \in Key : k # t => files'[k] = files[k]
      BY <1>1 DEF TypeOK
    <2>4. apc' = apc
      BY <1>1 DEF answerVars
    <2>5. \A a \in Answer : a # t /\ a \in Key
      BY DEF Key
    <2>6. \A u \in Try : u \in Key
      BY DEF Key
    <2> QED BY <1>1, <1>2, <2>1, <2>2, <2>3, <2>4, <2>5, <2>6 DEF RowsKept, EndsKept
  <1>3. CASE /\ ~Overtaken(runOf[t])
             /\ headGen = nextGen[t] - 1
             /\ ~Made(runOf[t])
             /\ headGen' = nextGen[t]
             /\ StoreRow(runOf[t], "published")
             /\ FillRow(t, nextGen[t], TryKey(t), FALSE)
             /\ Return(t)
    <2>1. nextGen[t] = headGen + 1
      BY <1>3 DEF TypeOK
    <2>2. UNCHANGED startedAt /\ pc' = [pc EXCEPT ![t] = "done"]
      BY <1>3 DEF Return, Goto
    <2> QED BY <1>1, <1>3, <2>1, <2>2 DEF PublishesRow, TryKey
  <1> QED BY <1>2, <1>3 DEF CommitSnapshot

LEMMA HoldKind ==
    ASSUME TypeOK, NEW t \in Try, HoldSnapshot(t) \/ SupersedeStale(t)
    PROVE  (RowsKept /\ UNCHANGED answerVars) \/ HoldsRow(t) \/ DropsHeld(t)
  <1>1. /\ pc[t] \notin {"idle", "done"}
        /\ pc' = [pc EXCEPT ![t] = "done"]
        /\ UNCHANGED <<startedAt, files, answerVars>>
    BY DEF HoldSnapshot, SupersedeStale, Return, Goto
  <1>2. EndsKept
    BY <1>1 DEF EndsKept, TypeOK, answerVars
  <1>3. CASE HoldSnapshot(t)
    BY <1>1, <1>2, <1>3 DEF HoldSnapshot, RowsKept, HoldsRow
  <1>4. CASE SupersedeStale(t)
    BY <1>1, <1>2, <1>4 DEF SupersedeStale, RowsKept, DropsHeld, storeVars, rowVars
  <1> QED BY <1>3, <1>4

LEMMA AnswerKind ==
    ASSUME IInv, NEW a \in Answer,
           QuietAnswerStep(a) \/ PublishHeld(a) \/ DiscardHeld(a)
    PROVE  (RowsKept /\ AnswersKept /\ UNCHANGED tryVars) \/ ReleasesRow(a) \/ DiscardsRow(a)
  <1> USE DEF IInv
  <1>0. \A b \in Answer, t \in Try : b # t /\ b \in Key /\ t \in Key
    BY DEF Key
  <1>1. CASE QuietAnswerStep(a)
    <2>1. UNCHANGED <<runVars, storeVars, files, tryVars>> /\ apc[a] # "done"
      BY <1>1 DEF QuietAnswerStep, AskAbout, ReadDraft, NextGeneration
    <2>2. \A b \in Answer : b # a => apc'[b] = apc[b]
      BY <1>1 DEF QuietAnswerStep, AskAbout, ReadDraft, NextGeneration, AGoto, TypeOK
    <2> QED BY <1>1, <2>1, <2>2 DEF RowsKept, EndsKept, AnswersKept, runVars, tryVars
  <1>2. CASE PublishHeld(a)
    <2>1. /\ apc[a] = "commit"
          /\ about[a] \in Run
          /\ files' = [files EXCEPT ![a] = [gen |-> answerGen[a], records |-> draft[a]]]
          /\ UNCHANGED <<revisionOf, recordsOf, heldReason, about, draft, answerGen>>
          /\ UNCHANGED <<runVars, dataVars, tryVars>>
      BY <1>2 DEF PublishHeld, TypeOK
    <2>2. CASE /\ AGoto(a, "done")
               /\ UNCHANGED <<attempt, headGen, state, generation, keyOf, question>>
      <3>1. ASSUME NEW b \in Answer, apc[b] = "done"
            PROVE  apc'[b] = "done" /\ files'[b] = files[b]
        BY <1>0, <2>1, <2>2, <3>1 DEF AGoto, TypeOK
      <3>2. \A t \in Try : pc'[t] = pc[t] /\ files'[t] = files[t]
        BY <1>0, <2>1 DEF TypeOK, tryVars
      <3> QED BY <2>1, <2>2, <3>1, <3>2
              DEF RowsKept, EndsKept, AnswersKept, runVars, storeVars, rowVars
    <2>3. IsHeld(about[a]) => headGen = answerGen[a] - 1
      BY <2>1 DEF HeadStandsStill, TypeOK
    <2>4. CASE /\ IsHeld(about[a])
               /\ headGen = answerGen[a] - 1
               /\ headGen' = answerGen[a]
               /\ state' = [state EXCEPT ![about[a]] = "published"]
               /\ generation' = [generation EXCEPT ![about[a]] = answerGen[a]]
               /\ keyOf' = [keyOf EXCEPT ![about[a]] = a]
               /\ Decide(about[a])
               /\ AGoto(a, "done")
               /\ UNCHANGED attempt
      BY <2>1, <2>4 DEF ReleasesRow, AGoto, runVars
    <2> QED BY <1>2, <2>2, <2>3, <2>4 DEF PublishHeld
  <1>3. CASE DiscardHeld(a)
    <2>1. /\ apc[a] = "discard"
          /\ about[a] \in Run
          /\ AGoto(a, "done")
          /\ UNCHANGED <<headGen, generation, revisionOf, recordsOf, keyOf, heldReason>>
          /\ UNCHANGED <<about, draft, answerGen, attempt, runVars, dataVars, files, tryVars>>
      BY <1>3 DEF DiscardHeld, TypeOK
    <2>2. CASE UNCHANGED <<state, question>>
      <3>1. ASSUME NEW b \in Answer, apc[b] = "done" PROVE apc'[b] = "done"
        BY <2>1, <3>1 DEF AGoto, TypeOK
      <3> QED BY <2>1, <2>2, <3>1
              DEF RowsKept, EndsKept, AnswersKept, runVars, storeVars, rowVars, tryVars
    <2>3. CASE IsHeld(about[a]) /\ state' = [state EXCEPT ![about[a]] = "discarded"] /\ Decide(about[a])
      BY <2>1, <2>3 DEF DiscardsRow, AGoto, runVars
    <2> QED BY <1>3, <2>2, <2>3 DEF DiscardHeld
  <1> QED BY <1>1, <1>2, <1>3

LEMMA StepKinds ==
    ASSUME IInv, Next
    PROVE  \/ \E r \in Run : StartRun(r)
           \/ RowsKept /\ AnswersKept
           \/ RowStep
  <1>1. TypeOK
    BY DEF IInv
  <1>2. CASE RunStep
    BY <1>1, <1>2, RunStepKind DEF RowsKept, AnswersKept
  <1>3. ASSUME NEW t \in Try, QuietTryStep(t) \/ CommitSnapshot(t) \/ HoldSnapshot(t) \/ SupersedeStale(t)
        PROVE  (RowsKept /\ AnswersKept) \/ RowStep
    BY <1>1, <1>3, QuietTryKind, CommitKind, HoldKind DEF AnswersKept, RowStep
  <1>4. ASSUME NEW a \in Answer, QuietAnswerStep(a) \/ PublishHeld(a) \/ DiscardHeld(a)
        PROVE  (RowsKept /\ AnswersKept) \/ RowStep
    BY <1>4, AnswerKind DEF RowStep
  <1> QED BY <1>2, <1>3, <1>4, NextCases

-----------------------------------------------------------------------------
(* The order of the starts.                                                *)

LEMMA StartsOrderedInit == Init => StartsOrdered
  BY DEF Init, StartsOrdered, Made

(* What a step must keep for the starts to stay ordered.                   *)
LEMMA StartsKept ==
    ASSUME StartsOrdered,
           UNCHANGED <<clock, startedAt>>,
           \A r \in Run : status'[r] = "none" => status[r] = "none",
           \A r \in Run : workflow'[r] # "none" => workflow[r] # "none",
           \A t \in Try : pc'[t] \notin {"idle", "done"} => startedAt[runOf[t]] > 0,
           \A r \in Run : state'[r] # "none" => startedAt[r] > 0
    PROVE  StartsOrdered'
  BY DEF StartsOrdered, Made

LEMMA StartsOrderedRunStep == ASSUME TypeOK, StartsOrdered, RunStep PROVE StartsOrdered'
  <1>1. ASSUME NEW r \in Run, StartRun(r) PROVE StartsOrdered'
    <2>1. /\ clock' = clock + 1
          /\ startedAt' = [startedAt EXCEPT ![r] = clock + 1]
          /\ status' = [status EXCEPT ![r] = "running"]
          /\ workflow' = [workflow EXCEPT ![r] = "created"]
          /\ pc' = pc /\ state' = state
      BY <1>1 DEF StartRun, tryVars, storeVars, rowVars
    <2>2. /\ \A q \in Run : startedAt'[q] = IF q = r THEN clock + 1 ELSE startedAt[q]
          /\ \A q \in Run : startedAt[q] \in Nat /\ startedAt[q] <= clock
          /\ clock \in Nat
      BY <2>1 DEF TypeOK, StartsOrdered
    <2>3. \A q \in Run : startedAt[q] > 0 => startedAt'[q] > 0
      BY <2>2
    <2>4. \A q, u \in Run : startedAt'[q] = startedAt'[u] /\ startedAt'[q] > 0 => q = u
      BY <2>2 DEF StartsOrdered
    <2>5. \A q \in Run : status'[q] = "none" => startedAt'[q] = 0
      BY <2>1, <2>2 DEF StartsOrdered, TypeOK
    <2>6. \A q \in Run : workflow'[q] # "none" => startedAt'[q] > 0
      BY <2>1, <2>2 DEF StartsOrdered, TypeOK
    <2>9. \A q \in Run : startedAt'[q] <= clock'
      BY <2>1, <2>2
    <2>7. \A t \in Try : pc'[t] \notin {"idle", "done"} => startedAt'[runOf[t]] > 0
      BY <2>1, <2>3 DEF StartsOrdered
    <2>8. \A q \in Run : state'[q] # "none" => startedAt'[q] > 0
      BY <2>1, <2>3 DEF StartsOrdered, Made
    <2> QED BY <2>4, <2>5, <2>6, <2>7, <2>8, <2>9, Zenon DEF StartsOrdered, Made
  <1>2. CASE ~ \E r \in Run : StartRun(r)
    <2>1. UNCHANGED <<clock, startedAt, pc, state>>
      BY <1>2 DEF RunStep, Load, RecordLost, Finish, Fail, Restart, EditRecords,
                  ApplyDefinition, runVars, tryVars, storeVars, rowVars
    <2>2. \A r \in Run : status'[r] = "none" => status[r] = "none"
      BY <1>2 DEF TypeOK, RunStep, Load, RecordLost, Finish, Fail, Restart, EditRecords,
                  ApplyDefinition, runVars
    <2>3. \A r \in Run : workflow'[r] # "none" => workflow[r] # "none"
      BY <1>2 DEF TypeOK, RunStep, Load, RecordLost, Finish, Fail, Restart, EditRecords,
                  ApplyDefinition, runVars
    <2>4. \A t \in Try : pc'[t] \notin {"idle", "done"} => startedAt[runOf[t]] > 0
      BY <2>1 DEF StartsOrdered
    <2>5. \A r \in Run : state'[r] # "none" => startedAt[r] > 0
      BY <2>1 DEF StartsOrdered, Made
    <2>6. UNCHANGED <<clock, startedAt>>
      BY <2>1
    <2> QED BY <2>2, <2>3, <2>4, <2>5, <2>6, StartsKept
  <1> QED BY <1>1, <1>2

LEMMA StartsOrderedTryStep ==
    ASSUME TypeOK, StartsOrdered, NEW t \in Try,
           QuietTryStep(t) \/ CommitSnapshot(t) \/ HoldSnapshot(t) \/ SupersedeStale(t)
    PROVE  StartsOrdered'
  <1>1. UNCHANGED <<clock, startedAt, status>>
    BY DEF QuietTryStep, CheckMade, BuildRecords, ReadLatest, ReadWaiting, ReadHead, CheckGates,
           CutOff, CommitSnapshot, HoldSnapshot, SupersedeStale, Return, Throw, runVars
  <1>2. \A r \in Run : workflow'[r] # "none" => workflow[r] # "none"
    <2>1. \/ workflow' = workflow
          \/ workflow' = [workflow EXCEPT ![runOf[t]] =
                 IF workflow[runOf[t]] = "going" THEN "stepped" ELSE workflow[runOf[t]]]
      BY DEF QuietTryStep, CheckMade, BuildRecords, ReadLatest, ReadWaiting, ReadHead, CheckGates,
             CutOff, CommitSnapshot, HoldSnapshot, SupersedeStale, Return, Throw, runVars
    <2> QED BY <2>1 DEF TypeOK
  <1>3. startedAt[runOf[t]] > 0
    <2>1. pc[t] \notin {"idle", "done"} \/ workflow[runOf[t]] = "going"
      BY DEF QuietTryStep, CheckMade, BuildRecords, ReadLatest, ReadWaiting, ReadHead, CheckGates,
             CutOff, CommitSnapshot, HoldSnapshot, SupersedeStale
    <2>2. runOf[t] \in Run
      OBVIOUS
    <2> QED BY <2>1, <2>2 DEF StartsOrdered, TypeOK
  <1>4. \A u \in Try : pc'[u] \notin {"idle", "done"} => startedAt[runOf[u]] > 0
    <2>1. \A u \in Try : u # t => pc'[u] = pc[u]
      <3>1. CASE QuietTryStep(t)
        BY <3>1 DEF TypeOK, QuietTryStep, CheckMade, BuildRecords, ReadLatest, ReadWaiting, ReadHead,
                    CheckGates, CutOff, Return, Throw, Goto
      <3>2. CASE ~QuietTryStep(t)
        <4>1. pc' = [pc EXCEPT ![t] = "done"] \/ pc' = [pc EXCEPT ![t] = "idle"]
          BY <3>2 DEF CommitSnapshot, HoldSnapshot, SupersedeStale, Return, Throw, Goto
        <4> QED BY <4>1 DEF TypeOK
      <3> QED BY <3>1, <3>2
    <2> QED BY <1>3, <2>1 DEF StartsOrdered
  <1>5. \A r \in Run : state'[r] # "none" => startedAt[r] > 0
    <2>1. \A r \in Run : state'[r] # "none" => Made(r) \/ r = runOf[t]
      <3>1. CASE QuietTryStep(t) \/ CommitSnapshot(t)
        <4>1. state' = state \/ StoreRow(runOf[t], "published")
          BY <3>1, QuietTryKind, CommitKind DEF RowsKept, PublishesRow, storeVars, rowVars
        <4> QED BY <4>1 DEF StoreRow, IsHeld, Made, TypeOK
      <3>2. CASE HoldSnapshot(t) \/ SupersedeStale(t)
        <4>1. state' = state \/ StoreRow(runOf[t], "held") \/ SupersedeHeld
          BY <3>2, HoldKind DEF RowsKept, HoldsRow, DropsHeld, storeVars, rowVars
        <4> QED BY <4>1 DEF SupersedeHeld, StoreRow, IsHeld, Made, TypeOK
      <3> QED BY <3>1, <3>2
    <2> QED BY <1>3, <2>1 DEF StartsOrdered
  <1> QED BY <1>1, <1>2, <1>4, <1>5, StartsKept

LEMMA StartsOrderedAnswerStep ==
    ASSUME IInv, NEW a \in Answer,
           QuietAnswerStep(a) \/ PublishHeld(a) \/ DiscardHeld(a)
    PROVE  StartsOrdered'
  <1>1. UNCHANGED <<runVars, tryVars>>
    BY DEF QuietAnswerStep, AskAbout, ReadDraft, NextGeneration, PublishHeld, DiscardHeld
  <1>2. \A r \in Run : state'[r] # "none" => Made(r)
    <2>1. TypeOK
      BY DEF IInv
    <2> QED BY <2>1, AnswerKind
            DEF TypeOK, RowsKept, ReleasesRow, DiscardsRow, IsHeld, Made, storeVars, rowVars
  <1>3. StartsOrdered
    BY DEF IInv
  <1> QED BY <1>1, <1>2, <1>3, StartsKept DEF StartsOrdered, runVars, tryVars

LEMMA StartsOrderedStep == ASSUME IInv, Next PROVE StartsOrdered'
  <1>1. TypeOK /\ StartsOrdered
    BY DEF IInv
  <1> QED BY <1>1, NextCases, StartsOrderedRunStep, StartsOrderedTryStep, StartsOrderedAnswerStep

-----------------------------------------------------------------------------
(* The rows.                                                               *)

RowInv ==
    /\ RowsMatchState
    /\ HeldIsNewest
    /\ QuestionFollowsSnapshot
    /\ PublishedInStartOrder
    /\ GenerationsContiguous
    /\ FileMatchesRow

LEMMA RowInvInit == Init => RowInv
  BY DEF Init, RowInv, RowsMatchState, HeldIsNewest, QuestionFollowsSnapshot, Overtaken, Made,
         PublishedInStartOrder, GenerationsContiguous, FileMatchesRow, IsHeld, IsPublished

(* What is held is newer than everything else made, so nothing else is.    *)
LEMMA HeldAlone ==
    ASSUME TypeOK, StartsOrdered, HeldIsNewest
    PROVE  /\ AtMostOneHeld
           /\ \A r, q \in Run : IsHeld(r) /\ Made(q) /\ q # r => startedAt[q] < startedAt[r]
  <1>1. \A r \in Run : startedAt[r] \in Nat
    BY DEF TypeOK
  <1>2. \A r, q \in Run : startedAt[r] = startedAt[q] /\ startedAt[r] > 0 => r = q
    BY DEF StartsOrdered
  <1>3. \A r \in Run : Made(r) => startedAt[r] > 0
    BY DEF StartsOrdered
  <1>4. ASSUME NEW r \in Run, NEW q \in Run, IsHeld(r), Made(q), q # r
        PROVE  startedAt[q] < startedAt[r]
    <2>1. ~(startedAt[q] > startedAt[r])
      BY <1>4 DEF HeldIsNewest, Overtaken
    <2>2. startedAt[q] # startedAt[r]
      BY <1>2, <1>3, <1>4
    <2> QED BY <1>1, <2>1, <2>2
  <1>5. \A r \in Run : IsHeld(r) => Made(r)
    BY DEF IsHeld, Made
  <1>6. ASSUME NEW r \in Run, NEW q \in Run, IsHeld(r), IsHeld(q), r # q PROVE FALSE
    <2>1. startedAt[q] < startedAt[r] /\ startedAt[r] < startedAt[q]
      BY <1>4, <1>5, <1>6
    <2> QED BY <1>1, <2>1
  <1> QED BY <1>4, <1>6 DEF AtMostOneHeld

(* A run that is not overtaken and has no snapshot started after every run *)
(* that has one.                                                           *)
LEMMA MadeAreOlder ==
    ASSUME TypeOK, StartsOrdered, NEW r \in Run, ~Overtaken(r), ~Made(r), startedAt[r] > 0
    PROVE  \A q \in Run : Made(q) => startedAt[q] < startedAt[r]
  <1>1. \A q \in Run : startedAt[q] \in Nat
    BY DEF TypeOK
  <1>2. \A q \in Run : startedAt[q] = startedAt[r] => q = r
    BY DEF StartsOrdered
  <1>3. \A q \in Run : Made(q) => ~(startedAt[q] > startedAt[r]) /\ q # r
    BY DEF Overtaken
  <1> QED BY <1>1, <1>2, <1>3

LEMMA RowsKeptInv == ASSUME IInv, RowsKept PROVE RowInv'
  <1> USE DEF IInv
  <1>1. /\ UNCHANGED <<startedAt, headGen, state, generation, revisionOf>>
        /\ UNCHANGED <<recordsOf, keyOf, heldReason, question>>
    BY DEF RowsKept, storeVars, rowVars
  <1>2. /\ \A t \in Try : pc[t] = "done" => pc'[t] = "done" /\ files'[t] = files[t]
        /\ \A a \in Answer : apc[a] = "done" => apc'[a] = "done" /\ files'[a] = files[a]
    BY DEF RowsKept, EndsKept
  <1>3. RowsMatchState'
    BY <1>1, <1>2 DEF RowsMatchState, IsPublished, IsHeld
  <1>4. HeldIsNewest' /\ QuestionFollowsSnapshot' /\ PublishedInStartOrder' /\ GenerationsContiguous'
    BY <1>1 DEF HeldIsNewest, Overtaken, Made, QuestionFollowsSnapshot, PublishedInStartOrder,
                GenerationsContiguous, IsPublished, IsHeld
  <1>5. FileMatchesRow'
    <2>1. ASSUME NEW r \in Run, IsPublished(r) PROVE files'[keyOf[r]] = files[keyOf[r]]
      BY <1>2, <2>1 DEF RowsMatchState
    <2> QED BY <1>1, <2>1 DEF FileMatchesRow, IsPublished
  <1> QED BY <1>3, <1>4, <1>5 DEF RowInv

LEMMA StartRunInv == ASSUME IInv, NEW r \in Run, StartRun(r) PROVE RowInv'
  <1> USE DEF IInv
  <1>1. /\ UNCHANGED <<headGen, state, generation, revisionOf>>
        /\ UNCHANGED <<recordsOf, keyOf, heldReason, question, files, pc, apc>>
        /\ startedAt' = [startedAt EXCEPT ![r] = clock + 1]
    BY DEF StartRun, storeVars, rowVars, tryVars, answerVars
  <1>2. \A q \in Run : Made(q) => startedAt'[q] = startedAt[q]
    <2>1. ~Made(r)
      BY DEF StartRun, StartsOrdered
    <2> QED BY <1>1, <2>1 DEF TypeOK
  <1>3. RowsMatchState' /\ QuestionFollowsSnapshot' /\ GenerationsContiguous' /\ FileMatchesRow'
    BY <1>1 DEF RowsMatchState, QuestionFollowsSnapshot, GenerationsContiguous, FileMatchesRow,
                IsPublished, IsHeld
  <1>4. HeldIsNewest'
    BY <1>1, <1>2 DEF HeldIsNewest, Overtaken, Made, IsHeld
  <1>5. PublishedInStartOrder'
    <2>1. \A q \in Run : IsPublished(q) => Made(q)
      BY DEF IsPublished, Made
    <2> QED BY <1>1, <1>2, <2>1 DEF PublishedInStartOrder, IsPublished
  <1> QED BY <1>3, <1>4, <1>5 DEF RowInv

(* The snapshot a run publishes is the newest, and takes the next          *)
(* generation and a file of the try's own.                                 *)
LEMMA PublishesInv == ASSUME IInv, NEW t \in Try, PublishesRow(t) PROVE RowInv'
  <1> USE DEF IInv
  <1> DEFINE r == runOf[t]
  <1>0. r \in Run /\ t \in Key
    BY DEF Key
  <1>1. /\ \A q \in Run : state'[q] = IF q = r THEN "published"
                                       ELSE IF IsHeld(q) THEN "superseded" ELSE state[q]
        /\ \A q \in Run : question'[q] = IF q = r THEN question[q]
                                          ELSE IF IsHeld(q) /\ question[q] = "open"
                                               THEN "dismissed" ELSE question[q]
    BY DEF PublishesRow, StoreRow
  <1>2. /\ \A q \in Run : q # r => /\ generation'[q] = generation[q]
                                   /\ recordsOf'[q] = recordsOf[q]
                                   /\ keyOf'[q] = keyOf[q]
                                   /\ heldReason'[q] = heldReason[q]
        /\ generation'[r] = headGen + 1
        /\ recordsOf'[r] = built[t]
        /\ keyOf'[r] = t
        /\ heldReason'[r] = FALSE
    BY <1>0 DEF PublishesRow, FillRow, TypeOK
  <1>3. /\ headGen' = headGen + 1
        /\ headGen \in Nat
        /\ UNCHANGED <<startedAt, apc>>
        /\ ~Made(r)
        /\ pc[t] = "commit"
    BY DEF PublishesRow, answerVars, TypeOK
  <1>4. \A u \in Try : pc'[u] = IF u = t THEN "done" ELSE pc[u]
    BY DEF PublishesRow, TypeOK
  <1>5. \A k \in Key : files'[k] = IF k = t THEN [gen |-> headGen + 1, records |-> built[t]] ELSE files[k]
    BY DEF PublishesRow, TypeOK
  <1>6. \A q \in Run : /\ state'[q] = "published" <=> q = r \/ IsPublished(q)
                       /\ state'[q] # "held"
                       /\ IsPublished(q) => q # r
    BY <1>1, <1>3 DEF IsPublished, IsHeld, Made
  <1>7. \A q \in Run : IsPublished(q) => startedAt[q] < startedAt[r]
    <2>1. startedAt[r] > 0
      BY <1>0, <1>3 DEF StartsOrdered
    <2> QED BY <1>0, <1>3, <2>1, MadeAreOlder DEF PublishesRow, IsPublished, Made
  <1>8. \A q \in Run : /\ generation[q] \in Nat
                       /\ generation[q] <= headGen
                       /\ IsPublished(q) <=> generation[q] > 0
    BY DEF TypeOK, RowsMatchState
  <1>9. RowsMatchState'
    <2>1. ASSUME NEW q \in Run
          PROVE  /\ state'[q] = "published" <=> generation'[q] > 0
                 /\ generation'[q] <= headGen'
      <3>1. CASE q = r
        BY <1>2, <1>3, <1>6, <3>1
      <3>2. CASE q # r
        BY <1>2, <1>3, <1>6, <1>8, <3>2
      <3> QED BY <3>1, <3>2
    <2>2. ASSUME NEW q \in Run, state'[q] = "published"
          PROVE  \/ keyOf'[q] \in Try /\ runOf[keyOf'[q]] = q /\ pc'[keyOf'[q]] = "done"
                 \/ keyOf'[q] \in Answer /\ apc'[keyOf'[q]] = "done"
      <3>1. CASE q = r
        BY <1>2, <1>4, <3>1
      <3>2. CASE q # r
        <4>1. IsPublished(q) /\ keyOf'[q] = keyOf[q]
          BY <1>2, <1>6, <2>2, <3>2
        <4> QED BY <1>3, <1>4, <4>1 DEF RowsMatchState
      <3> QED BY <3>1, <3>2
    <2> QED BY <1>6, <2>1, <2>2 DEF RowsMatchState, IsPublished, IsHeld
  <1>10. HeldIsNewest' /\ QuestionFollowsSnapshot'
    <2>1. \A q \in Run : question'[q] # "open"
      BY <1>1, <1>3 DEF QuestionFollowsSnapshot, IsHeld, Made
    <2> QED BY <1>6, <2>1 DEF HeldIsNewest, QuestionFollowsSnapshot, IsHeld
  <1>11. PublishedInStartOrder'
    <2>1. ASSUME NEW p \in Run, NEW q \in Run, state'[p] = "published", state'[q] = "published",
                 generation'[p] < generation'[q]
          PROVE  startedAt[p] < startedAt[q]
      <3>1. p # r
        BY <1>2, <1>3, <1>8, <2>1
      <3>2. IsPublished(p)
        BY <1>6, <2>1, <3>1
      <3>3. CASE q = r
        BY <1>7, <3>2, <3>3
      <3>4. CASE q # r
        <4>1. IsPublished(q) /\ generation[p] < generation[q]
          BY <1>2, <1>6, <2>1, <3>1, <3>4
        <4> QED BY <3>2, <4>1 DEF PublishedInStartOrder
      <3> QED BY <3>3, <3>4
    <2> QED BY <1>3, <2>1 DEF PublishedInStartOrder, IsPublished
  <1>12. GenerationsContiguous'
    <2>1. ASSUME NEW q \in Run, state'[q] = "published" PROVE generation'[q] \in 1..headGen'
      <3>1. CASE q = r
        BY <1>2, <1>3, <3>1
      <3>2. CASE q # r
        BY <1>2, <1>3, <1>6, <1>8, <2>1, <3>2
      <3> QED BY <3>1, <3>2
    <2>2. ASSUME NEW p \in Run, NEW q \in Run, state'[p] = "published", state'[q] = "published",
                 generation'[p] = generation'[q]
          PROVE  p = q
      <3>1. CASE p # r /\ q # r
        <4>1. IsPublished(p) /\ IsPublished(q) /\ generation[p] = generation[q]
          BY <1>2, <1>6, <2>2, <3>1
        <4> QED BY <4>1 DEF GenerationsContiguous
      <3>2. CASE p = r \/ q = r
        BY <1>2, <1>3, <1>8, <2>2, <3>2
      <3> QED BY <3>1, <3>2
    <2>3. ASSUME NEW g \in 1..headGen'
          PROVE  \E q \in Run : state'[q] = "published" /\ generation'[q] = g
      <3>1. CASE g = headGen + 1
        BY <1>0, <1>2, <1>6, <3>1
      <3>2. CASE g # headGen + 1
        <4>1. g \in 1..headGen
          BY <1>3, <3>2
        <4>2. PICK q \in Run : IsPublished(q) /\ generation[q] = g
          BY <4>1 DEF GenerationsContiguous
        <4> QED BY <1>2, <1>6, <4>2
      <3> QED BY <3>1, <3>2
    <2> QED BY <2>1, <2>2, <2>3 DEF GenerationsContiguous, IsPublished
  <1>13. FileMatchesRow'
    <2>1. ASSUME NEW q \in Run, state'[q] = "published"
          PROVE  /\ files'[keyOf'[q]].gen = generation'[q]
                 /\ ~heldReason'[q] => files'[keyOf'[q]].records = recordsOf'[q]
      <3>1. CASE q = r
        <4>1. keyOf'[q] = t /\ files'[t] = [gen |-> headGen + 1, records |-> built[t]]
          BY <1>0, <1>2, <1>5, <3>1
        <4> QED BY <1>2, <3>1, <4>1
      <3>2. CASE q # r
        <4>1. IsPublished(q) /\ keyOf[q] \in Key
          BY <1>6, <2>1, <3>2 DEF TypeOK
        <4>2. keyOf[q] # t
          BY <1>0, <1>3, <4>1 DEF RowsMatchState
        <4>3. files'[keyOf[q]] = files[keyOf[q]]
          BY <1>5, <4>1, <4>2
        <4>4. keyOf'[q] = keyOf[q] /\ generation'[q] = generation[q]
              /\ heldReason'[q] = heldReason[q] /\ recordsOf'[q] = recordsOf[q]
          BY <1>2, <3>2
        <4> QED BY <4>1, <4>3, <4>4 DEF FileMatchesRow
      <3> QED BY <3>1, <3>2
    <2> QED BY <2>1 DEF FileMatchesRow, IsPublished
  <1> QED BY <1>9, <1>10, <1>11, <1>12, <1>13 DEF RowInv

(* A step that leaves the published rows as they are keeps what is said of *)
(* them.                                                                   *)
LEMMA PublishedKept ==
    ASSUME IInv, EndsKept, UNCHANGED <<startedAt, headGen>>,
           \A q \in Run : state'[q] = "published" <=> IsPublished(q),
           \A q \in Run : IsPublished(q) =>
               /\ generation'[q] = generation[q]
               /\ recordsOf'[q] = recordsOf[q]
               /\ keyOf'[q] = keyOf[q]
               /\ heldReason'[q] = heldReason[q]
    PROVE  /\ PublishedInStartOrder' /\ GenerationsContiguous' /\ FileMatchesRow'
           /\ \A q \in Run : state'[q] = "published" =>
                 \/ keyOf'[q] \in Try /\ runOf[keyOf'[q]] = q /\ pc'[keyOf'[q]] = "done"
                 \/ keyOf'[q] \in Answer /\ apc'[keyOf'[q]] = "done"
  <1> USE DEF IInv
  <1>1. PublishedInStartOrder' /\ GenerationsContiguous'
    BY DEF PublishedInStartOrder, GenerationsContiguous, IsPublished
  <1>2. ASSUME NEW q \in Run, IsPublished(q)
        PROVE  /\ files'[keyOf[q]] = files[keyOf[q]]
               /\ \/ keyOf'[q] \in Try /\ runOf[keyOf'[q]] = q /\ pc'[keyOf'[q]] = "done"
                  \/ keyOf'[q] \in Answer /\ apc'[keyOf'[q]] = "done"
    BY <1>2 DEF RowsMatchState, EndsKept
  <1>3. FileMatchesRow'
    BY <1>2 DEF FileMatchesRow, IsPublished
  <1> QED BY <1>1, <1>2, <1>3

LEMMA HoldsInv == ASSUME IInv, NEW t \in Try, HoldsRow(t) PROVE RowInv'
  <1> USE DEF IInv
  <1> DEFINE r == runOf[t]
  <1>0. r \in Run /\ ~Made(r)
    BY DEF HoldsRow
  <1>1. /\ \A q \in Run : state'[q] = IF q = r THEN "held"
                                       ELSE IF IsHeld(q) THEN "superseded" ELSE state[q]
        /\ \A q \in Run : question'[q] = IF q = r THEN "open"
                                          ELSE IF IsHeld(q) /\ question[q] = "open"
                                               THEN "dismissed" ELSE question[q]
    BY DEF HoldsRow, StoreRow
  <1>2. /\ \A q \in Run : q # r => /\ generation'[q] = generation[q]
                                   /\ recordsOf'[q] = recordsOf[q]
                                   /\ keyOf'[q] = keyOf[q]
                                   /\ heldReason'[q] = heldReason[q]
        /\ generation'[r] = 0
        /\ heldReason'[r] = TRUE
    BY <1>0 DEF HoldsRow, FillRow, TypeOK
  <1>3. UNCHANGED <<startedAt, headGen>> /\ headGen \in Nat
    BY DEF HoldsRow, TypeOK
  <1>4. EndsKept
    BY DEF HoldsRow, EndsKept, TypeOK, answerVars
  <1>5. \A q \in Run : /\ state'[q] = "published" <=> IsPublished(q)
                       /\ state'[q] = "held" <=> q = r
                       /\ IsPublished(q) => q # r
    BY <1>0, <1>1 DEF IsPublished, IsHeld, Made
  <1>6. PublishedInStartOrder' /\ GenerationsContiguous' /\ FileMatchesRow'
        /\ \A q \in Run : state'[q] = "published" =>
              \/ keyOf'[q] \in Try /\ runOf[keyOf'[q]] = q /\ pc'[keyOf'[q]] = "done"
              \/ keyOf'[q] \in Answer /\ apc'[keyOf'[q]] = "done"
    BY <1>2, <1>3, <1>4, <1>5, PublishedKept
  <1>7. RowsMatchState'
    <2>1. ASSUME NEW q \in Run
          PROVE  /\ state'[q] = "published" <=> generation'[q] > 0
                 /\ generation'[q] <= headGen'
                 /\ state'[q] = "held" => heldReason'[q]
      <3>1. CASE q = r
        BY <1>2, <1>3, <1>5, <3>1
      <3>2. CASE q # r
        BY <1>2, <1>3, <1>5, <3>2 DEF RowsMatchState
      <3> QED BY <3>1, <3>2
    <2> QED BY <1>6, <2>1 DEF RowsMatchState, IsPublished, IsHeld
  <1>8. QuestionFollowsSnapshot'
    BY <1>1, <1>5 DEF QuestionFollowsSnapshot, IsHeld
  <1>9. HeldIsNewest'
    <2>1. \A q \in Run : state'[q] # "none" => q = r \/ Made(q)
      BY <1>1 DEF Made, IsHeld
    <2>2. ~Overtaken(r) /\ ~(startedAt[r] > startedAt[r])
      BY <1>0 DEF HoldsRow, TypeOK
    <2> QED BY <1>3, <1>5, <2>1, <2>2 DEF HeldIsNewest, Overtaken, IsHeld, Made
  <1> QED BY <1>6, <1>7, <1>8, <1>9 DEF RowInv

(* What is no longer held, and was not published, is out of the way.       *)
LEMMA HeldGoes ==
    ASSUME IInv, EndsKept, UNCHANGED <<startedAt, headGen, generation, recordsOf, keyOf, heldReason>>,
           \A q \in Run : state'[q] # state[q] =>
               IsHeld(q) /\ (state'[q] = "superseded" \/ state'[q] = "discarded"),
           \A q \in Run : state'[q] = state[q] => question'[q] = question[q],
           \A q \in Run : state'[q] # state[q] => question'[q] # "open"
    PROVE  RowInv'
  <1> USE DEF IInv
  <1>1. \A q \in Run : /\ state'[q] = "published" <=> IsPublished(q)
                       /\ state'[q] = "held" => IsHeld(q) /\ state'[q] = state[q]
                       /\ state'[q] # "none" <=> Made(q)
    BY DEF IsPublished, IsHeld, Made
  <1>2. PublishedInStartOrder' /\ GenerationsContiguous' /\ FileMatchesRow'
        /\ \A q \in Run : state'[q] = "published" =>
              \/ keyOf'[q] \in Try /\ runOf[keyOf'[q]] = q /\ pc'[keyOf'[q]] = "done"
              \/ keyOf'[q] \in Answer /\ apc'[keyOf'[q]] = "done"
    BY <1>1, PublishedKept
  <1>3. RowsMatchState'
    <2>1. ASSUME NEW q \in Run
          PROVE  /\ state'[q] = "published" <=> generation'[q] > 0
                 /\ generation'[q] <= headGen'
                 /\ state'[q] = "held" => heldReason'[q]
      BY <1>1 DEF RowsMatchState
    <2> QED BY <1>2, <2>1 DEF RowsMatchState, IsPublished, IsHeld
  <1>4. HeldIsNewest'
    BY <1>1 DEF HeldIsNewest, Overtaken, IsHeld, Made
  <1>5. QuestionFollowsSnapshot'
    BY <1>1 DEF QuestionFollowsSnapshot, IsHeld
  <1> QED BY <1>2, <1>3, <1>4, <1>5 DEF RowInv

LEMMA DropsInv ==
    ASSUME IInv, NEW t \in Try, DropsHeld(t)
    PROVE RowInv'
  <1> USE DEF IInv
  <1>1. EndsKept
    BY DEF DropsHeld, EndsKept, TypeOK, answerVars
  <1>2. \A q \in Run : /\ state'[q] = IF IsHeld(q) THEN "superseded" ELSE state[q]
                       /\ question'[q] = IF IsHeld(q) /\ question[q] = "open"
                                         THEN "dismissed" ELSE question[q]
    BY DEF DropsHeld, SupersedeHeld
  <1>3. UNCHANGED <<startedAt, headGen, generation, recordsOf, keyOf, heldReason>>
    BY DEF DropsHeld
  <1>5. \A q \in Run : state'[q] # state[q] =>
               IsHeld(q) /\ (state'[q] = "superseded" \/ state'[q] = "discarded")
    BY <1>2 DEF IsHeld
  <1>6. \A q \in Run : state'[q] = state[q] => question'[q] = question[q]
    BY <1>2 DEF IsHeld
  <1>7. \A q \in Run : state'[q] # state[q] => question'[q] # "open"
    BY <1>2 DEF IsHeld
  <1> QED BY <1>1, <1>3, <1>5, <1>6, <1>7, HeldGoes

LEMMA DiscardsInv == ASSUME IInv, NEW a \in Answer, DiscardsRow(a) PROVE RowInv'
  <1> USE DEF IInv
  <1>1. EndsKept
    BY DEF DiscardsRow, EndsKept, TypeOK, tryVars
  <1>2. \A q \in Run : /\ state'[q] = IF q = about[a] THEN "discarded" ELSE state[q]
                       /\ question'[q] = IF q = about[a] /\ question[q] = "open"
                                         THEN "decided" ELSE question[q]
    BY DEF DiscardsRow, Decide, TypeOK
  <1>3. UNCHANGED <<startedAt, headGen, generation, recordsOf, keyOf, heldReason>>
    BY DEF DiscardsRow
  <1>4. about[a] \in Run /\ IsHeld(about[a])
    BY DEF DiscardsRow
  <1>5. \A q \in Run : state'[q] # state[q] =>
               IsHeld(q) /\ (state'[q] = "superseded" \/ state'[q] = "discarded")
    BY <1>2, <1>4 DEF IsHeld
  <1>6. \A q \in Run : state'[q] = state[q] => question'[q] = question[q]
    BY <1>2, <1>4 DEF IsHeld
  <1>7. \A q \in Run : state'[q] # state[q] => question'[q] # "open"
    BY <1>2, <1>4 DEF IsHeld
  <1> QED BY <1>1, <1>3, <1>5, <1>6, <1>7, HeldGoes

(* The snapshot the owner releases is the newest made, so the next         *)
(* generation is its own.                                                  *)
LEMMA ReleasesInv == ASSUME IInv, NEW a \in Answer, ReleasesRow(a) PROVE RowInv'
  <1> USE DEF IInv
  <1> DEFINE r == about[a]
  <1>0. r \in Run /\ a \in Key /\ IsHeld(r)
    BY DEF ReleasesRow, Key
  <1>1. /\ \A q \in Run : state'[q] = IF q = r THEN "published" ELSE state[q]
        /\ \A q \in Run : question'[q] = IF q = r /\ question[q] = "open"
                                          THEN "decided" ELSE question[q]
    BY DEF ReleasesRow, Decide, TypeOK
  <1>2. /\ \A q \in Run : q # r => generation'[q] = generation[q] /\ keyOf'[q] = keyOf[q]
        /\ generation'[r] = headGen + 1
        /\ keyOf'[r] = a
    BY <1>0 DEF ReleasesRow, TypeOK
  <1>3. /\ headGen' = headGen + 1
        /\ headGen \in Nat
        /\ UNCHANGED <<startedAt, pc, recordsOf, heldReason>>
        /\ apc[a] = "commit"
    BY DEF ReleasesRow, tryVars, TypeOK
  <1>4. \A b \in Answer : apc'[b] = IF b = a THEN "done" ELSE apc[b]
    BY DEF ReleasesRow, TypeOK
  <1>5. /\ \A k \in Key : k # a => files'[k] = files[k]
        /\ files'[a].gen = headGen + 1
    BY <1>0, <1>3 DEF ReleasesRow, TypeOK
  <1>6. \A q \in Run : IsHeld(q) => q = r
    BY <1>0, HeldAlone DEF AtMostOneHeld
  <1>7. \A q \in Run : /\ state'[q] = "published" <=> q = r \/ IsPublished(q)
                       /\ state'[q] # "held"
                       /\ IsPublished(q) => q # r
    BY <1>0, <1>1, <1>6 DEF IsPublished, IsHeld
  <1>8. \A q \in Run : IsPublished(q) => startedAt[q] < startedAt[r]
    BY <1>0, <1>7, HeldAlone DEF IsPublished, Made
  <1>9. \A q \in Run : /\ generation[q] \in Nat
                       /\ generation[q] <= headGen
                       /\ IsPublished(q) <=> generation[q] > 0
    BY DEF TypeOK, RowsMatchState
  <1>10. RowsMatchState'
    <2>1. ASSUME NEW q \in Run
          PROVE  /\ state'[q] = "published" <=> generation'[q] > 0
                 /\ generation'[q] <= headGen'
      <3>1. CASE q = r
        BY <1>2, <1>3, <1>7, <3>1
      <3>2. CASE q # r
        BY <1>2, <1>3, <1>7, <1>9, <3>2
      <3> QED BY <3>1, <3>2
    <2>2. ASSUME NEW q \in Run, state'[q] = "published"
          PROVE  \/ keyOf'[q] \in Try /\ runOf[keyOf'[q]] = q /\ pc'[keyOf'[q]] = "done"
                 \/ keyOf'[q] \in Answer /\ apc'[keyOf'[q]] = "done"
      <3>1. CASE q = r
        BY <1>2, <1>4, <3>1
      <3>2. CASE q # r
        <4>1. IsPublished(q) /\ keyOf'[q] = keyOf[q]
          BY <1>2, <1>7, <2>2, <3>2
        <4> QED BY <1>3, <1>4, <4>1 DEF RowsMatchState
      <3> QED BY <3>1, <3>2
    <2> QED BY <1>7, <2>1, <2>2 DEF RowsMatchState, IsPublished, IsHeld
  <1>11. HeldIsNewest' /\ QuestionFollowsSnapshot'
    <2>1. \A q \in Run : question'[q] # "open"
      BY <1>1, <1>6 DEF QuestionFollowsSnapshot
    <2> QED BY <1>7, <2>1 DEF HeldIsNewest, QuestionFollowsSnapshot, IsHeld
  <1>12. PublishedInStartOrder'
    <2>1. ASSUME NEW p \in Run, NEW q \in Run, state'[p] = "published", state'[q] = "published",
                 generation'[p] < generation'[q]
          PROVE  startedAt[p] < startedAt[q]
      <3>1. p # r
        BY <1>2, <1>3, <1>9, <2>1
      <3>2. IsPublished(p)
        BY <1>7, <2>1, <3>1
      <3>3. CASE q = r
        BY <1>8, <3>2, <3>3
      <3>4. CASE q # r
        <4>1. IsPublished(q) /\ generation[p] < generation[q]
          BY <1>2, <1>7, <2>1, <3>1, <3>4
        <4> QED BY <3>2, <4>1 DEF PublishedInStartOrder
      <3> QED BY <3>3, <3>4
    <2> QED BY <1>3, <2>1 DEF PublishedInStartOrder, IsPublished
  <1>13. GenerationsContiguous'
    <2>1. ASSUME NEW q \in Run, state'[q] = "published" PROVE generation'[q] \in 1..headGen'
      <3>1. CASE q = r
        BY <1>2, <1>3, <3>1
      <3>2. CASE q # r
        BY <1>2, <1>3, <1>7, <1>9, <2>1, <3>2
      <3> QED BY <3>1, <3>2
    <2>2. ASSUME NEW p \in Run, NEW q \in Run, state'[p] = "published", state'[q] = "published",
                 generation'[p] = generation'[q]
          PROVE  p = q
      <3>1. CASE p # r /\ q # r
        <4>1. IsPublished(p) /\ IsPublished(q) /\ generation[p] = generation[q]
          BY <1>2, <1>7, <2>2, <3>1
        <4> QED BY <4>1 DEF GenerationsContiguous
      <3>2. CASE p = r \/ q = r
        BY <1>2, <1>3, <1>9, <2>2, <3>2
      <3> QED BY <3>1, <3>2
    <2>3. ASSUME NEW g \in 1..headGen'
          PROVE  \E q \in Run : state'[q] = "published" /\ generation'[q] = g
      <3>1. CASE g = headGen + 1
        BY <1>0, <1>2, <1>7, <3>1
      <3>2. CASE g # headGen + 1
        <4>1. g \in 1..headGen
          BY <1>3, <3>2
        <4>2. PICK q \in Run : IsPublished(q) /\ generation[q] = g
          BY <4>1 DEF GenerationsContiguous
        <4> QED BY <1>2, <1>7, <4>2
      <3> QED BY <3>1, <3>2
    <2> QED BY <2>1, <2>2, <2>3 DEF GenerationsContiguous, IsPublished
  <1>14. FileMatchesRow'
    <2>1. ASSUME NEW q \in Run, state'[q] = "published"
          PROVE  /\ files'[keyOf'[q]].gen = generation'[q]
                 /\ ~heldReason[q] => files'[keyOf'[q]].records = recordsOf[q]
      <3>1. CASE q = r
        <4>1. heldReason[r]
          BY <1>0 DEF RowsMatchState
        <4> QED BY <1>2, <1>5, <3>1, <4>1
      <3>2. CASE q # r
        <4>1. IsPublished(q) /\ keyOf[q] \in Key
          BY <1>7, <2>1, <3>2 DEF TypeOK
        <4>2. keyOf[q] # a
          BY <1>0, <1>3, <4>1 DEF RowsMatchState
        <4>3. files'[keyOf[q]] = files[keyOf[q]]
          BY <1>5, <4>1, <4>2
        <4>4. keyOf'[q] = keyOf[q] /\ generation'[q] = generation[q]
          BY <1>2, <3>2
        <4> QED BY <4>1, <4>3, <4>4 DEF FileMatchesRow
      <3> QED BY <3>1, <3>2
    <2> QED BY <1>3, <2>1 DEF FileMatchesRow, IsPublished
  <1> QED BY <1>10, <1>11, <1>12, <1>13, <1>14 DEF RowInv

-----------------------------------------------------------------------------
(* The answers.                                                            *)

AnswerInv == HeadStandsStill /\ AnswerNeverGivesUp

LEMMA AnswerInvInit == Init => AnswerInv
  BY DEF Init, AnswerInv, HeadStandsStill, AnswerNeverGivesUp

(* While no answer moves, what an answer is about stays made, and its      *)
(* snapshot is held only if it was.                                        *)
LEMMA AnswersWait ==
    ASSUME IInv, UNCHANGED <<apc, about, answerGen, attempt>>,
           \A r \in Run : Made(r) => state'[r] # "none",
           \A r \in Run : Made(r) /\ state'[r] = "held" => IsHeld(r) /\ headGen' = headGen
    PROVE  AnswerInv'
  <1> USE DEF IInv
  <1>1. \A a \in Answer : apc[a] # "idle" => about[a] \in Run
    BY DEF TypeOK
  <1>2. HeadStandsStill'
    BY <1>1 DEF HeadStandsStill, IsHeld, Made
  <1>3. AnswerNeverGivesUp'
    BY DEF AnswerNeverGivesUp
  <1> QED BY <1>2, <1>3 DEF AnswerInv

LEMMA QuietAnswerInv ==
    ASSUME IInv, RowsKept, AnswersKept
    PROVE  AnswerInv'
  <1> USE DEF IInv
  <1>1. UNCHANGED <<headGen, state>>
    BY DEF RowsKept, storeVars, rowVars
  <1>2. CASE UNCHANGED answerVars
    BY <1>1, <1>2, AnswersWait DEF answerVars, Made, IsHeld
  <1>3. ASSUME NEW a \in Answer, NEW r \in Run, AskAbout(a, r) PROVE AnswerInv'
    <2>1. Made(r)
      BY <1>3 DEF AskAbout, QuestionFollowsSnapshot, IsHeld, Made
    <2>2. \A b \in Answer : /\ about'[b] = IF b = a THEN r ELSE about[b]
                            /\ b # a => apc'[b] = apc[b]
      BY <1>3 DEF AskAbout, AGoto, TypeOK
    <2>3. apc'[a] = "publish" \/ apc'[a] = "discard"
      BY <1>3 DEF AskAbout, AGoto, TypeOK
    <2>4. UNCHANGED <<answerGen, attempt>>
      BY <1>3 DEF AskAbout
    <2>5. ASSUME NEW b \in Answer
          PROVE  /\ apc'[b] # "idle" => state'[about'[b]] # "none"
                 /\ apc'[b] = "commit" /\ state'[about'[b]] = "held" => answerGen'[b] = headGen' + 1
                 /\ apc'[b] # "gaveUp" /\ attempt'[b] = 0
      <3>1. CASE b = a
        <4>1. about'[b] = r
          BY <2>2, <3>1
        <4>2. state'[r] # "none"
          BY <1>1, <2>1 DEF Made
        <4>3. attempt'[b] = 0
          BY <2>4 DEF AnswerNeverGivesUp
        <4>4. apc'[b] # "commit" /\ apc'[b] # "gaveUp"
          BY <2>3, <3>1
        <4> QED BY <4>1, <4>2, <4>3, <4>4
      <3>2. CASE b # a
        <4>1. about'[b] = about[b] /\ apc'[b] = apc[b]
          BY <2>2, <3>2
        <4>2. attempt'[b] = 0 /\ apc[b] # "gaveUp"
          BY <2>4 DEF AnswerNeverGivesUp
        <4> QED BY <1>1, <2>4, <4>1, <4>2 DEF HeadStandsStill, Made, IsHeld
      <3> QED BY <3>1, <3>2
    <2>6. HeadStandsStill' /\ AnswerNeverGivesUp'
      BY <2>5 DEF HeadStandsStill, AnswerNeverGivesUp, Made, IsHeld
    <2> QED BY <2>6 DEF AnswerInv
  <1>4. ASSUME NEW a \in Answer, NextGeneration(a) PROVE AnswerInv'
    <2>1. \A b \in Answer : /\ answerGen'[b] = IF b = a THEN headGen + 1 ELSE answerGen[b]
                            /\ apc'[b] = IF b = a THEN "commit" ELSE apc[b]
      BY <1>4 DEF NextGeneration, AGoto, TypeOK
    <2>2. UNCHANGED <<about, attempt>> /\ apc[a] = "head"
      BY <1>4 DEF NextGeneration
    <2>3. HeadStandsStill'
      BY <1>1, <2>1, <2>2 DEF HeadStandsStill, Made, IsHeld
    <2>4. AnswerNeverGivesUp'
      BY <2>1, <2>2 DEF AnswerNeverGivesUp
    <2> QED BY <2>3, <2>4 DEF AnswerInv
  <1>5. ASSUME NEW a \in Answer, apc[a] # "idle", NEW s \in {"head", "done"}, AGoto(a, s),
               UNCHANGED <<about, answerGen, attempt>>
        PROVE  AnswerInv'
    <2>1. \A b \in Answer : apc'[b] = IF b = a THEN s ELSE apc[b]
      BY <1>5 DEF AGoto, TypeOK
    <2>2. HeadStandsStill'
      BY <1>1, <1>5, <2>1 DEF HeadStandsStill, Made, IsHeld
    <2>3. AnswerNeverGivesUp'
      BY <1>5, <2>1 DEF AnswerNeverGivesUp
    <2> QED BY <2>2, <2>3 DEF AnswerInv
  <1>6. ASSUME NEW a \in Answer, QuietAnswerStep(a) PROVE AnswerInv'
    <2>2. CASE ReadDraft(a)
      <3>1. /\ apc[a] # "idle"
            /\ UNCHANGED <<about, answerGen, attempt>>
            /\ AGoto(a, "head") \/ AGoto(a, "done")
        BY <2>2 DEF ReadDraft
      <3> QED BY <1>5, <3>1
    <2>3. CASE \E r \in Run : AskAbout(a, r)
      BY <1>3, <2>3
    <2>4. CASE NextGeneration(a)
      BY <1>4, <2>4
    <2> QED BY <1>6, <2>2, <2>3, <2>4 DEF QuietAnswerStep
  <1>7. ASSUME NEW a \in Answer, apc[a] # "idle", AGoto(a, "done"),
               UNCHANGED <<about, answerGen, attempt>>
        PROVE  AnswerInv'
    BY <1>5, <1>7
  <1> QED BY <1>2, <1>6, <1>7, Zenon DEF AnswersKept

LEMMA RowStepAnswerInv == ASSUME IInv, RowStep PROVE AnswerInv'
  <1> USE DEF IInv
  <1>1. ASSUME NEW t \in Try, PublishesRow(t) \/ HoldsRow(t) \/ DropsHeld(t)
        PROVE  AnswerInv'
    <2>1. UNCHANGED <<apc, about, answerGen, attempt>>
      BY <1>1 DEF PublishesRow, HoldsRow, DropsHeld, answerVars
    <2>2. CASE PublishesRow(t)
      BY <2>1, <2>2, AnswersWait DEF PublishesRow, StoreRow, IsHeld, Made
    <2>3. CASE HoldsRow(t)
      BY <2>1, <2>3, AnswersWait DEF HoldsRow, StoreRow, IsHeld, Made
    <2>4. CASE DropsHeld(t)
      BY <2>1, <2>4, AnswersWait DEF DropsHeld, SupersedeHeld, IsHeld, Made
    <2> QED BY <1>1, <2>2, <2>3, <2>4
  <1>2. ASSUME NEW a \in Answer, ReleasesRow(a) \/ DiscardsRow(a)
        PROVE  AnswerInv'
    <2>1. about[a] \in Run /\ IsHeld(about[a]) /\ UNCHANGED <<about, answerGen, attempt>>
      BY <1>2 DEF ReleasesRow, DiscardsRow
    <2>2. \A r \in Run : /\ state'[r] # "held"
                         /\ Made(r) => state'[r] # "none"
      BY <1>2, <2>1, HeldAlone DEF ReleasesRow, DiscardsRow, AtMostOneHeld, IsHeld, Made, TypeOK
    <2>3. \A b \in Answer : /\ apc'[b] # "idle" => apc[b] # "idle"
                            /\ apc'[b] # "gaveUp"
                            /\ apc'[b] # "idle" => about[b] \in Run
      BY <1>2 DEF ReleasesRow, DiscardsRow, AnswerNeverGivesUp, TypeOK
    <2>4. HeadStandsStill'
      BY <2>1, <2>2, <2>3 DEF HeadStandsStill, IsHeld, Made
    <2>5. AnswerNeverGivesUp'
      BY <2>1, <2>3 DEF AnswerNeverGivesUp
    <2> QED BY <2>4, <2>5 DEF AnswerInv
  <1> QED BY <1>1, <1>2 DEF RowStep

-----------------------------------------------------------------------------
(* The invariant.                                                          *)

LEMMA IInvInit == Init => IInv
  BY InitType, StartsOrderedInit, RowInvInit, AnswerInvInit DEF IInv, RowInv, AnswerInv

LEMMA IInvStep == IInv /\ [Next]_vars => IInv'
  <1> SUFFICES ASSUME IInv, [Next]_vars PROVE IInv'
    OBVIOUS
  <1>1. CASE UNCHANGED vars
    BY <1>1 DEF IInv, TypeOK, StartsOrdered, RowsMatchState, HeldIsNewest, QuestionFollowsSnapshot,
                PublishedInStartOrder, GenerationsContiguous, FileMatchesRow, HeadStandsStill,
                AnswerNeverGivesUp, Overtaken, Made, IsHeld, IsPublished,
                vars, runVars, dataVars, storeVars, rowVars, tryVars, answerVars
  <1>2. CASE Next
    <2>1. TypeOK'
      BY <1>2, StepType DEF IInv
    <2>2. StartsOrdered'
      BY <1>2, StartsOrderedStep
    <2>3. CASE \E r \in Run : StartRun(r)
      <3>1. RowInv'
        BY <2>3, StartRunInv
      <3>2. UNCHANGED <<headGen, state, apc, about, answerGen, attempt>>
        BY <2>3 DEF StartRun, storeVars, rowVars, answerVars
      <3>3. AnswerInv'
        BY <3>2, AnswersWait DEF Made, IsHeld
      <3> QED BY <2>1, <2>2, <3>1, <3>3 DEF IInv, RowInv, AnswerInv
    <2>4. CASE RowsKept /\ AnswersKept
      BY <2>1, <2>2, <2>4, RowsKeptInv, QuietAnswerInv DEF IInv, RowInv, AnswerInv
    <2>5. CASE RowStep
      <3>1. RowInv'
        BY <2>5, PublishesInv, HoldsInv, DropsInv, ReleasesInv, DiscardsInv DEF RowStep
      <3> QED BY <2>1, <2>2, <2>5, <3>1, RowStepAnswerInv DEF IInv, RowInv, AnswerInv
    <2> QED BY <1>2, <2>3, <2>4, <2>5, StepKinds
  <1> QED BY <1>1, <1>2

(* The invariant holds in every state of every behavior.                   *)
THEOREM Invariant == Spec => []IInv
  BY IInvInit, IInvStep, PTL DEF Spec

(* At most one snapshot waits for the owner, whichever tries and answers   *)
(* run at once.                                                            *)
THEOREM OneHeld == Spec => []AtMostOneHeld
  <1>1. IInv => AtMostOneHeld
    BY HeldAlone DEF IInv
  <1> QED BY <1>1, Invariant, PTL

(* The generations are contiguous, each taken once.                        *)
THEOREM Contiguous == Spec => []GenerationsContiguous
  <1>1. IInv => GenerationsContiguous
    BY DEF IInv
  <1> QED BY <1>1, Invariant, PTL

(* Generations follow the order the runs started in.                       *)
THEOREM StartOrder == Spec => []PublishedInStartOrder
  <1>1. IInv => PublishedInStartOrder
    BY DEF IInv
  <1> QED BY <1>1, Invariant, PTL

(* The owner is asked about a snapshot exactly while it is held.           *)
THEOREM QuestionOpenWhileHeld == Spec => []QuestionFollowsSnapshot
  <1>1. IInv => QuestionFollowsSnapshot
    BY DEF IInv
  <1> QED BY <1>1, Invariant, PTL

(* A published row's file is the one its publisher wrote, for good.        *)
THEOREM FileStays == Spec => []FileMatchesRow
  <1>1. IInv => FileMatchesRow
    BY DEF IInv
  <1> QED BY <1>1, Invariant, PTL

(* publishHeldSnapshot never finds the head moved under what is held.      *)
THEOREM NeverGivesUp == Spec => []AnswerNeverGivesUp
  <1>1. IInv => AnswerNeverGivesUp
    BY DEF IInv
  <1> QED BY <1>1, Invariant, PTL

-----------------------------------------------------------------------------
(* The refinement of PublishedHistory.                                     *)

LEMMA HistoryInit == Init => History!Init
  BY DEF Init, History!Init, IsHeld, Made

LEMMA StartRefines == ASSUME IInv, NEW r \in Run, StartRun(r) PROVE History!Start(r)
  <1> USE DEF IInv
  <1>1. /\ startedAt' = [startedAt EXCEPT ![r] = clock + 1]
        /\ UNCHANGED <<headGen, generation, state>>
    BY DEF StartRun, storeVars, rowVars
  <1>2. startedAt[r] = 0
    BY DEF StartRun, StartsOrdered
  <1>3. clock \in Nat /\ \A q \in Run : startedAt[q] \in Nat /\ startedAt[q] <= clock
    BY DEF StartsOrdered, TypeOK
  <1>4. startedAt'[r] = clock + 1
    BY <1>1 DEF TypeOK
  <1>5. \A q \in Run : startedAt[q] < startedAt'[r]
    BY <1>3, <1>4
  <1>6. startedAt'[r] \in Nat
    BY <1>3, <1>4
  <1>7. UNCHANGED <<headGen, generation, {q \in Run : IsHeld(q)}, {q \in Run : Made(q)}>>
    BY <1>1 DEF IsHeld, Made
  <1> QED BY <1>1, <1>2, <1>4, <1>5, <1>6, <1>7 DEF History!Start

LEMMA PublishRefines ==
    ASSUME IInv, NEW t \in Try, PublishesRow(t) PROVE History!Publish(runOf[t])
  <1> USE DEF IInv
  <1> DEFINE r == runOf[t]
  <1>1. r \in Run /\ ~Overtaken(r) /\ ~Made(r) /\ startedAt[r] > 0
    BY DEF PublishesRow, StartsOrdered
  <1>2. \A q \in Run : Made(q) => startedAt[q] < startedAt[r]
    BY <1>1, MadeAreOlder
  <1>3. /\ headGen' = headGen + 1
        /\ generation' = [generation EXCEPT ![r] = headGen + 1]
        /\ startedAt' = startedAt
    BY DEF PublishesRow, FillRow
  <1>4. \A q \in Run : state'[q] = IF q = r THEN "published"
                                    ELSE IF IsHeld(q) THEN "superseded" ELSE state[q]
    BY DEF PublishesRow, StoreRow
  <1>5. \A q \in Run : state'[q] # "held" /\ (state'[q] # "none" <=> q = r \/ Made(q))
    BY <1>4 DEF IsHeld, Made
  <1>6. {q \in Run : IsHeld(q)}' = {}
    BY <1>5 DEF IsHeld
  <1>7. {q \in Run : Made(q)}' = {q \in Run : Made(q)} \cup {r}
    BY <1>1, <1>5 DEF Made
  <1> QED BY <1>1, <1>2, <1>3, <1>6, <1>7 DEF History!Publish, History!Newest

LEMMA HoldRefines ==
    ASSUME IInv, NEW t \in Try, HoldsRow(t) PROVE History!Hold(runOf[t])
  <1> USE DEF IInv
  <1> DEFINE r == runOf[t]
  <1>1. r \in Run /\ ~Overtaken(r) /\ ~Made(r) /\ startedAt[r] > 0
    BY DEF HoldsRow, StartsOrdered
  <1>2. \A q \in Run : Made(q) => startedAt[q] < startedAt[r]
    BY <1>1, MadeAreOlder
  <1>3. UNCHANGED <<startedAt, headGen, generation>>
    <2>1. generation' = [generation EXCEPT ![r] = 0]
      BY DEF HoldsRow, FillRow
    <2>2. generation[r] = 0
      BY <1>1 DEF RowsMatchState, TypeOK, IsPublished, Made
    <2>3. generation' = generation
      BY <2>1, <2>2 DEF TypeOK
    <2> QED BY <2>3 DEF HoldsRow
  <1>4. \A q \in Run : state'[q] = IF q = r THEN "held"
                                    ELSE IF IsHeld(q) THEN "superseded" ELSE state[q]
    BY DEF HoldsRow, StoreRow
  <1>5. \A q \in Run : (state'[q] = "held" <=> q = r) /\ (state'[q] # "none" <=> q = r \/ Made(q))
    BY <1>4 DEF IsHeld, Made
  <1>6. {q \in Run : IsHeld(q)}' = {r}
    BY <1>1, <1>5 DEF IsHeld
  <1>7. {q \in Run : Made(q)}' = {q \in Run : Made(q)} \cup {r}
    BY <1>1, <1>5 DEF Made
  <1> QED BY <1>1, <1>2, <1>3, <1>6, <1>7 DEF History!Hold, History!Newest

LEMMA ReleaseRefines ==
    ASSUME IInv, NEW a \in Answer, ReleasesRow(a) PROVE History!Release(about[a])
  <1> USE DEF IInv
  <1> DEFINE r == about[a]
  <1>1. /\ r \in Run /\ IsHeld(r)
        /\ answerGen[a] = headGen + 1
        /\ headGen' = headGen + 1
        /\ generation' = [generation EXCEPT ![r] = headGen + 1]
        /\ startedAt' = startedAt
    <2>1. headGen \in Nat /\ answerGen[a] \in Nat
      BY DEF TypeOK
    <2>2. answerGen[a] = headGen + 1
      BY <2>1 DEF ReleasesRow
    <2> QED BY <2>2 DEF ReleasesRow
  <1>2. \A q \in Run : state'[q] = IF q = r THEN "published" ELSE state[q]
    BY DEF ReleasesRow, TypeOK
  <1>3. {q \in Run : IsHeld(q)}' = {q \in Run : IsHeld(q)} \ {r}
    BY <1>1, <1>2 DEF IsHeld
  <1>4. {q \in Run : Made(q)}' = {q \in Run : Made(q)}
    BY <1>1, <1>2 DEF IsHeld, Made
  <1> QED BY <1>1, <1>3, <1>4 DEF History!Release

(* What a step drops is all there was to drop.                             *)
LEMMA DropRefines ==
    ASSUME IInv, UNCHANGED <<startedAt, headGen, generation>>,
           \A q \in Run : state'[q] # "held" /\ (state'[q] # "none" <=> Made(q))
    PROVE  History!Drop \/ UNCHANGED History!historyVars
  <1>1. {q \in Run : IsHeld(q)}' = {}
    BY DEF IsHeld
  <1>2. {q \in Run : Made(q)}' = {q \in Run : Made(q)}
    BY DEF Made
  <1> QED BY <1>1, <1>2 DEF History!Drop, History!historyVars

LEMMA HistoryStep == IInv /\ [Next]_vars => [History!Next]_(History!historyVars)
  <1> SUFFICES ASSUME IInv, [Next]_vars
               PROVE  History!Next \/ UNCHANGED History!historyVars
    OBVIOUS
  <1>1. CASE UNCHANGED vars
    BY <1>1 DEF vars, runVars, storeVars, rowVars, History!historyVars, IsHeld, Made
  <1>2. ASSUME NEW r \in Run, StartRun(r) PROVE History!Next
    BY <1>2, StartRefines DEF History!Next
  <1>3. CASE RowsKept
    BY <1>3 DEF RowsKept, storeVars, rowVars, History!historyVars, IsHeld, Made
  <1>4. ASSUME NEW t \in Try, PublishesRow(t) PROVE History!Next
    <2>1. History!Publish(runOf[t]) /\ runOf[t] \in Run
      BY <1>4, PublishRefines
    <2> QED BY <2>1 DEF History!Next
  <1>5. ASSUME NEW t \in Try, HoldsRow(t) PROVE History!Next
    <2>1. History!Hold(runOf[t]) /\ runOf[t] \in Run
      BY <1>5, HoldRefines
    <2> QED BY <2>1 DEF History!Next
  <1>6. ASSUME NEW t \in Try, DropsHeld(t) PROVE History!Next \/ UNCHANGED History!historyVars
    <2>1. UNCHANGED <<startedAt, headGen, generation>>
      BY <1>6 DEF DropsHeld
    <2>2. \A q \in Run : state'[q] # "held" /\ (state'[q] # "none" <=> Made(q))
      BY <1>6 DEF DropsHeld, SupersedeHeld, IsHeld, Made
    <2> QED BY <2>1, <2>2, DropRefines DEF History!Next
  <1>7. ASSUME NEW a \in Answer, ReleasesRow(a) PROVE History!Next
    <2>1. History!Release(about[a]) /\ about[a] \in Run
      BY <1>7, ReleaseRefines DEF ReleasesRow
    <2> QED BY <2>1 DEF History!Next
  <1>8. ASSUME NEW a \in Answer, DiscardsRow(a) PROVE History!Next \/ UNCHANGED History!historyVars
    <2>1. UNCHANGED <<startedAt, headGen, generation>>
      BY <1>8 DEF DiscardsRow
    <2>2. \A q \in Run : IsHeld(q) <=> q = about[a]
      BY <1>8, HeldAlone DEF DiscardsRow, AtMostOneHeld, IInv
    <2>3. \A q \in Run : state'[q] = IF q = about[a] THEN "discarded" ELSE state[q]
      BY <1>8 DEF DiscardsRow, IInv, TypeOK
    <2>4. \A q \in Run : state'[q] # "held" /\ (state'[q] # "none" <=> Made(q))
      BY <2>2, <2>3 DEF IsHeld, Made
    <2> QED BY <2>1, <2>4, DropRefines DEF History!Next
  <1> QED BY <1>1, <1>2, <1>3, <1>4, <1>5, <1>6, <1>7, <1>8, StepKinds DEF RowStep

(* Runs that overlap, tries at once, cut-off tries, and the owner's        *)
(* answers together implement the history PublishedHistory promises.       *)
THEOREM Implements == Spec => ImplementsHistory
  BY HistoryInit, HistoryStep, Invariant, PTL DEF Spec, ImplementsHistory, History!Spec

-----------------------------------------------------------------------------
(* The owner lets each definition in.                                      *)

LEMMA LetInInit == Init => LetInInv
  BY DEF Init, LetInInv, LoadedOnce, PreviousRead, GatesPassed, OwnerLetsDefinitionIn, IsPublished

(* A row that is published stays so, with its generation, its revision,    *)
(* and why it was held.                                                    *)
LEMMA PublishedStays ==
    ASSUME IInv, Next, NEW r \in Run, IsPublished(r)
    PROVE  /\ IsPublished(r)'
           /\ generation'[r] = generation[r]
           /\ revisionOf'[r] = revisionOf[r]
           /\ heldReason'[r] = heldReason[r]
  <1> USE DEF IInv
  <1>1. CASE \E q \in Run : StartRun(q)
    BY <1>1 DEF StartRun, storeVars, rowVars, IsPublished
  <1>2. CASE RowsKept
    BY <1>2 DEF RowsKept, storeVars, rowVars, IsPublished
  <1>3. ASSUME NEW t \in Try, PublishesRow(t) \/ HoldsRow(t)
        PROVE  /\ IsPublished(r)'
               /\ generation'[r] = generation[r]
               /\ revisionOf'[r] = revisionOf[r]
               /\ heldReason'[r] = heldReason[r]
    <2>1. runOf[t] \in Run /\ runOf[t] # r
      BY <1>3 DEF PublishesRow, HoldsRow, Made, IsPublished
    <2>2. state'[r] = state[r]
      BY <1>3, <2>1 DEF PublishesRow, HoldsRow, StoreRow, IsPublished, IsHeld
    <2> QED BY <1>3, <2>1, <2>2 DEF PublishesRow, HoldsRow, FillRow, TypeOK, IsPublished
  <1>4. CASE \E t \in Try : DropsHeld(t)
    BY <1>4 DEF DropsHeld, SupersedeHeld, IsPublished, IsHeld
  <1>5. ASSUME NEW a \in Answer, ReleasesRow(a) \/ DiscardsRow(a)
        PROVE  /\ IsPublished(r)'
               /\ generation'[r] = generation[r]
               /\ revisionOf'[r] = revisionOf[r]
               /\ heldReason'[r] = heldReason[r]
    <2>1. about[a] \in Run /\ about[a] # r
      BY <1>5 DEF ReleasesRow, DiscardsRow, IsHeld, IsPublished
    <2> QED BY <1>5, <2>1 DEF ReleasesRow, DiscardsRow, TypeOK, IsPublished
  <1> QED BY <1>1, <1>2, <1>3, <1>4, <1>5, StepKinds DEF RowStep

(* A row is published by a try of its run, or by an answer while it waits. *)
LEMMA NewlyPublished ==
    ASSUME IInv, Next, NEW r \in Run, IsPublished(r)', ~IsPublished(r)
    PROVE  \/ \E t \in Try : PublishesRow(t) /\ runOf[t] = r
           \/ IsHeld(r) /\ revisionOf'[r] = revisionOf[r] /\ heldReason'[r] = heldReason[r]
  <1> USE DEF IInv
  <1>1. CASE \E q \in Run : StartRun(q)
    BY <1>1 DEF StartRun, storeVars, rowVars, IsPublished
  <1>2. CASE RowsKept
    BY <1>2 DEF RowsKept, storeVars, rowVars, IsPublished
  <1>3. ASSUME NEW t \in Try, PublishesRow(t) \/ HoldsRow(t)
        PROVE  PublishesRow(t) /\ runOf[t] = r
    BY <1>3 DEF PublishesRow, HoldsRow, StoreRow, IsPublished, IsHeld
  <1>4. CASE \E t \in Try : DropsHeld(t)
    BY <1>4 DEF DropsHeld, SupersedeHeld, IsPublished
  <1>5. ASSUME NEW a \in Answer, ReleasesRow(a) \/ DiscardsRow(a)
        PROVE  IsHeld(r) /\ revisionOf'[r] = revisionOf[r] /\ heldReason'[r] = heldReason[r]
    BY <1>5 DEF ReleasesRow, DiscardsRow, TypeOK, IsPublished, IsHeld
  <1> QED BY <1>1, <1>2, <1>3, <1>4, <1>5, StepKinds DEF RowStep

(* A try's step leaves the other tries alone, and the revisions loaded.    *)
LEMMA OtherTries ==
    ASSUME TypeOK, NEW t \in Try,
           QuietTryStep(t) \/ CommitSnapshot(t) \/ HoldSnapshot(t) \/ SupersedeStale(t)
    PROVE  /\ UNCHANGED loadedAt
           /\ pc[t] # "done"
           /\ pc[t] # "idle" \/ workflow[runOf[t]] = "going"
           /\ \A u \in Try : u # t => /\ pc'[u] = pc[u]
                                      /\ prev'[u] = prev[u]
                                      /\ prevRevision'[u] = prevRevision[u]
  <1>1. Return(t) \/ Throw(t) =>
           /\ UNCHANGED loadedAt
           /\ \A u \in Try : u # t => /\ pc'[u] = pc[u]
                                      /\ prev'[u] = prev[u]
                                      /\ prevRevision'[u] = prevRevision[u]
    BY DEF Return, Throw, Forget, Goto, runVars, TypeOK
  <1>2. pc[t] # "done" /\ (pc[t] # "idle" \/ workflow[runOf[t]] = "going")
    BY DEF QuietTryStep, CheckMade, BuildRecords, ReadLatest, ReadWaiting, ReadHead, CheckGates,
           CutOff, CommitSnapshot, HoldSnapshot, SupersedeStale
  <1>3. CASE ~(Return(t) \/ Throw(t))
    <2>1. UNCHANGED loadedAt
      BY <1>3 DEF QuietTryStep, CheckMade, BuildRecords, ReadLatest, ReadWaiting, ReadHead,
                  CheckGates, CutOff, CommitSnapshot, HoldSnapshot, SupersedeStale, runVars
    <2>2. \E step : pc' = [pc EXCEPT ![t] = step]
      BY <1>3 DEF QuietTryStep, CheckMade, BuildRecords, ReadLatest, ReadWaiting, ReadHead,
                  CheckGates, CutOff, CommitSnapshot, HoldSnapshot, SupersedeStale, Goto
    <2>3. \A u \in Try : u # t => pc'[u] = pc[u]
      BY <2>2 DEF TypeOK
    <2>4. \A u \in Try : u # t => prev'[u] = prev[u] /\ prevRevision'[u] = prevRevision[u]
      <3>1. CASE ReadLatest(t)
        BY <3>1 DEF ReadLatest, TypeOK
      <3>2. CASE ~ReadLatest(t)
        BY <1>3, <3>2 DEF QuietTryStep, CheckMade, BuildRecords, ReadWaiting, ReadHead,
                          CheckGates, CutOff, CommitSnapshot, HoldSnapshot, SupersedeStale
      <3> QED BY <3>1, <3>2
    <2> QED BY <1>2, <2>1, <2>3, <2>4
  <1> QED BY <1>1, <1>2, <1>3

(* A run's definition is loaded once, before its step runs.                *)
LEMMA LoadedOnceStep == ASSUME TypeOK, LoadedOnce, Next PROVE LoadedOnce'
  <1> USE DEF TypeOK
  <1>1. CASE RunStep
    <2>1. UNCHANGED pc
      BY <1>1, RunStepKind
    <2>2. ASSUME NEW r \in Run, StartRun(r) PROVE LoadedOnce'
      BY <2>1, <2>2 DEF LoadedOnce, StartRun, dataVars
    <2>3. ASSUME NEW r \in Run, Load(r) PROVE LoadedOnce'
      BY <2>1, <2>3 DEF LoadedOnce, Load, dataVars
    <2>4. ASSUME NEW r \in Run, RecordLost(r) \/ Finish(r) \/ Fail(r) \/ Restart(r)
          PROVE  LoadedOnce'
      BY <2>1, <2>4 DEF LoadedOnce, RecordLost, Finish, Fail, Restart, dataVars
    <2>5. CASE EditRecords \/ ApplyDefinition
      BY <2>1, <2>5 DEF LoadedOnce, EditRecords, ApplyDefinition, runVars
    <2> QED BY <1>1, <2>2, <2>3, <2>4, <2>5 DEF RunStep
  <1>2. ASSUME NEW t \in Try,
               QuietTryStep(t) \/ CommitSnapshot(t) \/ HoldSnapshot(t) \/ SupersedeStale(t)
        PROVE  LoadedOnce'
    <2>1. UNCHANGED <<status, loadedAt, revision>>
      BY <1>2 DEF QuietTryStep, CheckMade, BuildRecords, ReadLatest, ReadWaiting, ReadHead,
                  CheckGates, CutOff, CommitSnapshot, HoldSnapshot, SupersedeStale, Return, Throw,
                  runVars, dataVars
    <2>2. \/ workflow' = workflow
          \/ workflow' = [workflow EXCEPT ![runOf[t]] =
                             IF workflow[runOf[t]] = "going" THEN "stepped" ELSE workflow[runOf[t]]]
      BY <1>2 DEF QuietTryStep, CheckMade, BuildRecords, ReadLatest, ReadWaiting, ReadHead,
                  CheckGates, CutOff, CommitSnapshot, HoldSnapshot, SupersedeStale, Return, Throw,
                  runVars
    <2>3. /\ \A u \in Try : u # t => pc'[u] = pc[u]
          /\ pc[t] # "idle" \/ workflow[runOf[t]] = "going"
          /\ pc[t] # "done"
      BY <1>2, OtherTries
    <2>4. /\ \A r \in Run : workflow'[r] \in {"none", "created"} => workflow[r] = workflow'[r]
          /\ \A r \in Run : workflow'[r] \in {"going", "stepped"} =>
                                 workflow[r] \in {"going", "stepped"}
          /\ \A r \in Run : workflow[r] = "none" => workflow'[r] = "none"
      BY <2>2
    <2>5. loadedAt[runOf[t]] > 0
      BY <2>3 DEF LoadedOnce
    <2> QED BY <2>1, <2>3, <2>4, <2>5 DEF LoadedOnce
  <1>3. ASSUME NEW a \in Answer, QuietAnswerStep(a) \/ PublishHeld(a) \/ DiscardHeld(a)
        PROVE  LoadedOnce'
    <2>1. UNCHANGED <<runVars, dataVars, tryVars>>
      BY <1>3 DEF QuietAnswerStep, AskAbout, ReadDraft, NextGeneration, PublishHeld, DiscardHeld
    <2> QED BY <2>1 DEF LoadedOnce, runVars, dataVars, tryVars
  <1> QED BY <1>1, <1>2, <1>3, NextCases

(* What a try knows of the previous snapshot, after a step of its own.     *)
TryKnows(t) ==
    /\ pc[t] \in {"idle", "build", "latest"} => prev[t] = NoFile
    /\ pc[t] \in {"waiting", "head", "gates", "commit"} /\ prev[t] # NoFile =>
          \E r \in Run : IsPublished(r) /\ revisionOf[r] = prevRevision[t]
    /\ Approval = "balanced" /\ pc[t] = "commit" =>
          prev[t] # NoFile /\ prevRevision[t] = loadedAt[runOf[t]]

LEMMA TryLearns ==
    ASSUME IInv, Next, NEW t \in Try, TryKnows(t),
           QuietTryStep(t) \/ CommitSnapshot(t) \/ HoldSnapshot(t) \/ SupersedeStale(t)
    PROVE  TryKnows(t)'
  <1> USE DEF IInv
  <1>1. CASE Return(t) \/ Throw(t)
    BY <1>1 DEF Return, Throw, Forget, Goto, TryKnows, TypeOK
  <1>2. CASE UNCHANGED <<runVars, prev, prevRevision>> /\ pc'[t] \in {"build", "hold", "supersede"}
                /\ (pc'[t] = "build" => pc[t] = "idle")
    BY <1>2 DEF TryKnows
  <1>3. CASE BuildRecords(t)
    BY <1>3 DEF BuildRecords, Goto, TryKnows, TypeOK
  <1>4. CASE ReadLatest(t)
    <2>1. CASE pc'[t] = "supersede"
      BY <2>1 DEF TryKnows
    <2>2. CASE pc'[t] = "waiting" /\ UNCHANGED <<prev, prevRevision>>
      BY <1>4, <2>2 DEF ReadLatest, TryKnows
    <2>3. ASSUME NEW r \in Run, IsLatest(r), pc'[t] = "waiting",
                 prevRevision' = [prevRevision EXCEPT ![t] = revisionOf[r]]
          PROVE  TryKnows(t)'
      <3>1. prevRevision'[t] = revisionOf[r]
        BY <2>3 DEF TypeOK
      <3>2. IsPublished(r)' /\ revisionOf'[r] = revisionOf[r]
        BY <2>3, PublishedStays DEF IsLatest
      <3> QED BY <2>3, <3>1, <3>2 DEF TryKnows
    <2> QED BY <1>4, <2>1, <2>2, <2>3 DEF ReadLatest, Goto, TypeOK
  <1>5. CASE /\ ReadWaiting(t) \/ ReadHead(t) \/ CheckGates(t)
             /\ ~Return(t)
    <2>1. /\ UNCHANGED <<prev, prevRevision, loadedAt>>
          /\ pc[t] \in {"waiting", "head", "gates"}
          /\ pc'[t] \in {"head", "gates", "commit", "hold"}
          /\ pc'[t] = "commit" => GatesOpen(t)
      BY <1>5 DEF ReadWaiting, ReadHead, CheckGates, Goto, runVars, TypeOK
    <2>2. prev[t] # NoFile => \E r \in Run : IsPublished(r) /\ revisionOf[r] = prevRevision[t]
      BY <2>1 DEF TryKnows
    <2>3. prev[t] # NoFile =>
             \E r \in Run : IsPublished(r)' /\ revisionOf'[r] = prevRevision[t]
      BY <2>2, PublishedStays
    <2> QED BY <2>1, <2>3 DEF TryKnows, GatesOpen
  <1>6. CASE CheckMade(t) /\ ~Return(t)
    BY <1>6 DEF CheckMade, Goto, TypeOK, TryKnows
  <1> QED BY <1>1, <1>3, <1>4, <1>5, <1>6
          DEF QuietTryStep, CutOff, CommitSnapshot, HoldSnapshot, SupersedeStale

(* What the tries know stays true.                                         *)
LEMMA TriesKnowStep ==
    ASSUME IInv, LoadedOnce, PreviousRead, GatesPassed, Next
    PROVE  PreviousRead' /\ GatesPassed'
  <1> USE DEF IInv
  <1>1. \A t \in Try : TryKnows(t)
    BY DEF PreviousRead, GatesPassed, TryKnows
  <1>2. ASSUME NEW t \in Try,
               pc'[t] = pc[t], prev'[t] = prev[t], prevRevision'[t] = prevRevision[t],
               pc[t] \notin {"idle", "done"} => loadedAt'[runOf[t]] = loadedAt[runOf[t]]
        PROVE  TryKnows(t)'
    <2>1. pc[t] \in {"waiting", "head", "gates", "commit"} /\ prev[t] # NoFile =>
             \E r \in Run : IsPublished(r)' /\ revisionOf'[r] = prevRevision[t]
      BY <1>1, PublishedStays DEF TryKnows
    <2> QED BY <1>1, <1>2, <2>1 DEF TryKnows
  <1>3. \A t \in Try : TryKnows(t)'
    <2>1. CASE RunStep
      <3>1. UNCHANGED <<pc, prev, prevRevision>>
        BY <2>1 DEF RunStep, StartRun, Load, RecordLost, Finish, Fail, Restart, EditRecords,
                    ApplyDefinition, tryVars
      <3>2. ASSUME NEW t \in Try, pc[t] \notin {"idle", "done"}
            PROVE  loadedAt'[runOf[t]] = loadedAt[runOf[t]]
        <4>1. loadedAt[runOf[t]] > 0
          BY <3>2 DEF LoadedOnce
        <4>2. \A r \in Run : Load(r) => r # runOf[t]
          BY <4>1 DEF Load, LoadedOnce, TypeOK
        <4> QED BY <2>1, <4>2 DEF RunStep, StartRun, Load, RecordLost, Finish, Fail, Restart,
                                  EditRecords, ApplyDefinition, runVars, TypeOK
      <3> QED BY <1>2, <3>1, <3>2
    <2>2. ASSUME NEW t \in Try,
                 QuietTryStep(t) \/ CommitSnapshot(t) \/ HoldSnapshot(t) \/ SupersedeStale(t)
          PROVE  \A u \in Try : TryKnows(u)'
      BY <1>1, <1>2, <2>2, OtherTries, TryLearns
    <2>3. ASSUME NEW a \in Answer, QuietAnswerStep(a) \/ PublishHeld(a) \/ DiscardHeld(a)
          PROVE  \A u \in Try : TryKnows(u)'
      <3>1. UNCHANGED <<runVars, tryVars>>
        BY <2>3 DEF QuietAnswerStep, AskAbout, ReadDraft, NextGeneration, PublishHeld, DiscardHeld
      <3> QED BY <1>2, <3>1 DEF runVars, tryVars
    <2> QED BY <2>1, <2>2, <2>3, NextCases
  <1> QED BY <1>3 DEF PreviousRead, GatesPassed, TryKnows

(* What a try publishes by itself follows a snapshot of its own revision,  *)
(* and so one the owner published.                                         *)
LEMMA OwnerLetsStep ==
    ASSUME IInv, PreviousRead, GatesPassed, OwnerLetsDefinitionIn, Next
    PROVE  OwnerLetsDefinitionIn'
  <1> USE DEF IInv
  <1> SUFFICES ASSUME Approval = "balanced", NEW r \in Run, IsPublished(r)'
               PROVE  \E q \in Run : /\ IsPublished(q)' /\ heldReason'[q]
                                     /\ generation'[q] <= generation'[r]
                                     /\ revisionOf'[q] = revisionOf'[r]
    BY DEF OwnerLetsDefinitionIn
  <1>1. CASE IsPublished(r)
    <2>1. PICK q \in Run : /\ IsPublished(q) /\ heldReason[q]
                           /\ generation[q] <= generation[r]
                           /\ revisionOf[q] = revisionOf[r]
      BY <1>1 DEF OwnerLetsDefinitionIn
    <2> QED BY <1>1, <2>1, PublishedStays
  <1>2. ASSUME NEW t \in Try, PublishesRow(t), runOf[t] = r
        PROVE  \E q \in Run : /\ IsPublished(q)' /\ heldReason'[q]
                              /\ generation'[q] <= generation'[r]
                              /\ revisionOf'[q] = revisionOf'[r]
    <2>1. generation'[r] = headGen + 1 /\ revisionOf'[r] = loadedAt[r]
      BY <1>2 DEF PublishesRow, FillRow, TypeOK
    <2>2. prev[t] # NoFile /\ prevRevision[t] = loadedAt[r] /\ pc[t] = "commit"
      BY <1>2 DEF PublishesRow, GatesPassed
    <2>3. PICK p \in Run : IsPublished(p) /\ revisionOf[p] = loadedAt[r]
      BY <2>2 DEF PreviousRead
    <2>4. PICK q \in Run : /\ IsPublished(q) /\ heldReason[q]
                           /\ revisionOf[q] = revisionOf[p]
      BY <2>3 DEF OwnerLetsDefinitionIn
    <2>5. generation[q] <= headGen + 1
      BY DEF RowsMatchState, TypeOK
    <2> QED BY <2>1, <2>3, <2>4, <2>5, PublishedStays
  <1>3. CASE IsHeld(r) /\ revisionOf'[r] = revisionOf[r] /\ heldReason'[r] = heldReason[r]
    <2>1. heldReason'[r]
      BY <1>3 DEF RowsMatchState
    <2>2. generation'[r] \in Nat
      BY StepType DEF TypeOK
    <2> QED BY <2>1, <2>2
  <1> QED BY <1>1, <1>2, <1>3, NewlyPublished

LEMMA LetInStep == IInv /\ LetInInv /\ [Next]_vars => LetInInv'
  <1> SUFFICES ASSUME IInv, LetInInv, [Next]_vars PROVE LetInInv'
    OBVIOUS
  <1> USE DEF LetInInv
  <1>1. CASE UNCHANGED vars
    BY <1>1 DEF LoadedOnce, PreviousRead, GatesPassed, OwnerLetsDefinitionIn, IsPublished,
                vars, runVars, dataVars, storeVars, rowVars, tryVars
  <1>2. CASE Next
    BY <1>2, LoadedOnceStep, TriesKnowStep, OwnerLetsStep DEF IInv
  <1> QED BY <1>1, <1>2

(* Under balanced approval, whatever is published of a definition          *)
(* revision follows a snapshot of it that the owner published.             *)
THEOREM LetsIn == Spec => []OwnerLetsDefinitionIn
  <1>1. LetInInv => OwnerLetsDefinitionIn
    BY DEF LetInInv
  <1> QED BY <1>1, LetInInit, LetInStep, Invariant, PTL DEF Spec

=============================================================================
