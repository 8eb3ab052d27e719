------------------------- MODULE PageReadingProofs -------------------------
(***************************************************************************)
(* Proofs about PageReading, for any bodies, values, revisions and bounds: *)
(* what the variables hold; and, while one run goes at a time, that files  *)
(* are named, citations have their evidence, what looks current was read,  *)
(* consent is kept, and two quiet runs leave the page read.                *)
(***************************************************************************)
EXTENDS PageReading, FiniteSetTheorems, WellFoundedInduction, TLAPS

-----------------------------------------------------------------------------
(* The latest capture.                                                     *)

(* A set of numbers has a least one.                                       *)
LEMMA Least ==
    ASSUME NEW T, T \subseteq Nat, T # {}
    PROVE  \E x \in T : \A y \in T : x <= y
<1>1. \E x \in T : \A y \in T : ~(<<y, x>> \in OpToRel(<, Nat))
  BY NatLessThanWellFounded, WFMin
<1>2. \A x, y \in T : ~(<<y, x>> \in OpToRel(<, Nat)) => x <= y
  BY DEF OpToRel
<1> QED BY <1>1, <1>2

(* If there are captures, one of them is the latest.                       *)
LEMMA LatestIs ==
    ASSUME TypeOK, CapturesIdentified, captures # {}
    PROVE  Latest \in captures /\ \A d \in captures : d.at <= Latest.at
<1> DEFINE T == {requests - c.at : c \in captures}
<1>1. T \subseteq Nat /\ T # {}
  BY DEF TypeOK, CapturesIdentified
<1>2. PICK x \in T : \A y \in T : x <= y
  BY <1>1, Least
<1>3. PICK c \in captures : x = requests - c.at
  BY <1>2
<1>4. \A d \in captures : d.at <= c.at
  <2> SUFFICES ASSUME NEW d \in captures PROVE d.at <= c.at
    OBVIOUS
  <2>1. requests - c.at <= requests - d.at
    BY <1>2, <1>3
  <2>2. requests \in Nat /\ c.at \in Nat /\ d.at \in Nat
    BY <1>3 DEF TypeOK
  <2> QED BY <2>1, <2>2
<1> QED BY <1>3, <1>4 DEF Latest

-----------------------------------------------------------------------------
(* Types.                                                                  *)

PcState == {"off", "plan", "reread", "fetch", "record", "capture", "resee", "extract", "unread",
            "keep", "file", "write", "llm", "mark", "prune", "files", "rows", "end", "ended"}
Answer == [outcome : {"none", "changed", "unchanged", "failed"}, hash : Hash \cup {NoHash},
           full : BOOLEAN, no : BOOLEAN, current : BOOLEAN, cap : CaptureId \cup {NoCapture}]

WorldType ==
    /\ site \in Hash /\ noAi \in BOOLEAN /\ rev \in Rev /\ doomed \subseteq Hash /\ purging \in BOOLEAN
    /\ events \in 0..MaxEvents
FileType == bodies \subseteq Hash /\ reads \subseteq CaptureId /\ damaged \subseteq Hash
ItemType ==
    /\ stored \in Hash \cup {NoHash} /\ mark \in Rev \cup {Retry} /\ llmHash \in Hash \cup {NoHash}
    /\ lastRead \in BOOLEAN /\ refusal \in {"none", "yes", "no"}
CapturesType == captures \subseteq [id : CaptureId, hash : Hash, at : Nat, named : BOOLEAN]
SaidType == cite \in [Value -> CaptureId \cup {NoCapture, Unsaid}] /\ llm \in Hash \cup {NoHash}
PcType == clock \in 0..MaxRuns /\ pc \in [Run -> PcState] /\ knows \in [Run -> Rev]
ViewType == view \in [Run -> [hash : Hash \cup {NoHash}, mark : Rev \cup {Retry}, llm : Hash \cup {NoHash}]]
GotType == got \in [Run -> Answer]
TriesType == attempt \in [Run -> 0..MaxLost] /\ logged \in [Run -> BOOLEAN]
ToldType == told \in [Run -> SUBSET ((Hash \cup {NoHash}) \X BOOLEAN)]
AskedType == asked \in [Run -> {"none", "skipped", "cleared", "answered", "retry"}]
PruningType == pruning \in [Run -> [ids : SUBSET CaptureId, freed : SUBSET Hash]]
QuietType == wavered \in BOOLEAN /\ skipped \in BOOLEAN /\ spoiled \subseteq Run /\ smooth \in 0..2
CountType == lost \in 0..MaxLost /\ requests \in Nat

LEMMA TypeParts ==
    /\ TypeOK <=> /\ WorldType /\ FileType /\ ItemType /\ CapturesType
                  /\ SaidType /\ PcType /\ ViewType /\ GotType
                  /\ TriesType /\ ToldType /\ AskedType /\ PruningType
                  /\ QuietType /\ CountType
    /\ TypeOK' <=> /\ WorldType' /\ FileType' /\ ItemType' /\ CapturesType'
                   /\ SaidType' /\ PcType' /\ ViewType' /\ GotType'
                   /\ TriesType' /\ ToldType' /\ AskedType' /\ PruningType'
                   /\ QuietType' /\ CountType'
BY DEF TypeOK, Answer, PcState,
       WorldType, FileType, ItemType, CapturesType, SaidType, PcType, ViewType, GotType,
       TriesType, ToldType, AskedType, PruningType, QuietType, CountType

LEMMA Unmoved ==
    /\ WorldType /\ UNCHANGED worldVars => WorldType'
    /\ FileType /\ UNCHANGED fileVars => FileType'
    /\ ItemType /\ UNCHANGED itemVars => ItemType'
    /\ CapturesType /\ UNCHANGED captures => CapturesType'
    /\ SaidType /\ UNCHANGED saidVars => SaidType'
    /\ PcType /\ UNCHANGED <<clock, pc, knows>> => PcType'
    /\ ViewType /\ UNCHANGED view => ViewType'
    /\ GotType /\ UNCHANGED got => GotType'
    /\ TriesType /\ UNCHANGED <<attempt, logged>> => TriesType'
    /\ ToldType /\ UNCHANGED told => ToldType'
    /\ AskedType /\ UNCHANGED asked => AskedType'
    /\ PruningType /\ UNCHANGED pruning => PruningType'
    /\ QuietType /\ UNCHANGED <<wavered, skipped, endVars>> => QuietType'
    /\ CountType /\ UNCHANGED <<lost, requests>> => CountType'
BY DEF worldVars, fileVars, itemVars, saidVars, endVars, Answer, PcState, WorldType, FileType,
       ItemType, CapturesType, SaidType, PcType, ViewType, GotType, TriesType, ToldType,
       AskedType, PruningType, QuietType, CountType

LEMMA GoesType ==
    ASSUME PcType, NEW r \in Run, NEW to \in PcState, Goto(r, to), UNCHANGED <<clock, knows>>
    PROVE  PcType'
BY DEF PcType, Goto

LEMMA DoneType ==
    ASSUME PcType, QuietType, CountType, NEW r \in Run, NEW next \in PcState, NEW first \in PcState,
           Done(r, next, first), UNCHANGED <<clock, knows, wavered, skipped, requests>>
    PROVE  PcType' /\ QuietType' /\ CountType'
BY BoundAssumption DEF PcType, QuietType, CountType, Done, Goto, Spoil, endVars

LEMMA InitType == Init => TypeOK
<1> SUFFICES ASSUME Init PROVE TypeOK
  OBVIOUS
<1> USE BoundAssumption, HashAssumption DEF Init
<1>1. WorldType
  <2>1. rev \in Rev /\ events \in 0..MaxEvents
    BY DEF Rev
  <2>2. noAi \in BOOLEAN /\ purging \in BOOLEAN
    OBVIOUS
  <2> QED BY <2>1, <2>2 DEF WorldType
<1>2. FileType /\ ItemType
  BY DEF FileType, ItemType, Retry
<1>3. CapturesType /\ SaidType
  BY DEF CapturesType, SaidType
<1>7. QuietType /\ CountType
  <2>1. wavered \in BOOLEAN /\ skipped \in BOOLEAN
    OBVIOUS
  <2> QED BY <2>1 DEF QuietType, CountType
<1>4. PcType
  BY DEF PcType, PcState, Rev
<1>5. ViewType /\ GotType
  BY DEF ViewType, GotType, NoView, Nothing, Answer
<1>6. TriesType /\ ToldType /\ AskedType /\ PruningType
  BY DEF TriesType, ToldType, AskedType, PruningType, NoPrune
<1> QED BY <1>1, <1>2, <1>3, <1>4, <1>5, <1>6, <1>7, TypeParts

LEMMA StartTypes ==
    ASSUME TypeInv, NEW r \in Run, Start(r) PROVE TypeOK'
<1> USE TypeParts DEF TypeInv
<1>1. PcType'
  BY BoundAssumption DEF PcType, Start, Goto, PcState, Run, WorldType
<1> QED
  BY <1>1, Unmoved DEF Start, worldVars, fileVars, itemVars, saidVars, pageVars, fetchVars, restVars, endVars

LEMMA PlanTypes ==
    ASSUME TypeInv, NEW r \in Run, Plan(r) PROVE TypeOK'
<1> USE TypeParts DEF TypeInv
<1>1. PcType'
  BY DEF PcType, Plan, Goto, PcState
<1>2. ViewType'
  BY DEF ViewType, Plan, ItemType
<1> QED
  BY <1>1, <1>2, Unmoved DEF Plan, worldVars, fileVars, itemVars, saidVars, pageVars, restVars, endVars

LEMMA RereadTypes ==
    ASSUME TypeInv, NEW r \in Run, Reread(r) PROVE TypeOK'
<1> USE TypeParts DEF TypeInv
<1>1. PcType'
  BY DEF PcType, Reread, Goto, PcState
<1>2. GotType'
  <2>1. CASE CanReread(r)
    <3>1. Latest.id \in CaptureId /\ Latest.hash \in Hash
      BY <2>1, LatestIs DEF CanReread, CapturesType
    <3>2. [outcome |-> "unchanged", hash |-> Latest.hash, full |-> FALSE,
           no |-> refusal = "yes", current |-> FALSE, cap |-> Latest.id] \in Answer
      BY <3>1 DEF Answer
    <3> HIDE DEF Answer
    <3> QED BY <2>1, <3>2 DEF GotType, Reread
  <2>2. CASE ~CanReread(r)
    BY <2>2 DEF GotType, Reread
  <2> QED BY <2>1, <2>2
<1> QED
  BY <1>1, <1>2, Unmoved DEF Reread, worldVars, fileVars, itemVars, saidVars, pageVars, restVars, endVars

LEMMA FetchTypes ==
    ASSUME TypeInv, NEW r \in Run, Fetch(r) PROVE TypeOK'
<1> USE TypeParts DEF TypeInv
<1>1. PcType'
  BY DEF PcType, Fetch, Goto, PcState
<1>2. GotType'
  <2>1. \A o \in {"changed", "unchanged"}, f \in BOOLEAN :
          [outcome |-> o, hash |-> site, full |-> f, no |-> noAi,
           current |-> IsCurrent(r, noAi), cap |-> NoCapture] \in Answer
    BY DEF Answer, IsCurrent, WorldType
  <2>2. [Nothing EXCEPT !.outcome = "failed"] \in Answer
    BY DEF Answer, Nothing
  <2>3. \E a \in Answer : got' = [got EXCEPT ![r] = a]
    BY <2>1, <2>2 DEF Fetch
  <2> QED BY <2>3 DEF GotType
<1>3. FileType'
  BY DEF FileType, Fetch, WorldType
<1>4. QuietType'
  BY DEF QuietType, Fetch, Spoil, endVars, pageVars
<1>5. CountType'
  BY DEF CountType, Fetch
<1> QED
  BY <1>1, <1>2, <1>3, <1>4, <1>5, Unmoved DEF Fetch, worldVars, itemVars, saidVars, pageVars, restVars, endVars

LEMMA RecordTypes ==
    ASSUME TypeInv, NEW r \in Run, Record(r) PROVE TypeOK'
<1> USE TypeParts DEF TypeInv
<1>1. PcType'
  BY DEF PcType, Record, Goto, PcState
<1>2. ItemType'
  BY DEF ItemType, Record, GotType, Answer, MarkOf, itemVars, Retry
<1>3. TriesType'
  BY DEF TriesType, Record
<1>4. ToldType'
  BY DEF ToldType, Record, GotType, Answer
<1>5. QuietType'
  BY DEF QuietType, Record, endVars, pageVars
<1> QED
  BY <1>1, <1>2, <1>3, <1>4, <1>5, Unmoved DEF Record, worldVars, fileVars, itemVars, saidVars, restVars, endVars

LEMMA CaptureTypes ==
    ASSUME TypeInv, NEW r \in Run, Capture(r) PROVE TypeOK'
<1> USE TypeParts DEF TypeInv
<1>1. PcType'
  BY DEF PcType, Capture, Goto, PcState
<1>2. GotType'
  <2>1. captures # {} => Latest.id \in CaptureId
    BY LatestIs DEF CapturesType
  <2>2. got[r].outcome \in {"changed", "unchanged"} => <<r, attempt[r], got[r].hash>> \in CaptureId
    BY DEF TriesType, CaptureId, AnswersHaveBodies
  <2>3. UNCHANGED got \/ \E c \in CaptureId : got' = [got EXCEPT ![r].cap = c]
    BY <2>1, <2>2 DEF Capture
  <2> QED BY <2>3 DEF GotType, Answer
<1>3. CapturesType'
  <2>1. got[r].outcome \in {"changed", "unchanged"} =>
          [id |-> <<r, attempt[r], got[r].hash>>, hash |-> got[r].hash, at |-> requests, named |-> FALSE]
            \in [id : CaptureId, hash : Hash, at : Nat, named : BOOLEAN]
    BY DEF TriesType, CaptureId, AnswersHaveBodies, CountType
  <2> QED BY <2>1 DEF CapturesType, Capture
<1> QED
  BY <1>1, <1>2, <1>3, Unmoved DEF Capture, worldVars, fileVars, itemVars, saidVars, restVars, endVars

LEMMA ReseeTypes ==
    ASSUME TypeInv, NEW r \in Run, Resee(r) PROVE TypeOK'
<1> USE TypeParts DEF TypeInv
<1>1. SaidType'
  BY DEF SaidType, Resee, GotType, Answer, Citing
<1>2. PcType' /\ QuietType' /\ CountType'
  BY DoneType DEF Resee, PcState
<1> QED
  BY <1>1, <1>2, Unmoved DEF Resee, worldVars, fileVars, itemVars, fetchVars, restVars

LEMMA PutOffTypes ==
    ASSUME TypeInv, NEW r \in Run, PutOff(r) PROVE TypeOK'
<1> USE TypeParts DEF TypeInv
<1>1. TriesType'
  BY BoundAssumption DEF TriesType, PutOff, StepsCounted, CountType
<1> QED
  BY <1>1, Unmoved DEF PutOff, worldVars, fileVars, itemVars, saidVars, pageVars, restVars, endVars

LEMMA ExtractTypes ==
    ASSUME TypeInv, NEW r \in Run, Extract(r) PROVE TypeOK'
<1> USE TypeParts DEF TypeInv
<1>1. PcType'
  BY DEF PcType, Extract, Goto, PcState
<1>2. ItemType'
  BY DEF ItemType, Extract, ForgetStoredCopy
<1>3. QuietType'
  BY DEF QuietType, Extract, Spoil, endVars, pageVars
<1> QED
  BY <1>1, <1>2, <1>3, Unmoved DEF Extract, worldVars, fileVars, saidVars, fetchVars, restVars, endVars

LEMMA UnreadTypes ==
    ASSUME TypeInv, NEW r \in Run, Unread(r) PROVE TypeOK'
<1> USE TypeParts DEF TypeInv
<1>1. ItemType'
  BY DEF ItemType, Unread
<1>2. PcType' /\ QuietType' /\ CountType'
  BY DoneType DEF Unread, PcState
<1> QED
  BY <1>1, <1>2, Unmoved DEF Unread, worldVars, fileVars, saidVars, fetchVars, restVars

LEMMA KeepTypes ==
    ASSUME TypeInv, NEW r \in Run, Keep(r) PROVE TypeOK'
<1> USE TypeParts DEF TypeInv
<1>1. PcType'
  BY DEF PcType, Keep, Goto, PcState
<1>2. CapturesType'
  BY DEF CapturesType, Keep
<1> QED
  BY <1>1, <1>2, Unmoved DEF Keep, worldVars, fileVars, itemVars, saidVars, fetchVars, restVars, endVars

LEMMA FileTypes ==
    ASSUME TypeInv, NEW r \in Run, File(r) PROVE TypeOK'
<1> USE TypeParts DEF TypeInv
<1>1. PcType'
  BY DEF PcType, File, Goto, PcState
<1>2. FileType'
  BY DEF FileType, File, AnswersHaveBodies
<1> QED
  BY <1>1, <1>2, Unmoved DEF File, worldVars, itemVars, saidVars, pageVars, fetchVars, restVars, endVars

LEMMA WriteTypes ==
    ASSUME TypeInv, NEW r \in Run, Write(r) PROVE TypeOK'
<1> USE TypeParts DEF TypeInv
<1>1. PcType'
  BY DEF PcType, Write, Goto, PcState
<1>2. SaidType'
  BY DEF SaidType, Write, GotType, Answer, Citing
<1> QED
  BY <1>1, <1>2, Unmoved DEF Write, worldVars, fileVars, itemVars, fetchVars, restVars, endVars

LEMMA LlmTypes ==
    ASSUME TypeInv, NEW r \in Run, Llm(r) PROVE TypeOK'
<1> USE TypeParts DEF TypeInv
<1>1. PcType'
  BY DEF PcType, Llm, Goto, PcState
<1>2. SaidType'
  BY DEF SaidType, Llm, GotType, Answer, Refused, Skipped, AskedOrReused
<1>3. AskedType'
  BY DEF AskedType, Llm, Refused, Skipped, AskedOrReused
<1>4. QuietType'
  BY DEF QuietType, Llm, Spoil, Refused, Skipped, AskedOrReused, endVars, pageVars
<1> QED
  BY <1>1, <1>2, <1>3, <1>4, Unmoved DEF Llm, worldVars, fileVars, itemVars, fetchVars, endVars

LEMMA MarkTypes ==
    ASSUME TypeInv, NEW r \in Run, Mark(r) PROVE TypeOK'
<1> USE TypeParts DEF TypeInv
<1>1. ItemType'
  BY DEF ItemType, Mark, GotType, Answer, PcType, AskedType, StepsCounted
<1>2. PcType' /\ QuietType' /\ CountType'
  BY BoundAssumption DEF Mark, Done, Goto, Spoil, endVars, PcState, PcType, QuietType, CountType
<1> QED
  BY <1>1, <1>2, Unmoved DEF Mark, worldVars, fileVars, saidVars, fetchVars, restVars

LEMMA PruneTypes ==
    ASSUME TypeInv, NEW r \in Run, Prune(r) PROVE TypeOK'
<1> USE TypeParts DEF TypeInv
<1>1. PcType'
  BY DEF PcType, Prune, Goto, PcState
<1>2. ViewType'
  BY DEF ViewType, Prune, Forget, NoView
<1>3. GotType'
  BY DEF GotType, Prune, Forget, Nothing, Answer
<1>4. TriesType'
  BY BoundAssumption DEF TriesType, Prune, Forget
<1>5. ToldType'
  BY DEF ToldType, Prune, Forget
<1>6. AskedType'
  BY DEF AskedType, Prune, Forget
<1>7. PruningType'
  <2>1. \A P \in SUBSET captures :
          [ids |-> {c.id : c \in P}, freed |-> Freed(P)] \in [ids : SUBSET CaptureId, freed : SUBSET Hash]
    BY DEF Freed, CapturesType
  <2>2. \A old : Prunable(old) \in SUBSET captures
    BY DEF Prunable
  <2>3. \E P \in SUBSET captures :
          pruning' = [pruning EXCEPT ![r] = [ids |-> {c.id : c \in P}, freed |-> Freed(P)]]
    BY <2>2 DEF Prune
  <2> QED BY <2>1, <2>3 DEF PruningType
<1> QED
  BY <1>1, <1>2, <1>3, <1>4, <1>5, <1>6, <1>7, Unmoved DEF Prune, worldVars, fileVars, itemVars, saidVars, pageVars, endVars

LEMMA PruneFilesTypes ==
    ASSUME TypeInv, NEW r \in Run, PruneFiles(r) PROVE TypeOK'
<1> USE TypeParts DEF TypeInv
<1>1. PcType'
  BY DEF PcType, PruneFiles, Goto, PcState
<1>2. FileType'
  BY DEF FileType, PruneFiles
<1> QED
  BY <1>1, <1>2, Unmoved DEF PruneFiles, worldVars, itemVars, saidVars, pageVars, fetchVars, restVars, endVars

LEMMA PruneRowsTypes ==
    ASSUME TypeInv, NEW r \in Run, PruneRows(r) PROVE TypeOK'
<1> USE TypeParts DEF TypeInv
<1>1. CapturesType'
  BY DEF CapturesType, PruneRows, DeleteCaptures
<1>2. SaidType'
  BY DEF SaidType, PruneRows, DeleteCaptures
<1>3. PcType' /\ QuietType' /\ CountType'
  BY BoundAssumption DEF PruneRows, Done, Goto, Spoil, endVars, PcState, PcType, QuietType, CountType
<1> QED
  BY <1>1, <1>2, <1>3, Unmoved DEF PruneRows, worldVars, fileVars, itemVars, fetchVars, restVars, endVars

LEMMA EndTypes ==
    ASSUME TypeInv, NEW r \in Run, End(r) PROVE TypeOK'
<1> USE TypeParts DEF TypeInv
<1>1. PcType'
  BY BoundAssumption DEF PcType, End, Ended, Goto, PcState, Rev
<1>2. PruningType'
  BY DEF PruningType, End, Ended, NoPrune
<1>3. QuietType'
  BY DEF QuietType, End, Ended, pageVars, endVars
<1> QED
  BY <1>1, <1>2, <1>3, Unmoved DEF End, worldVars, fileVars, itemVars, saidVars, pageVars, fetchVars

LEMMA AgainTypes ==
    ASSUME TypeInv, NEW r \in Run, Again(r) PROVE TypeOK'
<1> USE TypeParts DEF TypeInv
<1>1. PcType'
  BY DEF PcType, Again, Goto, PcState
<1>2. QuietType'
  BY DEF QuietType, Again, Spoil, pageVars, endVars
<1>3. CountType'
  BY BoundAssumption DEF CountType, Again
<1> QED
  BY <1>1, <1>2, <1>3, Unmoved DEF Again, worldVars, fileVars, itemVars, saidVars, pageVars, fetchVars, restVars

LEMMA FailTypes ==
    ASSUME TypeInv, NEW r \in Run, Fail(r) PROVE TypeOK'
<1> USE TypeParts DEF TypeInv
<1>1. PcType'
  BY BoundAssumption DEF PcType, Fail, Ended, Goto, PcState, Rev
<1>2. ViewType'
  BY DEF ViewType, Fail, Forget, NoView
<1>3. GotType'
  BY DEF GotType, Fail, Forget, Nothing, Answer
<1>4. TriesType'
  BY BoundAssumption DEF TriesType, Fail, Forget
<1>5. ToldType'
  BY DEF ToldType, Fail, Forget
<1>6. AskedType'
  BY DEF AskedType, Fail, Forget
<1>7. PruningType'
  BY DEF PruningType, Fail, Ended, NoPrune
<1>8. QuietType'
  BY DEF QuietType, Fail, Ended, pageVars, endVars
<1> QED
  BY <1>1, <1>2, <1>3, <1>4, <1>5, <1>6, <1>7, <1>8, Unmoved DEF Fail, worldVars, fileVars, itemVars, saidVars, pageVars

LEMMA SiteChangesTypes ==
    ASSUME TypeInv, SiteChanges PROVE TypeOK'
<1> USE TypeParts DEF TypeInv
<1>1. WorldType'
  <2>1. events' \in 0..MaxEvents
    BY BoundAssumption DEF WorldType, SiteChanges, Event
  <2>2. noAi' \in BOOLEAN
    BY DEF WorldType, SiteChanges
  <2>3. site' \in Hash
    BY DEF WorldType, SiteChanges
  <2> QED BY <2>1, <2>2, <2>3 DEF WorldType, SiteChanges
<1>2. QuietType'
  BY DEF QuietType, SiteChanges, SpoilAll, Going, pageVars, endVars
<1> QED
  BY <1>1, <1>2, Unmoved DEF SiteChanges, fileVars, itemVars, saidVars, pageVars, fetchVars, restVars, runVars

LEMMA ApplyTypes ==
    ASSUME TypeInv, Apply PROVE TypeOK'
<1> USE TypeParts DEF TypeInv
<1>1. WorldType'
  BY BoundAssumption DEF WorldType, Apply, Rev
<1>2. QuietType'
  BY DEF QuietType, Apply, SpoilAll, Going, pageVars, endVars
<1> QED
  BY <1>1, <1>2, Unmoved DEF Apply, fileVars, itemVars, saidVars, pageVars, fetchVars, restVars, runVars

LEMMA OtherFreesTypes ==
    ASSUME TypeInv, OtherFrees PROVE TypeOK'
<1> USE TypeParts DEF TypeInv
<1>1. WorldType'
  BY BoundAssumption DEF WorldType, OtherFrees, Event
<1> QED
  BY <1>1, Unmoved DEF OtherFrees, fileVars, itemVars, saidVars, pageVars, fetchVars, restVars, endVars, runVars

LEMMA OtherDeletesTypes ==
    ASSUME TypeInv, OtherDeletes PROVE TypeOK'
<1> USE TypeParts DEF TypeInv
<1>1. WorldType'
  BY DEF WorldType, OtherDeletes
<1>2. FileType'
  BY DEF FileType, OtherDeletes, WorldType
<1>3. QuietType'
  BY DEF QuietType, OtherDeletes, SpoilAll, Going, pageVars, endVars
<1> QED
  BY <1>1, <1>2, <1>3, Unmoved DEF OtherDeletes, itemVars, saidVars, pageVars, fetchVars, restVars, runVars

LEMMA PurgeFilesTypes ==
    ASSUME TypeInv, PurgeFiles PROVE TypeOK'
<1> USE TypeParts DEF TypeInv
<1>1. WorldType'
  BY BoundAssumption DEF WorldType, PurgeFiles, Event
<1>2. FileType'
  BY DEF FileType, PurgeFiles, Held, CapturesType, ItemType
<1>3. QuietType'
  BY DEF QuietType, PurgeFiles, SpoilAll, Going, pageVars, endVars
<1> QED
  BY <1>1, <1>2, <1>3, Unmoved DEF PurgeFiles, itemVars, saidVars, pageVars, fetchVars, restVars, runVars

LEMMA PurgeRowsTypes ==
    ASSUME TypeInv, PurgeRows PROVE TypeOK'
<1> USE TypeParts DEF TypeInv
<1>1. WorldType'
  BY DEF WorldType, PurgeRows
<1>2. ItemType'
  BY DEF ItemType, PurgeRows, pageVars, itemVars
<1>3. CapturesType'
  BY DEF CapturesType, PurgeRows, pageVars, DeleteCaptures
<1>4. SaidType'
  BY DEF SaidType, PurgeRows, pageVars, saidVars, DeleteCaptures
<1>5. QuietType'
  BY DEF QuietType, PurgeRows, pageVars, endVars
<1> QED
  BY <1>1, <1>2, <1>3, <1>4, <1>5, Unmoved DEF PurgeRows, fileVars, itemVars, saidVars, pageVars, fetchVars, restVars, endVars, runVars

-----------------------------------------------------------------------------
(* What else TypeInv says.                                                 *)

LEMMA CountedStep ==
    ASSUME TypeInv, Next PROVE StepsCounted'
<1> USE TypeParts DEF TypeInv, StepsCounted, PcType, TriesType, CountType, ToldType, AskedType
<1>1. ASSUME NEW r \in Run, Start(r) PROVE StepsCounted'
  BY <1>1 DEF Start, fetchVars, restVars, Goto, Run
<1>2. ASSUME NEW r \in Run, Plan(r) PROVE StepsCounted'
  BY <1>2 DEF Plan, restVars, Goto
<1>3. ASSUME NEW r \in Run, Reread(r) PROVE StepsCounted'
  BY <1>3 DEF Reread, restVars, Goto
<1>4. ASSUME NEW r \in Run, Fetch(r) PROVE StepsCounted'
  BY <1>4 DEF Fetch, restVars, Goto
<1>5. ASSUME NEW r \in Run, Record(r) PROVE StepsCounted'
  BY <1>5 DEF Record, restVars, Goto
<1>6. ASSUME NEW r \in Run, Capture(r) PROVE StepsCounted'
  BY <1>6 DEF Capture, restVars, Goto
<1>7. ASSUME NEW r \in Run, Resee(r) PROVE StepsCounted'
  BY <1>7 DEF Resee, fetchVars, restVars, Goto, Done
<1>8. ASSUME NEW r \in Run, PutOff(r) PROVE StepsCounted'
  BY <1>8 DEF PutOff, restVars
<1>9. ASSUME NEW r \in Run, Extract(r) PROVE StepsCounted'
  BY <1>9 DEF Extract, fetchVars, restVars, Goto
<1>10. ASSUME NEW r \in Run, Unread(r) PROVE StepsCounted'
  BY <1>10 DEF Unread, fetchVars, restVars, Goto, Done
<1>11. ASSUME NEW r \in Run, Keep(r) PROVE StepsCounted'
  BY <1>11 DEF Keep, fetchVars, restVars, Goto
<1>12. ASSUME NEW r \in Run, File(r) PROVE StepsCounted'
  BY <1>12 DEF File, fetchVars, restVars, Goto
<1>13. ASSUME NEW r \in Run, Write(r) PROVE StepsCounted'
  BY <1>13 DEF Write, fetchVars, restVars, Goto
<1>14. ASSUME NEW r \in Run, Llm(r) PROVE StepsCounted'
  BY <1>14 DEF Llm, Refused, Skipped, AskedOrReused, fetchVars, Goto
<1>15. ASSUME NEW r \in Run, Mark(r) PROVE StepsCounted'
  BY <1>15 DEF Mark, fetchVars, restVars, Goto, Done
<1>16. ASSUME NEW r \in Run, Prune(r) PROVE StepsCounted'
  BY <1>16 DEF Prune, Goto, Forget
<1>17. ASSUME NEW r \in Run, PruneFiles(r) PROVE StepsCounted'
  BY <1>17 DEF PruneFiles, fetchVars, restVars, Goto
<1>18. ASSUME NEW r \in Run, PruneRows(r) PROVE StepsCounted'
  BY <1>18 DEF PruneRows, fetchVars, restVars, Goto, Done
<1>19. ASSUME NEW r \in Run, End(r) PROVE StepsCounted'
  BY <1>19 DEF End, fetchVars, Goto, Ended
<1>20. ASSUME NEW r \in Run, Again(r) PROVE StepsCounted'
  BY <1>20 DEF Again, fetchVars, restVars, Goto
<1>21. ASSUME NEW r \in Run, Fail(r) PROVE StepsCounted'
  BY <1>21 DEF Fail, Going, Goto, Ended, Forget
<1>22. CASE SiteChanges
  BY <1>22 DEF SiteChanges, fetchVars, restVars, runVars
<1>23. CASE Apply
  BY <1>23 DEF Apply, fetchVars, restVars, runVars
<1>24. CASE OtherFrees
  BY <1>24 DEF OtherFrees, fetchVars, restVars, runVars
<1>25. CASE OtherDeletes
  BY <1>25 DEF OtherDeletes, fetchVars, restVars, runVars
<1>26. CASE PurgeFiles
  BY <1>26 DEF PurgeFiles, fetchVars, restVars, runVars
<1>27. CASE PurgeRows
  BY <1>27 DEF PurgeRows, fetchVars, restVars, runVars
<1> QED BY <1>1, <1>2, <1>3, <1>4, <1>5, <1>6, <1>7, <1>8, <1>9, <1>10, <1>11, <1>12, <1>13,
           <1>14, <1>15, <1>16, <1>17, <1>18, <1>19, <1>20, <1>21, <1>22, <1>23, <1>24, <1>25,
           <1>26, <1>27 DEF Next

LEMMA IdentifiedStep ==
    ASSUME TypeInv, Next PROVE CapturesIdentified'
<1> USE TypeParts DEF TypeInv, CapturesIdentified, CapturesType, CountType
<1>1. ASSUME NEW r \in Run, Start(r) PROVE CapturesIdentified'
  BY <1>1 DEF Start, pageVars
<1>2. ASSUME NEW r \in Run, Plan(r) PROVE CapturesIdentified'
  BY <1>2 DEF Plan, pageVars
<1>3. ASSUME NEW r \in Run, Reread(r) PROVE CapturesIdentified'
  BY <1>3 DEF Reread, pageVars
<1>4. ASSUME NEW r \in Run, Fetch(r) PROVE CapturesIdentified'
  BY <1>4 DEF Fetch, pageVars
<1>5. ASSUME NEW r \in Run, Record(r) PROVE CapturesIdentified'
  BY <1>5 DEF Record
<1>6. ASSUME NEW r \in Run, Capture(r) PROVE CapturesIdentified'
  BY <1>6 DEF Capture
<1>7. ASSUME NEW r \in Run, Resee(r) PROVE CapturesIdentified'
  BY <1>7 DEF Resee
<1>8. ASSUME NEW r \in Run, PutOff(r) PROVE CapturesIdentified'
  BY <1>8 DEF PutOff, pageVars
<1>9. ASSUME NEW r \in Run, Extract(r) PROVE CapturesIdentified'
  BY <1>9 DEF Extract
<1>10. ASSUME NEW r \in Run, Unread(r) PROVE CapturesIdentified'
  BY <1>10 DEF Unread
<1>11. ASSUME NEW r \in Run, Keep(r) PROVE CapturesIdentified'
  BY <1>11 DEF Keep
<1>12. ASSUME NEW r \in Run, File(r) PROVE CapturesIdentified'
  BY <1>12 DEF File, pageVars
<1>13. ASSUME NEW r \in Run, Write(r) PROVE CapturesIdentified'
  BY <1>13 DEF Write
<1>14. ASSUME NEW r \in Run, Llm(r) PROVE CapturesIdentified'
  BY <1>14 DEF Llm
<1>15. ASSUME NEW r \in Run, Mark(r) PROVE CapturesIdentified'
  BY <1>15 DEF Mark
<1>16. ASSUME NEW r \in Run, Prune(r) PROVE CapturesIdentified'
  BY <1>16 DEF Prune, pageVars
<1>17. ASSUME NEW r \in Run, PruneFiles(r) PROVE CapturesIdentified'
  BY <1>17 DEF PruneFiles, pageVars
<1>18. ASSUME NEW r \in Run, PruneRows(r) PROVE CapturesIdentified'
  BY <1>18 DEF PruneRows, DeleteCaptures
<1>19. ASSUME NEW r \in Run, End(r) PROVE CapturesIdentified'
  BY <1>19 DEF End, pageVars
<1>20. ASSUME NEW r \in Run, Again(r) PROVE CapturesIdentified'
  BY <1>20 DEF Again, pageVars
<1>21. ASSUME NEW r \in Run, Fail(r) PROVE CapturesIdentified'
  BY <1>21 DEF Fail, pageVars
<1>22. CASE SiteChanges
  BY <1>22 DEF SiteChanges, pageVars, runVars
<1>23. CASE Apply
  BY <1>23 DEF Apply, pageVars, runVars
<1>24. CASE OtherFrees
  BY <1>24 DEF OtherFrees, pageVars, runVars
<1>25. CASE OtherDeletes
  BY <1>25 DEF OtherDeletes, pageVars, runVars
<1>26. CASE PurgeFiles
  BY <1>26 DEF PurgeFiles, pageVars, runVars
<1>27. CASE PurgeRows
  BY <1>27 DEF PurgeRows, pageVars, runVars, DeleteCaptures
<1> QED BY <1>1, <1>2, <1>3, <1>4, <1>5, <1>6, <1>7, <1>8, <1>9, <1>10, <1>11, <1>12, <1>13,
           <1>14, <1>15, <1>16, <1>17, <1>18, <1>19, <1>20, <1>21, <1>22, <1>23, <1>24, <1>25,
           <1>26, <1>27 DEF Next

LEMMA BodiesStep ==
    ASSUME TypeInv, Next PROVE AnswersHaveBodies'
<1> USE TypeParts DEF TypeInv, AnswersHaveBodies, PcType, GotType, Answer, ToldType, CapturesType, WorldType
<1>1. ASSUME NEW r \in Run, Start(r) PROVE AnswersHaveBodies'
  BY <1>1 DEF Start, fetchVars, restVars, Goto
<1>2. ASSUME NEW r \in Run, Plan(r) PROVE AnswersHaveBodies'
  BY <1>2 DEF Plan, restVars, Goto
<1>3. ASSUME NEW r \in Run, Reread(r) PROVE AnswersHaveBodies'
  <2>1. CanReread(r) => Latest.hash \in Hash
    BY LatestIs DEF CanReread
  <2>2. told' = told /\ \A s \in Run : pc'[s] = "file" => pc[s] = "file" /\ got'[s] = got[s]
    BY <1>3 DEF Reread, Goto
  <2>3. \A s \in Run : got'[s].outcome \in {"changed", "unchanged"} => got'[s].hash \in Hash
    BY <1>3, <2>1 DEF Reread
  <2> QED BY <2>2, <2>3
<1>4. ASSUME NEW r \in Run, Fetch(r) PROVE AnswersHaveBodies'
  <2>1. told' = told /\ \A s \in Run : pc'[s] = "file" => pc[s] = "file" /\ got'[s] = got[s]
    BY <1>4 DEF Fetch, Goto
  <2>2. /\ got' = [got EXCEPT ![r] = got'[r]]
        /\ got'[r].outcome \in {"changed", "unchanged"} => got'[r].hash \in Hash
    BY <1>4 DEF Fetch, Nothing
  <2>3. \A s \in Run : got'[s].outcome \in {"changed", "unchanged"} => got'[s].hash \in Hash
    BY <2>2
  <2> QED BY <2>1, <2>3
<1>5. ASSUME NEW r \in Run, Record(r) PROVE AnswersHaveBodies'
  <2>1. \A s \in Run : IsFiniteSet(told'[s])
    BY <1>5, FS_AddElement DEF Record
  <2> QED BY <1>5, <2>1 DEF Record, Goto
<1>6. ASSUME NEW r \in Run, Capture(r) PROVE AnswersHaveBodies'
  BY <1>6 DEF Capture, restVars, Goto
<1>7. ASSUME NEW r \in Run, Resee(r) PROVE AnswersHaveBodies'
  BY <1>7 DEF Resee, fetchVars, restVars, Goto, Done
<1>8. ASSUME NEW r \in Run, PutOff(r) PROVE AnswersHaveBodies'
  BY <1>8 DEF PutOff, restVars
<1>9. ASSUME NEW r \in Run, Extract(r) PROVE AnswersHaveBodies'
  BY <1>9 DEF Extract, fetchVars, restVars, Goto
<1>10. ASSUME NEW r \in Run, Unread(r) PROVE AnswersHaveBodies'
  BY <1>10 DEF Unread, fetchVars, restVars, Goto, Done
<1>11. ASSUME NEW r \in Run, Keep(r) PROVE AnswersHaveBodies'
  BY <1>11 DEF Keep, fetchVars, restVars, Goto
<1>12. ASSUME NEW r \in Run, File(r) PROVE AnswersHaveBodies'
  BY <1>12 DEF File, fetchVars, restVars, Goto
<1>13. ASSUME NEW r \in Run, Write(r) PROVE AnswersHaveBodies'
  BY <1>13 DEF Write, fetchVars, restVars, Goto
<1>14. ASSUME NEW r \in Run, Llm(r) PROVE AnswersHaveBodies'
  BY <1>14 DEF Llm, fetchVars, Goto
<1>15. ASSUME NEW r \in Run, Mark(r) PROVE AnswersHaveBodies'
  BY <1>15 DEF Mark, fetchVars, restVars, Goto, Done
<1>16. ASSUME NEW r \in Run, Prune(r) PROVE AnswersHaveBodies'
  BY <1>16, FS_EmptySet DEF Prune, Goto, Forget, Nothing
<1>17. ASSUME NEW r \in Run, PruneFiles(r) PROVE AnswersHaveBodies'
  BY <1>17 DEF PruneFiles, fetchVars, restVars, Goto
<1>18. ASSUME NEW r \in Run, PruneRows(r) PROVE AnswersHaveBodies'
  BY <1>18 DEF PruneRows, fetchVars, restVars, Goto, Done
<1>19. ASSUME NEW r \in Run, End(r) PROVE AnswersHaveBodies'
  BY <1>19 DEF End, fetchVars, Goto, Ended
<1>20. ASSUME NEW r \in Run, Again(r) PROVE AnswersHaveBodies'
  BY <1>20 DEF Again, fetchVars, restVars, Goto
<1>21. ASSUME NEW r \in Run, Fail(r) PROVE AnswersHaveBodies'
  BY <1>21, FS_EmptySet DEF Fail, Goto, Ended, Forget, Nothing
<1>22. CASE SiteChanges
  BY <1>22 DEF SiteChanges, fetchVars, restVars, runVars
<1>23. CASE Apply
  BY <1>23 DEF Apply, fetchVars, restVars, runVars
<1>24. CASE OtherFrees
  BY <1>24 DEF OtherFrees, fetchVars, restVars, runVars
<1>25. CASE OtherDeletes
  BY <1>25 DEF OtherDeletes, fetchVars, restVars, runVars
<1>26. CASE PurgeFiles
  BY <1>26 DEF PurgeFiles, fetchVars, restVars, runVars
<1>27. CASE PurgeRows
  BY <1>27 DEF PurgeRows, fetchVars, restVars, runVars
<1> QED BY <1>1, <1>2, <1>3, <1>4, <1>5, <1>6, <1>7, <1>8, <1>9, <1>10, <1>11, <1>12, <1>13,
           <1>14, <1>15, <1>16, <1>17, <1>18, <1>19, <1>20, <1>21, <1>22, <1>23, <1>24, <1>25,
           <1>26, <1>27 DEF Next

LEMMA InitInv == Init => TypeInv
<1> SUFFICES ASSUME Init PROVE TypeInv
  OBVIOUS
<1>1. TypeOK
  BY InitType
<1>2. StepsCounted
  BY BoundAssumption DEF Init, StepsCounted
<1>3. CapturesIdentified
  BY DEF Init, CapturesIdentified
<1>4. AnswersHaveBodies
  BY FS_EmptySet DEF Init, AnswersHaveBodies, Nothing
<1> QED BY <1>1, <1>2, <1>3, <1>4 DEF TypeInv

LEMMA TypeStep ==
    ASSUME TypeInv, [Next]_vars PROVE TypeInv'
<1>1. CASE UNCHANGED vars
  BY <1>1 DEF TypeInv, TypeOK, StepsCounted, CapturesIdentified, AnswersHaveBodies, vars, worldVars,
         fileVars, itemVars, saidVars, pageVars, fetchVars, restVars, endVars
<1>2. CASE Next
  <2>1. TypeOK'
    BY <1>2, StartTypes, PlanTypes, RereadTypes, FetchTypes, RecordTypes, CaptureTypes,
       ReseeTypes, PutOffTypes, ExtractTypes, UnreadTypes, KeepTypes, FileTypes, WriteTypes,
       LlmTypes, MarkTypes, PruneTypes, PruneFilesTypes, PruneRowsTypes, EndTypes, AgainTypes,
       FailTypes, SiteChangesTypes, ApplyTypes, OtherFreesTypes, OtherDeletesTypes,
       PurgeFilesTypes, PurgeRowsTypes DEF Next
  <2> QED BY <1>2, <2>1, CountedStep, IdentifiedStep, BodiesStep DEF TypeInv
<1> QED BY <1>1, <1>2

(* In every reachable state the variables keep their types, for any        *)
(* number of runs that go at once, revisions and events.                   *)
THEOREM TypeCorrect == Spec => []TypeOK
<1>1. Init => TypeInv
  BY InitInv
<1>2. TypeInv /\ [Next]_vars => TypeInv'
  BY TypeStep
<1>3. TypeInv => TypeOK
  BY DEF TypeInv
<1> QED BY <1>1, <1>2, <1>3, PTL DEF Spec

-----------------------------------------------------------------------------
(* One run at a time.                                                      *)

(* A run that goes, or starts where none does, is the only one.            *)
LEMMA GoesAlone ==
    ASSUME TypeInv, OneRunInv, NEW r \in Run, Going \subseteq {r}, ~purging, UNCHANGED purging,
           NEW to \in PcState \ {"off", "ended"}, Goto(r, to)
    PROVE  /\ pc'[r] = to /\ r \in Going'
           /\ OneGoes' /\ PurgeIsAlone' /\ BetweenRuns'
           /\ \A s \in Run \ {r} : RunInv(s)'
<1>1. pc \in [Run -> PcState]
  BY TypeParts DEF TypeInv, PcType
<1>2. pc' = [pc EXCEPT ![r] = to]
  BY DEF Goto
<1>3. pc'[r] = to /\ r \in Going' /\ \A s \in Run \ {r} : s \notin Going'
  BY <1>1, <1>2 DEF Going
<1>4. OneGoes' /\ PurgeIsAlone' /\ BetweenRuns'
  BY <1>3 DEF OneGoes, PurgeIsAlone, BetweenRuns, Going
<1>5. \A s \in Run \ {r} : RunInv(s)'
  BY <1>3 DEF RunInv
<1> QED BY <1>3, <1>4, <1>5

LEMMA GoingAlone ==
    ASSUME OneRunInv, NEW r \in Going
    PROVE  Going \subseteq {r} /\ ~purging /\ RunInv(r) /\ r \in Run
BY DEF OneRunInv, PageInv, OneGoes, PurgeIsAlone, Going

(* What no step disturbs whose variables it leaves alone.                  *)
LEMMA PageStays ==
    ASSUME OneRunInv
    PROVE  /\ UNCHANGED <<mark, rev>> => (mark <= rev)'
           /\ UNCHANGED <<cite, stored, mark>> => UncitedIsUnread'
           /\ UNCHANGED <<mark, rev, wavered, skipped, llmHash, llm>> => LlmIsKnown'
           /\ UNCHANGED <<reads, captures>> => ReadsAreNamed'
           /\ UNCHANGED <<cite, captures, bodies, damaged>> => EvidenceKept'
           /\ UNCHANGED <<mark, rev, stored, wavered, cite>> => CurrentMeansRead'
BY DEF OneRunInv, PageInv, UncitedIsUnread, LlmIsKnown, ReadsAreNamed, EvidenceKept, CurrentMeansRead,
       Current

LEMMA OneRunParts ==
    ASSUME NEW r \in Run
    PROVE  /\ OneGoes' /\ PurgeIsAlone' /\ (mark <= rev)' /\ UncitedIsUnread' /\ LlmIsKnown'
           /\ BetweenRuns' /\ ReadsAreNamed' /\ EvidenceKept' /\ CurrentMeansRead'
           /\ RunInv(r)' /\ \A s \in Run \ {r} : RunInv(s)'
           => OneRunInv'
BY DEF OneRunInv, PageInv

LEMMA StartOne ==
    ASSUME TypeInv, OneRunInv, MaxOverlap <= 1, NEW r \in Run, Start(r) PROVE OneRunInv'
<1>1. Going = {}
  <2>1. IsFiniteSet(Going)
    <3>1. IsFiniteSet(Run)
      BY FS_Interval, BoundAssumption DEF Run
    <3> QED BY <3>1, FS_Subset DEF Going
  <2>2. Cardinality(Going) = 0
    BY <2>1, FS_CardinalityType, BoundAssumption DEF Start
  <2> QED BY <2>1, <2>2, FS_EmptySet
<1>2. pc[r] = "off" /\ ~logged[r] /\ told[r] = {}
  BY TypeParts DEF TypeInv, StepsCounted, Start, PcType, Run
<1>3. /\ pc'[r] = "plan" /\ r \in Going' /\ OneGoes' /\ PurgeIsAlone' /\ BetweenRuns'
      /\ \A s \in Run \ {r} : RunInv(s)'
  BY <1>1, GoesAlone DEF Start, worldVars, PcState
<1>4. knows'[r] = rev
  BY TypeParts DEF TypeInv, PcType, Start
<1>5. UNCHANGED <<worldVars, fileVars, pageVars, fetchVars, restVars, endVars>>
  BY DEF Start
<1>6. (r \notin spoiled => QuietRun(r))'
  BY <1>1, <1>2, <1>3, <1>4, <1>5 DEF QuietRun, ReadPc, OneRunInv, PageInv, BetweenRuns, Ready, IsRead,
     worldVars, fileVars, pageVars, itemVars, fetchVars, endVars
<1>7. RunInv(r)'
  <2>1. (mark <= knows[r] /\ knows[r] <= rev)'
    BY <1>4, <1>5, TypeParts DEF OneRunInv, PageInv, worldVars, pageVars, itemVars, TypeInv, WorldType, Rev
  <2>2. (~(Cardinality(told[r]) > 1))'
    BY <1>2, <1>5, FS_EmptySet DEF fetchVars
  <2> QED BY <1>3, <1>6, <2>1, <2>2 DEF RunInv, FilesFollowRows, AnswerKnown, ViewKept, ReadsTheCopy,
             PrunesUnused, FetchPc, ReadPc
<1> QED BY <1>3, <1>5, <1>7, PageStays, OneRunParts DEF worldVars, fileVars, pageVars, itemVars, saidVars

LEMMA PlanOne ==
    ASSUME TypeInv, OneRunInv, NEW r \in Run, Plan(r) PROVE OneRunInv'
<1>1. r \in Going /\ pc[r] = "plan"
  BY DEF Plan, Going
<1>2. ~logged[r] /\ told[r] = {}
  BY <1>1 DEF TypeInv, StepsCounted
<1>3. PICK to \in {"reread", "fetch"} : Goto(r, to)
  BY DEF Plan
<1>4. /\ pc'[r] = to /\ r \in Going' /\ OneGoes' /\ PurgeIsAlone' /\ BetweenRuns'
      /\ \A s \in Run \ {r} : RunInv(s)'
  BY <1>1, <1>3, GoesAlone, GoingAlone DEF Plan, worldVars, PcState
<1>5. UNCHANGED <<worldVars, fileVars, pageVars, knows, logged, told, endVars>>
  BY DEF Plan
<1>6. view'[r] = [hash |-> stored, mark |-> mark, llm |-> llmHash]
  BY TypeParts DEF TypeInv, ViewType, Plan
<1>7. ViewKept(r)'
  <2>1. /\ llmHash' = view'[r].llm /\ mark' = view'[r].mark /\ stored' = view'[r].hash
        /\ told'[r] = {} /\ ~logged'[r]
    BY <1>2, <1>5, <1>6 DEF pageVars, itemVars
  <2>2. (\E v \in Value : cite'[v] = NoCapture) => view'[r].hash = NoHash \/ view'[r].mark = Retry
    BY <1>5, <1>6 DEF OneRunInv, PageInv, UncitedIsUnread, pageVars, saidVars
  <2>3. \A h, n : told'[r] # {<<h, n>>}
    BY <2>1
  <2>4. pc'[r] = "reread" => mark' # knows'[r]
    BY <1>3, <1>4, <1>5, TypeParts DEF Plan, Outdated, Goto, TypeInv, PcType, pageVars, itemVars
  <2> QED BY <2>1, <2>2, <2>3, <2>4 DEF ViewKept
<1>8. (r \notin spoiled => QuietRun(r))'
  BY <1>1, <1>2, <1>4, <1>5, GoingAlone DEF RunInv, QuietRun, ReadPc, Ready, IsRead, worldVars, fileVars,
     pageVars, itemVars, endVars
<1>9. RunInv(r)'
  BY <1>1, <1>4, <1>5, <1>7, <1>8, GoingAlone DEF RunInv, FilesFollowRows, AnswerKnown, ReadsTheCopy,
     PrunesUnused, FetchPc, ReadPc, worldVars, pageVars, itemVars
<1> QED BY <1>4, <1>5, <1>9, PageStays, OneRunParts DEF worldVars, fileVars, pageVars, itemVars, saidVars

LEMMA RereadOne ==
    ASSUME TypeInv, OneRunInv, NEW r \in Run, Reread(r) PROVE OneRunInv'
<1>1. r \in Going /\ pc[r] = "reread" /\ RunInv(r)
  BY GoingAlone DEF Reread, Going
<1>2. ~logged[r] /\ told[r] = {} /\ Cardinality(told[r]) = 0
  BY <1>1, FS_EmptySet DEF TypeInv, StepsCounted
<1>3. /\ stored = view[r].hash /\ mark = view[r].mark /\ mark # knows[r]
      /\ mark <= knows[r] /\ knows[r] <= rev /\ ViewKept(r)
  BY <1>1, <1>2 DEF RunInv, ViewKept
<1>4. UNCHANGED <<worldVars, fileVars, pageVars, knows, view, logged, told, endVars>>
  BY DEF Reread
<1>5. PICK to \in {"extract", "fetch"} : Goto(r, to) /\ (to = "extract" <=> CanReread(r))
  BY DEF Reread
<1>6. /\ pc'[r] = to /\ r \in Going' /\ OneGoes' /\ PurgeIsAlone' /\ BetweenRuns'
      /\ \A s \in Run \ {r} : RunInv(s)'
  BY <1>1, <1>5, GoesAlone, GoingAlone DEF Reread, worldVars, PcState
<1>7. RunInv(r)'
  <2>1. CASE CanReread(r)
    <3>1. /\ Latest.id \in CaptureId /\ Latest.hash \in Hash /\ Latest.id[3] = Latest.hash
          /\ Latest.hash = stored /\ Latest.hash \in bodies /\ refusal # "none"
      BY <1>3, <2>1, LatestIs, TypeParts DEF CanReread, TypeInv, CapturesType, CapturesIdentified
    <3>2. /\ got'[r].hash = Latest.hash /\ got'[r].cap = Latest.id /\ got'[r].outcome = "unchanged"
          /\ refusal = "yes" => got'[r].no
      <4> DEFINE no == refusal = "yes"
      <4>1. got'[r] = [outcome |-> "unchanged", hash |-> Latest.hash, full |-> FALSE, no |-> no,
                       current |-> FALSE, cap |-> Latest.id]
        BY <2>1, TypeParts DEF Reread, TypeInv, GotType
      <4>2. refusal = "yes" => no
        OBVIOUS
      <4> HIDE DEF no
      <4> QED BY <4>1, <4>2
    <3>3. pc'[r] = "extract"
      BY <1>5, <1>6, <2>1
    <3>4. AnswerKnown(r)' /\ ReadsTheCopy(r)'
      BY <1>2, <1>3, <1>4, <3>1, <3>2, <3>3 DEF AnswerKnown, ReadsTheCopy, ReadPc, pageVars, itemVars
    <3>5. (r \notin spoiled => QuietRun(r))'
      <4> SUFFICES ASSUME r \notin spoiled' PROVE QuietRun(r)'
        OBVIOUS
      <4>1. knows'[r] = rev'
        BY <1>1, <1>4 DEF RunInv, QuietRun, worldVars, endVars
      <4>2. /\ got'[r].hash \in bodies' /\ stored' = got'[r].hash
            /\ refusal' = "yes" => got'[r].no
            /\ Cardinality(told'[r]) <= 1
        BY <1>2, <1>4, <3>1, <3>2 DEF fileVars, pageVars, itemVars
      <4> QED BY <3>3, <4>1, <4>2 DEF QuietRun, ReadPc
    <3> QED BY <1>2, <1>3, <1>4, <3>3, <3>4, <3>5 DEF RunInv, FilesFollowRows, ViewKept, PrunesUnused,
               FetchPc, worldVars, pageVars, itemVars
  <2>2. CASE ~CanReread(r)
    <3>1. pc'[r] = "fetch" /\ UNCHANGED got
      BY <1>5, <1>6, <2>2 DEF Reread
    <3>2. ViewKept(r)'
      BY <1>1, <1>3, <1>4, <3>1 DEF ViewKept, FetchPc, pageVars, itemVars, saidVars
    <3>3. (r \notin spoiled => QuietRun(r))'
      BY <1>1, <1>2, <1>4, <3>1 DEF RunInv, QuietRun, ReadPc, Ready, IsRead, worldVars, fileVars, pageVars,
         itemVars, endVars
    <3> QED BY <1>2, <1>3, <1>4, <3>1, <3>2, <3>3 DEF RunInv, FilesFollowRows, AnswerKnown, ReadsTheCopy,
               PrunesUnused, ReadPc, worldVars, pageVars, itemVars
  <2> QED BY <2>1, <2>2
<1> QED BY <1>4, <1>6, <1>7, PageStays, OneRunParts DEF worldVars, fileVars, pageVars, itemVars, saidVars

LEMMA FetchOne ==
    ASSUME TypeInv, OneRunInv, NEW r \in Run, Fetch(r) PROVE OneRunInv'
<1>1. r \in Going /\ pc[r] = "fetch" /\ RunInv(r)
  BY GoingAlone DEF Fetch, Going
<1>2. /\ UNCHANGED <<worldVars, reads, pageVars, knows, view, logged, told>>
      /\ bodies \subseteq bodies' /\ bodies \cup damaged \subseteq bodies' \cup damaged'
  BY DEF Fetch
<1>3. /\ pc'[r] = "record" /\ r \in Going' /\ OneGoes' /\ PurgeIsAlone' /\ BetweenRuns'
      /\ \A s \in Run \ {r} : RunInv(s)'
  BY <1>1, GoesAlone, GoingAlone DEF Fetch, worldVars, PcState
<1>4. EvidenceKept'
  BY <1>2 DEF OneRunInv, PageInv, EvidenceKept, pageVars, saidVars
<1>5. \/ /\ got'[r].outcome = IF site = view[r].hash THEN "unchanged" ELSE "changed"
         /\ got'[r].hash = site /\ got'[r].no = noAi /\ got'[r].current = IsCurrent(r, noAi)
         /\ got'[r].outcome = "changed" => got'[r].full /\ site \in bodies'
         /\ UNCHANGED endVars
      \/ got'[r].outcome = "failed" /\ got'[r].hash = NoHash /\ ~got'[r].full /\ Spoil(r)
  BY TypeParts DEF Fetch, TypeInv, GotType, Nothing
<1>6. AnswerKnown(r)'
  BY <1>2, <1>3, <1>5 DEF AnswerKnown, IsCurrent, ReadPc
<1>7. ViewKept(r)'
  BY <1>1, <1>2, <1>3 DEF RunInv, ViewKept, FetchPc, pageVars, itemVars, saidVars
<1>8. (r \notin spoiled => QuietRun(r))'
  <2> SUFFICES ASSUME r \notin spoiled' PROVE QuietRun(r)'
    OBVIOUS
  <2>1. QuietRun(r) /\ UNCHANGED endVars
    BY <1>1, <1>5 DEF Spoil, RunInv, endVars
  <2>2. Ready'
    BY <1>1, <1>2, <2>1 DEF QuietRun, Ready, IsRead, worldVars, pageVars, itemVars, endVars
  <2> QED BY <1>1, <1>2, <1>3, <1>5, <2>1, <2>2 DEF Spoil, QuietRun, ReadPc, worldVars, endVars
<1>9. RunInv(r)'
  BY <1>1, <1>2, <1>3, <1>6, <1>7, <1>8 DEF RunInv, FilesFollowRows, ReadsTheCopy, PrunesUnused, ReadPc,
     worldVars, pageVars, itemVars
<1> QED BY <1>2, <1>3, <1>4, <1>9, PageStays, OneRunParts DEF worldVars, pageVars, itemVars, saidVars

(* A step that was told one answer.                                        *)
LEMMA OneAnswer ==
    ASSUME NEW S, IsFiniteSet(S), NEW x
    PROVE  /\ Cardinality({x}) <= 1 /\ Cardinality({}) <= 1
           /\ Cardinality(S) <= 1 /\ x \in S => S = {x}
           /\ Cardinality(S) \in Nat
<1>1. Cardinality({x}) <= 1 /\ Cardinality({}) <= 1
  <2>1. Cardinality({x}) = 1
    BY FS_Singleton
  <2>2. Cardinality({}) = 0
    BY FS_EmptySet
  <2> QED BY <2>1, <2>2
<1>2. ASSUME Cardinality(S) <= 1, x \in S PROVE S = {x}
  <2>1. Cardinality(S) \in Nat /\ Cardinality(S) # 0
    BY <1>2, FS_CardinalityType, FS_EmptySet
  <2>2. Cardinality(S \ {x}) = Cardinality(S) - 1 /\ IsFiniteSet(S \ {x})
    BY <1>2, FS_RemoveElement
  <2>3. S \ {x} = {}
    BY <1>2, <2>1, <2>2, FS_EmptySet
  <2> QED BY <1>2, <2>3
<1> QED BY <1>1, <1>2, FS_CardinalityType

LEMMA RecordOne ==
    ASSUME TypeInv, OneRunInv, NEW r \in Run, Record(r) PROVE OneRunInv'
<1> DEFINE ans == <<got[r].hash, got[r].no>>
<1>1. r \in Going /\ pc[r] = "record" /\ RunInv(r)
  BY GoingAlone DEF Record, Going
<1>2. /\ UNCHANGED <<worldVars, fileVars, captures, saidVars, skipped, llmHash, knows, view, got, endVars>>
      /\ told'[r] = told[r] \cup {ans} /\ wavered' = (wavered \/ Cardinality(told'[r]) > 1)
  BY TypeParts DEF Record, TypeInv, ToldType, itemVars
<1>3. /\ pc'[r] = "capture" /\ r \in Going' /\ OneGoes' /\ PurgeIsAlone' /\ BetweenRuns'
      /\ \A s \in Run \ {r} : RunInv(s)'
  BY <1>1, GoesAlone, GoingAlone DEF Record, worldVars, PcState
<1>4. ViewKept(r) /\ AnswerKnown(r)
  BY <1>1 DEF RunInv
<1>5. /\ got[r].outcome \in {"changed", "unchanged", "failed"}
      /\ got[r].outcome = "changed" => got[r].full /\ got[r].hash # view[r].hash /\ got[r].hash \in Hash
      /\ got[r].outcome = "unchanged" => got[r].hash = view[r].hash
      /\ got[r].outcome = "failed" => got[r].hash = NoHash /\ ~got[r].full
  BY <1>1, <1>4 DEF AnswerKnown, TypeInv, AnswersHaveBodies
<1>6. /\ logged[r] => UNCHANGED itemVars
      /\ ~logged[r] => /\ stored' = IF got[r].full THEN got[r].hash ELSE stored
                       /\ mark' = IF got[r].outcome = "changed" THEN Retry ELSE mark
                       /\ got[r].outcome # "failed" => (refusal' = "yes" => got[r].no)
  BY DEF Record, MarkOf
<1>7. mark = Retry \/ (mark = view[r].mark /\ stored = view[r].hash)
  BY <1>1, <1>4 DEF ViewKept, FetchPc
<1>8. mark' = Retry \/ UNCHANGED <<mark, stored>>
  BY <1>5, <1>6, <1>7 DEF itemVars
<1>9. UncitedIsUnread' /\ LlmIsKnown' /\ CurrentMeansRead' /\ (mark <= rev)'
  <2>1. rev \in Nat /\ rev # Retry
    BY TypeParts DEF TypeInv, WorldType, Rev, Retry
  <2>2. UncitedIsUnread'
    BY <1>2, <1>8 DEF OneRunInv, PageInv, UncitedIsUnread, saidVars
  <2>3. (mark <= rev)'
    BY <1>2, <1>8, <2>1 DEF OneRunInv, PageInv, worldVars, Retry
  <2>4. LlmIsKnown' /\ CurrentMeansRead'
    BY <1>2, <1>8, <2>1 DEF OneRunInv, PageInv, LlmIsKnown, CurrentMeansRead, Current, worldVars, saidVars
  <2> QED BY <2>2, <2>3, <2>4
<1>10. ViewKept(r)'
  <2>1. /\ llmHash' = view'[r].llm /\ pc'[r] # "reread" /\ told'[r] # {}
        /\ (\E v \in Value : cite'[v] = NoCapture) => view'[r].hash = NoHash \/ view'[r].mark = Retry
    BY <1>1, <1>2, <1>3, <1>4 DEF ViewKept, FetchPc, saidVars
  <2>2. mark' = Retry \/ (mark' = view'[r].mark /\ stored' = view'[r].hash)
    BY <1>2, <1>7, <1>8
  <2>3. ASSUME NEW h \in Hash \cup {NoHash}, NEW n \in BOOLEAN, told'[r] = {<<h, n>>}
        PROVE  IF h \in {NoHash, view[r].hash} THEN stored' = view[r].hash /\ mark' = view[r].mark
               ELSE stored' = h /\ mark' = Retry
    <3>1. h = got[r].hash /\ n = got[r].no /\ told[r] \in {{}, {<<h, n>>}}
      <4>1. ans = <<h, n>>
        BY <1>2, <2>3
      <4>2. told[r] \subseteq {<<h, n>>}
        BY <1>2, <2>3
      <4> QED BY <4>1, <4>2
    <3>2. CASE told[r] = {}
      BY <1>1, <1>4, <1>5, <1>6, <3>1, <3>2, HashAssumption DEF ViewKept, FetchPc
    <3>3. CASE told[r] = {<<h, n>>}
      <4>1. IF h \in {NoHash, view[r].hash} THEN stored = view[r].hash /\ mark = view[r].mark
            ELSE stored = h /\ mark = Retry
        BY <1>1, <1>4, <3>3 DEF ViewKept, FetchPc
      <4> QED BY <1>5, <1>6, <3>1, <4>1, HashAssumption DEF itemVars
    <3> QED BY <3>1, <3>2, <3>3
  <2> QED BY <1>2, <2>1, <2>2, <2>3 DEF ViewKept
<1>11. AnswerKnown(r)'
  BY <1>1, <1>2, <1>3, <1>4 DEF AnswerKnown, IsCurrent, ReadPc
<1>12. (r \notin spoiled => QuietRun(r))'
  <2> SUFFICES ASSUME r \notin spoiled' PROVE QuietRun(r)'
    OBVIOUS
  <2>1. QuietRun(r)
    BY <1>1, <1>2 DEF RunInv, endVars
  <2>2. ~logged[r] /\ told[r] = {} /\ Ready /\ got[r].outcome # "failed"
    BY <1>1, <2>1 DEF QuietRun
  <2>3. told'[r] = {ans} /\ Cardinality(told'[r]) <= 1
    <3>1. told'[r] = {ans}
      BY <1>2, <2>2
    <3>2. IsFiniteSet({ans})
      BY FS_Singleton
    <3> HIDE DEF ans
    <3> QED BY <3>1, <3>2, OneAnswer
  <2>4. got[r].outcome = "unchanged" => UNCHANGED <<mark, stored>>
    BY <1>1, <1>4, <1>5, <1>6, <2>2 DEF ViewKept, FetchPc
  <2>5. got[r].outcome = "unchanged" => Ready'
    BY <1>2, <2>2, <2>4 DEF Ready, IsRead, worldVars, fileVars, endVars
  <2>6. refusal' = "yes" => got[r].no
    BY <1>6, <2>2
  <2> QED BY <1>1, <1>2, <1>3, <2>1, <2>3, <2>5, <2>6 DEF QuietRun, ReadPc, worldVars, fileVars
<1>13. RunInv(r)'
  <2>1. (mark <= knows[r] /\ knows[r] <= rev)'
    BY <1>1, <1>2, <1>8, TypeParts DEF RunInv, worldVars, TypeInv, PcType, Rev, Retry
  <2>2. (Cardinality(told[r]) > 1 => wavered)'
    BY <1>2
  <2> QED BY <1>3, <1>10, <1>11, <1>12, <2>1, <2>2 DEF RunInv, FilesFollowRows, ReadsTheCopy, PrunesUnused,
             ReadPc
<1> QED BY <1>2, <1>3, <1>9, <1>13, PageStays, OneRunParts DEF fileVars, saidVars

LEMMA CaptureOne ==
    ASSUME TypeInv, OneRunInv, NEW r \in Run, Capture(r) PROVE OneRunInv'
<1>1. r \in Going /\ pc[r] = "capture" /\ RunInv(r)
  BY GoingAlone DEF Capture, Going
<1>2. UNCHANGED <<worldVars, fileVars, itemVars, saidVars, wavered, skipped, knows, view, told, logged, endVars>>
  BY DEF Capture
<1>3. /\ pc'[r] = "resee" /\ r \in Going' /\ OneGoes' /\ PurgeIsAlone' /\ BetweenRuns'
      /\ \A s \in Run \ {r} : RunInv(s)'
  BY <1>1, GoesAlone, GoingAlone DEF Capture, worldVars, PcState
<1>4. captures \subseteq captures'
  BY DEF Capture
<1>5. ReadsAreNamed' /\ EvidenceKept'
  BY <1>2, <1>4 DEF OneRunInv, PageInv, ReadsAreNamed, EvidenceKept, fileVars, saidVars
<1>6. /\ got'[r].outcome = got[r].outcome /\ got'[r].hash = got[r].hash /\ got'[r].full = got[r].full
      /\ got'[r].no = got[r].no /\ got'[r].current = got[r].current
      /\ got[r].outcome # "failed" => got'[r].cap \in CaptureId /\ got'[r].cap[3] = got[r].hash
  <2>1. /\ captures # {} => Latest.id \in CaptureId /\ Latest.id[3] = Latest.hash
        /\ got \in [Run -> Answer]
    BY LatestIs, TypeParts DEF TypeInv, CapturesType, CapturesIdentified, GotType
  <2>2. got[r].outcome # "failed" => <<r, attempt[r], got[r].hash>> \in CaptureId
    BY <1>1, TypeParts DEF TypeInv, TriesType, RunInv, AnswerKnown, AnswersHaveBodies, CaptureId
  <2>3. \/ got[r].outcome = "failed" /\ got' = got
        \/ \E c \in CaptureId : c[3] = got[r].hash /\ got' = [got EXCEPT ![r].cap = c]
    BY <1>1, <2>1, <2>2 DEF Capture, RunInv, AnswerKnown
  <2> QED BY <2>1, <2>3 DEF Answer
<1>7. AnswerKnown(r)'
  BY <1>1, <1>2, <1>3, <1>6 DEF RunInv, AnswerKnown, IsCurrent, ReadPc
<1>8. ViewKept(r)'
  BY <1>1, <1>2, <1>3 DEF RunInv, ViewKept, FetchPc, itemVars, saidVars
<1>9. (r \notin spoiled => QuietRun(r))'
  BY <1>1, <1>2, <1>3, <1>6 DEF RunInv, QuietRun, ReadPc, Ready, IsRead, worldVars, fileVars, itemVars,
     endVars
<1>10. RunInv(r)'
  BY <1>1, <1>2, <1>3, <1>7, <1>8, <1>9 DEF RunInv, FilesFollowRows, ReadsTheCopy, PrunesUnused, ReadPc,
     worldVars, itemVars
<1> QED BY <1>2, <1>3, <1>5, <1>10, PageStays, OneRunParts DEF worldVars, itemVars, saidVars

(* What the fetch step comes to, if its answers agreed.                    *)
LEMMA Agreed ==
    ASSUME TypeInv, OneRunInv, NEW r \in Going, pc[r] = "resee", Cardinality(told[r]) <= 1
    PROVE  /\ got[r].outcome = "changed" => stored = got[r].hash /\ mark = Retry
           /\ got[r].outcome = "unchanged" => stored = got[r].hash /\ mark = view[r].mark
<1>1. RunInv(r) /\ r \in Run
  BY GoingAlone
<1>2. told[r] = {<<got[r].hash, got[r].no>>}
  BY <1>1, OneAnswer DEF RunInv, AnswerKnown, TypeInv, AnswersHaveBodies
<1>3. got[r].hash \in Hash \cup {NoHash} /\ got[r].no \in BOOLEAN
  BY <1>1, TypeParts DEF TypeInv, GotType, Answer
<1>4. IF got[r].hash \in {NoHash, view[r].hash} THEN stored = view[r].hash /\ mark = view[r].mark
      ELSE stored = got[r].hash /\ mark = Retry
  BY <1>1, <1>2, <1>3 DEF RunInv, ViewKept, FetchPc
<1> QED BY <1>1, <1>4, HashAssumption DEF RunInv, AnswerKnown, TypeInv, AnswersHaveBodies

LEMMA ReseeKeeps ==
    ASSUME TypeInv, OneRunInv, NEW r \in Run, Resee(r) PROVE cite' = cite
<1>1. r \in Going /\ pc[r] = "resee" /\ RunInv(r)
  BY GoingAlone DEF Resee, Going
<1>2. CASE got[r].outcome = "unchanged" /\ got[r].current
  <2>1. view[r].hash # NoHash /\ view[r].mark # Retry
    <3>1. knows[r] # Retry
      BY TypeParts DEF TypeInv, PcType, Rev, Retry
    <3> QED BY <1>1, <1>2, <3>1, HashAssumption DEF RunInv, AnswerKnown, IsCurrent, TypeInv, AnswersHaveBodies
  <2>2. \A v \in Value : cite[v] # NoCapture
    BY <1>1, <2>1 DEF RunInv, ViewKept, FetchPc
  <2>3. cite' = [v \in Value |-> cite[v]]
    BY <1>2, <2>2 DEF Resee, Citing
  <2> QED BY <2>3, TypeParts DEF TypeInv, SaidType
<1>3. CASE ~(got[r].outcome = "unchanged" /\ got[r].current)
  BY <1>3 DEF Resee
<1> QED BY <1>2, <1>3

LEMMA ReseeOne ==
    ASSUME TypeInv, OneRunInv, NEW r \in Run, Resee(r) PROVE OneRunInv'
<1>1. r \in Going /\ pc[r] = "resee" /\ RunInv(r) /\ ViewKept(r) /\ AnswerKnown(r)
  BY GoingAlone DEF Resee, Going, RunInv
<1>2. UNCHANGED <<worldVars, fileVars, pageVars, knows, fetchVars, smooth>>
  BY ReseeKeeps DEF Resee, Done, Spoil, endVars, pageVars, saidVars
<1> DEFINE due == got[r].outcome = "changed" \/ (got[r].outcome = "unchanged" /\ ~got[r].current)
<1>3. PICK to \in {"extract", "prune", "fetch"} :
        /\ Goto(r, to)
        /\ to = "extract" => due
        /\ to = "prune" => ~due
        /\ to = "fetch" => r \in spoiled'
        /\ to # "fetch" => UNCHANGED spoiled
  BY DEF Resee, Done, Spoil, endVars
<1>4. /\ pc'[r] = to /\ r \in Going' /\ OneGoes' /\ PurgeIsAlone' /\ BetweenRuns'
      /\ \A s \in Run \ {r} : RunInv(s)'
  BY <1>1, <1>3, GoesAlone, GoingAlone DEF Resee, worldVars, PcState
<1>5. ViewKept(r)'
  BY <1>1, <1>2, <1>3, <1>4 DEF ViewKept, FetchPc, AnswerKnown, pageVars, itemVars, saidVars, fetchVars
<1>6. AnswerKnown(r)'
  BY <1>1, <1>2, <1>3, <1>4 DEF AnswerKnown, ReadPc, fetchVars, TypeInv, AnswersHaveBodies
<1>7. knows[r] # Retry
  BY TypeParts DEF TypeInv, PcType, Rev, Retry
<1>8. ReadsTheCopy(r)'
  BY <1>1, <1>2, <1>3, <1>4, <1>7, Agreed DEF ReadsTheCopy, ReadPc, AnswerKnown, IsCurrent, ViewKept, FetchPc,
     pageVars, itemVars, fetchVars
<1>9. (r \notin spoiled => QuietRun(r))'
  <2> SUFFICES ASSUME r \notin spoiled' PROVE QuietRun(r)'
    OBVIOUS
  <2>1. QuietRun(r) /\ to # "fetch"
    BY <1>1, <1>3 DEF RunInv
  <2>2. /\ knows[r] = rev /\ got[r].outcome \in {"changed", "unchanged"}
        /\ got[r].hash = site /\ got[r].no = noAi /\ got[r].hash \in Hash
        /\ got[r].outcome = "changed" => got[r].hash \in bodies
        /\ got[r].outcome = "unchanged" => Ready
        /\ refusal = "yes" => got[r].no
        /\ Cardinality(told[r]) <= 1
    BY <1>1, <2>1 DEF QuietRun, TypeInv, AnswersHaveBodies
  <2>3. /\ stored = got[r].hash /\ stored # NoHash /\ llmHash = view[r].llm
        /\ got[r].outcome = "unchanged" => mark = view[r].mark /\ got[r].current = IsCurrent(r, noAi)
    BY <1>1, <2>2, Agreed, HashAssumption DEF ViewKept, FetchPc, AnswerKnown
  <2>4. CASE to = "extract"
    <3>1. smooth > 0 => got[r].hash \in bodies
      BY <1>3, <2>2, <2>3, <2>4 DEF IsCurrent, Ready, IsRead
    <3> QED BY <1>2, <1>4, <2>2, <2>3, <2>4, <3>1 DEF QuietRun, ReadPc, worldVars, fileVars, pageVars, itemVars,
               fetchVars
  <2>5. CASE to = "prune"
    <3>1. IsRead /\ Consents
      BY <1>3, <2>2, <2>3, <2>5 DEF IsCurrent, IsRead, Consents, OneRunInv, PageInv, LlmIsKnown
    <3>2. IsRead' /\ Consents'
      BY <1>2, <3>1 DEF IsRead, Consents, worldVars, fileVars, pageVars, itemVars, saidVars
    <3> QED BY <1>2, <1>4, <2>2, <2>5, <3>2 DEF QuietRun, ReadPc, worldVars
  <2> QED BY <1>3, <2>1, <2>4, <2>5
<1>10. RunInv(r)'
  BY <1>1, <1>2, <1>3, <1>4, <1>5, <1>6, <1>8, <1>9 DEF RunInv, FilesFollowRows, PrunesUnused, worldVars,
     pageVars, itemVars, fetchVars
<1> QED BY <1>2, <1>4, <1>10, PageStays, OneRunParts DEF worldVars, fileVars, pageVars, itemVars, saidVars

LEMMA PutOffOne ==
    ASSUME TypeInv, OneRunInv, NEW r \in Run, PutOff(r) PROVE OneRunInv'
<1>1. r \in Going /\ pc[r] = "fetch" /\ logged[r] /\ RunInv(r)
  BY GoingAlone DEF PutOff, Going
<1>2. /\ UNCHANGED <<worldVars, fileVars, pageVars, pc, knows, view, got, told, restVars, endVars>>
      /\ ~logged'[r]
  BY TypeParts DEF PutOff, TypeInv, TriesType
<1>3. Goto(r, "fetch")
  BY <1>1, <1>2, TypeParts DEF Goto, TypeInv, PcType
<1>4. /\ pc'[r] = "fetch" /\ r \in Going' /\ OneGoes' /\ PurgeIsAlone' /\ BetweenRuns'
      /\ \A s \in Run \ {r} : RunInv(s)'
  BY <1>1, <1>2, <1>3, GoesAlone, GoingAlone DEF worldVars, PcState
<1>5. r \in spoiled'
  BY <1>1, <1>2 DEF RunInv, QuietRun, endVars
<1>6. ViewKept(r)'
  BY <1>1, <1>2, <1>4 DEF RunInv, ViewKept, FetchPc, pageVars, itemVars, saidVars
<1>7. RunInv(r)'
  BY <1>1, <1>2, <1>4, <1>5, <1>6 DEF RunInv, FilesFollowRows, AnswerKnown, ReadsTheCopy, PrunesUnused, ReadPc,
     worldVars, pageVars, itemVars
<1> QED BY <1>2, <1>4, <1>7, PageStays, OneRunParts DEF worldVars, fileVars, pageVars, itemVars, saidVars

LEMMA ExtractOne ==
    ASSUME TypeInv, OneRunInv, NEW r \in Run, Extract(r) PROVE OneRunInv'
<1>1. r \in Going /\ pc[r] = "extract" /\ RunInv(r)
  BY GoingAlone DEF Extract, Going
<1>2. UNCHANGED <<worldVars, fileVars, mark, llmHash, lastRead, refusal, captures, saidVars, wavered, skipped, knows,
                  fetchVars, smooth>>
  BY DEF Extract, Spoil, endVars
<1>3. PICK to \in {"unread", "keep"} :
        /\ Goto(r, to)
        /\ \/ got[r].hash \notin bodies /\ stored' = NoHash /\ to = "unread" /\ UNCHANGED spoiled
           \/ got[r].hash \in bodies /\ stored' = stored /\ to = "keep" /\ UNCHANGED spoiled
           \/ stored' = stored /\ to = "unread" /\ r \in spoiled'
  BY DEF Extract, ForgetStoredCopy, Spoil, endVars
<1>4. /\ pc'[r] = to /\ r \in Going' /\ OneGoes' /\ PurgeIsAlone' /\ BetweenRuns'
      /\ \A s \in Run \ {r} : RunInv(s)'
  BY <1>1, <1>3, GoesAlone, GoingAlone DEF Extract, worldVars, PcState
<1>5. UncitedIsUnread' /\ CurrentMeansRead'
  BY <1>2, <1>3 DEF OneRunInv, PageInv, UncitedIsUnread, CurrentMeansRead, Current, worldVars, saidVars
<1>6. AnswerKnown(r)' /\ ReadsTheCopy(r)'
  BY <1>1, <1>2, <1>3, <1>4 DEF RunInv, AnswerKnown, ReadsTheCopy, ReadPc, fileVars, fetchVars
<1>7. (r \notin spoiled => QuietRun(r))'
  <2> SUFFICES ASSUME r \notin spoiled' PROVE QuietRun(r)'
    OBVIOUS
  <2>1. QuietRun(r) /\ UNCHANGED spoiled
    BY <1>1, <1>3 DEF RunInv
  <2>2. smooth \in 0..2
    BY TypeParts DEF TypeInv, QuietType
  <2> QED BY <1>1, <1>2, <1>3, <1>4, <2>1, <2>2 DEF QuietRun, ReadPc, worldVars, fileVars, fetchVars
<1>8. RunInv(r)'
  BY <1>1, <1>2, <1>3, <1>4, <1>6, <1>7 DEF RunInv, FilesFollowRows, ViewKept, PrunesUnused, FetchPc,
     worldVars, fetchVars
<1> QED BY <1>2, <1>4, <1>5, <1>8, PageStays, OneRunParts DEF worldVars, fileVars, saidVars

LEMMA UnreadOne ==
    ASSUME TypeInv, OneRunInv, NEW r \in Run, Unread(r) PROVE OneRunInv'
<1>1. r \in Going /\ pc[r] = "unread" /\ RunInv(r)
  BY GoingAlone DEF Unread, Going
<1>2. /\ UNCHANGED <<worldVars, fileVars, stored, llmHash, lastRead, refusal, captures, saidVars, wavered, skipped, knows,
                     fetchVars, smooth>>
      /\ mark' = Retry
  BY DEF Unread, Done, Spoil, endVars
<1>3. PICK to \in {"prune", "extract"} :
        /\ Goto(r, to)
        /\ to = "prune" => UNCHANGED spoiled
        /\ to = "extract" => r \in spoiled'
  BY DEF Unread, Done, Spoil, endVars
<1>4. /\ pc'[r] = to /\ r \in Going' /\ OneGoes' /\ PurgeIsAlone' /\ BetweenRuns'
      /\ \A s \in Run \ {r} : RunInv(s)'
  BY <1>1, <1>3, GoesAlone, GoingAlone DEF Unread, worldVars, PcState
<1>5. /\ rev \in Nat /\ rev # Retry /\ knows[r] \in Nat /\ knows[r] # Retry
      /\ (mark <= rev)' /\ (mark <= knows[r])'
  BY <1>2, TypeParts DEF TypeInv, WorldType, PcType, Rev, Retry, worldVars
<1>6. UncitedIsUnread' /\ LlmIsKnown' /\ CurrentMeansRead'
  BY <1>2, <1>5 DEF UncitedIsUnread, LlmIsKnown, CurrentMeansRead, worldVars
<1>7. AnswerKnown(r)' /\ ReadsTheCopy(r)'
  BY <1>1, <1>2, <1>3, <1>4, <1>5 DEF RunInv, AnswerKnown, ReadsTheCopy, ReadPc, fetchVars
<1>8. (r \notin spoiled => QuietRun(r))'
  BY <1>1, <1>2, <1>3, <1>4, <1>5 DEF RunInv, QuietRun, ReadPc, Consents, worldVars
<1>9. RunInv(r)'
  BY <1>1, <1>2, <1>3, <1>4, <1>5, <1>7, <1>8 DEF RunInv, FilesFollowRows, ViewKept, PrunesUnused, FetchPc,
     worldVars, fetchVars
<1> QED BY <1>2, <1>4, <1>5, <1>6, <1>9, PageStays, OneRunParts DEF worldVars, fileVars, saidVars

LEMMA KeepOne ==
    ASSUME TypeInv, OneRunInv, NEW r \in Run, Keep(r) PROVE OneRunInv'
<1>1. r \in Going /\ pc[r] = "keep" /\ RunInv(r)
  BY GoingAlone DEF Keep, Going
<1>2. UNCHANGED <<worldVars, fileVars, itemVars, saidVars, wavered, skipped, knows, fetchVars, endVars>>
  BY DEF Keep
<1> DEFINE named(c) == [c EXCEPT !.named = TRUE]
<1>3. \A c \in captures : named(c).id = c.id /\ named(c).hash = c.hash /\ named(c).named
  BY TypeParts DEF TypeInv, CapturesType
<1>4. PICK to \in {"file", "write"} :
         /\ Goto(r, to)
         /\ \/ to = "write" /\ captures' = captures
            \/ to = "file" /\ \E c \in captures : /\ c.id = got[r].cap
                                               /\ captures' = (captures \ {c}) \cup {named(c)}
  BY DEF Keep
<1> HIDE DEF named
<1>5. to = "file" => \E c \in captures' : c.id = got[r].cap /\ c.named
  BY <1>3, <1>4
<1>6. /\ pc'[r] = to /\ r \in Going' /\ OneGoes' /\ PurgeIsAlone' /\ BetweenRuns'
      /\ \A s \in Run \ {r} : RunInv(s)'
  BY <1>1, <1>4, GoesAlone, GoingAlone DEF Keep, worldVars, PcState
<1>7. \A c \in captures : \E d \in captures' : d.id = c.id /\ d.hash = c.hash /\ (c.named => d.named)
  BY <1>3, <1>4
<1>8. ReadsAreNamed' /\ EvidenceKept'
  <2>1. ReadsAreNamed'
    BY <1>2, <1>7 DEF OneRunInv, PageInv, ReadsAreNamed, fileVars
  <2>2. ASSUME NEW v \in Value, cite[v] \in CaptureId
        PROVE  \E d \in captures' : /\ d.id = cite[v] /\ \E k \in Rev : v \in Says[d.hash][k]
                                    /\ d.hash \in bodies \cup damaged
    <3>1. PICK c \in captures : /\ c.id = cite[v] /\ \E k \in Rev : v \in Says[c.hash][k]
                                /\ c.hash \in bodies \cup damaged
      BY <2>2 DEF OneRunInv, PageInv, EvidenceKept
    <3> QED BY <1>7, <3>1
  <2> QED BY <1>2, <2>1, <2>2 DEF EvidenceKept, fileVars, saidVars
<1>9. AnswerKnown(r)' /\ ReadsTheCopy(r)'
  BY <1>1, <1>2, <1>6, <1>4 DEF RunInv, AnswerKnown, ReadsTheCopy, ReadPc, fileVars, itemVars, fetchVars
<1>10. (r \notin spoiled => QuietRun(r))'
  BY <1>1, <1>2, <1>6, <1>4 DEF RunInv, QuietRun, ReadPc, worldVars, fileVars, itemVars, fetchVars, endVars
<1>11. RunInv(r)'
  BY <1>1, <1>2, <1>6, <1>4, <1>5, <1>9, <1>10 DEF RunInv, FilesFollowRows, ViewKept, PrunesUnused, FetchPc,
     worldVars, itemVars, fetchVars
<1> QED BY <1>2, <1>6, <1>8, <1>11, PageStays, OneRunParts DEF worldVars, fileVars, itemVars, saidVars

LEMMA FileOne ==
    ASSUME TypeInv, OneRunInv, NEW r \in Run, File(r) PROVE OneRunInv'
<1>1. r \in Going /\ pc[r] = "file" /\ RunInv(r)
  BY GoingAlone DEF File, Going
<1>2. UNCHANGED <<worldVars, bodies, damaged, pageVars, knows, fetchVars, endVars>>
  BY DEF File
<1>3. /\ pc'[r] = "write" /\ r \in Going' /\ OneGoes' /\ PurgeIsAlone' /\ BetweenRuns'
      /\ \A s \in Run \ {r} : RunInv(s)'
  BY <1>1, GoesAlone, GoingAlone DEF File, worldVars, PcState
<1>4. ReadsAreNamed'
  BY <1>1, <1>2 DEF File, RunInv, FilesFollowRows, OneRunInv, PageInv, ReadsAreNamed, pageVars
<1>5. AnswerKnown(r)' /\ ReadsTheCopy(r)'
  BY <1>1, <1>2, <1>3 DEF RunInv, AnswerKnown, ReadsTheCopy, ReadPc, pageVars, itemVars, fetchVars
<1>6. (r \notin spoiled => QuietRun(r))'
  BY <1>1, <1>2, <1>3 DEF RunInv, QuietRun, ReadPc, worldVars, pageVars, itemVars, fetchVars, endVars
<1>7. RunInv(r)'
  BY <1>1, <1>2, <1>3, <1>5, <1>6 DEF RunInv, FilesFollowRows, ViewKept, PrunesUnused, FetchPc,
     worldVars, pageVars, itemVars, fetchVars
<1> QED BY <1>2, <1>3, <1>4, <1>7, PageStays, OneRunParts DEF worldVars, pageVars, itemVars, saidVars

LEMMA WriteOne ==
    ASSUME TypeInv, OneRunInv, NEW r \in Run, Write(r) PROVE OneRunInv'
<1> DEFINE W == Says[got[r].hash][knows[r]]
           g == got[r]
<1>1. r \in Going /\ pc[r] = "write" /\ RunInv(r)
  BY GoingAlone DEF Write, Going
<1>2. UNCHANGED <<worldVars, fileVars, itemVars, captures, llm, wavered, skipped, knows, fetchVars, endVars>>
  BY DEF Write
<1>3. /\ pc'[r] = "llm" /\ r \in Going' /\ OneGoes' /\ PurgeIsAlone' /\ BetweenRuns'
      /\ \A s \in Run \ {r} : RunInv(s)'
  BY <1>1, GoesAlone, GoingAlone DEF Write, worldVars, PcState
<1>4. /\ g.hash \in Hash /\ g.cap \in CaptureId /\ g.cap[3] = g.hash /\ g.hash \in bodies \cup damaged
      /\ knows[r] \in Rev
  BY <1>1, TypeParts DEF RunInv, AnswerKnown, ReadsTheCopy, ReadPc, TypeInv, PcType
<1>5. W \subseteq Value /\ g.cap # NoCapture /\ g.cap # Unsaid /\ NoCapture # Unsaid
  BY <1>4, SaysAssumption, CaptureAssumption
<1>6. \A v \in Value : cite'[v] = IF v \notin W THEN Unsaid
                                  ELSE IF cite[v] \in {Unsaid, NoCapture} THEN g.cap ELSE cite[v]
  BY DEF Write, Citing
<1>7. (Current = W)' /\ \A v \in Value : cite'[v] # NoCapture
  <2>1. \A v \in Value : (cite'[v] # Unsaid <=> v \in W) /\ cite'[v] # NoCapture
    BY <1>5, <1>6
  <2>2. Current' = W
    BY <1>5, <2>1 DEF Current
  <2> QED BY <1>2, <2>1, <2>2 DEF fetchVars
<1>8. EvidenceKept'
  <2> SUFFICES ASSUME NEW v \in Value, cite'[v] \in CaptureId
               PROVE  \E c \in captures : /\ c.id = cite'[v] /\ \E k \in Rev : v \in Says[c.hash][k]
                                          /\ c.hash \in bodies \cup damaged
    BY <1>2 DEF EvidenceKept, fileVars
  <2>1. v \in W /\ (cite'[v] = g.cap \/ cite'[v] = cite[v])
    BY <1>6, CaptureAssumption
  <2>2. CASE cite'[v] = g.cap
    <3>1. PICK c \in captures : c.id = g.cap
      BY DEF Write
    <3>2. c.hash = g.hash
      BY <1>4, <3>1 DEF TypeInv, CapturesIdentified
    <3> QED BY <1>4, <2>1, <2>2, <3>1, <3>2
  <2>3. CASE cite'[v] = cite[v]
    BY <2>3 DEF OneRunInv, PageInv, EvidenceKept
  <2> QED BY <2>1, <2>2, <2>3
<1>9. CurrentMeansRead'
  <2> SUFFICES ASSUME mark = rev, stored # NoHash, ~wavered PROVE Current' = Says[stored][rev]
    BY <1>2 DEF CurrentMeansRead, worldVars, itemVars
  <2>1. knows[r] = rev
    BY <1>1, <1>4, TypeParts DEF RunInv, TypeInv, WorldType, Rev
  <2>2. Cardinality(told[r]) <= 1
    <3>1. IsFiniteSet(told[r])
      BY DEF TypeInv, AnswersHaveBodies
    <3>2. Cardinality(told[r]) \in Nat
      BY <3>1, FS_CardinalityType
    <3> QED BY <1>1, <3>2 DEF RunInv
  <2>3. stored = g.hash
    BY <1>1, <2>2 DEF RunInv, ReadsTheCopy, ReadPc
  <2> QED BY <1>2, <1>7, <2>1, <2>3 DEF fetchVars
<1>10. AnswerKnown(r)' /\ ReadsTheCopy(r)'
  BY <1>1, <1>2, <1>3, <1>7 DEF RunInv, AnswerKnown, ReadsTheCopy, ReadPc, fileVars, itemVars, fetchVars
<1>11. (r \notin spoiled => QuietRun(r))'
  BY <1>1, <1>2, <1>3 DEF RunInv, QuietRun, ReadPc, worldVars, fileVars, itemVars, fetchVars, endVars
<1>12. RunInv(r)'
  BY <1>1, <1>2, <1>3, <1>10, <1>11 DEF RunInv, FilesFollowRows, ViewKept, PrunesUnused, FetchPc,
     worldVars, itemVars, fetchVars
<1>13. UncitedIsUnread'
  BY <1>7 DEF UncitedIsUnread
<1> QED BY <1>2, <1>3, <1>8, <1>9, <1>12, <1>13, PageStays, OneRunParts DEF worldVars, fileVars, itemVars

LEMMA LlmOne ==
    ASSUME TypeInv, OneRunInv, NEW r \in Run, Llm(r) PROVE OneRunInv'
<1>1. r \in Going /\ pc[r] = "llm" /\ RunInv(r)
  BY GoingAlone DEF Llm, Going
<1>2. UNCHANGED <<worldVars, fileVars, itemVars, captures, cite, wavered, skipped, knows, fetchVars, smooth>>
  BY DEF Llm, Refused, Skipped, AskedOrReused, Spoil, endVars
<1>3. /\ pc'[r] = "mark" /\ r \in Going' /\ OneGoes' /\ PurgeIsAlone' /\ BetweenRuns'
      /\ \A s \in Run \ {r} : RunInv(s)'
  BY <1>1, GoesAlone, GoingAlone DEF Llm, worldVars, PcState
<1>4. \/ got[r].no /\ llm' = NoHash /\ asked'[r] = "cleared" /\ UNCHANGED spoiled
      \/ asked'[r] = "skipped" /\ UNCHANGED <<llm, spoiled>>
      \/ ~got[r].no /\ asked'[r] = "answered" /\ UNCHANGED spoiled
      \/ ~got[r].no /\ asked'[r] = "retry" /\ UNCHANGED llm /\ r \in spoiled'
  BY TypeParts DEF Llm, Refused, Skipped, AskedOrReused, Spoil, endVars, TypeInv, AskedType
<1>5. LlmIsKnown'
  <2> SUFFICES ASSUME mark = rev, ~wavered, ~skipped, llmHash = NoHash PROVE llm' = NoHash
    BY <1>2 DEF LlmIsKnown, worldVars, itemVars
  <2>1. knows[r] = rev
    BY <1>1, TypeParts DEF RunInv, TypeInv, WorldType, PcType, Rev
  <2>2. Cardinality(told[r]) <= 1
    <3>1. IsFiniteSet(told[r])
      BY DEF TypeInv, AnswersHaveBodies
    <3>2. Cardinality(told[r]) \in Nat
      BY <3>1, FS_CardinalityType
    <3> QED BY <1>1, <3>2 DEF RunInv
  <2>3. got[r].no
    BY <1>1, <2>1, <2>2 DEF RunInv, ReadsTheCopy, ReadPc
  <2>4. llm = NoHash
    BY DEF OneRunInv, PageInv, LlmIsKnown
  <2> QED BY <1>4, <2>3, <2>4
<1>6. AnswerKnown(r)' /\ ReadsTheCopy(r)'
  BY <1>1, <1>2, <1>3, <1>4 DEF RunInv, AnswerKnown, ReadsTheCopy, ReadPc, Current, fileVars, itemVars,
     fetchVars
<1>7. (r \notin spoiled => QuietRun(r))'
  BY <1>1, <1>2, <1>3, <1>4 DEF RunInv, QuietRun, ReadPc, worldVars, fileVars, itemVars, fetchVars
<1>8. RunInv(r)'
  BY <1>1, <1>2, <1>3, <1>6, <1>7 DEF RunInv, FilesFollowRows, ViewKept, PrunesUnused, FetchPc,
     worldVars, itemVars, fetchVars
<1> QED BY <1>2, <1>3, <1>5, <1>8, PageStays, OneRunParts DEF worldVars, fileVars, itemVars

LEMMA MarkOne ==
    ASSUME TypeInv, OneRunInv, NEW r \in Run, Mark(r) PROVE OneRunInv'
<1>1. r \in Going /\ pc[r] = "mark" /\ RunInv(r)
  BY GoingAlone DEF Mark, Going
<1>2. UNCHANGED <<worldVars, fileVars, stored, lastRead, refusal, captures, saidVars, knows, fetchVars, asked,
                  smooth>>
  BY DEF Mark, Done, Spoil, restVars, endVars
<1>3. PICK to \in {"prune", "extract"} :
        /\ Goto(r, to)
        /\ to = "prune" => UNCHANGED spoiled
        /\ to = "extract" => r \in spoiled'
  BY DEF Mark, Done, Spoil, endVars
<1>4. /\ pc'[r] = to /\ r \in Going' /\ OneGoes' /\ PurgeIsAlone' /\ BetweenRuns'
      /\ \A s \in Run \ {r} : RunInv(s)'
  BY <1>1, <1>3, GoesAlone, GoingAlone DEF Mark, worldVars, PcState
<1>5. /\ rev \in Nat /\ rev # Retry /\ knows[r] \in Nat /\ knows[r] # Retry
      /\ mark' \in {Retry, knows[r]}
  BY TypeParts DEF Mark, TypeInv, WorldType, PcType, Rev, Retry
<1>6. (mark <= rev)' /\ (mark <= knows[r])' /\ (knows[r] <= rev)'
  BY <1>1, <1>2, <1>5 DEF RunInv, worldVars, Retry
<1>7. /\ Cardinality(told[r]) > 1 => wavered'
      /\ ~wavered' => Cardinality(told[r]) <= 1
  <2>1. IsFiniteSet(told[r])
    BY DEF TypeInv, AnswersHaveBodies
  <2>2. Cardinality(told[r]) \in Nat
    BY <2>1, FS_CardinalityType
  <2>3. Cardinality(told[r]) > 1 <=> wavered'
    BY DEF Mark
  <2> QED BY <2>2, <2>3
<1>8. /\ got[r].hash \in Hash /\ Current = Says[got[r].hash][knows[r]]
      /\ Cardinality(told[r]) <= 1 => stored \in {NoHash, got[r].hash}
      /\ \A v \in Value : cite[v] # NoCapture
      /\ asked[r] = "cleared" => llm = NoHash /\ got[r].no
  BY <1>1 DEF RunInv, ReadsTheCopy, AnswerKnown, ReadPc
<1>9. mark' = knows[r] => \/ asked[r] = "cleared"
                          \/ asked[r] = "answered" /\ llmHash' = got[r].hash
                          \/ asked[r] = "skipped" /\ skipped'
  BY <1>1, <1>5, TypeParts DEF Mark, TypeInv, AskedType, StepsCounted
<1>10. UncitedIsUnread' /\ LlmIsKnown' /\ CurrentMeansRead'
  <2>1. UncitedIsUnread'
    BY <1>2, <1>8 DEF UncitedIsUnread, saidVars
  <2>2. ASSUME mark' = rev PROVE mark' = knows[r] /\ knows[r] = rev
    BY <1>5, <2>2
  <2>3. LlmIsKnown'
    BY <1>2, <1>8, <1>9, <2>2, HashAssumption DEF LlmIsKnown, worldVars, saidVars
  <2>4. CurrentMeansRead'
    BY <1>2, <1>7, <1>8, <2>2 DEF CurrentMeansRead, Current, worldVars, saidVars
  <2> QED BY <2>1, <2>3, <2>4
<1>11. AnswerKnown(r)' /\ ReadsTheCopy(r)'
  BY <1>1, <1>2, <1>3, <1>4, <1>8, <1>9, HashAssumption DEF RunInv, AnswerKnown, ReadsTheCopy, ReadPc, fetchVars
<1>12. (r \notin spoiled => QuietRun(r))'
  <2> SUFFICES ASSUME r \notin spoiled' PROVE QuietRun(r)'
    OBVIOUS
  <2>1. to = "prune" /\ QuietRun(r)
    BY <1>1, <1>3 DEF RunInv
  <2>2. /\ knows[r] = rev /\ asked[r] # "retry" /\ stored = got[r].hash /\ got[r].hash \in bodies
        /\ got[r].no => asked[r] \in {"cleared", "skipped"}
        /\ refusal = "yes" => got[r].no
    BY <1>1, <2>1 DEF QuietRun, ReadPc
  <2>3. mark' = rev
    BY <2>2 DEF Mark
  <2>4. skipped' <=> asked[r] = "skipped"
    BY DEF Mark
  <2>5. IsRead' /\ Consents'
    BY <1>2, <1>8, <2>2, <2>3, <2>4 DEF IsRead, Consents, worldVars, fileVars, saidVars
  <2> QED BY <1>2, <1>4, <2>1, <2>2, <2>5 DEF QuietRun, ReadPc, worldVars
<1>13. RunInv(r)'
  BY <1>2, <1>3, <1>4, <1>6, <1>7, <1>11, <1>12 DEF RunInv, FilesFollowRows, ViewKept, PrunesUnused, FetchPc,
     fetchVars
<1> QED BY <1>2, <1>4, <1>6, <1>10, <1>13, PageStays, OneRunParts DEF fileVars, saidVars


LEMMA PruneOne ==
    ASSUME TypeInv, OneRunInv, NEW r \in Run, Prune(r) PROVE OneRunInv'
<1>1. r \in Going /\ pc[r] = "prune" /\ RunInv(r)
  BY GoingAlone DEF Prune, Going
<1>2. UNCHANGED <<worldVars, fileVars, pageVars, knows, endVars>> /\ told'[r] = {}
  BY TypeParts DEF Prune, Forget, TypeInv, ToldType
<1>3. PICK old \in 0..requests :
        LET P == IF captures = {} THEN {} ELSE Prunable(old) IN
        /\ pruning' = [pruning EXCEPT ![r] = [ids |-> {c.id : c \in P}, freed |-> Freed(P)]]
        /\ Goto(r, IF P = {} THEN "end" ELSE "files")
  BY DEF Prune
<1> DEFINE P == IF captures = {} THEN {} ELSE Prunable(old)
           to == IF P = {} THEN "end" ELSE "files"
<1>4. pruning'[r].ids = {c.id : c \in P} /\ pruning'[r].freed = Freed(P) /\ Goto(r, to)
  BY <1>3, TypeParts DEF TypeInv, PruningType
<1>5. to \in {"end", "files"}
  OBVIOUS
<1>6. P \subseteq captures /\ \A c \in P, v \in Value : cite[v] # c.id
  BY DEF Prunable
<1> HIDE DEF P, to
<1>7. /\ pc'[r] = to /\ r \in Going' /\ OneGoes' /\ PurgeIsAlone' /\ BetweenRuns'
      /\ \A s \in Run \ {r} : RunInv(s)'
  BY <1>1, <1>2, <1>4, <1>5, GoesAlone, GoingAlone DEF worldVars, PcState
<1>8. PrunesUnused(r)'
  <2>1. \A v \in Value : cite'[v] \notin pruning'[r].ids
    BY <1>2, <1>4, <1>6 DEF pageVars, saidVars
  <2>2. \A c \in captures' : c.id \notin pruning'[r].ids => c.hash \notin pruning'[r].freed
    BY <1>2, <1>4 DEF Freed, pageVars
  <2>3. stored' \notin pruning'[r].freed
    BY <1>2, <1>4 DEF Freed, pageVars, itemVars
  <2> QED BY <2>1, <2>2, <2>3 DEF PrunesUnused
<1>9. (r \notin spoiled => QuietRun(r))'
  BY <1>1, <1>2, <1>5, <1>7 DEF RunInv, QuietRun, ReadPc, IsRead, Consents, worldVars, fileVars, pageVars,
     itemVars, saidVars, endVars
<1>10. (~(Cardinality(told[r]) > 1))'
  BY <1>2, FS_EmptySet
<1>11. RunInv(r)'
  BY <1>1, <1>2, <1>5, <1>7, <1>8, <1>9, <1>10 DEF RunInv, FilesFollowRows, AnswerKnown, ViewKept,
     ReadsTheCopy, FetchPc, ReadPc, worldVars, pageVars, itemVars
<1> QED BY <1>2, <1>7, <1>11, PageStays, OneRunParts DEF worldVars, fileVars, pageVars, itemVars, saidVars

LEMMA PruneFilesOne ==
    ASSUME TypeInv, OneRunInv, NEW r \in Run, PruneFiles(r) PROVE OneRunInv'
<1>1. r \in Going /\ pc[r] = "files" /\ RunInv(r)
  BY GoingAlone DEF PruneFiles, Going
<1>2. UNCHANGED <<worldVars, damaged, pageVars, knows, fetchVars, restVars, endVars>>
  BY DEF PruneFiles
<1>3. PICK to \in {"rows", "end"} :
        /\ Goto(r, to)
        /\ \/ to = "rows" /\ bodies' = bodies \ pruning[r].freed /\ reads' = reads \ pruning[r].ids
           \/ to = "end" /\ UNCHANGED <<bodies, reads>>
  BY DEF PruneFiles
<1>4. /\ pc'[r] = to /\ r \in Going' /\ OneGoes' /\ PurgeIsAlone' /\ BetweenRuns'
      /\ \A s \in Run \ {r} : RunInv(s)'
  BY <1>1, <1>3, GoesAlone, GoingAlone DEF PruneFiles, worldVars, PcState
<1>5. /\ \A v \in Value : cite[v] \notin pruning[r].ids
      /\ \A c \in captures : c.id \notin pruning[r].ids => c.hash \notin pruning[r].freed
      /\ stored \notin pruning[r].freed
  BY <1>1 DEF RunInv, PrunesUnused
<1>6. ReadsAreNamed'
  BY <1>2, <1>3 DEF OneRunInv, PageInv, ReadsAreNamed, pageVars
<1>7. EvidenceKept'
  <2> SUFFICES ASSUME NEW v \in Value, cite[v] \in CaptureId
               PROVE  \E c \in captures : /\ c.id = cite[v] /\ \E k \in Rev : v \in Says[c.hash][k]
                                          /\ c.hash \in bodies' \cup damaged
    BY <1>2 DEF EvidenceKept, pageVars, saidVars
  <2>1. PICK c \in captures : /\ c.id = cite[v] /\ \E k \in Rev : v \in Says[c.hash][k]
                              /\ c.hash \in bodies \cup damaged
    BY DEF OneRunInv, PageInv, EvidenceKept
  <2>2. c.hash \notin pruning[r].freed
    BY <1>5, <2>1
  <2> QED BY <1>3, <2>1, <2>2
<1>8. (r \notin spoiled => QuietRun(r))'
  <2>1. stored \in bodies <=> stored \in bodies'
    BY <1>3, <1>5
  <2> QED BY <1>1, <1>2, <1>3, <1>4, <2>1 DEF RunInv, QuietRun, ReadPc, IsRead, Consents, worldVars, pageVars,
             itemVars, saidVars, endVars
<1>9. RunInv(r)'
  <2>1. PrunesUnused(r)'
    BY <1>2, <1>5 DEF PrunesUnused, pageVars, itemVars, saidVars, restVars
  <2>2. FilesFollowRows(r)'
    BY <1>2, <1>3, <1>4 DEF FilesFollowRows, restVars
  <2> QED BY <1>1, <1>2, <1>3, <1>4, <1>8, <2>1, <2>2 DEF RunInv, AnswerKnown, ViewKept, ReadsTheCopy, FetchPc,
             ReadPc, worldVars, pageVars, itemVars, fetchVars
<1> QED BY <1>2, <1>4, <1>6, <1>7, <1>9, PageStays, OneRunParts DEF worldVars, pageVars, itemVars, saidVars

LEMMA PruneRowsOne ==
    ASSUME TypeInv, OneRunInv, NEW r \in Run, PruneRows(r) PROVE OneRunInv'
<1>1. r \in Going /\ pc[r] = "rows" /\ RunInv(r)
  BY GoingAlone DEF PruneRows, Going
<1>2. UNCHANGED <<worldVars, fileVars, itemVars, llm, wavered, skipped, knows, fetchVars, restVars, smooth>>
  BY DEF PruneRows, Done, Spoil, endVars
<1>3. PICK to \in {"end", "prune"} :
        /\ Goto(r, to)
        /\ \/ UNCHANGED spoiled
           \/ r \in spoiled'
  BY DEF PruneRows, Done, Spoil, endVars
<1>4. /\ pc'[r] = to /\ r \in Going' /\ OneGoes' /\ PurgeIsAlone' /\ BetweenRuns'
      /\ \A s \in Run \ {r} : RunInv(s)'
  BY <1>1, <1>3, GoesAlone, GoingAlone DEF PruneRows, worldVars, PcState
<1>5. /\ \A v \in Value : cite[v] \notin pruning[r].ids
      /\ reads \cap pruning[r].ids = {}
  BY <1>1 DEF RunInv, PrunesUnused, FilesFollowRows
<1>6. /\ \A v \in Value : cite'[v] = cite[v]
      /\ captures' \subseteq captures
      /\ \A c \in captures : c.id \notin pruning[r].ids => c \in captures'
  BY <1>5 DEF PruneRows, DeleteCaptures
<1>7. UncitedIsUnread' /\ CurrentMeansRead'
  BY <1>2, <1>6 DEF OneRunInv, PageInv, UncitedIsUnread, CurrentMeansRead, Current, worldVars, itemVars
<1>8. ReadsAreNamed'
  BY <1>2, <1>5, <1>6 DEF OneRunInv, PageInv, ReadsAreNamed, fileVars
<1>9. EvidenceKept'
  <2> SUFFICES ASSUME NEW v \in Value, cite[v] \in CaptureId
               PROVE  \E c \in captures' : /\ c.id = cite[v] /\ \E k \in Rev : v \in Says[c.hash][k]
                                           /\ c.hash \in bodies \cup damaged
    BY <1>2, <1>6 DEF EvidenceKept, fileVars
  <2>1. PICK c \in captures : /\ c.id = cite[v] /\ \E k \in Rev : v \in Says[c.hash][k]
                              /\ c.hash \in bodies \cup damaged
    BY DEF OneRunInv, PageInv, EvidenceKept
  <2> QED BY <1>5, <1>6, <2>1
<1>10. (r \notin spoiled => QuietRun(r))'
  BY <1>1, <1>2, <1>3, <1>4 DEF RunInv, QuietRun, ReadPc, IsRead, Consents, worldVars, fileVars, itemVars
<1>11. RunInv(r)'
  BY <1>1, <1>2, <1>3, <1>4, <1>10 DEF RunInv, FilesFollowRows, AnswerKnown, ViewKept, ReadsTheCopy,
     PrunesUnused, FetchPc, ReadPc, worldVars, itemVars, fetchVars
<1> QED BY <1>2, <1>4, <1>7, <1>8, <1>9, <1>11, PageStays, OneRunParts DEF worldVars, fileVars, itemVars

(* The run has ended, and none goes.                                       *)
LEMMA NoneGoes ==
    ASSUME TypeInv, OneRunInv, NEW r \in Going, Ended(r), UNCHANGED purging
    PROVE  Going' = {} /\ OneGoes' /\ PurgeIsAlone' /\ \A s \in Run : RunInv(s)'
<1>1. Going \subseteq {r} /\ ~purging /\ r \in Run
  BY GoingAlone
<1>2. pc' = [pc EXCEPT ![r] = "ended"] /\ pc \in [Run -> PcState]
  BY TypeParts DEF Ended, Goto, TypeInv, PcType
<1>3. Going' = {}
  BY <1>1, <1>2 DEF Going
<1> QED BY <1>1, <1>3 DEF OneGoes, PurgeIsAlone, RunInv

LEMMA EndOne ==
    ASSUME TypeInv, OneRunInv, NEW r \in Run, End(r) PROVE OneRunInv'
<1>1. r \in Going /\ pc[r] = "end" /\ RunInv(r)
  BY GoingAlone DEF End, Going
<1>2. UNCHANGED <<worldVars, fileVars, pageVars>> /\ Ended(r)
  BY DEF End
<1>3. OneGoes' /\ PurgeIsAlone' /\ \A s \in Run : RunInv(s)'
  BY <1>1, <1>2, NoneGoes DEF worldVars
<1>4. smooth \in 0..2 /\ smooth' = IF r \in spoiled THEN 0 ELSE IF smooth = 2 THEN 2 ELSE smooth + 1
  BY TypeParts DEF End, TypeInv, QuietType
<1>5. (Ready /\ (smooth > 0 => Consents))'
  <2>1. CASE r \in spoiled
    BY <1>4, <2>1 DEF Ready
  <2>2. CASE r \notin spoiled
    <3>1. ((stored = NoHash /\ smooth = 0) \/ IsRead) /\ Consents
      BY <1>1, <2>2 DEF RunInv, QuietRun
    <3>2. (IsRead <=> IsRead') /\ Consents'
      BY <1>2, <3>1 DEF IsRead, Consents, worldVars, fileVars, pageVars, itemVars, saidVars
    <3> QED BY <1>2, <1>4, <2>2, <3>1, <3>2 DEF Ready, pageVars, itemVars
  <2> QED BY <2>1, <2>2
<1> QED BY <1>2, <1>3, <1>5, PageStays, OneRunParts DEF BetweenRuns, worldVars, fileVars, pageVars, itemVars,
           saidVars

LEMMA FailOne ==
    ASSUME TypeInv, OneRunInv, NEW r \in Run, Fail(r) PROVE OneRunInv'
<1>1. UNCHANGED <<worldVars, fileVars, pageVars>> /\ Ended(r) /\ smooth' = 0 /\ r \in Going
  BY DEF Fail
<1>2. OneGoes' /\ PurgeIsAlone' /\ \A s \in Run : RunInv(s)'
  BY <1>1, NoneGoes DEF worldVars
<1>3. BetweenRuns'
  BY <1>1 DEF BetweenRuns, Ready
<1> QED BY <1>1, <1>2, <1>3, PageStays, OneRunParts DEF worldVars, fileVars, pageVars, itemVars, saidVars

LEMMA AgainOne ==
    ASSUME TypeInv, OneRunInv, NEW r \in Run, Again(r) PROVE OneRunInv'
<1>1. UNCHANGED <<worldVars, fileVars, pageVars, knows, fetchVars, restVars>> /\ r \in spoiled'
  BY DEF Again, Spoil
<1>2. PICK to \in {"fetch", "extract", "prune"} :
        /\ Goto(r, to)
        /\ pc[r] \in CASE to = "fetch" -> {"record", "capture", "resee"}
                       [] to = "extract" -> {"unread", "keep", "file", "write", "llm", "mark"}
                       [] to = "prune" -> {"files", "rows"}
  BY DEF Again
<1>3. r \in Going /\ RunInv(r)
  BY <1>2, GoingAlone DEF Going
<1>4. /\ pc'[r] = to /\ r \in Going' /\ OneGoes' /\ PurgeIsAlone' /\ BetweenRuns'
      /\ \A s \in Run \ {r} : RunInv(s)'
  BY <1>1, <1>2, <1>3, GoesAlone, GoingAlone DEF worldVars, PcState
<1>5. FilesFollowRows(r)' /\ PrunesUnused(r)'
  BY <1>4 DEF FilesFollowRows, PrunesUnused
<1>6. AnswerKnown(r)' /\ ReadsTheCopy(r)'
  BY <1>1, <1>2, <1>3, <1>4 DEF RunInv, AnswerKnown, ReadsTheCopy, ReadPc, pageVars, itemVars, fetchVars
<1>7. ViewKept(r)'
  BY <1>1, <1>2, <1>3, <1>4 DEF RunInv, ViewKept, FetchPc, pageVars, itemVars, saidVars, fetchVars
<1>8. RunInv(r)'
  BY <1>1, <1>3, <1>5, <1>6, <1>7 DEF RunInv, worldVars, pageVars, itemVars, fetchVars
<1> QED BY <1>1, <1>4, <1>8, PageStays, OneRunParts DEF worldVars, fileVars, pageVars, itemVars, saidVars

(* What the site, the owner, or another dataset does befalls the run that  *)
(* goes, if one does, and leaves what the run has where it was.            *)
LEMMA Befallen ==
    ASSUME OneRunInv, UNCHANGED <<pageVars, runVars>>, SpoilAll, rev <= rev', rev \in Nat, rev' \in Nat,
           TypeInv, bodies \cup damaged \subseteq bodies' \cup damaged', reads' \subseteq reads
    PROVE  /\ Going' = Going /\ OneGoes' /\ BetweenRuns' /\ UncitedIsUnread' /\ (mark <= rev)'
           /\ ReadsAreNamed' /\ EvidenceKept' /\ smooth' = 0
           /\ \A r \in Run : RunInv(r)'
<1>1. Going' = Going /\ smooth' = 0 /\ OneGoes' /\ BetweenRuns'
  BY DEF Going, runVars, SpoilAll, OneRunInv, PageInv, OneGoes, BetweenRuns, Ready
<1>2. UncitedIsUnread' /\ ReadsAreNamed' /\ EvidenceKept'
  BY DEF OneRunInv, PageInv, UncitedIsUnread, ReadsAreNamed, EvidenceKept, pageVars, itemVars, saidVars
<1>3. mark \in Nat /\ \A r \in Run : knows[r] \in Nat
  BY TypeParts DEF TypeInv, ItemType, PcType, Rev, Retry
<1>4. (mark <= rev)'
  BY <1>3 DEF OneRunInv, PageInv, pageVars, itemVars
<1>5. ASSUME NEW r \in Run PROVE RunInv(r)'
  <2> SUFFICES ASSUME r \in Going PROVE RunInv(r)'
    BY <1>1 DEF RunInv
  <2>1. RunInv(r) /\ r \in spoiled'
    BY DEF OneRunInv, SpoilAll
  <2>2. AnswerKnown(r)' /\ PrunesUnused(r)'
    BY <2>1 DEF RunInv, AnswerKnown, PrunesUnused, IsCurrent, pageVars, itemVars, saidVars, runVars, fetchVars,
       restVars
  <2>3. FilesFollowRows(r)'
    BY <2>1 DEF RunInv, FilesFollowRows, pageVars, runVars, fetchVars, restVars
  <2>4. ViewKept(r)'
    BY <2>1 DEF RunInv, ViewKept, pageVars, itemVars, saidVars, runVars, fetchVars
  <2>5. ReadsTheCopy(r)'
    BY <2>1 DEF RunInv, ReadsTheCopy, Current, pageVars, itemVars, saidVars, runVars, fetchVars, restVars
  <2>6. (/\ mark <= knows[r] /\ knows[r] <= rev
         /\ Cardinality(told[r]) > 1 => wavered)'
    BY <1>3, <2>1 DEF RunInv, pageVars, itemVars, runVars, fetchVars
  <2> QED BY <2>1, <2>2, <2>3, <2>4, <2>5, <2>6 DEF RunInv
<1> QED BY <1>1, <1>2, <1>4, <1>5

LEMMA SiteChangesOne == ASSUME TypeInv, OneRunInv, SiteChanges PROVE OneRunInv'
<1>1. UNCHANGED <<rev, purging, fileVars, pageVars, runVars>> /\ SpoilAll /\ rev \in Nat
  BY TypeParts DEF SiteChanges, TypeInv, WorldType, Rev
<1>2. /\ Going' = Going /\ OneGoes' /\ BetweenRuns' /\ (mark <= rev)' /\ UncitedIsUnread'
      /\ ReadsAreNamed' /\ EvidenceKept' /\ smooth' = 0
      /\ \A r \in Run : RunInv(r)'
  BY <1>1, Befallen DEF fileVars
<1>3. PurgeIsAlone'
  BY <1>1, <1>2 DEF OneRunInv, PageInv, PurgeIsAlone, fileVars
<1> QED BY <1>1, <1>2, <1>3, PageStays DEF OneRunInv, PageInv, pageVars, itemVars, saidVars

LEMMA ApplyOne == ASSUME TypeInv, OneRunInv, Apply PROVE OneRunInv'
<1>1. /\ UNCHANGED <<purging, fileVars, pageVars, runVars>> /\ SpoilAll /\ rev \in Nat /\ rev' = rev + 1
      /\ mark \in Nat /\ mark <= rev
  BY TypeParts DEF Apply, TypeInv, WorldType, ItemType, Rev, Retry, OneRunInv, PageInv
<1>2. /\ Going' = Going /\ OneGoes' /\ BetweenRuns' /\ (mark <= rev)' /\ UncitedIsUnread'
      /\ ReadsAreNamed' /\ EvidenceKept' /\ smooth' = 0
      /\ \A r \in Run : RunInv(r)'
  BY <1>1, Befallen DEF fileVars
<1>3. PurgeIsAlone'
  BY <1>1, <1>2 DEF OneRunInv, PageInv, PurgeIsAlone, fileVars
<1>4. mark' # rev'
  BY <1>1 DEF pageVars, itemVars
<1>5. LlmIsKnown' /\ CurrentMeansRead'
  BY <1>4 DEF LlmIsKnown, CurrentMeansRead
<1> QED BY <1>2, <1>3, <1>5 DEF OneRunInv, PageInv

(* Only the other dataset knows what it found.                             *)
LEMMA OtherFreesOne == ASSUME TypeInv, OneRunInv, OtherFrees PROVE OneRunInv'
<1>1. UNCHANGED <<site, noAi, rev, purging, fileVars, pageVars, runVars, endVars>>
  BY DEF OtherFrees
<1>2. Going' = Going
  BY <1>1 DEF Going, runVars
<1>3. OneGoes' /\ PurgeIsAlone' /\ BetweenRuns'
  BY <1>1, <1>2 DEF OneRunInv, PageInv, OneGoes, PurgeIsAlone, BetweenRuns, Ready, IsRead, Consents, fileVars,
     pageVars, itemVars, saidVars, endVars
<1>4. ASSUME NEW r \in Run PROVE RunInv(r)'
  <2> SUFFICES ASSUME r \in Going PROVE RunInv(r)'
    BY <1>2 DEF RunInv
  <2>1. RunInv(r)
    BY DEF OneRunInv
  <2>2. AnswerKnown(r)' /\ PrunesUnused(r)' /\ FilesFollowRows(r)'
    BY <1>1, <2>1 DEF RunInv, AnswerKnown, PrunesUnused, FilesFollowRows, IsCurrent, fileVars, pageVars, itemVars,
       saidVars, runVars, fetchVars, restVars
  <2>3. ViewKept(r)'
    BY <1>1, <2>1 DEF RunInv, ViewKept, pageVars, itemVars, saidVars, runVars, fetchVars
  <2>4. ReadsTheCopy(r)'
    BY <1>1, <2>1 DEF RunInv, ReadsTheCopy, Current, fileVars, pageVars, itemVars, saidVars, runVars, fetchVars,
       restVars
  <2>5. (r \notin spoiled => QuietRun(r))'
    BY <1>1, <2>1 DEF RunInv, QuietRun, Ready, IsRead, Consents, fileVars, pageVars, itemVars, saidVars, runVars,
       fetchVars, restVars, endVars
  <2> QED BY <1>1, <2>1, <2>2, <2>3, <2>4, <2>5 DEF RunInv, pageVars, itemVars, runVars, fetchVars
<1> QED BY <1>1, <1>3, <1>4, PageStays DEF OneRunInv, PageInv, fileVars, pageVars, itemVars, saidVars

LEMMA OtherDeletesOne == ASSUME TypeInv, OneRunInv, OtherDeletes PROVE OneRunInv'
<1>1. /\ UNCHANGED <<rev, purging, reads, pageVars, runVars>> /\ SpoilAll /\ rev \in Nat
      /\ bodies \cup damaged \subseteq bodies' \cup damaged'
  BY TypeParts DEF OtherDeletes, TypeInv, WorldType, Rev
<1>2. /\ Going' = Going /\ OneGoes' /\ BetweenRuns' /\ (mark <= rev)' /\ UncitedIsUnread'
      /\ ReadsAreNamed' /\ EvidenceKept' /\ smooth' = 0
      /\ \A r \in Run : RunInv(r)'
  BY <1>1, Befallen
<1>3. PurgeIsAlone'
  BY <1>1, <1>2 DEF OneRunInv, PageInv, PurgeIsAlone
<1> QED BY <1>1, <1>2, <1>3, PageStays DEF OneRunInv, PageInv, pageVars, itemVars, saidVars

LEMMA PurgeFilesOne == ASSUME TypeInv, OneRunInv, PurgeFiles PROVE OneRunInv'
<1>1. UNCHANGED <<rev, pageVars, runVars>> /\ SpoilAll /\ rev \in Nat /\ Going = {}
  BY TypeParts DEF PurgeFiles, TypeInv, WorldType, Rev
<1>2. reads' = {}
  BY DEF PurgeFiles, OneRunInv, PageInv, ReadsAreNamed
<1>3. bodies \cup damaged \subseteq bodies' \cup damaged'
  BY TypeParts, HashAssumption DEF PurgeFiles, TypeInv, FileType
<1>4. /\ Going' = Going /\ OneGoes' /\ BetweenRuns' /\ (mark <= rev)' /\ UncitedIsUnread'
      /\ ReadsAreNamed' /\ EvidenceKept' /\ smooth' = 0
      /\ \A r \in Run : RunInv(r)'
  BY <1>1, <1>2, <1>3, Befallen
<1>5. PurgeIsAlone'
  BY <1>1, <1>2, <1>4 DEF PurgeIsAlone
<1> QED BY <1>1, <1>4, <1>5, PageStays DEF OneRunInv, PageInv, pageVars, itemVars, saidVars

LEMMA PurgeRowsOne == ASSUME TypeInv, OneRunInv, PurgeRows PROVE OneRunInv'
<1>1. /\ UNCHANGED <<rev, mark, llmHash, llm, wavered, skipped, fileVars, runVars, endVars>> /\ ~purging'
      /\ Going = {} /\ reads = {} /\ smooth = 0
  BY DEF PurgeRows, OneRunInv, PageInv, PurgeIsAlone, pageVars, itemVars, saidVars
<1>2. Going' = {}
  BY <1>1 DEF Going, runVars
<1>3. OneGoes' /\ PurgeIsAlone' /\ BetweenRuns' /\ ReadsAreNamed' /\ \A r \in Run : RunInv(r)'
  BY <1>1, <1>2 DEF OneGoes, PurgeIsAlone, BetweenRuns, Ready, ReadsAreNamed, RunInv, fileVars, endVars
<1>4. \/ DeleteCaptures({c.id : c \in captures}) /\ stored' = NoHash
      \/ UNCHANGED pageVars
  BY DEF PurgeRows
<1>5. EvidenceKept' /\ UncitedIsUnread' /\ CurrentMeansRead'
  <2>1. CASE UNCHANGED pageVars
    BY <1>1, <2>1, PageStays DEF fileVars, pageVars, itemVars, saidVars
  <2>2. CASE DeleteCaptures({c.id : c \in captures}) /\ stored' = NoHash
    <3>1. \A v \in Value : cite'[v] \notin CaptureId
      <4> SUFFICES ASSUME NEW v \in Value, cite'[v] \in CaptureId PROVE FALSE
        OBVIOUS
      <4>1. cite'[v] = cite[v] /\ cite[v] \notin {c.id : c \in captures}
        BY <2>2, CaptureAssumption DEF DeleteCaptures
      <4> QED BY <4>1 DEF OneRunInv, PageInv, EvidenceKept
    <3> QED BY <2>2, <3>1 DEF EvidenceKept, UncitedIsUnread, CurrentMeansRead
  <2> QED BY <1>4, <2>1, <2>2
<1> QED BY <1>1, <1>3, <1>5, PageStays DEF OneRunInv, PageInv

LEMMA OneRunInit == Init => OneRunInv
<1> SUFFICES ASSUME Init PROVE OneRunInv
  OBVIOUS
<1>1. Going = {} /\ mark = Retry /\ rev = 1 /\ stored = NoHash /\ llm = NoHash /\ reads = {} /\ smooth = 0
      /\ ~purging
  BY DEF Init, Going
<1>2. ReadsAreNamed /\ EvidenceKept
  <2>1. \A v \in Value : cite[v] = Unsaid
    BY DEF Init
  <2> QED BY <1>1, <2>1, CaptureAssumption DEF ReadsAreNamed, EvidenceKept
<1> QED BY <1>1, <1>2 DEF OneRunInv, PageInv, OneGoes, PurgeIsAlone, UncitedIsUnread, LlmIsKnown, BetweenRuns,
           Ready, CurrentMeansRead, RunInv, Retry

LEMMA OneRunUnmoved ==
    ASSUME TypeInv, OneRunInv, UNCHANGED vars PROVE OneRunInv'
<1>1. UNCHANGED <<site, noAi, rev, purging, fileVars, pageVars, runVars, endVars>>
  BY DEF vars, runVars, worldVars
<1>2. Going' = Going
  BY <1>1 DEF Going, runVars
<1>3. OneGoes' /\ PurgeIsAlone' /\ BetweenRuns'
  BY <1>1, <1>2 DEF OneRunInv, PageInv, OneGoes, PurgeIsAlone, BetweenRuns, Ready, IsRead, Consents, fileVars,
     pageVars, itemVars, saidVars, endVars
<1>4. ASSUME NEW r \in Run PROVE RunInv(r)'
  BY <1>1, <1>2 DEF OneRunInv, RunInv, FilesFollowRows, AnswerKnown, ViewKept, ReadsTheCopy, PrunesUnused,
     QuietRun, Ready, IsRead, Consents, IsCurrent, Current, fileVars, pageVars, itemVars, saidVars, runVars,
     fetchVars, restVars, endVars
<1> QED BY <1>1, <1>3, <1>4, PageStays DEF OneRunInv, PageInv, fileVars, pageVars, itemVars, saidVars

LEMMA OneRunStep ==
    ASSUME TypeInv, OneRunInv, MaxOverlap <= 1, [Next]_vars PROVE OneRunInv'
<1>1. CASE UNCHANGED vars
  BY <1>1, OneRunUnmoved
<1>2. CASE Next
  BY <1>2, StartOne, PlanOne, RereadOne, FetchOne, RecordOne, CaptureOne, ReseeOne, PutOffOne, ExtractOne,
     UnreadOne, KeepOne, FileOne, WriteOne, LlmOne, MarkOne, PruneOne, PruneFilesOne, PruneRowsOne, EndOne,
     AgainOne, FailOne, SiteChangesOne, ApplyOne, OtherFreesOne, OtherDeletesOne, PurgeFilesOne, PurgeRowsOne
  DEF Next
<1> QED BY <1>1, <1>2

(* While one run goes at a time, as startRunAlone sees to, the invariant   *)
(* of the page and of the run that goes holds.                             *)
THEOREM OneRun == ASSUME MaxOverlap <= 1 PROVE Spec => [](TypeInv /\ OneRunInv)
<1>1. Init => TypeInv /\ OneRunInv
  BY InitInv, OneRunInit
<1>2. TypeInv /\ OneRunInv /\ [Next]_vars => (TypeInv /\ OneRunInv)'
  BY TypeStep, OneRunStep
<1> QED BY <1>1, <1>2, PTL DEF Spec

(* A page that looks current was read, at any number of runs, revisions,   *)
(* stops and purges: its statements are what its stored copy says under    *)
(* the definition's revision (recordExtraction, recordFetch).              *)
THEOREM ReadIfCurrent == ASSUME MaxOverlap <= 1 PROVE Spec => []CurrentMeansRead
<1>1. OneRunInv => CurrentMeansRead
  BY DEF OneRunInv, PageInv
<1> QED BY <1>1, OneRun, PTL

(* A current statement that cites a capture has its evidence, whatever a   *)
(* cleanup or a purge has deleted (prunableCaptures, freedKeys).           *)
THEOREM Evidence == ASSUME MaxOverlap <= 1 PROVE Spec => []EvidenceKept
<1>1. OneRunInv => EvidenceKept
  BY DEF OneRunInv, PageInv
<1> QED BY <1>1, OneRun, PTL

(* Every file of what was read is named by its capture's row, so cleanups  *)
(* and purges find it (storeRead).                                         *)
THEOREM ReadsNamed == ASSUME MaxOverlap <= 1 PROVE Spec => []ReadsAreNamed
<1>1. OneRunInv => ReadsAreNamed
  BY DEF OneRunInv, PageInv
<1> QED BY <1>1, OneRun, PTL

(* The site's refusal of AI input is kept after every run that nothing     *)
(* befell, but on a page marked when the LLM step was skipped (askLlm's    *)
(* withdrawal, recordExtraction's extractInputHash).                       *)
THEOREM Consent == ASSUME MaxOverlap <= 1 PROVE Spec => []ConsentHeldUnlessSkipped
<1>1. OneRunInv => ConsentHeldUnlessSkipped
  BY DEF OneRunInv, PageInv, BetweenRuns, Consents, ConsentHeldUnlessSkipped
<1> QED BY <1>1, OneRun, PTL

(* Two runs in a row that nothing befalls leave the page read under the    *)
(* definition's revision, whatever befell it before: a lost file, an       *)
(* answer the LLM did not give, a purge that failed partway.               *)
THEOREM Recovers == ASSUME MaxOverlap <= 1 PROVE Spec => []TwoRunsRead
<1>1. OneRunInv => TwoRunsRead
  BY DEF OneRunInv, PageInv, BetweenRuns, Ready, IsRead, TwoRunsRead
<1> QED BY <1>1, OneRun, PTL
=============================================================================
