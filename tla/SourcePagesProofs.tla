------------------------- MODULE SourcePagesProofs -------------------------
(***************************************************************************)
(* Proofs about SourcePages, for every set of pages, every threshold, and  *)
(* any number of runs that overlap in any way.                             *)
(***************************************************************************)
EXTENDS SourcePages, FiniteSetTheorems, TLAPS

USE PageAssumption, AfterAssumption, BoundAssumption

-----------------------------------------------------------------------------
(* The inductive invariant.                                                *)

Newer(p) == {r \in finished : r > listedAt[p]}

(* A page's count of missed reads is covered by reads, and says why it is  *)
(* gone.                                                                   *)
ListingInv ==
    /\ \A r \in finished : r <= readAt
    /\ \A p \in Page :
         /\ missing[p] <= Cardinality(Newer(p))
         /\ status[p] \in {"live", "refused"} => missing[p] < MissingGoneAfter
         /\ goneBy[p] = "none" <=> status[p] # "gone"
         /\ goneBy[p] = "answers" => missing[p] < MissingGoneAfter
         /\ goneBy[p] = "listings" => missing[p] >= MissingGoneAfter

(* Nobody reads a list of pages.                                           *)
KindInv ==
    kind = "pages" => /\ \A p \in Page : missing[p] = 0
                      /\ \A r \in Run : pc[r] \notin {"read", "finish"}

(* The source's count is of runs up to the one it counted last.            *)
StandingInv ==
    /\ StandingIsEarned
    /\ refusedAt = 0 => blockedRuns < RefuseAfterRuns
    /\ \A r \in blockedIn : r <= countedAt

(* A run that has counted only waits to count again.                       *)
CountedInv ==
    /\ \A r \in Run : r <= clock <=> pc[r] # "off"
    /\ \A r \in Run : asking[r] # NoPage => pc[r] \in {"probed", "items"} /\ askedAt[r] >= r
    /\ \A r \in Run : r \in took \/ said[r] # NotSaid =>
         \/ pc[r] = "ended"
         \/ pc[r] = "items" /\ plan[r] = {} /\ asking[r] = NoPage
    /\ \A r \in Run : said[r] # NotSaid => pc[r] = "items" /\ countedAt >= r

(* A run's block is not older than the page's last fetch, or a run that    *)
(* has yet to count answers for it.                                        *)
BlameInv ==
    \A p \in Page :
        outcome[p] = "blocked" =>
            /\ blame[p] # {} => \E w \in blame[p] : w \notin took /\ w <= fetchedAt[p]
            /\ status[p] = "refused" => blame[p] # {}
            /\ streak[p] > 0 => blame[p] # {}

IInv ==
    /\ TypeOK /\ ListingInv /\ KindInv /\ StandingInv /\ CountedInv /\ BlameInv
    /\ CountSaysTheSame

(* The steps of a run that write neither its page nor its source.          *)
QuietStep(r) ==
    Start(r) \/ EndRead(r) \/ Probe(r) \/ Plan(r) \/ PutOff(r) \/ (\E p \in Page : Ask(r, p))

LEMMA Times ==
    /\ 0 \in Time /\ Run \subseteq Time
    /\ \A t \in Time : t \in Nat
    /\ \A r \in Run : r \in Nat /\ r > 0
  BY DEF Run, Time

LEMMA RunsAreFinite ==
    ASSUME NEW S, S \subseteq Run PROVE IsFiniteSet(S) /\ Cardinality(S) \in Nat
  <1>1. IsFiniteSet(Run)
    BY FS_Interval DEF Run
  <1>2. IsFiniteSet(S)
    BY <1>1, FS_Subset
  <1> QED BY <1>2, FS_CardinalityType

LEMMA AddRun ==
    ASSUME NEW S, S \subseteq Run, NEW r \in Run, r \notin S
    PROVE  Cardinality(S \cup {r}) = Cardinality(S) + 1
  BY RunsAreFinite, FS_AddElement

LEMMA FewerRuns ==
    ASSUME NEW S, NEW T, S \subseteq T, T \subseteq Run
    PROVE  Cardinality(S) <= Cardinality(T)
  BY RunsAreFinite, FS_Subset

-----------------------------------------------------------------------------
(* The types, by what is written together.                                 *)

WorldType == clock \in Time /\ kind \in {"sitemap", "pages"} /\ owned \in 0..MaxEvents

PageType ==
    /\ status \in [Page -> {"none", "live", "gone", "refused", "excluded"}]
    /\ outcome \in [Page -> {"other", "gone", "blocked"}]
    /\ streak \in [Page -> Nat]
    /\ fetchedAt \in [Page -> Time] /\ listedAt \in [Page -> Time]
    /\ missing \in [Page -> 0..MissingGoneAfter]
    /\ goneBy \in [Page -> {"none", "answers", "listings"}]
    /\ blame \in [Page -> SUBSET Run]

StandingType ==
    /\ blockedRuns \in 0..RefuseAfterRuns /\ refusedAt \in Time /\ countedAt \in Time
    /\ lastProbe \in {"none", "blocked", "no_answer"}
    /\ blockedIn \subseteq Run /\ took \subseteq Run

ListedType == removed \in BOOLEAN /\ readAt \in Time /\ finished \subseteq Run

PcType ==
    pc \in [Run -> {"off", "read", "finish", "probe", "probed", "back", "plan", "items", "ended"}]

ReadType ==
    /\ probing \in [Run -> BOOLEAN]
    /\ probe \in [Run -> {"unasked", "through", "refused", "none"}]
    /\ heard \in [Run -> {"unasked", "through", "refused", "none"}]
    /\ read \in [Run -> {"empty", "listed", "partial"}]

AskType ==
    /\ plan \in [Run -> SUBSET Page]
    /\ asking \in [Run -> Page \cup {NoPage}] /\ askedAt \in [Run -> Time]
    /\ logged \subseteq Run \X Page

SaidType == said \in [Run -> [blocked : Int, refused : BOOLEAN]]

LostType == lost \in 0..MaxEvents

LEMMA TypeParts ==
    /\ TypeOK <=> /\ WorldType /\ PageType /\ StandingType /\ ListedType /\ PcType
                  /\ ReadType /\ AskType /\ SaidType /\ LostType
    /\ TypeOK' <=> /\ WorldType' /\ PageType' /\ StandingType' /\ ListedType' /\ PcType'
                   /\ ReadType' /\ AskType' /\ SaidType' /\ LostType'
  BY DEF TypeOK, WorldType, PageType, StandingType, ListedType, PcType, ReadType, AskType,
         SaidType, LostType

LEMMA Unmoved ==
    /\ WorldType /\ UNCHANGED worldVars => WorldType'
    /\ PageType /\ UNCHANGED pageVars => PageType'
    /\ StandingType /\ UNCHANGED <<standingVars, countedAt, took>> => StandingType'
    /\ ListedType /\ UNCHANGED <<removed, readAt, finished>> => ListedType'
    /\ PcType /\ UNCHANGED pc => PcType'
    /\ ReadType /\ UNCHANGED <<probing, readVars>> => ReadType'
    /\ AskType /\ UNCHANGED askVars => AskType'
    /\ SaidType /\ UNCHANGED said => SaidType'
    /\ LostType /\ UNCHANGED lost => LostType'
  <1>1. WorldType /\ UNCHANGED worldVars => WorldType'
    BY DEF WorldType, worldVars
  <1>2. PageType /\ UNCHANGED pageVars => PageType'
    BY DEF PageType, pageVars
  <1>3. StandingType /\ UNCHANGED <<standingVars, countedAt, took>> => StandingType'
    BY DEF StandingType, standingVars
  <1>4. ListedType /\ UNCHANGED <<removed, readAt, finished>> => ListedType'
    BY DEF ListedType
  <1>5. ReadType /\ UNCHANGED <<probing, readVars>> => ReadType'
    BY DEF ReadType, readVars
  <1>6. AskType /\ UNCHANGED askVars => AskType'
    BY DEF AskType, askVars
  <1>7. PcType /\ UNCHANGED pc => PcType'
    BY DEF PcType
  <1>8. (SaidType /\ UNCHANGED said => SaidType') /\ (LostType /\ UNCHANGED lost => LostType')
    BY DEF SaidType, LostType
  <1> QED BY <1>1, <1>2, <1>3, <1>4, <1>5, <1>6, <1>7, <1>8

LEMMA SourceUnmoved ==
    ASSUME StandingType, ListedType, UNCHANGED sourceVars PROVE StandingType' /\ ListedType'
  BY Unmoved DEF sourceVars

LEMMA LostOrKept == ASSUME LostType, WorldType, Lost \/ Kept PROVE LostType'
  BY DEF LostType, WorldType, Lost, Kept

LEMMA Forgets == NotSaid \in [blocked : Int, refused : BOOLEAN]
  BY DEF NotSaid

LEMMA UnsaidType == Unsaid => SaidType'
  BY Forgets DEF Unsaid, SaidType

-----------------------------------------------------------------------------
(* The initial states.                                                     *)

LEMMA InitType == Init => TypeOK
  <1> SUFFICES ASSUME Init PROVE TypeOK
    OBVIOUS
  <1>1. WorldType /\ LostType
    BY Times DEF Init, WorldType, LostType
  <1>2. PageType
    <2>1. /\ status \in [Page -> {"none", "live", "gone", "refused", "excluded"}]
          /\ outcome \in [Page -> {"other", "gone", "blocked"}]
      BY DEF Init
    <2>2. streak \in [Page -> Nat] /\ missing \in [Page -> 0..MissingGoneAfter]
      BY DEF Init
    <2>3. fetchedAt \in [Page -> Time] /\ listedAt \in [Page -> Time]
      BY Times DEF Init
    <2>4. goneBy \in [Page -> {"none", "answers", "listings"}] /\ blame \in [Page -> SUBSET Run]
      BY DEF Init
    <2> QED BY <2>1, <2>2, <2>3, <2>4 DEF PageType
  <1>3. StandingType /\ ListedType
    <2>1. /\ blockedRuns = 0 /\ refusedAt = 0 /\ countedAt = 0 /\ lastProbe = "none"
          /\ blockedIn = {} /\ took = {} /\ removed = FALSE /\ readAt = 0 /\ finished = {}
      BY DEF Init
    <2>2. StandingType
      BY <2>1, Times DEF StandingType
    <2>3. ListedType
      BY <2>1, Times DEF ListedType
    <2> QED BY <2>2, <2>3
  <1>4. PcType /\ ReadType
    BY DEF Init, PcType, ReadType
  <1>5. AskType
    BY Times DEF Init, AskType
  <1>6. SaidType
    BY Forgets DEF Init, SaidType
  <1> QED BY <1>1, <1>2, <1>3, <1>4, <1>5, <1>6, TypeParts

LEMMA Initially == Init => IInv
  <1> SUFFICES ASSUME Init PROVE IInv
    OBVIOUS
  <1>2. Cardinality({}) = 0
    BY FS_EmptySet
  <1>3. \A p \in Page : Newer(p) = {}
    BY DEF Init, Newer
  <1>4. ListingInv /\ KindInv
    <2>1. ASSUME NEW p \in Page
          PROVE  /\ missing[p] = 0 /\ goneBy[p] = "none" /\ status[p] \in {"live", "none"}
                 /\ Cardinality(Newer(p)) = 0
      BY <1>2, <1>3 DEF Init
    <2>2. finished = {} /\ \A r \in Run : pc[r] = "off"
      BY DEF Init
    <2> QED BY <2>1, <2>2 DEF ListingInv, KindInv
  <1>5. StandingInv
    BY <1>2 DEF Init, StandingInv, StandingIsEarned
  <1>6. CountedInv /\ BlameInv /\ CountSaysTheSame
    BY Times DEF Init, CountedInv, BlameInv, CountSaysTheSame
  <1> QED BY InitType, <1>4, <1>5, <1>6 DEF IInv

-----------------------------------------------------------------------------
(* Type correctness of a step.                                             *)

LEMMA StartType == ASSUME TypeOK, NEW r \in Run, Start(r) PROVE TypeOK'
  <1> USE TypeParts
  <1>1. WorldType'
    BY Times DEF WorldType, Start
  <1>2. PcType'
    BY DEF PcType, Start
  <1>3. ReadType'
    BY DEF ReadType, Start, readVars
  <1> QED BY <1>1, <1>2, <1>3, Unmoved, SourceUnmoved DEF Start

LEMMA ReadsType == ASSUME TypeOK, NEW r \in Run, EndRead(r) \/ Plan(r) PROVE TypeOK'
  <1> USE TypeParts
  <1>1. CASE EndRead(r)
    <2>1. PcType'
      BY <1>1 DEF PcType, EndRead, AfterReads
    <2> QED BY <1>1, <2>1, Unmoved, SourceUnmoved DEF EndRead
  <1>2. CASE Plan(r)
    <2>1. PcType'
      BY <1>2 DEF PcType, Plan
    <2>2. AskType'
      BY <1>2 DEF AskType, Plan, Live
    <2> QED BY <1>2, <2>1, <2>2, Unmoved, SourceUnmoved DEF Plan
  <1> QED BY <1>1, <1>2

LEMMA AskingType ==
    ASSUME TypeOK, NEW r \in Run, Probe(r) \/ PutOff(r) \/ \E p \in Page : Ask(r, p) PROVE TypeOK'
  <1> USE TypeParts
  <1>1. CASE Probe(r)
    <2>1. PcType'
      BY <1>1 DEF PcType, Probe
    <2>2. AskType'
      BY <1>1 DEF AskType, WorldType, Probe, Live
    <2> QED BY <1>1, <2>1, <2>2, Unmoved, SourceUnmoved DEF Probe
  <1>2. CASE PutOff(r)
    <2>1. AskType'
      BY <1>2 DEF AskType, WorldType, PutOff
    <2> QED BY <1>2, <2>1, Unmoved, SourceUnmoved DEF PutOff
  <1>3. CASE \E p \in Page : Ask(r, p)
    <2>1. AskType'
      BY <1>3 DEF AskType, WorldType, Ask
    <2> QED BY <1>3, <2>1, Unmoved, SourceUnmoved DEF Ask
  <1> QED BY <1>1, <1>2, <1>3

LEMMA ReadSitemapType == ASSUME TypeOK, NEW r \in Run, ReadSitemap(r) PROVE TypeOK'
  <1> USE TypeParts
  <1>0. PICK site \in {"through", "refused", "none"}, S \in SUBSET Page,
             more \in BOOLEAN, complete \in BOOLEAN : SitemapRead(r, site, S, more, complete)
    BY DEF ReadSitemap
  <1>1. PageType'
    BY <1>0, Times DEF SitemapRead, ListPages, Relisted, PageType
  <1>2. LostType' /\ PcType'
    BY <1>0, LostOrKept DEF SitemapRead, PcType
  <1>3. ReadType'
    BY <1>0 DEF SitemapRead, Heard, readVars, ReadType, ReadSitemap
  <1> QED BY <1>1, <1>2, <1>3, Unmoved, SourceUnmoved DEF ReadSitemap

LEMMA FinishType == ASSUME TypeOK, ListingInv, NEW r \in Run, FinishListing(r) PROVE TypeOK'
  <1> USE TypeParts
  <1>1. LostType' /\ PcType'
    BY LostOrKept DEF FinishListing, AfterReads, PcType
  <1>2. \A p \in Missed(r) : missing[p] + 1 \in 0..MissingGoneAfter
    BY DEF Missed, ListingInv, PageType
  <1>3. PageType'
    <2>1. CASE ReadCounted(r)
      BY <2>1, Unmoved DEF FinishListing
    <2>2. CASE ~ReadCounted(r)
      <3>1. missing' \in [Page -> 0..MissingGoneAfter]
        BY <1>2, <2>2 DEF FinishListing, PageType
      <3>2. /\ status' \in [Page -> {"none", "live", "gone", "refused", "excluded"}]
            /\ goneBy' \in [Page -> {"none", "answers", "listings"}]
        BY <2>2 DEF FinishListing, PageType
      <3> QED BY <2>2, <3>1, <3>2 DEF FinishListing, PageType
    <2> QED BY <2>1, <2>2
  <1>4. ListedType'
    BY Times DEF FinishListing, ListedType
  <1> QED BY <1>1, <1>3, <1>4, Unmoved DEF FinishListing

LEMMA SourceLiveType ==
    ASSUME SourceLive, StandingType, countedAt' \in Time, took' \subseteq Run PROVE StandingType'
  BY Times DEF SourceLive, StandingType

LEMMA BackType == ASSUME TypeOK, NEW r \in Run, Back(r) PROVE TypeOK'
  <1> USE TypeParts
  <1>1. LostType' /\ PcType'
    BY LostOrKept DEF Back, PcType
  <1>2. StandingType'
    BY SourceLiveType DEF Back, StandingType
  <1> QED BY <1>1, <1>2, UnsaidType, Unmoved DEF Back

LEMMA FetchType ==
    ASSUME PageType, logged \subseteq Run \X Page, NEW r \in Run, NEW p \in Page,
           NEW o \in {"other", "gone", "blocked"}, askedAt[r] \in Time, RecordFetch(r, p, o)
    PROVE  PageType' /\ logged' \subseteq Run \X Page
  <1>1. CASE <<r, p>> \in logged
    BY <1>1, Unmoved DEF RecordFetch
  <1>2. CASE <<r, p>> \notin logged
    <2>1. Streak(p, o) \in Nat
      BY DEF Streak, PageType
    <2>2. Fetched(p, o) \in {"none", "live", "gone", "refused", "excluded"}
      BY DEF Fetched, PageType
    <2>3. /\ status' \in [Page -> {"none", "live", "gone", "refused", "excluded"}]
          /\ outcome' \in [Page -> {"other", "gone", "blocked"}]
          /\ streak' \in [Page -> Nat] /\ fetchedAt' \in [Page -> Time]
      BY <1>2, <2>1, <2>2 DEF RecordFetch, PageType
    <2>4. /\ goneBy' \in [Page -> {"none", "answers", "listings"}]
          /\ blame' \in [Page -> SUBSET Run]
      BY <1>2 DEF RecordFetch, PageType
    <2> QED BY <1>2, <2>3, <2>4 DEF RecordFetch, PageType
  <1> QED BY <1>1, <1>2

(* What a run does with the answer it recorded.                            *)
Recorded(r, a) ==
    /\ a[1] \in {"other", "gone", "blocked"} /\ a[2] \in {"through", "refused", "none"}
    /\ RecordFetch(r, asking[r], a[1])
    /\ \/ /\ Lost
          /\ askedAt' = [askedAt EXCEPT ![r] = clock]
          /\ UNCHANGED <<pc, readVars, plan, asking>>
       \/ /\ Kept
          /\ heard' = [heard EXCEPT ![r] = Heard(@, a[2])]
          /\ probe' = [probe EXCEPT ![r] = IF pc[r] = "probed" THEN a[2] ELSE @]
          /\ pc' = [pc EXCEPT ![r] = IF @ = "probed" THEN AfterReads(a[2]) ELSE @]
          /\ plan' = [plan EXCEPT ![r] = @ \ {asking[r]}]
          /\ asking' = [asking EXCEPT ![r] = NoPage]
          /\ askedAt' = [askedAt EXCEPT ![r] = 0]
          /\ UNCHANGED read

LEMMA RecordAnswers ==
    ASSUME NEW r \in Run, Record(r)
    PROVE  \E a \in Answer : Recorded(r, a)
  BY DEF Record, Recorded, Answer

LEMMA RecordType == ASSUME TypeOK, NEW r \in Run, Record(r) PROVE TypeOK'
  <1> USE TypeParts
  <1>0. PICK a \in Answer : Recorded(r, a)
    BY RecordAnswers
  <1>p. asking[r] \in Page
    BY DEF Record, AskType
  <1>1. PageType' /\ logged' \subseteq Run \X Page
    BY <1>0, <1>p, FetchType DEF Recorded, AskType
  <1>2. LostType' /\ PcType'
    BY <1>0, LostOrKept DEF Recorded, PcType, AfterReads
  <1>3. ReadType'
    BY <1>0 DEF Recorded, Record, Heard, readVars, ReadType
  <1>4. AskType'
    BY <1>0, <1>1, Times DEF Recorded, AskType, WorldType
  <1> QED BY <1>1, <1>2, <1>3, <1>4, Unmoved, SourceUnmoved DEF Record

LEMMA EndType ==
    ASSUME PcType, ReadType, AskType, NEW r \in Run, End(r) PROVE PcType' /\ ReadType' /\ AskType'
  <1>1. PcType' /\ ReadType'
    BY DEF PcType, ReadType, End
  <1>2. AskType'
    BY Times DEF AskType, End
  <1> QED BY <1>1, <1>2

LEMMA TakeBackType ==
    ASSUME PageType, took \subseteq Run, NEW r \in Run, TakeBack(r) PROVE PageType' /\ took' \subseteq Run
  <1>1. /\ status' \in [Page -> {"none", "live", "gone", "refused", "excluded"}]
        /\ streak' \in [Page -> Nat] /\ blame' \in [Page -> SUBSET Run]
    BY DEF PageType, TakeBack
  <1> QED BY <1>1 DEF PageType, TakeBack

LEMMA CountFirstType ==
    ASSUME TypeOK, StandingInv, NEW r \in Run, CountFirst(r)
    PROVE  PageType' /\ StandingType' /\ SaidType'
  <1> USE TypeParts
  <1>1. PageType' /\ took' \subseteq Run
    BY TakeBackType, Unmoved DEF CountFirst, StandingType
  <1>2. Counts(r) => blockedRuns + 1 \in 0..RefuseAfterRuns
    BY DEF Counts, StandingInv, StandingType
  <1>3. StandingType'
    <2>1. CASE Verdict(r) = "through"
      BY <1>1, <2>1, Times, SourceLiveType DEF CountFirst
    <2>2. CASE Verdict(r) # "through"
      BY <1>1, <1>2, <2>2, Times DEF CountFirst, StandingType
    <2> QED BY <2>1, <2>2
  <1>4. SaidType'
    <2>1. [blocked |-> IF Counts(r) THEN blockedRuns + 1 ELSE -1,
           refused |-> Counts(r) /\ blockedRuns + 1 >= RefuseAfterRuns]
            \in [blocked : Int, refused : BOOLEAN]
      BY <1>2
    <2> QED BY <2>1, Forgets DEF CountFirst, SaidType
  <1> QED BY <1>1, <1>3, <1>4

LEMMA CountType == ASSUME TypeOK, StandingInv, NEW r \in Run, Count(r) PROVE TypeOK'
  <1> USE TypeParts
  <1>1. LostType'
    BY LostOrKept DEF Count
  <1>2. PcType' /\ ReadType' /\ AskType'
    BY EndType, Unmoved DEF Count
  <1>3. PageType' /\ StandingType' /\ SaidType'
    <2>1. CASE RunCounted(r)
      <3>1. SaidType'
        BY <2>1, Forgets DEF Count, SaidType
      <3> QED BY <2>1, <3>1, Unmoved DEF Count
    <2>2. CASE ~RunCounted(r)
      BY <2>2, CountFirstType DEF Count
    <2> QED BY <2>1, <2>2
  <1> QED BY <1>1, <1>2, <1>3, Unmoved DEF Count

LEMMA FailType == ASSUME TypeOK, NEW r \in Run, Fail(r) PROVE TypeOK'
  <1> USE TypeParts
  <1>1. SaidType'
    BY Forgets DEF Fail, SaidType
  <1> QED BY <1>1, EndType, Unmoved, SourceUnmoved DEF Fail

LEMMA OwnerType == ASSUME WorldType, LostType, Owner PROVE WorldType'
  BY DEF WorldType, LostType, Owner

LEMMA ReviveSourceType == ASSUME TypeOK, ReviveSource PROVE TypeOK'
  <1> USE TypeParts
  <1>1. StandingType'
    BY SourceLiveType DEF ReviveSource, StandingType
  <1> QED BY <1>1, OwnerType, UnsaidType, Unmoved DEF ReviveSource

LEMMA ApplyType == ASSUME TypeOK, Apply PROVE TypeOK'
  <1> USE TypeParts
  <1>1. ListedType'
    BY DEF Apply, ListedType
  <1>2. status' \in [Page -> {"none", "live", "gone", "refused", "excluded"}]
    BY DEF Apply, Applied, PageType
  <1>3. PageType'
    BY <1>2 DEF Apply, PageType
  <1>4. StandingType'
    BY Unmoved DEF Apply
  <1> QED BY <1>1, <1>3, <1>4, OwnerType, Unmoved DEF Apply

LEMMA RevivePageType == ASSUME TypeOK, NEW p \in Page, RevivePage(p) PROVE TypeOK'
  <1> USE TypeParts
  <1>1. PageType'
    BY Times DEF RevivePage, PageType
  <1> QED BY <1>1, OwnerType, Unmoved, SourceUnmoved DEF RevivePage

-----------------------------------------------------------------------------
(* A page goes missing by reads that were counted.                         *)

LEMMA ListingUnmoved ==
    ASSUME ListingInv, UNCHANGED <<status, missing, listedAt, goneBy, finished, readAt>>
    PROVE  ListingInv'
  BY DEF ListingInv, Newer

LEMMA ReadSitemapListing == ASSUME TypeOK, ListingInv, NEW r \in Run, ReadSitemap(r) PROVE ListingInv'
  <1> USE TypeParts
  <1>0. PICK S \in SUBSET Page : ListPages(r, S)
    BY DEF ReadSitemap, SitemapRead
  <1>1. UNCHANGED <<finished, readAt>>
    BY DEF ReadSitemap, sourceVars
  <1>2. ASSUME NEW p \in Page
        PROVE  /\ missing'[p] <= Cardinality(Newer(p)')
               /\ status'[p] \in {"live", "refused"} => missing'[p] < MissingGoneAfter
               /\ goneBy'[p] = "none" <=> status'[p] # "gone"
               /\ goneBy'[p] = "answers" => missing'[p] < MissingGoneAfter
               /\ goneBy'[p] = "listings" => missing'[p] >= MissingGoneAfter
    <2> DEFINE W == {q \in S : Listable(r, q)}
    <2>0. /\ missing'[p] = IF p \in W THEN 0 ELSE missing[p]
          /\ status'[p] = IF p \in W THEN Relisted(p) ELSE status[p]
          /\ listedAt'[p] = IF p \in W THEN r ELSE listedAt[p]
          /\ goneBy'[p] = IF status'[p] = "gone" THEN goneBy[p] ELSE "none"
      BY <1>0 DEF ListPages
    <2>1. CASE p \in W
      <3>1. Newer(p)' \subseteq Run
        BY <1>1 DEF Newer, ListedType
      <3>2. Cardinality(Newer(p)') \in Nat
        BY <3>1, RunsAreFinite
      <3>3. goneBy[p] \in {"none", "answers", "listings"} /\ missing[p] \in Nat
        BY DEF PageType
      <3> QED BY <2>0, <2>1, <3>2, <3>3 DEF ListingInv, Relisted
    <2>2. CASE p \notin W
      <3>1. Newer(p)' = Newer(p)
        BY <1>1, <2>0, <2>2 DEF Newer
      <3> QED BY <2>0, <2>2, <3>1 DEF ListingInv
    <2> QED BY <2>1, <2>2
  <1> QED BY <1>1, <1>2 DEF ListingInv

LEMMA FinishListingListing == ASSUME TypeOK, ListingInv, NEW r \in Run, FinishListing(r) PROVE ListingInv'
  <1> USE TypeParts
  <1>1. CASE ReadCounted(r)
    BY <1>1, ListingUnmoved DEF FinishListing, pageVars
  <1>2. CASE ~ReadCounted(r)
    <2>0. /\ readAt' = r /\ finished' = finished \cup {r} /\ UNCHANGED listedAt
          /\ readAt \in Nat /\ r \in Nat /\ readAt < r
      BY <1>2, Times DEF FinishListing, ReadCounted, ListedType
    <2>1. \A q \in finished' : q <= readAt'
      <3>1. \A q \in finished : q \in Nat /\ q <= readAt
        BY Times DEF ListingInv, ListedType
      <3> QED BY <2>0, <3>1
    <2>2. ASSUME NEW p \in Page
          PROVE  /\ missing'[p] <= Cardinality(Newer(p)')
                 /\ status'[p] \in {"live", "refused"} => missing'[p] < MissingGoneAfter
                 /\ goneBy'[p] = "none" <=> status'[p] # "gone"
                 /\ goneBy'[p] = "answers" => missing'[p] < MissingGoneAfter
                 /\ goneBy'[p] = "listings" => missing'[p] >= MissingGoneAfter
      <3>0. /\ missing'[p] = IF p \in Missed(r) THEN missing[p] + 1 ELSE missing[p]
            /\ status'[p] = IF p \in Missed(r) /\ missing[p] + 1 >= MissingGoneAfter
                            THEN "gone" ELSE status[p]
            /\ goneBy'[p] = IF status[p] # "gone" /\ status'[p] = "gone"
                            THEN "listings" ELSE goneBy[p]
        BY <1>2 DEF FinishListing
      <3>1. /\ missing[p] \in Nat /\ listedAt[p] \in Nat
            /\ goneBy[p] \in {"none", "answers", "listings"}
        BY Times DEF PageType
      <3>2. Newer(p) \subseteq Run /\ Newer(p)' \subseteq Run /\ Newer(p) \subseteq Newer(p)'
        BY <2>0 DEF Newer, ListedType
      <3>3. Cardinality(Newer(p)) \in Nat /\ Cardinality(Newer(p)) <= Cardinality(Newer(p)')
        BY <3>2, FewerRuns, RunsAreFinite
      <3>4. Cardinality(Newer(p)') \in Nat
        BY <3>2, RunsAreFinite
      <3>5. CASE p \in Missed(r)
        <4>1. Newer(p)' = Newer(p) \cup {r} /\ r \notin Newer(p)
          <5>1. listedAt[p] < r
            BY <3>5 DEF Missed
          <5>2. \A q \in finished : q # r
            BY <2>0, Times DEF ListingInv, ListedType
          <5> QED BY <2>0, <5>1, <5>2 DEF Newer
        <4>2. Cardinality(Newer(p)') = Cardinality(Newer(p)) + 1
          BY <3>2, <4>1, AddRun
        <4>3. status[p] = "live" /\ missing[p] <= Cardinality(Newer(p)) /\ missing[p] < MissingGoneAfter
          BY <3>5 DEF Missed, ListingInv
        <4>4. goneBy[p] = "none"
          BY <4>3 DEF ListingInv
        <4> QED BY <3>0, <3>1, <3>3, <3>5, <4>2, <4>3, <4>4
      <3>6. CASE p \notin Missed(r)
        <4>1. /\ missing[p] <= Cardinality(Newer(p))
              /\ status[p] \in {"live", "refused"} => missing[p] < MissingGoneAfter
              /\ goneBy[p] = "none" <=> status[p] # "gone"
              /\ goneBy[p] = "answers" => missing[p] < MissingGoneAfter
              /\ goneBy[p] = "listings" => missing[p] >= MissingGoneAfter
          BY DEF ListingInv
        <4> QED BY <3>0, <3>1, <3>3, <3>4, <3>6, <4>1
      <3> QED BY <3>5, <3>6
    <2> QED BY <2>1, <2>2 DEF ListingInv
  <1> QED BY <1>1, <1>2

LEMMA FetchListing ==
    ASSUME PageType, ListingInv, NEW r \in Run, NEW p \in Page, NEW o, RecordFetch(r, p, o),
           UNCHANGED <<finished, readAt>>
    PROVE  ListingInv'
  <1>1. CASE <<r, p>> \in logged
    BY <1>1, ListingUnmoved DEF RecordFetch, pageVars
  <1>2. CASE <<r, p>> \notin logged
    <2>1. ASSUME NEW q \in Page
          PROVE  /\ missing'[q] <= Cardinality(Newer(q)')
                 /\ status'[q] \in {"live", "refused"} => missing'[q] < MissingGoneAfter
                 /\ goneBy'[q] = "none" <=> status'[q] # "gone"
                 /\ goneBy'[q] = "answers" => missing'[q] < MissingGoneAfter
                 /\ goneBy'[q] = "listings" => missing'[q] >= MissingGoneAfter
      <3>1. UNCHANGED missing /\ Newer(q)' = Newer(q)
        BY <1>2 DEF RecordFetch, Newer
      <3>2. CASE q # p
        <4>1. status'[q] = status[q] /\ goneBy'[q] = goneBy[q]
          BY <1>2, <3>2 DEF RecordFetch, PageType
        <4> QED BY <3>1, <4>1 DEF ListingInv
      <3>3. CASE q = p
        <4>1. /\ status'[q] = Fetched(p, o)
              /\ goneBy'[q] = IF status[p] # "gone" /\ Fetched(p, o) = "gone" THEN "answers" ELSE goneBy[p]
          BY <1>2, <3>3 DEF RecordFetch, PageType
        <4>2. Fetched(p, o) = status[p] \/ (status[p] = "live" /\ Fetched(p, o) \in {"gone", "refused"})
          BY DEF Fetched
        <4> QED BY <3>1, <3>3, <4>1, <4>2 DEF ListingInv
      <3> QED BY <3>2, <3>3
    <2> QED BY <2>1 DEF ListingInv
  <1> QED BY <1>1, <1>2

LEMMA CountListing == ASSUME TypeOK, ListingInv, NEW r \in Run, Count(r) PROVE ListingInv'
  <1> USE TypeParts
  <1>0. UNCHANGED <<finished, readAt>>
    BY DEF Count
  <1>1. CASE UNCHANGED pageVars
    BY <1>0, <1>1, ListingUnmoved DEF pageVars
  <1>2. CASE TakeBack(r)
    <2>1. ASSUME NEW p \in Page
          PROVE  /\ status'[p] = status[p] \/ (status[p] = "refused" /\ status'[p] = "live")
                 /\ Newer(p)' = Newer(p)
      BY <1>0, <1>2 DEF TakeBack, PageType, Newer
    <2> QED BY <1>0, <1>2, <2>1 DEF ListingInv, TakeBack
  <1> QED BY <1>1, <1>2 DEF Count, CountFirst

LEMMA OwnerListing ==
    ASSUME TypeOK, ListingInv, KindInv, ReviveSource \/ Apply \/ \E p \in Page : RevivePage(p)
    PROVE  ListingInv'
  <1> USE TypeParts
  <1>1. CASE ReviveSource
    BY <1>1, ListingUnmoved DEF ReviveSource, pageVars
  <1>2. CASE Apply
    <2>1. UNCHANGED <<finished, readAt, listedAt, missing>>
      BY <1>2 DEF Apply
    <2>2. ASSUME NEW p \in Page
          PROVE  /\ status'[p] = status[p] \/ status'[p] = "excluded"
                                           \/ (kind = "pages" /\ status'[p] = "live")
                 /\ goneBy'[p] = IF status'[p] = "gone" THEN goneBy[p] ELSE "none"
                 /\ Newer(p)' = Newer(p)
      BY <1>2, <2>1 DEF Apply, Applied, Newer, PageType
    <2> QED BY <2>1, <2>2 DEF ListingInv, KindInv
  <1>3. ASSUME NEW p \in Page, RevivePage(p) PROVE ListingInv'
    <2>1. UNCHANGED <<finished, readAt, listedAt>>
      BY <1>3 DEF RevivePage, sourceVars
    <2>2. ASSUME NEW q \in Page
          PROVE  /\ Newer(q)' = Newer(q) /\ Cardinality(Newer(q)) \in Nat
                 /\ \/ missing'[q] = 0 /\ status'[q] = "live" /\ goneBy'[q] = "none"
                    \/ missing'[q] = missing[q] /\ status'[q] = status[q] /\ goneBy'[q] = goneBy[q]
      <3>1. Newer(q)' = Newer(q) /\ Newer(q) \subseteq Run
        BY <2>1 DEF Newer, ListedType
      <3>2. \/ missing'[q] = 0 /\ status'[q] = "live" /\ goneBy'[q] = "none"
            \/ missing'[q] = missing[q] /\ status'[q] = status[q] /\ goneBy'[q] = goneBy[q]
        BY <1>3 DEF RevivePage, PageType
      <3> QED BY <3>1, <3>2, RunsAreFinite
    <2> QED BY <2>1, <2>2 DEF ListingInv
  <1> QED BY <1>1, <1>2, <1>3

LEMMA KindKept ==
    ASSUME TypeOK, KindInv, UNCHANGED kind,
           \A p \in Page : missing'[p] = missing[p] \/ missing'[p] = 0,
           \A r \in Run : pc'[r] \in {"read", "finish"} => pc[r] \in {"read", "finish"}
    PROVE  KindInv'
  BY DEF KindInv

LEMMA StepKind == ASSUME TypeOK, KindInv, Next PROVE KindInv'
  <1> USE TypeParts DEF PcType
  <1>1. ASSUME NEW r \in Run, Start(r) PROVE KindInv'
    BY <1>1 DEF Start, KindInv, pageVars
  <1>2. ASSUME NEW r \in Run, ReadSitemap(r) PROVE KindInv'
    <2>1. kind # "pages" /\ UNCHANGED kind
      BY <1>2 DEF ReadSitemap, KindInv, worldVars
    <2> QED BY <2>1 DEF KindInv
  <1>3. ASSUME NEW r \in Run, EndRead(r) \/ FinishListing(r) PROVE KindInv'
    <2>1. kind # "pages" /\ UNCHANGED kind
      BY <1>3 DEF EndRead, FinishListing, KindInv, worldVars
    <2> QED BY <2>1 DEF KindInv
  <1>4. ASSUME NEW r \in Run, Probe(r) \/ Back(r) \/ Plan(r) \/ PutOff(r) PROVE KindInv'
    BY <1>4, KindKept DEF Probe, Back, Plan, PutOff, worldVars, pageVars
  <1>5. ASSUME NEW r \in Run, Record(r) PROVE KindInv'
    <2>1. PICK a \in Answer : Recorded(r, a)
      BY <1>5, RecordAnswers
    <2>2. UNCHANGED missing
      BY <2>1 DEF Recorded, RecordFetch, pageVars
    <2>3. \A q \in Run : pc'[q] \in {"read", "finish"} => pc[q] \in {"read", "finish"}
      BY <2>1 DEF Recorded, AfterReads
    <2> QED BY <1>5, <2>2, <2>3, KindKept DEF Record, worldVars
  <1>6. ASSUME NEW r \in Run, Count(r) PROVE KindInv'
    <2>1. UNCHANGED missing
      BY <1>6 DEF Count, CountFirst, TakeBack, pageVars
    <2>2. \A q \in Run : pc'[q] \in {"read", "finish"} => pc[q] \in {"read", "finish"}
      BY <1>6 DEF Count, End
    <2> QED BY <1>6, <2>1, <2>2, KindKept DEF Count, worldVars
  <1>7. ASSUME NEW r \in Run, Fail(r) PROVE KindInv'
    BY <1>7, KindKept DEF Fail, End, worldVars, pageVars
  <1>8. ASSUME NEW r \in Run, NEW p \in Page, Ask(r, p) PROVE KindInv'
    BY <1>8, KindKept DEF Ask, worldVars, pageVars
  <1>9. CASE ReviveSource \/ Apply
    BY <1>9, KindKept DEF ReviveSource, Apply, Owner, pageVars
  <1>10. ASSUME NEW p \in Page, RevivePage(p) PROVE KindInv'
    BY <1>10, KindKept DEF RevivePage, Owner, PageType
  <1> QED BY <1>1, <1>2, <1>3, <1>4, <1>5, <1>6, <1>7, <1>8, <1>9, <1>10 DEF Next

LEMMA StepListing ==
    ASSUME TypeOK, ListingInv, KindInv, Next PROVE ListingInv'
  <1>1. ASSUME NEW r \in Run,
               Start(r) \/ EndRead(r) \/ Probe(r) \/ Plan(r) \/ PutOff(r) \/ Fail(r)
                 \/ \E p \in Page : Ask(r, p)
        PROVE  ListingInv'
    BY <1>1, ListingUnmoved
       DEF Start, EndRead, Probe, Plan, PutOff, Fail, Ask, pageVars, sourceVars
  <1>2. ASSUME NEW r \in Run, Back(r) PROVE ListingInv'
    BY <1>2, ListingUnmoved DEF Back, pageVars
  <1>3. ASSUME NEW r \in Run, Record(r) PROVE ListingInv'
    <2>1. PICK a \in Answer : RecordFetch(r, asking[r], a[1])
      BY <1>3 DEF Record
    <2>2. asking[r] \in Page /\ PageType
      BY <1>3, TypeParts DEF Record, AskType
    <2> QED BY <1>3, <2>1, <2>2, FetchListing DEF Record, sourceVars
  <1> QED BY <1>1, <1>2, <1>3, ReadSitemapListing, FinishListingListing, CountListing, OwnerListing
          DEF Next

-----------------------------------------------------------------------------
(* How the source stands follows from the runs it counted.                 *)

LEMMA StandingUnmoved ==
    ASSUME StandingInv, UNCHANGED <<standingVars, countedAt>> PROVE StandingInv'
  BY DEF StandingInv, StandingIsEarned, standingVars

LEMMA LiveStanding ==
    ASSUME TypeOK, SourceLive PROVE StandingInv'
  <1>1. Cardinality({}) = 0
    BY FS_EmptySet
  <1> QED BY <1>1 DEF SourceLive, StandingInv, StandingIsEarned

LEMMA CountStanding == ASSUME TypeOK, StandingInv, NEW r \in Run, Count(r) PROVE StandingInv'
  <1> USE TypeParts
  <1>1. CASE RunCounted(r)
    BY <1>1, StandingUnmoved DEF Count
  <1>2. CASE ~RunCounted(r) /\ Verdict(r) = "through"
    BY <1>2, LiveStanding DEF Count, CountFirst
  <1>3. CASE ~RunCounted(r) /\ Verdict(r) # "through"
    <2>0. /\ countedAt \in Nat /\ r \in Nat /\ countedAt < r /\ countedAt' = r /\ r > 0
          /\ blockedRuns \in Nat /\ refusedAt \in Nat
      BY <1>3, Times DEF Count, CountFirst, RunCounted, StandingType
    <2>1. \A q \in blockedIn : q \in Nat /\ q <= countedAt /\ q < r
      <3>1. blockedIn \subseteq Run
        BY DEF StandingType
      <3>2. \A q \in blockedIn : q <= countedAt
        BY DEF StandingInv
      <3> QED BY <2>0, <3>1, <3>2, Times
    <2>2. /\ blockedRuns' = IF Counts(r) THEN blockedRuns + 1 ELSE blockedRuns
          /\ refusedAt' = IF Counts(r) /\ blockedRuns + 1 >= RefuseAfterRuns THEN r ELSE refusedAt
          /\ blockedIn' = IF Counts(r) THEN blockedIn \cup {r} ELSE blockedIn
      <3>1. CountFirst(r)
        BY <1>3 DEF Count
      <3> QED BY <1>3, <3>1, Zenon DEF CountFirst
    <2>3. lastProbe' # "none" => lastProbe # "none" \/ refusedAt # 0
      <3>1. CountFirst(r)
        BY <1>3 DEF Count
      <3> QED BY <1>3, <3>1 DEF CountFirst
    <2>4. CASE Counts(r)
      <3>1. refusedAt = 0 /\ blockedRuns < RefuseAfterRuns /\ lastProbe' = "none"
        BY <2>3, <2>4 DEF Counts, StandingInv, StandingIsEarned
      <3>2. Cardinality(blockedIn \cup {r}) = Cardinality(blockedIn) + 1
        BY <2>1, AddRun DEF StandingType
      <3>3. blockedRuns' = Cardinality(blockedIn')
        BY <2>2, <2>4, <3>2 DEF StandingInv, StandingIsEarned
      <3>4. /\ refusedAt' # 0 => /\ refusedAt' \in blockedIn'
                                 /\ \A q \in blockedIn' : q <= refusedAt'
                                 /\ blockedRuns' = RefuseAfterRuns
            /\ refusedAt' = 0 => blockedRuns' < RefuseAfterRuns
        BY <2>0, <2>1, <2>2, <2>4, <3>1
      <3>5. \A q \in blockedIn' : q <= countedAt'
        BY <2>0, <2>1, <2>2
      <3> QED BY <3>1, <3>3, <3>4, <3>5 DEF StandingInv, StandingIsEarned
    <2>5. CASE ~Counts(r)
      <3>1. \A q \in blockedIn' : q <= countedAt'
        BY <2>0, <2>1, <2>2, <2>5
      <3> QED BY <2>2, <2>3, <2>5, <3>1 DEF StandingInv, StandingIsEarned
    <2> QED BY <2>4, <2>5
  <1> QED BY <1>1, <1>2, <1>3

LEMMA StepStanding == ASSUME TypeOK, StandingInv, Next PROVE StandingInv'
  <1>1. ASSUME NEW r \in Run,
               \/ Start(r) \/ EndRead(r) \/ Probe(r) \/ Plan(r) \/ PutOff(r) \/ Fail(r)
               \/ ReadSitemap(r) \/ FinishListing(r) \/ Record(r)
               \/ \E p \in Page : Ask(r, p)
        PROVE  StandingInv'
    BY <1>1, StandingUnmoved
       DEF Start, EndRead, Probe, Plan, PutOff, Fail, ReadSitemap, FinishListing, Record, Ask,
           sourceVars
  <1>2. ASSUME NEW r \in Run, Back(r) PROVE StandingInv'
    BY <1>2, LiveStanding DEF Back
  <1>3. CASE ReviveSource
    BY <1>3, LiveStanding DEF ReviveSource
  <1>4. CASE Apply \/ \E p \in Page : RevivePage(p)
    BY <1>4, StandingUnmoved DEF Apply, RevivePage, sourceVars
  <1> QED BY <1>1, <1>2, <1>3, <1>4, CountStanding DEF Next

-----------------------------------------------------------------------------
(* A run that has counted waits, and does nothing else, until it counts    *)
(* again or ends.                                                          *)

Waits(r) ==
    pc[r] = "ended" \/ (pc[r] = "items" /\ plan[r] = {} /\ asking[r] = NoPage)

LEMMA CountedUnmoved ==
    ASSUME CountedInv, UNCHANGED <<clock, pc, plan, asking, askedAt, took, countedAt>>,
           \A r \in Run : said'[r] = said[r] \/ said'[r] = NotSaid
    PROVE  CountedInv'
  BY DEF CountedInv

(* What a step of run r may change, for the others to stay as they are.    *)
OnlyRun(r) ==
    \A q \in Run \ {r} : /\ pc'[q] = pc[q] /\ plan'[q] = plan[q]
                         /\ asking'[q] = asking[q] /\ askedAt'[q] = askedAt[q]

LEMMA CountedByOthers ==
    ASSUME TypeOK, CountedInv, NEW r \in Run, OnlyRun(r), UNCHANGED clock,
           countedAt' >= countedAt, took' \subseteq took \cup {r}, countedAt' \in Nat,
           \A q \in Run \ {r} : said'[q] = said[q] \/ said'[q] = NotSaid,
           r <= clock <=> pc'[r] # "off",
           asking'[r] # NoPage => pc'[r] \in {"probed", "items"} /\ askedAt'[r] >= r,
           r \in took' \/ said'[r] # NotSaid =>
             pc'[r] = "ended" \/ (pc'[r] = "items" /\ plan'[r] = {} /\ asking'[r] = NoPage),
           said'[r] # NotSaid => pc'[r] = "items" /\ countedAt' >= r
    PROVE  CountedInv'
  <1> USE TypeParts
  <1>1. ASSUME NEW q \in Run
        PROVE  /\ q <= clock' <=> pc'[q] # "off"
               /\ asking'[q] # NoPage => pc'[q] \in {"probed", "items"} /\ askedAt'[q] >= q
               /\ q \in took' \/ said'[q] # NotSaid =>
                    \/ pc'[q] = "ended"
                    \/ pc'[q] = "items" /\ plan'[q] = {} /\ asking'[q] = NoPage
               /\ said'[q] # NotSaid => pc'[q] = "items" /\ countedAt' >= q
    <2>1. CASE q = r
      BY <2>1
    <2>2. CASE q # r
      <3>1. countedAt \in Nat /\ q \in Nat
        BY Times DEF StandingType
      <3> QED BY <2>2, <3>1 DEF CountedInv, OnlyRun
    <2> QED BY <2>1, <2>2
  <1> QED BY <1>1 DEF CountedInv

LEMMA StartCounted == ASSUME TypeOK, CountedInv, NEW r \in Run, Start(r) PROVE CountedInv'
  <1> USE TypeParts
  <1>1. /\ r = clock + 1 /\ clock' = r /\ clock \in Nat
        /\ UNCHANGED <<plan, asking, askedAt, took, countedAt, said>>
        /\ pc'[r] \notin {"off", "ended", "items", "probed"}
        /\ \A q \in Run \ {r} : pc'[q] = pc[q]
    BY Times DEF Start, sourceVars, askVars, PcType, WorldType
  <1>2. pc[r] = "off" /\ asking[r] = NoPage /\ r \notin took /\ said[r] = NotSaid
    BY <1>1 DEF CountedInv
  <1>3. ASSUME NEW q \in Run PROVE q <= clock' <=> pc'[q] # "off"
    <2>1. q \in Nat /\ (q <= clock <=> pc[q] # "off")
      BY Times DEF CountedInv
    <2> QED BY <1>1, <2>1
  <1> QED BY <1>1, <1>2, <1>3 DEF CountedInv

LEMMA RunCountedInv ==
    ASSUME TypeOK, CountedInv, NEW r \in Run,
           \/ EndRead(r) \/ Probe(r) \/ Plan(r) \/ PutOff(r) \/ Fail(r) \/ Back(r)
           \/ ReadSitemap(r) \/ FinishListing(r) \/ \E p \in Page : Ask(r, p)
    PROVE  CountedInv'
  <1> USE TypeParts
  <1>0. /\ r \in Nat /\ clock \in Nat /\ countedAt \in Nat
        /\ r <= clock <=> pc[r] # "off"
        /\ asking[r] # NoPage => pc[r] \in {"probed", "items"} /\ askedAt[r] >= r
        /\ r \in took \/ said[r] # NotSaid => Waits(r)
        /\ said[r] # NotSaid => pc[r] = "items" /\ countedAt >= r
    BY Times DEF CountedInv, Waits, WorldType, StandingType
  <1>1. CASE EndRead(r)
    BY <1>0, <1>1, CountedByOthers
       DEF OnlyRun, Waits, EndRead, AfterReads, PcType, worldVars, sourceVars, askVars
  <1>2. CASE Probe(r)
    BY <1>0, <1>2, CountedByOthers
       DEF OnlyRun, Waits, Probe, Live, PcType, AskType, worldVars, sourceVars
  <1>3. CASE Plan(r)
    BY <1>0, <1>3, CountedByOthers DEF OnlyRun, Waits, Plan, PcType, AskType, worldVars, sourceVars
  <1>4. CASE PutOff(r)
    BY <1>0, <1>4, CountedByOthers DEF OnlyRun, Waits, PutOff, AskType, worldVars, sourceVars
  <1>5. CASE Fail(r)
    <2>1. r <= clock
      BY <1>0, <1>5 DEF Fail, Going
    <2>2. /\ pc'[r] = "ended" /\ asking'[r] = NoPage /\ said'[r] = NotSaid
          /\ UNCHANGED <<clock, took, countedAt>>
          /\ \A q \in Run \ {r} : said'[q] = said[q]
      BY <1>5 DEF Fail, End, PcType, AskType, SaidType, worldVars, sourceVars
    <2>3. OnlyRun(r)
      BY <1>5 DEF Fail, End, OnlyRun, PcType, AskType
    <2> QED BY <1>0, <2>1, <2>2, <2>3, CountedByOthers
  <1>6. CASE Back(r)
    <2>1. /\ \A q \in Run : said'[q] = NotSaid
          /\ UNCHANGED <<clock, took, countedAt, plan, asking, askedAt>>
      BY <1>6 DEF Back, Unsaid, worldVars, askVars
    <2>2. pc'[r] \in {"plan", "back"} /\ \A q \in Run \ {r} : pc'[q] = pc[q]
      BY <1>6 DEF Back, PcType
    <2> QED BY <1>0, <1>6, <2>1, <2>2, CountedByOthers DEF OnlyRun, Waits, Back
  <1>7. CASE ReadSitemap(r)
    <2>1. pc'[r] \in {"read", "plan"} /\ \A q \in Run \ {r} : pc'[q] = pc[q]
      BY <1>7 DEF ReadSitemap, SitemapRead, PcType
    <2> QED BY <1>0, <1>7, <2>1, CountedByOthers
            DEF OnlyRun, Waits, ReadSitemap, worldVars, sourceVars, askVars
  <1>8. CASE FinishListing(r)
    <2>1. pc'[r] \in {"finish", "back", "plan"} /\ \A q \in Run \ {r} : pc'[q] = pc[q]
      BY <1>8 DEF FinishListing, AfterReads, PcType
    <2> QED BY <1>0, <1>8, <2>1, CountedByOthers
            DEF OnlyRun, Waits, FinishListing, worldVars, askVars
  <1>9. CASE \E p \in Page : Ask(r, p)
    <2>1. PICK p \in Page : Ask(r, p)
      BY <1>9
    <2>2. /\ pc[r] = "items" /\ plan[r] # {} /\ asking[r] = NoPage
          /\ UNCHANGED <<clock, took, countedAt, pc, plan, said>>
          /\ askedAt'[r] = clock /\ \A q \in Run \ {r} : asking'[q] = asking[q] /\ askedAt'[q] = askedAt[q]
      BY <2>1 DEF Ask, AskType, worldVars, sourceVars
    <2> QED BY <1>0, <2>2, CountedByOthers DEF OnlyRun, Waits
  <1> QED BY <1>1, <1>2, <1>3, <1>4, <1>5, <1>6, <1>7, <1>8, <1>9

LEMMA RecordCounted == ASSUME TypeOK, CountedInv, NEW r \in Run, Record(r) PROVE CountedInv'
  <1> USE TypeParts
  <1>1. PICK a \in Answer : Recorded(r, a)
    BY RecordAnswers
  <1>2. /\ r \in Nat /\ clock \in Nat /\ countedAt \in Nat
        /\ asking[r] # NoPage /\ UNCHANGED <<clock, took, countedAt, said>>
    BY Times DEF Record, WorldType, StandingType, worldVars, sourceVars
  <1>3. /\ pc[r] \in {"probed", "items"} /\ r <= clock
        /\ r \notin took /\ said[r] = NotSaid
    BY <1>2 DEF CountedInv
  <1>4. \/ askedAt'[r] = clock /\ asking'[r] = asking[r] /\ pc'[r] = pc[r]
        \/ asking'[r] = NoPage /\ pc'[r] \in {"back", "plan", "items"}
    BY <1>1, <1>3 DEF Recorded, AfterReads, AskType, PcType
  <1>5. OnlyRun(r)
    BY <1>1 DEF Recorded, OnlyRun, AskType, PcType
  <1> QED BY <1>2, <1>3, <1>4, <1>5, CountedByOthers

LEMMA CountCounted == ASSUME TypeOK, CountedInv, NEW r \in Run, Count(r) PROVE CountedInv'
  <1> USE TypeParts
  <1>1. /\ r \in Nat /\ clock \in Nat /\ countedAt \in Nat /\ r <= clock
        /\ UNCHANGED clock /\ asking[r] = NoPage /\ plan[r] = {} /\ pc[r] = "items"
    BY Times DEF Count, CountedInv, WorldType, StandingType, worldVars
  <1>2. /\ OnlyRun(r) /\ asking'[r] = NoPage
        /\ \/ lost' = lost /\ pc'[r] = "ended"
           \/ lost' # lost /\ pc'[r] = "items" /\ plan'[r] = {}
    <2>1. CASE Kept /\ End(r)
      BY <2>1 DEF Kept, End, OnlyRun, PcType, AskType
    <2>2. CASE Lost /\ UNCHANGED <<pc, probing, readVars, askVars>>
      BY <1>1, <2>2 DEF Lost, OnlyRun, askVars, LostType
    <2> QED BY <2>1, <2>2 DEF Count
  <1>3. CASE RunCounted(r)
    <2>1. /\ UNCHANGED <<took, countedAt>> /\ countedAt >= r
          /\ lost' = lost => said'[r] = NotSaid
          /\ \A q \in Run \ {r} : said'[q] = said[q]
      BY <1>3 DEF Count, RunCounted, SaidType
    <2> QED BY <1>1, <1>2, <2>1, CountedByOthers
  <1>4. CASE ~RunCounted(r)
    <2>0. CountFirst(r)
      BY <1>4 DEF Count
    <2>1. countedAt' = r /\ countedAt' >= countedAt /\ took' \subseteq took \cup {r}
      BY <1>1, <1>4, <2>0 DEF CountFirst, TakeBack, RunCounted
    <2>2. /\ lost' = lost => said'[r] = NotSaid
          /\ \A q \in Run \ {r} : said'[q] = NotSaid
      BY <2>0 DEF CountFirst
    <2> QED BY <1>1, <1>2, <2>1, <2>2, CountedByOthers
  <1> QED BY <1>3, <1>4

LEMMA StepCounted == ASSUME TypeOK, CountedInv, Next PROVE CountedInv'
  <1>1. CASE ReviveSource \/ Apply
    BY <1>1, CountedUnmoved DEF ReviveSource, Apply, Unsaid, Owner, askVars
  <1>2. ASSUME NEW p \in Page, RevivePage(p) PROVE CountedInv'
    BY <1>2, CountedUnmoved DEF RevivePage, Owner, sourceVars, askVars
  <1> QED BY <1>1, <1>2, StartCounted, RunCountedInv, RecordCounted, CountCounted DEF Next

-----------------------------------------------------------------------------
(* A refused page has a block whose run hasn't taken it back.              *)

LEMMA BlameUnmoved ==
    ASSUME BlameInv, UNCHANGED <<outcome, fetchedAt, blame, took>>,
           \A p \in Page : /\ status'[p] = "refused" => status[p] = "refused"
                           /\ streak'[p] = streak[p]
    PROVE  BlameInv'
  BY DEF BlameInv

LEMMA FetchBlame ==
    ASSUME TypeOK, BlameInv, CountedInv, NEW r \in Run, NEW p \in Page,
           NEW o \in {"other", "gone", "blocked"},
           asking[r] # NoPage, RecordFetch(r, p, o), UNCHANGED took
    PROVE  BlameInv'
  <1> USE TypeParts
  <1>1. CASE <<r, p>> \in logged
    BY <1>1, BlameUnmoved DEF RecordFetch, pageVars
  <1>2. CASE <<r, p>> \notin logged
    <2>1. r \notin took /\ askedAt[r] >= r
      BY DEF CountedInv
    <2>2. ASSUME NEW q \in Page, outcome'[q] = "blocked"
          PROVE  /\ blame'[q] # {} => \E w \in blame'[q] : w \notin took' /\ w <= fetchedAt'[q]
                 /\ status'[q] = "refused" => blame'[q] # {}
                 /\ streak'[q] > 0 => blame'[q] # {}
      <3>1. CASE q # p
        <4>1. /\ outcome'[q] = outcome[q] /\ blame'[q] = blame[q] /\ fetchedAt'[q] = fetchedAt[q]
              /\ status'[q] = status[q] /\ streak'[q] = streak[q]
          BY <1>2, <3>1 DEF RecordFetch, PageType
        <4> QED BY <2>2, <4>1 DEF BlameInv
      <3>2. CASE q = p
        <4>1. /\ o = "blocked" /\ fetchedAt'[q] = askedAt[r]
              /\ blame'[q] = IF Streak(p, o) = 1 THEN {r} ELSE blame[p] \cup {r}
          BY <1>2, <2>2, <3>2 DEF RecordFetch, PageType
        <4>2. r \in blame'[q]
          BY <4>1
        <4> QED BY <2>1, <4>1, <4>2
      <3> QED BY <3>1, <3>2
    <2> QED BY <2>2 DEF BlameInv
  <1> QED BY <1>1, <1>2

LEMMA TakeBackBlame ==
    ASSUME TypeOK, BlameInv, NEW r \in Run, TakeBack(r) PROVE BlameInv'
  <1> USE TypeParts
  <1>1. ASSUME NEW q \in Page, outcome'[q] = "blocked"
        PROVE  /\ blame'[q] # {} => \E w \in blame'[q] : w \notin took' /\ w <= fetchedAt'[q]
               /\ status'[q] = "refused" => blame'[q] # {}
               /\ streak'[q] > 0 => blame'[q] # {}
    <2>0. outcome[q] = "blocked" /\ fetchedAt'[q] = fetchedAt[q] /\ took' = took \cup {r}
      BY <1>1 DEF TakeBack
    <2>1. CASE q \in TakenBack(r)
      <3>1. blame'[q] = {} /\ streak'[q] = 0
        BY <2>1 DEF TakeBack
      <3>2. status'[q] # "refused"
        BY <2>1 DEF TakeBack
      <3> QED BY <3>1, <3>2
    <2>2. CASE q \notin TakenBack(r)
      <3>1. blame'[q] = blame[q] /\ streak'[q] = streak[q] /\ status'[q] = status[q]
        BY <2>2 DEF TakeBack
      <3>2. fetchedAt[q] < r /\ fetchedAt[q] \in Nat /\ r \in Nat
        BY <2>0, <2>2, Times DEF TakenBack, PageType
      <3>3. \A w \in blame[q] : w \in Nat
        BY Times DEF PageType
      <3> QED BY <2>0, <3>1, <3>2, <3>3 DEF BlameInv
    <2> QED BY <2>1, <2>2
  <1> QED BY <1>1 DEF BlameInv

LEMMA StepBlame == ASSUME TypeOK, BlameInv, CountedInv, Next PROVE BlameInv'
  <1> USE TypeParts
  <1>1. ASSUME NEW r \in Run,
               \/ Start(r) \/ EndRead(r) \/ Probe(r) \/ Plan(r) \/ PutOff(r) \/ Fail(r) \/ Back(r)
               \/ \E p \in Page : Ask(r, p)
        PROVE  BlameInv'
    BY <1>1, BlameUnmoved
       DEF Start, EndRead, Probe, Plan, PutOff, Fail, Back, Ask, pageVars, sourceVars
  <1>2. ASSUME NEW r \in Run, ReadSitemap(r) PROVE BlameInv'
    <2>1. PICK S \in SUBSET Page : ListPages(r, S)
      BY <1>2 DEF ReadSitemap, SitemapRead
    <2>2. UNCHANGED <<outcome, streak, fetchedAt, blame, took>>
      BY <1>2, <2>1 DEF ReadSitemap, ListPages, sourceVars
    <2>3. \A p \in Page : status'[p] = "refused" => status[p] = "refused"
      BY <2>1 DEF ListPages, Relisted
    <2> QED BY <2>2, <2>3, BlameUnmoved
  <1>3. ASSUME NEW r \in Run, FinishListing(r) PROVE BlameInv'
    <2>1. UNCHANGED <<outcome, streak, fetchedAt, blame, took>>
      BY <1>3 DEF FinishListing, pageVars
    <2>2. \A p \in Page : status'[p] = "refused" => status[p] = "refused"
      BY <1>3 DEF FinishListing, pageVars
    <2> QED BY <2>1, <2>2, BlameUnmoved
  <1>4. ASSUME NEW r \in Run, Record(r) PROVE BlameInv'
    <2>1. PICK a \in Answer : Recorded(r, a)
      BY <1>4, RecordAnswers
    <2>2. asking[r] \in Page /\ asking[r] # NoPage /\ UNCHANGED took
      BY <1>4 DEF Record, AskType, sourceVars
    <2> QED BY <2>1, <2>2, FetchBlame DEF Recorded
  <1>5. ASSUME NEW r \in Run, Count(r) PROVE BlameInv'
    <2>1. (UNCHANGED <<pageVars, took>>) \/ TakeBack(r)
      BY <1>5 DEF Count, CountFirst
    <2> QED BY <2>1, BlameUnmoved, TakeBackBlame DEF pageVars
  <1>6. CASE ReviveSource
    BY <1>6, BlameUnmoved DEF ReviveSource, pageVars
  <1>7. CASE Apply
    <2>1. UNCHANGED <<outcome, streak, fetchedAt, blame, took>>
      BY <1>7 DEF Apply
    <2>2. \A p \in Page : status'[p] = "refused" => status[p] = "refused"
      BY <1>7 DEF Apply, Applied
    <2> QED BY <2>1, <2>2, BlameUnmoved
  <1>8. ASSUME NEW p \in Page, RevivePage(p) PROVE BlameInv'
    <2>1. ASSUME NEW q \in Page, outcome'[q] = "blocked"
          PROVE  /\ outcome[q] = "blocked" /\ blame'[q] = blame[q] /\ fetchedAt'[q] = fetchedAt[q]
                 /\ status'[q] = status[q] /\ streak'[q] = streak[q]
      BY <1>8, <2>1 DEF RevivePage, PageType
    <2>2. UNCHANGED took
      BY <1>8 DEF RevivePage, sourceVars
    <2> QED BY <2>1, <2>2 DEF BlameInv
  <1> QED BY <1>1, <1>2, <1>3, <1>4, <1>5, <1>6, <1>7, <1>8 DEF Next

-----------------------------------------------------------------------------
(* A count that runs again finds what it left.                             *)

LEMMA SameUnmoved ==
    ASSUME CountSaysTheSame, UNCHANGED <<blockedRuns, refusedAt>>,
           \A q \in Run : \/ said'[q] = NotSaid
                          \/ /\ said'[q] = said[q] /\ probing'[q] = probing[q]
                             /\ probe'[q] = probe[q] /\ heard'[q] = heard[q]
    PROVE  CountSaysTheSame'
  BY DEF CountSaysTheSame, Again, Verdict, ProbeFailed

LEMMA SameOrUnsaid ==
    ASSUME \A q \in Run : said'[q] = NotSaid PROVE CountSaysTheSame'
  BY DEF CountSaysTheSame

LEMMA CountFirstSame ==
    ASSUME TypeOK, StandingInv, NEW r \in Run, ~RunCounted(r), CountFirst(r), lost' # lost,
           UNCHANGED <<probing, readVars>>
    PROVE  CountSaysTheSame'
  <1> USE TypeParts
  <1>0. /\ countedAt \in Nat /\ r \in Nat /\ countedAt < r /\ r > 0
        /\ blockedRuns \in Nat /\ refusedAt \in Nat
    BY Times DEF RunCounted, StandingType
  <1>1. refusedAt < r
    <2>1. refusedAt # 0 => refusedAt <= countedAt
      BY DEF StandingInv, StandingIsEarned
    <2> QED BY <1>0, <2>1
  <1>2. Verdict(r)' = Verdict(r)
    BY DEF Verdict, ProbeFailed, readVars
  <1>3. \A q \in Run \ {r} : said'[q] = NotSaid
    BY DEF CountFirst
  <1>4. said'[r] = [blocked |-> IF Counts(r) THEN blockedRuns + 1 ELSE -1,
                    refused |-> Counts(r) /\ blockedRuns + 1 >= RefuseAfterRuns]
    BY DEF CountFirst
  <1>5. CASE Verdict(r) = "through"
    <2>1. refusedAt' = 0 /\ ~Counts(r)
      BY <1>5 DEF CountFirst, SourceLive, Counts
    <2>2. Again(r)' = [blocked |-> -1, refused |-> FALSE]
      <3>1. Verdict(r)' # "blocked" /\ (refusedAt' = r) = FALSE
        BY <1>0, <1>2, <1>5, <2>1
      <3> QED BY <3>1, Zenon DEF Again
    <2> QED BY <1>3, <1>4, <2>1, <2>2 DEF CountSaysTheSame
  <1>6. CASE Verdict(r) # "through"
    <2>1. /\ blockedRuns' = IF Counts(r) THEN blockedRuns + 1 ELSE blockedRuns
          /\ refusedAt' = IF Counts(r) /\ blockedRuns + 1 >= RefuseAfterRuns THEN r ELSE refusedAt
      BY <1>6, Zenon DEF CountFirst
    <2>2. CASE Counts(r)
      <3>1. refusedAt = 0 /\ Verdict(r) = "blocked"
        BY <2>2 DEF Counts
      <3>2. Again(r)' = [blocked |-> blockedRuns + 1,
                         refused |-> blockedRuns + 1 >= RefuseAfterRuns]
        BY <1>0, <1>2, <2>1, <2>2, <3>1 DEF Again
      <3> QED BY <1>3, <1>4, <2>2, <3>2 DEF CountSaysTheSame
    <2>3. CASE ~Counts(r)
      <3>1. Verdict(r) = "blocked" => refusedAt # 0
        BY <2>3 DEF Counts
      <3>2. Again(r)' = [blocked |-> -1, refused |-> FALSE]
        <4>1. (refusedAt' = r) = FALSE
          BY <1>0, <1>1, <2>1, <2>3
        <4>2. ~(Verdict(r)' = "blocked" /\ ~(refusedAt' # 0 /\ refusedAt' < r))
          BY <1>0, <1>1, <1>2, <2>1, <2>3, <3>1
        <4> QED BY <4>1, <4>2, Zenon DEF Again
      <3> QED BY <1>3, <1>4, <2>3, <3>2 DEF CountSaysTheSame
    <2> QED BY <2>2, <2>3
  <1> QED BY <1>5, <1>6

LEMMA CountSame ==
    ASSUME TypeOK, StandingInv, CountSaysTheSame, NEW r \in Run, Count(r) PROVE CountSaysTheSame'
  <1> USE TypeParts
  <1>1. CASE RunCounted(r) /\ Kept
    <2>1. said'[r] = NotSaid /\ \A q \in Run \ {r} : said'[q] = said[q]
      BY <1>1 DEF Count, Kept, SaidType
    <2>2. ~Lost
      BY <1>1 DEF Kept, Lost, LostType
    <2>3. End(r)
      BY <1>1, <2>2 DEF Count
    <2>4. UNCHANGED <<blockedRuns, refusedAt>>
      BY <1>1 DEF Count, standingVars
    <2>5. \A q \in Run \ {r} : /\ probing'[q] = probing[q] /\ probe'[q] = probe[q]
                               /\ heard'[q] = heard[q]
      BY <2>3 DEF End, ReadType
    <2> QED BY <2>1, <2>4, <2>5, SameUnmoved
  <1>2. CASE RunCounted(r) /\ ~Kept
    <2>1. UNCHANGED <<probing, readVars, said, blockedRuns, refusedAt>>
      BY <1>2 DEF Count, Kept, standingVars, SaidType
    <2> QED BY <2>1, SameUnmoved DEF readVars
  <1>3. CASE ~RunCounted(r) /\ Kept
    BY <1>3, SameOrUnsaid DEF Count, CountFirst, Kept
  <1>4. CASE ~RunCounted(r) /\ ~Kept
    BY <1>4, CountFirstSame DEF Count, Kept
  <1> QED BY <1>1, <1>2, <1>3, <1>4

LEMMA StepSame ==
    ASSUME TypeOK, StandingInv, CountedInv, CountSaysTheSame, Next PROVE CountSaysTheSame'
  <1> USE TypeParts
  <1>1. ASSUME NEW r \in Run,
               \/ EndRead(r) \/ Probe(r) \/ Plan(r) \/ PutOff(r) \/ FinishListing(r)
               \/ \E p \in Page : Ask(r, p)
        PROVE  CountSaysTheSame'
    <2>1. UNCHANGED <<probing, readVars, blockedRuns, refusedAt, said>>
      BY <1>1 DEF EndRead, Probe, Plan, PutOff, FinishListing, Ask, sourceVars, standingVars
    <2> QED BY <2>1, SameUnmoved DEF readVars
  <1>2. ASSUME NEW r \in Run, Back(r) PROVE CountSaysTheSame'
    BY <1>2, SameOrUnsaid DEF Back, Unsaid
  <1>3. ASSUME NEW r \in Run, Start(r) PROVE CountSaysTheSame'
    <2>1. said[r] = NotSaid
      <3>1. pc[r] = "off"
        BY <1>3, Times DEF Start, CountedInv, WorldType
      <3> QED BY <3>1 DEF CountedInv
    <2>2. /\ UNCHANGED <<readVars, blockedRuns, refusedAt, said>>
          /\ \A q \in Run \ {r} : probing'[q] = probing[q]
      BY <1>3 DEF Start, sourceVars, standingVars, ReadType
    <2> QED BY <2>1, <2>2, SameUnmoved DEF readVars
  <1>4. ASSUME NEW r \in Run, ReadSitemap(r) PROVE CountSaysTheSame'
    <2>1. said[r] = NotSaid
      BY <1>4 DEF ReadSitemap, CountedInv
    <2>2. UNCHANGED <<probing, blockedRuns, refusedAt, said>>
      BY <1>4 DEF ReadSitemap, sourceVars, standingVars
    <2>3. \A q \in Run \ {r} : heard'[q] = heard[q] /\ probe'[q] = probe[q]
      BY <1>4 DEF ReadSitemap, SitemapRead, readVars, ReadType
    <2> QED BY <2>1, <2>2, <2>3, SameUnmoved
  <1>5. ASSUME NEW r \in Run, Record(r) PROVE CountSaysTheSame'
    <2>1. said[r] = NotSaid
      BY <1>5 DEF Record, CountedInv
    <2>2. UNCHANGED <<probing, blockedRuns, refusedAt, said>>
      BY <1>5 DEF Record, sourceVars, standingVars
    <2>3. PICK a \in Answer : Recorded(r, a)
      BY <1>5, RecordAnswers
    <2>4. \A q \in Run \ {r} : heard'[q] = heard[q] /\ probe'[q] = probe[q]
      BY <2>3 DEF Recorded, readVars, ReadType
    <2> QED BY <2>1, <2>2, <2>4, SameUnmoved
  <1>6. ASSUME NEW r \in Run, Fail(r) PROVE CountSaysTheSame'
    <2>1. /\ said'[r] = NotSaid /\ UNCHANGED <<blockedRuns, refusedAt>>
          /\ \A q \in Run \ {r} : /\ said'[q] = said[q] /\ probing'[q] = probing[q]
                                  /\ heard'[q] = heard[q] /\ probe'[q] = probe[q]
      BY <1>6 DEF Fail, End, ReadType, SaidType, sourceVars, standingVars
    <2> QED BY <2>1, SameUnmoved
  <1>7. CASE ReviveSource
    BY <1>7, SameOrUnsaid DEF ReviveSource, Unsaid
  <1>8. CASE Apply \/ \E p \in Page : RevivePage(p)
    BY <1>8, SameUnmoved DEF Apply, RevivePage, readVars, sourceVars, standingVars
  <1> QED BY <1>1, <1>2, <1>3, <1>4, <1>5, <1>6, <1>7, <1>8, CountSame DEF Next

-----------------------------------------------------------------------------
(* The theorems.                                                           *)

LEMMA StepType == ASSUME TypeOK, ListingInv, StandingInv, Next PROVE TypeOK'
  BY StartType, ReadsType, AskingType, ReadSitemapType, FinishType, BackType, RecordType,
     CountType, FailType, ReviveSourceType, ApplyType, RevivePageType DEF Next

LEMMA Inductive == IInv /\ [Next]_vars => IInv'
  <1> SUFFICES ASSUME IInv, [Next]_vars PROVE IInv'
    OBVIOUS
  <1>1. CASE Next
    BY <1>1, StepType, StepListing, StepKind, StepStanding, StepCounted, StepBlame, StepSame DEF IInv
  <1>2. CASE UNCHANGED vars
    <2>1. /\ UNCHANGED worldVars /\ UNCHANGED pageVars /\ UNCHANGED sourceVars /\ UNCHANGED askVars
          /\ UNCHANGED readVars /\ UNCHANGED <<pc, probing, said, lost>>
      BY <1>2 DEF vars
    <2>2. TypeOK /\ TypeOK'
      BY <2>1, TypeParts, Unmoved, SourceUnmoved DEF IInv
    <2>6. KindInv'
      BY <2>1 DEF IInv, KindInv, worldVars, pageVars
    <2>3. ListingInv' /\ StandingInv' /\ BlameInv'
      BY <2>1, ListingUnmoved, StandingUnmoved, BlameUnmoved DEF IInv, pageVars, sourceVars
    <2>4. CountedInv'
      BY <2>1, CountedUnmoved DEF IInv, worldVars, sourceVars, askVars
    <2>5. CountSaysTheSame'
      BY <2>1, SameUnmoved DEF IInv, readVars, sourceVars, standingVars
    <2> QED BY <2>2, <2>3, <2>4, <2>5, <2>6 DEF IInv
  <1> QED BY <1>1, <1>2

LEMMA Invariant == Spec => []IInv
  BY Initially, Inductive, PTL DEF Spec

(* Every variable keeps its type: the counts stay within the thresholds of *)
(* listing.ts and source-states.ts however many runs overlap.              *)
THEOREM TypeCorrect == Spec => []TypeOK
  <1>1. IInv => TypeOK
    BY DEF IInv
  <1> QED BY <1>1, Invariant, PTL

(* finishListing: a page goes missing by MISSING_GONE_AFTER complete reads *)
(* of as many runs, each newer than what listed it last, however the runs  *)
(* overlap and whichever of their steps run again.                         *)
THEOREM MissingIsEarned == Spec => []GoneIsEarned
  <1>1. IInv => GoneIsEarned
    <2> SUFFICES ASSUME IInv, NEW p \in Page, goneBy[p] = "listings"
                 PROVE  Cardinality({r \in finished : r > listedAt[p]}) >= MissingGoneAfter
      BY DEF GoneIsEarned
    <2>1. missing[p] <= Cardinality(Newer(p)) /\ missing[p] >= MissingGoneAfter
      BY DEF IInv, ListingInv
    <2>2. Newer(p) \subseteq Run /\ missing[p] \in Nat
      BY TypeParts DEF IInv, Newer, ListedType, PageType
    <2>3. Cardinality(Newer(p)) \in Nat
      BY <2>2, RunsAreFinite
    <2> QED BY <2>1, <2>2, <2>3 DEF Newer
  <1> QED BY <1>1, Invariant, PTL

(* recordSourceRuns: the count of a source is of different runs, and a     *)
(* source is refused by as many as REFUSE_AFTER_RUNS, the last of them the *)
(* one that refused it.                                                    *)
THEOREM StandingEarned == Spec => []StandingIsEarned
  <1>1. IInv => StandingIsEarned
    BY DEF IInv, StandingInv
  <1> QED BY <1>1, Invariant, PTL

(* recordSourceRuns, which takes back a run's blocks: no page stands       *)
(* refused by blocks that all were taken back for its source.              *)
THEOREM BlocksOnce == Spec => []BlocksCountOnce
  <1>1. IInv => BlocksCountOnce
    BY DEF IInv, BlameInv, BlocksCountOnce
  <1> QED BY <1>1, Invariant, PTL

(* recordSourceRuns: a count that runs again after its result was lost     *)
(* says again what it said, as long as nobody else has written the source  *)
(* in between.                                                             *)
THEOREM SaidAgain == Spec => []CountSaysTheSame
  <1>1. IInv => CountSaysTheSame
    BY DEF IInv
  <1> QED BY <1>1, Invariant, PTL

LEMMA StaysGone ==
    ASSUME IInv, Next, NEW p \in Page, goneBy[p] = "answers", owned' = owned
    PROVE  goneBy'[p] = "answers"
  <1> USE TypeParts DEF IInv
  <1>0. status[p] = "gone" /\ missing[p] < MissingGoneAfter /\ missing[p] \in Nat
    BY DEF ListingInv, PageType
  <1>1. ASSUME NEW r \in Run,
               \/ Start(r) \/ EndRead(r) \/ Probe(r) \/ Plan(r) \/ PutOff(r) \/ Fail(r) \/ Back(r)
               \/ \E q \in Page : Ask(r, q)
        PROVE  goneBy'[p] = "answers"
    BY <1>1 DEF Start, EndRead, Probe, Plan, PutOff, Fail, Back, Ask, pageVars
  <1>2. ASSUME NEW r \in Run, ReadSitemap(r) PROVE goneBy'[p] = "answers"
    <2>1. PICK S \in SUBSET Page : ListPages(r, S)
      BY <1>2 DEF ReadSitemap, SitemapRead
    <2>2. Relisted(p) = "gone"
      BY <1>0 DEF Relisted
    <2> QED BY <1>0, <2>1, <2>2 DEF ListPages
  <1>3. ASSUME NEW r \in Run, FinishListing(r) PROVE goneBy'[p] = "answers"
    BY <1>0, <1>3 DEF FinishListing, pageVars
  <1>4. ASSUME NEW r \in Run, Record(r) PROVE goneBy'[p] = "answers"
    <2>1. PICK a \in Answer : RecordFetch(r, asking[r], a[1])
      BY <1>4 DEF Record
    <2> QED BY <1>0, <2>1 DEF RecordFetch, pageVars, PageType
  <1>5. ASSUME NEW r \in Run, Count(r) PROVE goneBy'[p] = "answers"
    BY <1>5 DEF Count, CountFirst, TakeBack, pageVars
  <1>6. CASE ReviveSource \/ Apply \/ \E q \in Page : RevivePage(q)
    <2>1. owned' = owned + 1 /\ owned \in Nat
      BY <1>6 DEF ReviveSource, Apply, RevivePage, Owner, WorldType
    <2> QED BY <2>1
  <1> QED BY <1>1, <1>2, <1>3, <1>4, <1>5, <1>6 DEF Next

(* listPages: a page that answers "gone" is not brought back by sitemaps   *)
(* that list it, whatever reads were counted before or come later.         *)
THEOREM NotFoundStays == Spec => NotFoundStaysGone
  <1>1. IInv /\ [Next]_vars =>
          [\A p \in Page : goneBy[p] = "answers" => goneBy'[p] = "answers" \/ owned' # owned]_vars
    BY StaysGone
  <1> QED BY <1>1, Invariant, PTL DEF Spec, NotFoundStaysGone

=============================================================================
