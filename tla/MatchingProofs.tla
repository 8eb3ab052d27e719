--------------------------- MODULE MatchingProofs ---------------------------
(***************************************************************************)
(* Proofs about Matching, for any pages, readings, verdicts, modes and     *)
(* bounds: a name joins a page only where it is settled, a person's        *)
(* verdict stays a person's, a flagged question waits for the owner,       *)
(* deciders agree, and nobody waits in vain.                               *)
(***************************************************************************)
EXTENDS Matching, TLAPS

-----------------------------------------------------------------------------
(* Questions.                                                              *)

Row == [status : {"open", "decided", "dismissed"}, flagged : BOOLEAN, answer : Answer,
        by : {"none"} \cup Actor, copyOf : Nat, own : BOOLEAN, current : BOOLEAN]

LEMMA RowCloses ==
    ASSUME NEW row \in Row, NEW v \in Verdict, NEW actor \in Actor
    PROVE  Decided(row, v, actor) \in Row
BY DEF Decided, Row, Answer

LEMMA RowCopied ==
    ASSUME NEW row \in Row, NEW i \in Nat
    PROVE  /\ Copy(row, i) \in Row
           /\ Copy(row, i) = [row EXCEPT !.status = "open", !.flagged = TRUE, !.answer = NoAnswer,
                                         !.by = "none", !.copyOf = i, !.own = FALSE]
BY DEF Copy, Row, Answer

LEMMA NewRowTyped == NewRow \in Row
BY DEF NewRow, Row, Answer

-----------------------------------------------------------------------------
(* Flagged questions.                                                      *)

Flagged(r) == IsOpen(r) /\ r.flagged
FlagStep ==
    \A s \in Pair : \A i \in DOMAIN reviews[s] :
      Flagged(reviews[s][i])
      => \/ Flagged(reviews'[s][i])
         \/ reviews'[s][i].status = "decided" /\ reviews'[s][i].by = "owner"
Rows == reviews \in [Pair -> Seq(Row)]

AnsweredByOwner(r) == r.status = "decided" /\ r.by = "owner"
KeepsFlags(rs, new) ==
    \A i \in DOMAIN rs : Flagged(rs[i]) => Flagged(new[i]) \/ AnsweredByOwner(new[i])

(* One pair's questions change.                                            *)
LEMMA OneChanges ==
    ASSUME Rows, NEW q, NEW new, reviews' = [reviews EXCEPT ![q] = new],
           q \in Pair => new \in Seq(Row) /\ KeepsFlags(reviews[q], new)
    PROVE  Rows' /\ FlagStep
<1>1. Rows'
  BY DEF Rows
<1>2. ASSUME NEW s \in Pair, NEW i \in DOMAIN reviews[s], Flagged(reviews[s][i])
      PROVE  Flagged(reviews'[s][i]) \/ AnsweredByOwner(reviews'[s][i])
  <2>1. CASE s = q
    <3>1. reviews'[s] = new
      BY <2>1 DEF Rows
    <3> QED BY <1>2, <2>1, <3>1 DEF KeepsFlags
  <2>2. CASE s # q
    <3>1. reviews'[s] = reviews[s]
      BY <2>2 DEF Rows
    <3> QED BY <1>2, <3>1
  <2> QED BY <2>1, <2>2
<1> QED BY <1>1, <1>2 DEF FlagStep, AnsweredByOwner

LEMMA NoneChanges ==
    ASSUME Rows, UNCHANGED reviews
    PROVE  Rows' /\ FlagStep
BY DEF Rows, FlagStep

LEMMA RowsAre ==
    ASSUME NEW rs \in Seq(Row), NEW new, DOMAIN new = DOMAIN rs,
           new = [i \in DOMAIN rs |-> new[i]],
           \A i \in DOMAIN rs : new[i] \in Row /\ (Flagged(rs[i]) => Flagged(new[i]))
    PROVE  new \in Seq(Row) /\ KeepsFlags(rs, new)
<1>1. new \in [1..Len(rs) -> Row]
  OBVIOUS
<1> QED BY <1>1 DEF KeepsFlags

(* One more question is asked.                                             *)
LEMMA OneMore ==
    ASSUME NEW rs \in Seq(Row), NEW row \in Row
    PROVE  Append(rs, row) \in Seq(Row) /\ KeepsFlags(rs, Append(rs, row))
BY DEF KeepsFlags

LEMMA SaveKeepsRows ==
    ASSUME Rows, Save
    PROVE  Rows' /\ FlagStep
<1> DEFINE rs == reviews[Question]
           new == [i \in DOMAIN rs |-> [rs[i] EXCEPT !.own = FALSE, !.current = FALSE]]
<1>1. UNCHANGED reviews \/ reviews' = [reviews EXCEPT ![Question] = new]
  BY DEF Save
<1>2. ASSUME Question \in Pair PROVE new \in Seq(Row) /\ KeepsFlags(rs, new)
  <2>1. rs \in Seq(Row)
    BY <1>2 DEF Rows
  <2>2. ASSUME NEW i \in DOMAIN rs PROVE new[i] \in Row /\ (Flagged(rs[i]) => Flagged(new[i]))
    <3>1. rs[i] \in Row
      BY <2>1
    <3> QED BY <3>1 DEF Row, Flagged, IsOpen
  <2> HIDE DEF rs
  <2> QED BY <2>1, <2>2, RowsAre
<1> HIDE DEF new
<1> QED BY <1>1, <1>2, OneChanges, NoneChanges

(* A question becomes current, another is asked, and what is not flagged   *)
(* is dismissed.                                                           *)
LEMMA OpenedKeepsRows ==
    ASSUME NEW q, Rows, reviews' = OpenedReview(q)
    PROVE  Rows' /\ FlagStep
<1> DEFINE rs == reviews[q]
           new == [i \in DOMAIN rs |-> IF IsOpen(rs[i]) THEN [rs[i] EXCEPT !.current = TRUE] ELSE rs[i]]
<1>1. \/ UNCHANGED reviews
      \/ reviews' = [reviews EXCEPT ![q] = new]
      \/ reviews' = [reviews EXCEPT ![q] = Append(rs, NewRow)]
  BY DEF OpenedReview
<1>2. q \in Pair => rs \in Seq(Row)
  BY DEF Rows
<1>3. ASSUME q \in Pair PROVE new \in Seq(Row) /\ KeepsFlags(rs, new)
  <2>1. ASSUME NEW i \in DOMAIN rs PROVE new[i] \in Row /\ (Flagged(rs[i]) => Flagged(new[i]))
    <3>1. rs[i] \in Row
      BY <1>2, <1>3
    <3> QED BY <3>1 DEF Row, Flagged, IsOpen
  <2> HIDE DEF rs
  <2> QED BY <1>2, <1>3, <2>1, RowsAre
<1> HIDE DEF new
<1>4. q \in Pair => Append(rs, NewRow) \in Seq(Row) /\ KeepsFlags(rs, Append(rs, NewRow))
  BY <1>2, OneMore, NewRowTyped
<1> QED BY <1>1, <1>3, <1>4, OneChanges, NoneChanges

LEMMA DismissedKeepsRows ==
    ASSUME NEW q, Rows, reviews' = DismissedReview(q)
    PROVE  Rows' /\ FlagStep
<1> DEFINE rs == reviews[q]
           new == [i \in DOMAIN rs |-> IF IsOpen(rs[i]) /\ ~rs[i].flagged
                                       THEN [rs[i] EXCEPT !.status = "dismissed"] ELSE rs[i]]
<1>1. reviews' = [reviews EXCEPT ![q] = new]
  BY DEF DismissedReview
<1>2. ASSUME q \in Pair PROVE new \in Seq(Row) /\ KeepsFlags(rs, new)
  <2>1. rs \in Seq(Row)
    BY <1>2 DEF Rows
  <2>2. ASSUME NEW i \in DOMAIN rs PROVE new[i] \in Row /\ (Flagged(rs[i]) => Flagged(new[i]))
    <3>1. rs[i] \in Row
      BY <2>1
    <3> QED BY <3>1 DEF Row, Flagged, IsOpen
  <2> HIDE DEF rs
  <2> QED BY <2>1, <2>2, RowsAre
<1> HIDE DEF new
<1> QED BY <1>1, <1>2, OneChanges

(* People answer.                                                          *)
LEMMA PeopleKeepRows ==
    ASSUME Rows, NEW s \in Pair, NEW i \in DOMAIN reviews[s], NEW v \in Verdict,
           \/ \E actor \in Actor : AnswerOpen(actor, s, i, v)
           \/ FlagOpen(s, i, v)
           \/ FlagAnswered(s, i, v)
           \/ ReplaceAnswer(s, i, v)
    PROVE  Rows' /\ FlagStep
<1> DEFINE rs == reviews[s]
<1>1. rs \in Seq(Row) /\ rs[i] \in Row /\ i \in Nat
  BY DEF Rows
<1>2. ASSUME NEW actor \in Actor, AnswerOpen(actor, s, i, v) PROVE Rows' /\ FlagStep
  <2> DEFINE new == [rs EXCEPT ![i] = Decided(rs[i], v, actor)]
  <2>1. reviews' = [reviews EXCEPT ![s] = new]
    BY <1>2 DEF AnswerOpen
  <2>2. Decided(rs[i], v, actor) \in Row
    BY <1>1, RowCloses
  <2>3. rs[i].flagged => AnsweredByOwner(Decided(rs[i], v, actor))
    BY <1>1, <1>2 DEF AnswerOpen, AnsweredByOwner, Decided, Row
  <2>4. new \in Seq(Row) /\ KeepsFlags(rs, new)
    BY <1>1, <2>2, <2>3 DEF KeepsFlags, Flagged
  <2> HIDE DEF new
  <2> QED BY <2>1, <2>4, OneChanges
<1>3. ASSUME FlagOpen(s, i, v) PROVE Rows' /\ FlagStep
  <2> DEFINE new == [rs EXCEPT ![i] = [rs[i] EXCEPT !.flagged = TRUE]]
  <2>1. reviews' = [reviews EXCEPT ![s] = new]
    BY <1>3 DEF FlagOpen, Rows
  <2>2. [rs[i] EXCEPT !.flagged = TRUE] \in Row /\ ~rs[i].flagged
    BY <1>1, <1>3 DEF FlagOpen, Row
  <2>3. new \in Seq(Row) /\ KeepsFlags(rs, new)
    BY <1>1, <2>2 DEF KeepsFlags, Flagged
  <2> HIDE DEF new
  <2> QED BY <2>1, <2>3, OneChanges
<1>4. Copy(rs[i], i) \in Row
  BY <1>1, RowCopied
<1>5. ASSUME FlagAnswered(s, i, v) PROVE Rows' /\ FlagStep
  <2>1. reviews' = [reviews EXCEPT ![s] = Append(rs, Copy(rs[i], i))]
    BY <1>5 DEF FlagAnswered
  <2> QED BY <1>1, <1>4, <2>1, OneMore, OneChanges
<1>6. ASSUME ReplaceAnswer(s, i, v) PROVE Rows' /\ FlagStep
  <2> DEFINE row == Decided(Copy(rs[i], i), v, "owner")
  <2>1. reviews' = [reviews EXCEPT ![s] = Append(rs, row)]
    BY <1>6 DEF ReplaceAnswer
  <2>2. row \in Row
    BY <1>4, RowCloses DEF Actor
  <2> QED BY <1>1, <2>1, <2>2, OneMore, OneChanges
<1> QED BY <1>2, <1>3, <1>5, <1>6

(* Every step keeps what is flagged until the owner answers.               *)
LEMMA StepKeepsRows ==
    ASSUME Rows, [Next]_vars
    PROVE  Rows' /\ FlagStep
<1>1. CASE Save
  BY <1>1, SaveKeepsRows
<1>2. CASE Review
  BY <1>2, OpenedKeepsRows, DismissedKeepsRows DEF Review, Reviewed
<1>3. CASE People
  <2>1. PICK s \in Pair : \E i \in DOMAIN reviews[s], v \in Verdict :
           \/ \E actor \in Actor : AnswerOpen(actor, s, i, v)
           \/ FlagOpen(s, i, v)
           \/ FlagAnswered(s, i, v)
           \/ ReplaceAnswer(s, i, v)
    BY <1>3 DEF People
  <2> QED BY <2>1, PeopleKeepRows
<1>4. CASE UNCHANGED reviews
  BY <1>4, NoneChanges
<1>5. [Next]_vars => Save \/ Review \/ People \/ UNCHANGED reviews
  BY DEF Next, Run, vars, StartRun, BeginResolution, PlanPage, CommitResolution, ReadQuestion,
         LeaveQuestion, Ask, Judge, StopShort, CutOff, Reread
<1> QED BY <1>1, <1>2, <1>3, <1>4, <1>5

(* A question that people disagree about stays open until the owner        *)
(* answers it, whatever runs and reviewers do meanwhile.                   *)
THEOREM FlagsWait == Spec => FlagWaitsForOwner
<1>1. Init => Rows
  BY DEF Init, Rows
<1>2. Rows /\ [Next]_vars => Rows'
  BY StepKeepsRows
<1>3. Rows /\ [Next]_vars => FlagStep
  BY StepKeepsRows
<1>4. FlagStep <=> \A s \in Pair : \A i \in DOMAIN reviews[s] :
        IsOpen(reviews[s][i]) /\ reviews[s][i].flagged
        => \/ IsOpen(reviews'[s][i]) /\ reviews'[s][i].flagged
           \/ reviews'[s][i].status = "decided" /\ reviews'[s][i].by = "owner"
  BY DEF FlagStep, Flagged
<1> QED BY <1>1, <1>2, <1>3, <1>4, PTL DEF Spec, FlagWaitsForOwner
-----------------------------------------------------------------------------
(* Verdicts.                                                               *)

VerdictStep ==
    \A s \in Pair : verdicts[s].who = "person" => verdicts'[s].who = "person"
OfPairs == DOMAIN verdicts = Pair

LEMMA JudgedKeeps ==
    ASSUME NEW q, NEW v, NEW who, Judged(q, v, who), OfPairs
    PROVE  OfPairs' /\ VerdictStep
BY DEF Judged, OfPairs, VerdictStep

LEMMA StepKeepsVerdicts ==
    ASSUME OfPairs, [Next]_vars
    PROVE  OfPairs' /\ VerdictStep
<1>1. CASE Judge
  BY <1>1, JudgedKeeps DEF Judge
<1>2. CASE People
  <2>1. PICK s \in Pair : \E i \in DOMAIN reviews[s], v \in Verdict :
           \/ \E actor \in Actor : AnswerOpen(actor, s, i, v)
           \/ FlagOpen(s, i, v)
           \/ FlagAnswered(s, i, v)
           \/ ReplaceAnswer(s, i, v)
    BY <1>2 DEF People
  <2>2. UNCHANGED verdicts \/ \E v \in Verdict : Judged(s, v, "person")
    BY <2>1 DEF AnswerOpen, FlagOpen, FlagAnswered, ReplaceAnswer, TakesEffect
  <2> QED BY <2>2, JudgedKeeps DEF OfPairs, VerdictStep
<1>3. CASE UNCHANGED verdicts
  BY <1>3 DEF OfPairs, VerdictStep
<1>4. [Next]_vars => Judge \/ People \/ UNCHANGED verdicts
  BY DEF Next, Run, vars, StartRun, BeginResolution, PlanPage, CommitResolution, ReadQuestion,
         LeaveQuestion, Ask, Save, Review, StopShort, CutOff, Reread
<1> QED BY <1>1, <1>2, <1>3, <1>4

(* What a person has said of a page and a record stays a person's.         *)
THEOREM Outranks == Spec => PersonOutranks
<1>1. Init => OfPairs
  BY DEF Init, OfPairs
<1>2. OfPairs /\ [Next]_vars => OfPairs' /\ VerdictStep
  BY StepKeepsVerdicts
<1> QED BY <1>1, <1>2, PTL DEF Spec, PersonOutranks, VerdictStep

-----------------------------------------------------------------------------
(* Names.                                                                  *)

LEMMA PlacedByVerdict ==
    ASSUME NEW w, NEW p
    PROVE  ~Placed(w, p) => Same(w, p) = {} /\ Apart(w, p) = {}
BY DEF Placed, Same, Apart, Given, Verdict, Joining

LEMMA Groups ==
    ASSUME NEW w, NEW p
    PROVE  /\ Group(w, p) \in {1, 2, 3}
           /\ Group(w, p) = 3 <=> Ids(p) = {} /\ ~Placed(w, p)
BY DEF Group

(* What a page known by its name alone joins or starts, where no verdict   *)
(* places it: the record that owns its name, when no other carries it, or  *)
(* its own, when none does.                                                *)
ByItsName(w, p, plan) ==
    \/ /\ w.owner[said[p].name] # NoPage
       /\ plan = Joins(w.owner[said[p].name])
       /\ \A q \in Page : said[q].name = said[p].name /\ w.joined[q] # NoPage
                            => w.joined[q] = w.owner[said[p].name]
    \/ /\ w.owner[said[p].name] = NoPage
       /\ plan = [kind |-> "create", to |-> <<p>>]
       /\ \A q \in Page : said[q].name = said[p].name => w.joined[q] = NoPage

LEMMA CarriersAreRecords ==
    ASSUME NEW w, NEW q \in Page, w.joined[q] # NoPage, said[q].name # NoName
    PROVE  w.joined[q] \in Records(w) /\ said[q].name \in NamesOf(w, w.joined[q])
BY DEF Records, NamesOf, Members

LEMMA PlannedByName ==
    ASSUME NEW w, NEW p \in Page, NEW plan \in Plans(w, p),
           Ids(p) = {}, ~Placed(w, p), plan.kind \in {"join", "create"}
    PROVE  Named(p) /\ ByItsName(w, p, plan)
<1> DEFINE name == said[p].name
           e == w.owner[name]
<1>1. Named(p) /\ Claims(p) = {name}
  BY DEF Plans, Claims
<1>2. Same(w, p) = {} /\ Apart(w, p) = {}
  BY PlacedByVerdict
<1>3. plan \in PlanByClaims(w, p)
  BY <1>1, <1>2 DEF Plans, Waits
<1>4. OwnersOf(w, p, Ids(p)) = {}
  BY DEF OwnersOf
<1>5. OwnersOf(w, p, Claims(p) \ Ids(p)) = {e} \ {NoPage}
  BY <1>1, <1>2 DEF OwnersOf
<1>6. CASE e # NoPage
  <2>1. plan \in PlanByName(w, p, e)
    BY <1>3, <1>4, <1>5, <1>6 DEF PlanByClaims
  <2>2. /\ plan = Joins(e)
        /\ {x \in Records(w) : name \in NamesOf(w, x)} \ ({e} \cup Apart(w, p)) = {}
    BY <2>1 DEF PlanByName, Waits, AsksAbout
  <2>3. ASSUME NEW q \in Page, said[q].name = name, w.joined[q] # NoPage
        PROVE  w.joined[q] = e
    BY <1>1, <1>2, <2>2, <2>3, CarriersAreRecords DEF Named
  <2> QED BY <1>1, <1>6, <2>2, <2>3 DEF ByItsName
<1>7. CASE e = NoPage
  <2>1. plan \in PlanBySimilarity(w, p)
    BY <1>3, <1>4, <1>5, <1>7 DEF PlanByClaims
  <2> DEFINE similar == {x \in Records(w) \ Apart(w, p) :
                           Named(p) /\ \E n \in NamesOf(w, x) : SimilarNames(said[p].name, n)}
             asked == {IF \E i \in 1..Len(q) : q[i] \in Pending(w, p) THEN Waits ELSE AsksAbout(q)
                         : q \in FirstFew(similar, MaxCandidates)}
  <2>a. plan \in IF similar = {} THEN {[kind |-> "create", to |-> <<p>>]} ELSE asked
    BY <2>1 DEF PlanBySimilarity
  <2>b. ASSUME NEW x \in asked PROVE x.kind \in {"wait", "ask"}
    <3>1. PICK q \in FirstFew(similar, MaxCandidates) :
            x = IF \E i \in 1..Len(q) : q[i] \in Pending(w, p) THEN Waits ELSE AsksAbout(q)
      OBVIOUS
    <3> HIDE DEF similar
    <3>2. x = Waits \/ x = AsksAbout(q)
      BY <3>1
    <3> QED BY <3>2 DEF Waits, AsksAbout
  <2>2. plan = [kind |-> "create", to |-> <<p>>] /\ similar = {}
    <3> HIDE DEF similar, asked
    <3> QED BY <2>a, <2>b
  <2>3. ASSUME NEW q \in Page, said[q].name = name
        PROVE  w.joined[q] = NoPage
    BY <1>1, <1>2, <2>2, <2>3, CarriersAreRecords DEF Named, SimilarNames
  <2> QED BY <1>1, <1>7, <2>2, <2>3 DEF ByItsName
<1> QED BY <1>6, <1>7

(* While a resolution plans: a page that joined by its name has the name's *)
(* owner for its record, as has every page of that name that is joined,    *)
(* and only pages like it are left, which will find the same.              *)
ByName(p) == joined[p] = NoPage /\ pass.joined[p] # NoPage /\ Ids(p) = {} /\ ~Placed(pass, p)
SettledName(p) ==
    /\ Named(p) /\ pass.owner[said[p].name] = pass.joined[p]
    /\ \A q \in Page : said[q].name = said[p].name /\ pass.joined[q] # NoPage
                         => pass.joined[q] = pass.joined[p]
    /\ \A q \in pass.left : Group(pass, q) = 3
PassOK ==
    /\ pass = [left |-> pass.left, joined |-> pass.joined, owner |-> pass.owner,
               judged |-> pass.judged, can |-> pass.can, contested |-> pass.contested,
               fresh |-> pass.fresh, askedAgain |-> pass.askedAgain]
    /\ pass.left \subseteq Page
    /\ pass.joined = [p \in Page |-> pass.joined[p]]
    /\ pass.owner = [c \in Claim |-> pass.owner[c]]
NamesOK ==
    /\ said \in [Page -> Reading]
    /\ joined = [p \in Page |-> joined[p]]
    /\ pc = "plan" => PassOK /\ \A p \in Page : ByName(p) => SettledName(p)

LEMMA BegunNames ==
    ASSUME NamesOK, BeginResolution
    PROVE  NamesOK'
<1> DEFINE read == [NoPass EXCEPT !.joined = joined, !.owner = owner, !.judged = verdicts,
                                  !.can = (mode = "asks")]
           begun == [left |-> Unjoined(read), joined |-> joined, owner |-> [c \in Claim |-> Claimed(c)],
                     judged |-> verdicts, can |-> (mode = "asks"),
                     contested |-> {n \in Name : Contested(read, n)},
                     fresh |-> <<>>, askedAgain |-> <<>>]
<1>1. pass' = begun
  BY DEF BeginResolution, View, NoPass
<1>2. pass'.joined = joined /\ UNCHANGED <<said, joined>>
  BY <1>1 DEF BeginResolution
<1>3. \A p : ~ByName(p)'
  BY <1>2 DEF ByName
<1>4. joined = [p \in Page |-> joined[p]]
  BY DEF NamesOK
<1>5. PassOK'
  <2>1. Unjoined(read) \subseteq Page
    BY DEF Unjoined
  <2> HIDE DEF read
  <2> QED BY <1>1, <1>4, <2>1 DEF PassOK
<1> QED BY <1>2, <1>3, <1>5 DEF NamesOK

(* The pages that a resolution leaves to plan are pages, and each plan is  *)
(* of a page no other goes before.                                         *)
LEMMA PlannedNames ==
    ASSUME NamesOK, PlanPage
    PROVE  NamesOK'
<1>1. PassOK /\ \A p \in Page : ByName(p) => SettledName(p)
  BY DEF NamesOK, PlanPage
<1>2. PICK x \in pass.left : 
        /\ \A q \in pass.left \ {x} : Before(pass, x, q)
        /\ \E plan \in Plans(pass, x) :
             pass' = CASE plan.kind \in {"join", "create"} -> Joined(pass, x, Head(plan.to))
                       [] plan.kind = "ask" -> Asked(pass, x, plan.to)
                       [] OTHER -> [pass EXCEPT !.left = @ \ {x}]
  BY DEF PlanPage
<1>3. PICK plan \in Plans(pass, x) :
        pass' = CASE plan.kind \in {"join", "create"} -> Joined(pass, x, Head(plan.to))
                  [] plan.kind = "ask" -> Asked(pass, x, plan.to)
                  [] OTHER -> [pass EXCEPT !.left = @ \ {x}]
  BY <1>2
<1>4. x \in Page /\ said[x] \in Reading
  BY <1>1 DEF PassOK, NamesOK
<1>5. UNCHANGED <<said, joined>>
  BY DEF PlanPage
<1>6. /\ PassOK'
      /\ pass'.left = pass.left \ {x}
      /\ pass'.judged = pass.judged /\ pass'.can = pass.can
      /\ \/ pass'.joined = pass.joined /\ pass'.owner = pass.owner
         \/ /\ plan.kind \in {"join", "create"}
            /\ pass'.joined = [pass.joined EXCEPT ![x] = Head(plan.to)]
            /\ pass'.owner = [c \in Claim |-> IF c \in Claims(x) /\ pass.owner[c] = NoPage
                                              THEN Head(plan.to) ELSE pass.owner[c]]
  BY <1>1, <1>3 DEF PassOK, Joined, Asked
<1>7. \A p : Placed(pass, p)' <=> Placed(pass, p)
  BY <1>6 DEF Placed, Given, AskedAgain
<1>8. \A p : Ids(p)' = Ids(p) /\ (Named(p)' <=> Named(p)) /\ Group(pass, p)' = Group(pass, p)
  BY <1>5, <1>7 DEF Ids, Named, Group
(* Either x joins the record e, or nothing joins.                          *)
<1> DEFINE e == Head(plan.to)
           name == said[x].name
<1>9. CASE pass'.joined = pass.joined /\ pass'.owner = pass.owner
  <2>1. ASSUME NEW p \in Page, ByName(p)' PROVE SettledName(p)'
    <3>1. ByName(p)
      BY <1>5, <1>7, <1>8, <1>9, <2>1 DEF ByName
    <3>2. SettledName(p)
      BY <1>1, <3>1
    <3> QED BY <1>5, <1>6, <1>8, <1>9, <3>2 DEF SettledName
  <2> QED BY <1>5, <1>6, <2>1 DEF NamesOK
<1>10. CASE /\ plan.kind \in {"join", "create"}
            /\ pass'.joined = [pass.joined EXCEPT ![x] = e]
            /\ pass'.owner = [c \in Claim |-> IF c \in Claims(x) /\ pass.owner[c] = NoPage
                                              THEN e ELSE pass.owner[c]]
  <2> HIDE DEF e
  <2>1. /\ pass'.joined[x] = e
        /\ \A p \in Page \ {x} : pass'.joined[p] = pass.joined[p]
        /\ \A c \in Claim : pass.owner[c] # NoPage => pass'.owner[c] = pass.owner[c]
        /\ \A c \in Claims(x) \cap Claim : pass.owner[c] = NoPage => pass'.owner[c] = e
    BY <1>1, <1>4, <1>10 DEF PassOK
  <2>2. \A p \in Page : Named(p) => said[p].name \in Claim
    BY DEF NamesOK, Reading, Named, Claim
  <2>3. ASSUME Group(pass, x) = 3
        PROVE  /\ Named(x) /\ name \in Claim /\ name \in Claims(x) /\ ByItsName(pass, x, plan)
               /\ pass.owner[name] # NoPage => e = pass.owner[name]
               /\ pass.owner[name] = NoPage => e = x
    <3>1. Ids(x) = {} /\ ~Placed(pass, x)
      BY <2>3, Groups
    <3>2. Named(x) /\ ByItsName(pass, x, plan)
      BY <1>4, <1>10, <3>1, PlannedByName
    <3> QED BY <1>4, <2>2, <3>2 DEF ByItsName, Joins, Claims, e
  (* A page that had joined by its name before: x finds what it found.     *)
  <2>4. ASSUME NEW p \in Page, p # x, ByName(p)' PROVE SettledName(p)'
    <3>1. ByName(p)
      BY <1>5, <1>7, <1>8, <2>1, <2>4 DEF ByName
    <3>2. SettledName(p)
      BY <1>1, <3>1
    <3>3. Named(p) /\ said[p].name \in Claim /\ pass.owner[said[p].name] # NoPage
      BY <2>2, <3>1, <3>2 DEF ByName, SettledName
    <3>4. pass'.owner[said[p].name] = pass'.joined[p] /\ pass'.joined[p] = pass.joined[p]
      BY <2>1, <2>4, <3>2, <3>3 DEF SettledName
    <3>5. ASSUME NEW q \in Page, said[q].name = said[p].name, pass'.joined[q] # NoPage
          PROVE  pass'.joined[q] = pass.joined[p]
      <4>1. CASE q = x
        <5>1. Group(pass, x) = 3
          BY <3>2 DEF SettledName
        <5>2. e = pass.owner[said[p].name]
          BY <2>3, <3>3, <3>5, <4>1, <5>1
        <5> QED BY <2>1, <3>2, <4>1, <5>2 DEF SettledName
      <4>2. CASE q # x
        BY <2>1, <3>2, <3>5, <4>2 DEF SettledName
      <4> QED BY <4>1, <4>2
    <3>6. \A q \in pass.left \ {x} : Group(pass, q) = 3
      BY <3>2 DEF SettledName
    <3> QED BY <1>5, <1>6, <1>8, <3>3, <3>4, <3>5, <3>6 DEF SettledName
  (* x joins by its name: only pages like it are left.                     *)
  <2>5. ASSUME ByName(x)' PROVE SettledName(x)'
    <3>1. Group(pass, x) = 3 /\ e # NoPage
      BY <1>7, <1>8, <2>1, <2>5, Groups DEF ByName
    <3>2. pass'.owner[name] = e
      BY <2>1, <2>3, <3>1
    <3>3. ASSUME NEW q \in Page, said[q].name = name, pass'.joined[q] # NoPage
          PROVE  pass'.joined[q] = e
      BY <2>1, <2>3, <3>1, <3>3 DEF ByItsName
    <3>4. \A q \in pass.left \ {x} : Group(pass, q) = 3
      BY <1>2, <3>1, Groups DEF Before
    <3> QED BY <1>5, <1>6, <1>8, <2>1, <2>3, <3>1, <3>2, <3>3, <3>4 DEF SettledName
  <2> QED BY <1>5, <1>6, <2>4, <2>5 DEF NamesOK
<1> QED BY <1>6, <1>9, <1>10

(* No other step of a run, and no answer, changes what a resolution plans. *)
LEMMA StepKeepsNames ==
    ASSUME NamesOK, [Next]_vars
    PROVE  NamesOK'
<1>1. CASE BeginResolution
  BY <1>1, BegunNames
<1>2. CASE PlanPage
  BY <1>2, PlannedNames
<1>3. CASE UNCHANGED <<said, joined, pass, pc>>
  <2>1. PassOK' <=> PassOK
    BY <1>3 DEF PassOK
  <2>2. \A p : (Placed(pass, p)' <=> Placed(pass, p)) /\ Ids(p)' = Ids(p) /\ (Named(p)' <=> Named(p))
    BY <1>3 DEF Placed, Given, AskedAgain, Ids, Named
  <2>3. \A p : Group(pass, p)' = Group(pass, p)
    BY <2>2 DEF Group
  <2>4. \A p : (ByName(p)' <=> ByName(p)) /\ (SettledName(p)' <=> SettledName(p))
    BY <1>3, <2>2, <2>3 DEF ByName, SettledName
  <2> QED BY <1>3, <2>1, <2>4 DEF NamesOK
<1>4. CASE /\ said' \in [Page -> Reading]
           /\ joined' = [p \in Page |-> joined'[p]]
           /\ pc' # "plan"
  BY <1>4 DEF NamesOK
<1>5. ASSUME CommitResolution PROVE joined' = [p \in Page |-> joined'[p]] /\ UNCHANGED said /\ pc' # "plan"
  BY <1>5 DEF CommitResolution, NamesOK, PassOK, Goes, Lose
<1>6. ASSUME NEW p \in Page, Reread(p) PROVE said' \in [Page -> Reading] /\ UNCHANGED <<joined, pc>>
  <2>1. PICK r \in Reads[p] : said' = [said EXCEPT ![p] = r]
    BY <1>6 DEF Reread
  <2>2. r \in Reading
    BY ReadsAssumption
  <2> QED BY <1>6, <2>1, <2>2 DEF NamesOK, Reread, runVars
<1>7. CASE \/ StartRun \/ ReadQuestion \/ LeaveQuestion \/ Ask \/ Save \/ Judge \/ Review
           \/ StopShort \/ CutOff
  <2>1. UNCHANGED <<said, joined>> /\ pc' # "plan"
    BY <1>7 DEF StartRun, ReadQuestion, LeaveQuestion, NextQuestion, Ask, Save, Judge, Review,
                StopShort, CutOff
  <2> QED BY <1>4, <2>1 DEF NamesOK
<1>8. CASE \E p \in Page : Reread(p)
  BY <1>4, <1>6, <1>8 DEF NamesOK, Reread
<1>9. CASE CommitResolution
  BY <1>4, <1>5, <1>9 DEF NamesOK
<1>10. CASE People
  <2>1. UNCHANGED <<said, joined, pass, pc>>
    BY <1>10 DEF People, AnswerOpen, FlagOpen, FlagAnswered, ReplaceAnswer, runVars
  <2> QED BY <1>3, <2>1
<1>11. CASE UNCHANGED vars
  BY <1>3, <1>11 DEF vars, runVars
<1> QED BY <1>1, <1>2, <1>7, <1>8, <1>9, <1>10, <1>11 DEF Next, Run

(* A page that gives only a name, and that no verdict places, joins or     *)
(* starts a record only when no other record carries its name, the records *)
(* of the pages that join in the same resolution included.                 *)
NameStep ==
    \A p \in Page :
      joined[p] = NoPage /\ joined'[p] # NoPage /\ Ids(p) = {} /\ ~Placed(pass, p)
      => \A q \in Page : said[q].name = said[p].name /\ joined'[q] # NoPage
                           => joined'[q] = joined'[p]

LEMMA StepSettles ==
    ASSUME NamesOK, [Next]_vars
    PROVE  NameStep
<1>1. CASE CommitResolution
  BY <1>1 DEF CommitResolution, NamesOK, ByName, SettledName, NameStep
<1>2. CASE UNCHANGED joined
  BY <1>2 DEF NameStep
<1>3. ASSUME People PROVE UNCHANGED joined
  BY <1>3 DEF People, AnswerOpen, FlagOpen, FlagAnswered, ReplaceAnswer
<1>4. ASSUME Run, ~CommitResolution PROVE UNCHANGED joined
  BY <1>4 DEF Run, StartRun, BeginResolution, PlanPage, ReadQuestion, LeaveQuestion, Ask, Save,
              Judge, Review, StopShort, CutOff, Reread
<1> QED BY <1>1, <1>2, <1>3, <1>4 DEF Next, vars

THEOREM Settles == Spec => NameIsSettled
<1>1. Init => NamesOK
  BY DEF Init, NamesOK
<1>2. NamesOK /\ [Next]_vars => NamesOK' /\ NameStep
  BY StepKeepsNames, StepSettles
<1> QED BY <1>1, <1>2, PTL DEF Spec, NameIsSettled, NameStep

-----------------------------------------------------------------------------
(* Deciders.                                                               *)

DecisionShape(d) ==
    /\ d = [evidence |-> d.evidence, outcome |-> d.outcome, weighed |-> d.weighed,
            answer |-> d.answer, final |-> d.final]
    /\ d.answer \in Joining => d.outcome = "accepted"
UsedShape ==
    used = [runs |-> used.runs, rereads |-> used.rereads, answers |-> used.answers,
            lost |-> used.lost, cut |-> used.cut, torn |-> used.torn]
DecisionsOK ==
    /\ UsedShape /\ OfPairs
    /\ decisions = [s \in Pair |-> decisions[s]]
    /\ \A s \in Pair : DecisionShape(decisions[s])
    /\ pc \in {"ask", "save", "judge"} /\ Question \in Pair => DecisionShape(dec)
    /\ pc = "ask" => dec.answer = NoAnswer /\ dec.final = NoAnswer

(* A pair that a decider joined, and a decision that would.                *)
JoinedByDecider(s) == verdicts[s].who = "llm" /\ verdicts[s].verdict \in Joining
ByPerson(s) == verdicts[s].who = "person"
WouldJoin(d) == d.outcome = "accepted" /\ d.answer \in Joining /\ d.final = NoAnswer
Alone(s) == \A e \in Page \ {s[2]} : ~JoinedByDecider(<<s[1], e>>)

(* A decision that would join a page has been judged, unless the step that *)
(* made it is about to; and that step's page is joined to nothing else.    *)
AgreeOK ==
    "judge" \notin used.torn =>
      /\ \A s \in Pair : JoinedByDecider(s) => Alone(s)
      /\ \A s \in Pair : WouldJoin(decisions[s])
                           => JoinedByDecider(s) \/ ByPerson(s) \/ (pc = "judge" /\ Question = s)
      /\ pc = "judge" /\ Question \in Pair
         => dec.answer = decisions[Question].answer /\ dec.outcome = decisions[Question].outcome
      /\ pc \in {"save", "judge"} /\ Question \in Pair /\ WouldJoin(dec)
         => ByPerson(Question) \/ Alone(Question)
DecidersOK == DecisionsOK /\ AgreeOK

(* Steps that change no verdict and no decision.                           *)
LEMMA QuietSteps ==
    ASSUME DecidersOK, UNCHANGED <<verdicts, decisions>>, UsedShape', used.torn \subseteq used'.torn,
           \/ pc' \notin {"ask", "save", "judge"} /\ (pc = "judge" => "judge" \in used'.torn)
           \/ UNCHANGED <<pc, dec, todo>>
    PROVE  DecidersOK'
<1>1. UNCHANGED <<pc, dec, todo>> => DecisionsOK'
  BY DEF DecidersOK, DecisionsOK, OfPairs, DecisionShape, Question
<1>2. pc' \notin {"ask", "save", "judge"} => DecisionsOK'
  BY DEF DecidersOK, DecisionsOK, OfPairs, DecisionShape
<1>3. \A s : /\ JoinedByDecider(s)' <=> JoinedByDecider(s)
             /\ ByPerson(s)' <=> ByPerson(s)
             /\ Alone(s)' <=> Alone(s)
             /\ decisions'[s] = decisions[s]
  BY DEF JoinedByDecider, ByPerson, Alone
<1>4. UNCHANGED <<pc, dec, todo>> => AgreeOK'
  BY <1>3 DEF DecidersOK, AgreeOK, WouldJoin, Question
<1>5. pc' \notin {"ask", "save", "judge"} /\ (pc = "judge" => "judge" \in used'.torn) => AgreeOK'
  BY <1>3 DEF DecidersOK, AgreeOK, WouldJoin
<1> QED BY <1>1, <1>2, <1>4, <1>5 DEF DecidersOK

(* A question is read: an earlier decision that would join has been judged. *)
LEMMA ReadAgrees ==
    ASSUME DecidersOK, ReadQuestion
    PROVE  DecidersOK'
<1>1. /\ UNCHANGED <<verdicts, decisions, todo, used>> /\ pc = "match"
      /\ \/ pc' = "judge" /\ dec' = decisions[Question]
         \/ pc' = "ask" /\ \E x : dec' = [NoDecision EXCEPT !.evidence = x]
  BY DEF ReadQuestion
<1>2. Question' = Question
  BY <1>1 DEF Question
<1>3. ASSUME pc' = "ask" PROVE DecisionShape(dec') /\ dec'.answer = NoAnswer /\ dec'.final = NoAnswer
  BY <1>1, <1>3 DEF DecisionShape, NoDecision, NoAnswer, Joining
<1>4. DecisionsOK'
  BY <1>1, <1>2, <1>3 DEF DecidersOK, DecisionsOK, UsedShape, OfPairs, DecisionShape
<1>5. \A s : /\ JoinedByDecider(s)' <=> JoinedByDecider(s)
             /\ ByPerson(s)' <=> ByPerson(s)
             /\ Alone(s)' <=> Alone(s)
  BY <1>1 DEF JoinedByDecider, ByPerson, Alone
<1>6. AgreeOK'
  BY <1>1, <1>2, <1>5 DEF DecidersOK, AgreeOK, WouldJoin
<1> QED BY <1>4, <1>6 DEF DecidersOK

(* A decider's join is accepted only of a page that joins nothing else.    *)
LEMMA AskAgrees ==
    ASSUME DecidersOK, Ask
    PROVE  DecidersOK'
<1>1. UNCHANGED <<verdicts, decisions, todo, used>> /\ pc = "ask" /\ pc' = "save"
  BY DEF Ask
<1>2. Question' = Question
  BY <1>1 DEF Question
<1>3. dec' \in Cascade(OfPage, OfRecord) /\ dec.answer = NoAnswer /\ dec.final = NoAnswer
  BY <1>1 DEF Ask, DecidersOK, DecisionsOK
<1>4. \/ dec' = [dec EXCEPT !.outcome = "rule", !.answer = "not_same"]
      \/ \E b : dec' = Escalated(b)
      \/ \E v \in Verdict : dec' = Accepted(v) /\ (v \in Joining => ~JoinsAnother(OfPage, OfRecord))
  BY <1>3 DEF Cascade
<1>5. ASSUME Question \in Pair
      PROVE  DecisionShape(dec') /\ (WouldJoin(dec') => ~JoinsAnother(OfPage, OfRecord))
  <2>1. DecisionShape(dec)
    BY <1>1, <1>5 DEF DecidersOK, DecisionsOK
  <2> QED BY <1>3, <1>4, <2>1 DEF DecisionShape, WouldJoin, Escalated, Accepted, Joining, NoAnswer
<1>6. ~JoinsAnother(OfPage, OfRecord) => Alone(Question)
  BY DEF JoinsAnother, Alone, JoinedByDecider, OfPage, OfRecord
<1>7. DecisionsOK'
  BY <1>1, <1>2, <1>5 DEF DecidersOK, DecisionsOK, UsedShape, OfPairs, DecisionShape
<1>8. \A s : /\ JoinedByDecider(s)' <=> JoinedByDecider(s)
             /\ ByPerson(s)' <=> ByPerson(s)
             /\ Alone(s)' <=> Alone(s)
  BY <1>1 DEF JoinedByDecider, ByPerson, Alone
<1>9. Question \in Pair /\ WouldJoin(dec') => Alone(Question)
  BY <1>5, <1>6
<1>10. AgreeOK'
  BY <1>1, <1>2, <1>8, <1>9 DEF DecidersOK, AgreeOK, WouldJoin
<1> QED BY <1>7, <1>10 DEF DecidersOK

(* What is saved is about to be judged.                                    *)
LEMMA SaveAgrees ==
    ASSUME DecidersOK, Save
    PROVE  DecidersOK'
<1>1. /\ UNCHANGED <<verdicts, todo, used>> /\ pc = "save" /\ pc' = "judge"
      /\ \/ UNCHANGED decisions /\ dec' = decisions[Question]
         \/ decisions' = [decisions EXCEPT ![Question] = dec] /\ UNCHANGED dec
  BY DEF Save
<1>2. Question' = Question
  BY <1>1 DEF Question
<1>3. /\ decisions' = [s \in Pair |-> decisions'[s]]
      /\ \A s \in Pair : s # Question => decisions'[s] = decisions[s]
      /\ Question \in Pair => dec' = decisions'[Question]
  BY <1>1 DEF DecidersOK, DecisionsOK
<1>4. ASSUME Question \in Pair PROVE DecisionShape(dec')
  BY <1>1, <1>4 DEF DecidersOK, DecisionsOK
<1>5. \A s \in Pair : DecisionShape(decisions'[s])
  BY <1>3, <1>4 DEF DecidersOK, DecisionsOK
<1>6. DecisionsOK'
  BY <1>1, <1>2, <1>3, <1>4, <1>5 DEF DecidersOK, DecisionsOK, UsedShape, OfPairs, DecisionShape
<1>7. \A s : /\ JoinedByDecider(s)' <=> JoinedByDecider(s)
             /\ ByPerson(s)' <=> ByPerson(s)
             /\ Alone(s)' <=> Alone(s)
  BY <1>1 DEF JoinedByDecider, ByPerson, Alone
<1>8. ASSUME "judge" \notin used.torn, Question \in Pair, WouldJoin(dec')
      PROVE  ByPerson(Question) \/ Alone(Question)
  BY <1>1, <1>8 DEF DecidersOK, AgreeOK
<1>9. ASSUME "judge" \notin used.torn, NEW s \in Pair, WouldJoin(decisions'[s])
      PROVE  JoinedByDecider(s) \/ ByPerson(s) \/ Question = s
  BY <1>1, <1>3, <1>9 DEF DecidersOK, AgreeOK
<1>10. \A s \in Pair : WouldJoin(decisions[s])' <=> WouldJoin(decisions'[s])
  BY DEF WouldJoin
<1>11. AgreeOK'
  BY <1>1, <1>2, <1>3, <1>7, <1>8, <1>9, <1>10 DEF DecidersOK, AgreeOK, WouldJoin
<1> QED BY <1>6, <1>11 DEF DecidersOK

(* The judgement.                                                          *)
LEMMA JudgeAgrees ==
    ASSUME DecidersOK, Judge
    PROVE  DecidersOK'
<1>1. UNCHANGED <<decisions, todo, used>> /\ pc = "judge" /\ pc' = "review"
  BY DEF Judge
<1>2. DecisionsOK'
  <2>1. DOMAIN verdicts' = DOMAIN verdicts
    BY DEF Judge, Judged
  <2> QED BY <1>1, <2>1 DEF DecidersOK, DecisionsOK, UsedShape, OfPairs, DecisionShape
<1> SUFFICES ASSUME "judge" \notin used.torn PROVE AgreeOK'
  BY <1>1, <1>2 DEF DecidersOK, AgreeOK
<1>3. \A s \in Pair : s # Question => verdicts'[s] = verdicts[s]
  BY DEF Judge, Judged, DecidersOK, DecisionsOK, OfPairs
<1>4. ASSUME Question \in Pair, ~ByPerson(Question)
      PROVE  /\ AnswerOf(dec) = NoAnswer => verdicts'[Question].verdict = "unsure"
             /\ AnswerOf(dec) # NoAnswer =>
                  /\ verdicts'[Question].verdict = AnswerOf(dec)
                  /\ verdicts'[Question].who = IF dec.final # NoAnswer THEN "person"
                                               ELSE IF dec.outcome = "rule" THEN "rule" ELSE "llm"
  BY <1>4 DEF Judge, Judged, ByPerson, DecidersOK, DecisionsOK, OfPairs
(* It joins the page only by a decision that would.                        *)
<1>6. ASSUME Question \in Pair, verdicts'[Question].who = "llm", verdicts'[Question].verdict \in Joining
      PROVE  Alone(Question)
  <2>1. ~ByPerson(Question)
    <3>1. verdicts[Question].who = "person" => verdicts'[Question].who = "person"
      BY <1>6 DEF Judge, Judged, DecidersOK, DecisionsOK, OfPairs
    <3> QED BY <1>6, <3>1 DEF ByPerson
  <2>2. dec.final = NoAnswer /\ dec.answer \in Joining
    BY <1>4, <1>6, <2>1 DEF AnswerOf, Joining
  <2>3. DecisionShape(dec)
    BY <1>1, <1>6 DEF DecidersOK, DecisionsOK
  <2>4. WouldJoin(dec)
    BY <2>2, <2>3 DEF WouldJoin, DecisionShape
  <2> QED BY <1>1, <1>6, <2>1, <2>4 DEF DecidersOK, AgreeOK
<1>7. ASSUME NEW s \in Pair, verdicts'[s].who = "llm", verdicts'[s].verdict \in Joining,
             NEW e \in Page \ {s[2]},
             verdicts'[<<s[1], e>>].who = "llm", verdicts'[<<s[1], e>>].verdict \in Joining
      PROVE  FALSE
  <2> DEFINE t == <<s[1], e>>
  <2>1. t \in Pair /\ s = <<s[1], s[2]>> /\ s[1] \in Page /\ s[2] \in Page /\ t[1] = s[1] /\ t[2] = e
    BY <1>7 DEF Pair
  <2>2. CASE s = Question
    <3>1. t # Question
      BY <2>1, <2>2
    <3>2. verdicts[t].who = "llm" /\ verdicts[t].verdict \in Joining
      BY <1>3, <1>7, <2>1, <3>1
    <3>3. Alone(s)
      BY <1>6, <1>7, <2>2
    <3> QED BY <1>7, <3>2, <3>3 DEF Alone, JoinedByDecider
  <2>3. CASE s # Question
    <3>1. JoinedByDecider(s)
      BY <1>3, <1>7, <2>3 DEF JoinedByDecider
    <3>2. CASE t = Question
      <4>1. Alone(t)
        BY <1>6, <1>7, <2>1, <3>2
      <4>2. s[2] \in Page \ {t[2]} /\ s = <<t[1], s[2]>>
        BY <1>7, <2>1
      <4> QED BY <3>1, <4>1, <4>2 DEF Alone
    <3>3. CASE t # Question
      <4>1. JoinedByDecider(t)
        BY <1>3, <1>7, <2>1, <3>3 DEF JoinedByDecider
      <4>2. Alone(s)
        BY <3>1 DEF DecidersOK, AgreeOK
      <4> QED BY <1>7, <4>1, <4>2 DEF Alone
    <3> QED BY <3>2, <3>3
  <2> QED BY <2>2, <2>3
<1>8. \A s \in Pair : JoinedByDecider(s)' => Alone(s)'
  BY <1>7 DEF JoinedByDecider, Alone
(* A decision that would join is the one just judged, or was before.       *)
<1>9. ASSUME NEW s \in Pair, WouldJoin(decisions[s]) PROVE JoinedByDecider(s)' \/ ByPerson(s)'
  <2>1. CASE s # Question
    BY <1>1, <1>3, <1>9, <2>1 DEF DecidersOK, AgreeOK, JoinedByDecider, ByPerson
  <2>2. CASE s = Question
    <3>1. dec.answer \in Joining /\ dec.outcome = "accepted"
      BY <1>1, <1>9, <2>2 DEF DecidersOK, AgreeOK, WouldJoin
    <3>2. ByPerson(Question) => verdicts'[Question].who = "person"
      BY <2>2 DEF Judge, Judged, ByPerson, DecidersOK, DecisionsOK, OfPairs
    <3>3. ~ByPerson(Question) =>
            \/ verdicts'[Question].who = "person"
            \/ verdicts'[Question].who = "llm" /\ verdicts'[Question].verdict \in Joining
      BY <1>4, <2>2, <3>1 DEF AnswerOf, Joining, NoAnswer
    <3> QED BY <2>2, <3>2, <3>3 DEF JoinedByDecider, ByPerson
  <2> QED BY <2>1, <2>2
<1> QED BY <1>1, <1>8, <1>9 DEF AgreeOK, WouldJoin

(* People answer: a verdict becomes a person's, and a decision is theirs.  *)
LEMMA PeopleAgree ==
    ASSUME DecidersOK, People
    PROVE  DecidersOK'
<1>1. UNCHANGED <<pc, todo, dec>> /\ used' = [used EXCEPT !.answers = @ + 1]
  BY DEF People, AnswerOpen, FlagOpen, FlagAnswered, ReplaceAnswer, Answering, runVars
<1>2. UsedShape' /\ used'.torn = used.torn
  BY <1>1 DEF DecidersOK, DecisionsOK, UsedShape
<1>3. Question' = Question
  BY <1>1 DEF Question
<1>4. PICK s \in Pair : \E i \in DOMAIN reviews[s], v \in Verdict :
         \/ \E actor \in Actor : AnswerOpen(actor, s, i, v)
         \/ FlagOpen(s, i, v)
         \/ FlagAnswered(s, i, v)
         \/ ReplaceAnswer(s, i, v)
  BY DEF People
<1>5. CASE UNCHANGED <<verdicts, decisions>>
  BY <1>1, <1>2, <1>5, QuietSteps
<1>6. ASSUME NEW v \in Verdict, NEW row, TakesEffect(s, row, v) PROVE DecidersOK'
  <2>1. verdicts' = [verdicts EXCEPT ![s] = [verdict |-> v, who |-> "person"]]
    BY <1>6 DEF TakesEffect, Judged
  <2>2. decisions' = decisions \/ decisions' = [decisions EXCEPT ![s].final = v]
    BY <1>6 DEF TakesEffect
  <2>3. /\ verdicts'[s].who = "person"
        /\ \A t \in Pair : t # s => verdicts'[t] = verdicts[t]
        /\ OfPairs'
    BY <2>1 DEF DecidersOK, DecisionsOK, OfPairs
  <2>4. /\ decisions' = [t \in Pair |-> decisions'[t]]
        /\ \A t \in Pair : t # s => decisions'[t] = decisions[t]
        /\ decisions'[s] = decisions[s] \/ decisions'[s] = [decisions[s] EXCEPT !.final = v]
    BY <2>2 DEF DecidersOK, DecisionsOK
  <2>5. \A t \in Pair : DecisionShape(decisions'[t])
    BY <2>4 DEF DecidersOK, DecisionsOK, DecisionShape
  <2>6. \A t \in Pair : /\ decisions'[t].answer = decisions[t].answer
                        /\ decisions'[t].outcome = decisions[t].outcome
                        /\ t # s => decisions'[t].final = decisions[t].final
    BY <2>4 DEF DecidersOK, DecisionsOK, DecisionShape
  <2>7. DecisionsOK'
    BY <1>1, <1>2, <1>3, <2>3, <2>4, <2>5 DEF DecidersOK, DecisionsOK, DecisionShape
  <2> SUFFICES ASSUME "judge" \notin used.torn PROVE AgreeOK'
    BY <1>2, <2>7 DEF DecidersOK, AgreeOK
  <2>8. \A t \in Pair : /\ verdicts'[t].who = "llm" /\ verdicts'[t].verdict \in Joining
                             => JoinedByDecider(t)
                        /\ ByPerson(t) => verdicts'[t].who = "person"
    BY <2>3 DEF JoinedByDecider, ByPerson
  <2>9. \A t \in Pair : JoinedByDecider(t)' => JoinedByDecider(t)
    BY <2>8 DEF JoinedByDecider
  <2>10. ASSUME NEW t \in Pair, Alone(t) PROVE Alone(t)'
    <3>1. \A e \in Page \ {t[2]} : <<t[1], e>> \in Pair
      BY DEF Pair
    <3> QED BY <2>9, <2>10, <3>1 DEF Alone, JoinedByDecider
  <2>11. \A t \in Pair : JoinedByDecider(t)' => Alone(t)'
    BY <2>9, <2>10 DEF DecidersOK, AgreeOK
  <2>12. ASSUME NEW t \in Pair, WouldJoin(decisions'[t])
         PROVE  JoinedByDecider(t)' \/ ByPerson(t)' \/ (pc = "judge" /\ Question = t)
    <3>1. CASE t = s
      BY <2>3, <3>1 DEF ByPerson
    <3>2. CASE t # s
      BY <2>3, <2>4, <2>12, <3>2 DEF DecidersOK, AgreeOK, JoinedByDecider, ByPerson
    <3> QED BY <3>1, <3>2
  <2>13. pc = "judge" /\ Question \in Pair
         => dec.answer = decisions'[Question].answer /\ dec.outcome = decisions'[Question].outcome
    BY <2>6 DEF DecidersOK, AgreeOK
  <2>14. ASSUME pc \in {"save", "judge"}, Question \in Pair, WouldJoin(dec)
         PROVE  verdicts'[Question].who = "person" \/ Alone(Question)'
    <3>1. PICK t \in Pair : t = Question
      BY <2>14
    <3>2. ByPerson(t) \/ Alone(t)
      BY <2>14, <3>1 DEF DecidersOK, AgreeOK
    <3>3. verdicts'[t].who = "person" \/ Alone(t)'
      BY <2>8, <2>10, <3>2
    <3>4. Alone(t)' => Alone(Question)'
      BY <1>3, <3>1 DEF Alone
    <3> QED BY <3>1, <3>3, <3>4
  <2> QED BY <1>1, <1>3, <2>11, <2>12, <2>13, <2>14 DEF AgreeOK, WouldJoin, ByPerson
<1>7. \/ UNCHANGED <<verdicts, decisions>>
      \/ \E v \in Verdict, row \in {reviews[s][i] : i \in DOMAIN reviews[s]} : TakesEffect(s, row, v)
  BY <1>4 DEF AnswerOpen, FlagOpen, FlagAnswered, ReplaceAnswer
<1> QED BY <1>5, <1>6, <1>7

LEMMA StepAgrees ==
    ASSUME DecidersOK, [Next]_vars
    PROVE  DecidersOK'
<1>1. CASE ReadQuestion \/ Ask \/ Save \/ Judge \/ People
  BY <1>1, ReadAgrees, AskAgrees, SaveAgrees, JudgeAgrees, PeopleAgree
<1>2. UsedShape
  BY DEF DecidersOK, DecisionsOK
<1>3. CASE StartRun
  BY <1>2, <1>3, QuietSteps DEF StartRun, UsedShape
<1>4. CASE BeginResolution \/ PlanPage \/ LeaveQuestion
  BY <1>2, <1>4, QuietSteps DEF BeginResolution, PlanPage, LeaveQuestion, NextQuestion, UsedShape
<1>5. CASE CommitResolution
  BY <1>2, <1>5, QuietSteps DEF CommitResolution, Goes, Lose, UsedShape
<1>6. CASE Review
  BY <1>2, <1>6, QuietSteps DEF Review, NextQuestion, Lose, UsedShape
<1>7. CASE StopShort
  <2>1. /\ UNCHANGED <<verdicts, decisions>> /\ pc' = "match"
        /\ used' = [used EXCEPT !.lost = @ + 1, !.torn = @ \cup Torn]
    BY <1>7 DEF StopShort
  <2>2. UsedShape' /\ used'.torn = used.torn \cup Torn
    BY <1>2, <2>1 DEF UsedShape
  <2> QED BY <2>1, <2>2, QuietSteps DEF Torn
<1>8. CASE CutOff
  <2>1. /\ UNCHANGED <<verdicts, decisions>> /\ pc' = "idle"
        /\ used' = [used EXCEPT !.cut = @ + 1, !.torn = @ \cup Torn]
    BY <1>8 DEF CutOff
  <2>2. UsedShape' /\ used'.torn = used.torn \cup Torn
    BY <1>2, <2>1 DEF UsedShape
  <2> QED BY <2>1, <2>2, QuietSteps DEF Torn
<1>9. CASE \E p \in Page : Reread(p)
  BY <1>2, <1>9, QuietSteps DEF Reread, runVars, UsedShape
<1>10. CASE UNCHANGED vars
  BY <1>2, <1>10, QuietSteps DEF vars, runVars, UsedShape
<1> QED BY <1>1, <1>3, <1>4, <1>5, <1>6, <1>7, <1>8, <1>9, <1>10 DEF Next, Run

LEMMA InitAgrees == Init => DecidersOK
<1> SUFFICES ASSUME Init PROVE DecidersOK
  OBVIOUS
<1>1. DecisionShape(NoDecision) /\ ~WouldJoin(NoDecision)
  BY DEF DecisionShape, NoDecision, WouldJoin, NoAnswer, Joining
<1>2. DecisionsOK
  BY <1>1 DEF Init, DecisionsOK, UsedShape, OfPairs
<1>3. \A s \in Pair : ~JoinedByDecider(s)
  BY DEF Init, JoinedByDecider, NoVerdict
<1> QED BY <1>1, <1>2, <1>3 DEF Init, DecidersOK, AgreeOK

(* Deciders never join one page to two records, unless a step has ended    *)
(* between its decision and its judgement.                                 *)
THEOREM Agree == Spec => []DecidersAgree
<1>1. Init => DecidersOK
  BY InitAgrees
<1>2. DecidersOK /\ [Next]_vars => DecidersOK'
  BY StepAgrees
<1>3. DecidersOK => DecidersAgree
  <2> SUFFICES ASSUME DecidersOK, "judge" \notin used.torn,
                      NEW p \in Page, NEW e \in Page, NEW f \in Page,
                      JoinedByDecider(<<p, e>>), JoinedByDecider(<<p, f>>)
               PROVE  e = f
    BY DEF DecidersAgree, JoinedByDecider
  <2>1. Alone(<<p, e>>)
    BY DEF DecidersOK, AgreeOK, Pair
  <2> QED BY <2>1 DEF Alone
<1> QED BY <1>1, <1>2, <1>3, PTL DEF Spec
-----------------------------------------------------------------------------
(* Who waits.                                                              *)

(* A pair keeps its questions open, and gets none of its decision's own.   *)
KeepsRows(rs, new) ==
    /\ \A i \in DOMAIN rs : i \in DOMAIN new /\ (IsOpen(rs[i]) => IsOpen(new[i]))
    /\ \A i \in DOMAIN new : new[i].own => i \in DOMAIN rs /\ rs[i].own

(* Steps that leave verdicts, decisions and questions as they are.         *)
LEMMA QuietAsked ==
    ASSUME AskedInv, UNCHANGED <<verdicts, decisions, reviews>>, used.torn \subseteq used'.torn,
           \/ /\ pc' \notin {"save", "judge", "review"}
              /\ pc = "review" => "review" \in used'.torn
           \/ UNCHANGED <<pc, dec, todo>>
    PROVE  AskedInv'
<1>1. \A s : OpenRows(s)' = OpenRows(s)
  BY DEF OpenRows
<1>2. UnsureIsAsked'
  BY <1>1 DEF AskedInv, UnsureIsAsked, Question
<1>3. ClosedByPerson'
  BY DEF AskedInv, ClosedByPerson
<1>4. ActsOnDecision'
  BY DEF AskedInv, ActsOnDecision, Question, AnswerOf
<1> QED BY <1>2, <1>3, <1>4 DEF AskedInv

LEMMA ReadAsked ==
    ASSUME AskedInv, ReadQuestion
    PROVE  AskedInv'
<1>1. /\ UNCHANGED <<verdicts, decisions, reviews, todo, used>> /\ pc = "match"
      /\ \/ pc' = "judge" /\ dec' = decisions[Question]
         \/ pc' = "ask"
  BY DEF ReadQuestion
<1>2. \A s : OpenRows(s)' = OpenRows(s)
  BY <1>1 DEF OpenRows
<1>3. UnsureIsAsked'
  BY <1>1, <1>2 DEF AskedInv, UnsureIsAsked
<1>4. ClosedByPerson'
  BY <1>1 DEF AskedInv, ClosedByPerson
<1>5. ActsOnDecision'
  BY <1>1 DEF AskedInv, ClosedByPerson, ActsOnDecision, Question
<1> QED BY <1>3, <1>4, <1>5 DEF AskedInv

LEMMA AskAsked ==
    ASSUME AskedInv, DecisionsOK, Ask
    PROVE  AskedInv'
<1>1. UNCHANGED <<verdicts, decisions, reviews, todo, used>> /\ pc = "ask" /\ pc' = "save"
  BY DEF Ask
<1>2. \A s : OpenRows(s)' = OpenRows(s)
  BY <1>1 DEF OpenRows
<1>3. UnsureIsAsked'
  BY <1>1, <1>2 DEF AskedInv, UnsureIsAsked
<1>4. ClosedByPerson'
  BY <1>1 DEF AskedInv, ClosedByPerson
<1>5. ASSUME Question \in Pair PROVE dec'.answer \in Answer /\ dec'.final = NoAnswer
  <2>1. DecisionShape(dec) /\ dec.final = NoAnswer /\ dec.answer = NoAnswer
    BY <1>1, <1>5 DEF DecisionsOK
  <2>2. \/ dec' = [dec EXCEPT !.outcome = "rule", !.answer = "not_same"]
        \/ \E b : dec' = Escalated(b)
        \/ \E v \in Verdict : dec' = Accepted(v)
    BY <1>1 DEF Ask, Cascade
  <2> QED BY <2>1, <2>2 DEF DecisionShape, Escalated, Accepted, Answer, Verdict
<1>6. ActsOnDecision'
  BY <1>1, <1>5 DEF ActsOnDecision, Question
<1> QED BY <1>3, <1>4, <1>6 DEF AskedInv

(* A person's judgement is sure.                                           *)
LEMMA PersonIsSure == \A v \in Answer : v # NoAnswer => v # "unsure"
BY DEF Answer, Verdict, Joining

(* A new decision has no question of its own, and what was asked before    *)
(* stays open.                                                             *)
LEMMA SaveAsked ==
    ASSUME AskedInv, DecisionsOK, Rows, Save
    PROVE  AskedInv'
<1>1. UNCHANGED <<verdicts, todo, used>> /\ pc = "save" /\ pc' = "judge" /\ Question' = Question
  BY DEF Save, Question
<1>2. CASE UNCHANGED <<decisions, reviews>> /\ dec' = decisions[Question]
  <2>1. \A s : OpenRows(s)' = OpenRows(s)
    BY <1>2 DEF OpenRows
  <2>2. UnsureIsAsked' /\ ClosedByPerson'
    BY <1>1, <1>2, <2>1 DEF AskedInv, UnsureIsAsked, ClosedByPerson
  <2>3. ActsOnDecision'
    BY <1>1, <1>2 DEF AskedInv, ClosedByPerson, ActsOnDecision
  <2> QED BY <2>2, <2>3 DEF AskedInv
<1>3. CASE /\ decisions' = [decisions EXCEPT ![Question] = dec]
           /\ reviews' = [reviews EXCEPT ![Question] =
                            [i \in DOMAIN @ |-> [@[i] EXCEPT !.own = FALSE, !.current = FALSE]]]
           /\ UNCHANGED dec
  <2>1. ASSUME NEW s \in Pair, s # Question
        PROVE  decisions'[s] = decisions[s] /\ reviews'[s] = reviews[s]
    BY <1>3, <2>1 DEF DecisionsOK, Rows
  <2>2. ASSUME NEW s \in Pair, s = Question
        PROVE  /\ decisions'[s] = dec
               /\ DOMAIN reviews'[s] = DOMAIN reviews[s]
               /\ \A i \in DOMAIN reviews[s] : /\ reviews'[s][i].status = reviews[s][i].status
                                                /\ reviews'[s][i].own = FALSE
    <3>1. decisions'[s] = dec
      BY <1>3, <2>2 DEF DecisionsOK
    <3>2. reviews'[s] = [i \in DOMAIN reviews[s] |->
                           [reviews[s][i] EXCEPT !.own = FALSE, !.current = FALSE]]
      BY <1>3, <2>2 DEF Rows
    <3>3. ASSUME NEW i \in DOMAIN reviews[s]
          PROVE  reviews'[s][i].status = reviews[s][i].status /\ reviews'[s][i].own = FALSE
      <4>1. reviews[s][i] \in Row
        BY DEF Rows
      <4> QED BY <3>2, <4>1 DEF Row
    <3> QED BY <3>1, <3>2, <3>3
  <2>3. ASSUME NEW s \in Pair PROVE OpenRows(s)' = OpenRows(s)
    BY <2>1, <2>2 DEF OpenRows, IsOpen
  <2>4. UnsureIsAsked'
    BY <1>1, <2>3 DEF AskedInv, UnsureIsAsked
  <2>5. \A s \in Pair : s = Question => dec.answer \in Answer /\ dec.final = NoAnswer
    BY <1>1 DEF AskedInv, ActsOnDecision
  <2>6. ClosedByPerson'
    <3>1. ASSUME NEW s \in Pair, s = Question
          PROVE  /\ decisions'[s].final = NoAnswer
                 /\ decisions'[s].answer \in Answer /\ decisions'[s].final \in Answer
                 /\ \A i \in DOMAIN reviews'[s] : ~reviews'[s][i].own
      BY <2>2, <2>5, <3>1 DEF Answer
    <3>2. ASSUME NEW s \in Pair, s # Question
          PROVE  decisions'[s] = decisions[s] /\ reviews'[s] = reviews[s]
      BY <2>1, <3>2
    <3> QED BY <1>1, <3>1, <3>2 DEF AskedInv, ClosedByPerson
  <2>7. ActsOnDecision'
    BY <1>1, <1>3, <2>2, <2>5 DEF ActsOnDecision, Answer
  <2> QED BY <2>4, <2>6, <2>7 DEF AskedInv
<1> QED BY <1>2, <1>3 DEF Save

(* The judgement says unsure only where the question comes next.           *)
LEMMA JudgeAsked ==
    ASSUME AskedInv, DecisionsOK, Judge
    PROVE  AskedInv'
<1>1. /\ UNCHANGED <<decisions, reviews, todo, used, dec>> /\ pc = "judge" /\ pc' = "review"
      /\ Question' = Question
  BY DEF Judge, Question
<1>2. \A s \in Pair : s # Question => verdicts'[s] = verdicts[s]
  BY DEF Judge, Judged, DecisionsOK, OfPairs
<1>3. ASSUME NEW s \in Pair, s = Question, verdicts[s].who = "person"
      PROVE  verdicts'[s].who = "person" /\ verdicts'[s].verdict # "unsure"
  <2>1. \/ verdicts'[s] = verdicts[s]
        \/ dec.final # NoAnswer /\ verdicts'[s] = [verdict |-> dec.final, who |-> "person"]
    BY <1>3 DEF Judge, Judged, AnswerOf, DecisionsOK, OfPairs
  <2>2. verdicts[s].verdict # "unsure"
    BY <1>3 DEF AskedInv, UnsureIsAsked
  <2>3. dec.final # NoAnswer => dec.final # "unsure"
    BY <1>1, <1>3, PersonIsSure DEF AskedInv, ActsOnDecision
  <2> QED BY <1>3, <2>1, <2>2, <2>3
<1>4. ASSUME NEW s \in Pair, s = Question, verdicts[s].who # "person"
      PROVE  /\ dec.final = NoAnswer /\ dec.answer = decisions[s].answer
             /\ dec.answer = NoAnswer =>
                  verdicts'[s] = [verdict |-> "unsure", who |-> IF dec.weighed THEN "llm" ELSE "rule"]
             /\ dec.answer # NoAnswer => verdicts'[s].verdict = dec.answer
  <2>1. dec.final = NoAnswer /\ dec.answer = decisions[s].answer
    BY <1>1, <1>4 DEF AskedInv, ActsOnDecision
  <2> QED BY <1>4, <2>1 DEF Judge, Judged, AnswerOf, DecisionsOK, OfPairs
<1>5. \A s : OpenRows(s)' = OpenRows(s)
  BY <1>1 DEF OpenRows
<1>6. UnsureIsAsked'
  <2> SUFFICES ASSUME NEW s \in Pair, verdicts'[s].verdict = "unsure"
               PROVE  /\ verdicts'[s].who # "person"
                      /\ OpenRows(s) # {} \/ Question = s \/ "review" \in used.torn
    BY <1>1, <1>5 DEF UnsureIsAsked
  <2>1. CASE s # Question
    BY <1>1, <1>2, <2>1 DEF AskedInv, UnsureIsAsked
  <2>2. CASE s = Question
    <3>1. verdicts[s].who # "person"
      BY <1>3, <2>2
    <3>2. dec.answer = NoAnswer
      BY <1>4, <2>2, <3>1 DEF AskedInv, ClosedByPerson, Answer, Verdict, Joining, NoAnswer
    <3> QED BY <1>4, <2>2, <3>1, <3>2
  <2> QED BY <2>1, <2>2
<1>7. ClosedByPerson'
  <2>1. \A s \in Pair : verdicts[s].who = "person" => verdicts'[s].who = "person"
    BY <1>2, <1>3
  <2> QED BY <1>1, <2>1 DEF AskedInv, ClosedByPerson
<1>8. ActsOnDecision'
  <2> SUFFICES ASSUME NEW s \in Pair, Question = s
               PROVE  /\ dec.answer = decisions[s].answer /\ dec.final \in Answer
                      /\ dec.final # NoAnswer => verdicts'[s].who = "person"
                      /\ AnswerOf(dec) # NoAnswer => verdicts'[s].verdict # "unsure"
    BY <1>1 DEF ActsOnDecision, AnswerOf
  <2>1. /\ dec.answer = decisions[s].answer /\ dec.final \in Answer
        /\ dec.final # NoAnswer => verdicts[s].who = "person"
    BY <1>1 DEF AskedInv, ActsOnDecision
  <2>2. CASE verdicts[s].who = "person"
    BY <1>3, <2>1, <2>2
  <2>3. CASE verdicts[s].who # "person"
    BY <1>4, <2>1, <2>3
       DEF AskedInv, ClosedByPerson, AnswerOf, Answer, Verdict, Joining
  <2> QED BY <2>2, <2>3
<1> QED BY <1>6, <1>7, <1>8 DEF AskedInv

(* A question is opened for what is unsure, and dismissed for what is not. *)
LEMMA ReviewAsked ==
    ASSUME AskedInv, DecisionsOK, Rows, Review
    PROVE  AskedInv'
<1>1. /\ UNCHANGED <<verdicts, decisions>> /\ pc = "review" /\ pc' \notin {"save", "judge", "review"}
      /\ reviews' = Reviewed(dec)
  BY DEF Review, NextQuestion
<1>2. used'.torn = used.torn
  BY DEF Review, Lose, DecisionsOK, UsedShape
<1>3. ActsOnDecision'
  BY <1>1 DEF ActsOnDecision
<1>4. ASSUME NEW s \in Pair, s # Question PROVE reviews'[s] = reviews[s]
  BY <1>1, <1>4 DEF Reviewed, OpenedReview, DismissedReview, Rows
<1>5. ASSUME NEW s \in Pair, s = Question
      PROVE  /\ \A i \in DOMAIN reviews[s] : reviews[s][i] \in Row /\ i \in Nat
             /\ dec.answer = decisions[s].answer
             /\ dec.final # NoAnswer => verdicts[s].who = "person"
             /\ AnswerOf(dec) # NoAnswer => verdicts[s].verdict # "unsure"
  BY <1>1, <1>5 DEF Rows, AskedInv, ActsOnDecision
(* What is dismissed is the question of a decision a person made final.    *)
<1>6. ASSUME NEW s \in Pair, s = Question, AnswerOf(dec) # NoAnswer
      PROVE  /\ verdicts[s].verdict # "unsure"
             /\ \A i \in DOMAIN reviews'[s] : reviews'[s][i].own =>
                   decisions[s].answer = NoAnswer /\ verdicts[s].who = "person"
  <2>1. reviews'[s] = [i \in DOMAIN reviews[s] |->
                         IF IsOpen(reviews[s][i]) /\ ~reviews[s][i].flagged
                         THEN [reviews[s][i] EXCEPT !.status = "dismissed"] ELSE reviews[s][i]]
    BY <1>1, <1>6 DEF Reviewed, DismissedReview, Rows
  <2>2. \A i \in DOMAIN reviews'[s] : i \in DOMAIN reviews[s] /\ reviews'[s][i].own = reviews[s][i].own
    BY <1>5, <1>6, <2>1 DEF Row
  <2>3. \A i \in DOMAIN reviews'[s] : reviews'[s][i].own => decisions[s].answer = NoAnswer
    BY <2>2 DEF AskedInv, ClosedByPerson
  <2>4. decisions[s].answer = NoAnswer => verdicts[s].who = "person"
    BY <1>5, <1>6 DEF AnswerOf
  <2> QED BY <1>5, <1>6, <2>3, <2>4
<1>7. ASSUME NEW s \in Pair, s = Question, AnswerOf(dec) = NoAnswer
      PROVE  /\ verdicts[s].verdict = "unsure" => OpenRows(s)' # {}
             /\ \A i \in DOMAIN reviews'[s] : reviews'[s][i].own =>
                   decisions[s].answer = NoAnswer /\ (IsOpen(reviews'[s][i]) \/ verdicts[s].who = "person")
  <2>1. decisions[s].answer = NoAnswer
    BY <1>5, <1>7 DEF AnswerOf
  <2>2. reviews' = OpenedReview(s)
    BY <1>1, <1>7 DEF Reviewed
  <2>3. CASE \E i \in DOMAIN reviews[s] : reviews[s][i].own /\ ~IsOpen(reviews[s][i])
    <3>1. reviews' = reviews
      BY <2>2, <2>3 DEF OpenedReview
    <3>2. verdicts[s].who = "person"
      BY <2>3 DEF AskedInv, ClosedByPerson
    <3>3. verdicts[s].verdict # "unsure"
      BY <3>2 DEF AskedInv, UnsureIsAsked
    <3> QED BY <2>1, <3>2, <3>3
  <2>4. CASE /\ ~\E i \in DOMAIN reviews[s] : reviews[s][i].own /\ ~IsOpen(reviews[s][i])
             /\ OpenRows(s) # {}
    <3>1. reviews'[s] = [i \in DOMAIN reviews[s] |->
             IF IsOpen(reviews[s][i]) THEN [reviews[s][i] EXCEPT !.current = TRUE] ELSE reviews[s][i]]
      BY <2>2, <2>4 DEF OpenedReview, Rows
    <3>2. /\ DOMAIN reviews'[s] = DOMAIN reviews[s]
          /\ \A i \in DOMAIN reviews[s] : /\ reviews'[s][i].status = reviews[s][i].status
                                           /\ reviews'[s][i].own = reviews[s][i].own
      BY <1>5, <1>7, <3>1 DEF Row
    <3>3. OpenRows(s)' = OpenRows(s)
      BY <3>2 DEF OpenRows, IsOpen
    <3> QED BY <2>1, <2>4, <3>2, <3>3 DEF IsOpen
  <2>5. CASE /\ ~\E i \in DOMAIN reviews[s] : reviews[s][i].own /\ ~IsOpen(reviews[s][i])
             /\ OpenRows(s) = {}
    <3>1. reviews'[s] = Append(reviews[s], NewRow) /\ reviews[s] \in Seq(Row)
      BY <2>2, <2>5 DEF OpenedReview, Rows
    <3>2. /\ DOMAIN reviews'[s] = 1..(Len(reviews[s]) + 1) /\ Len(reviews[s]) \in Nat
          /\ reviews'[s][Len(reviews[s]) + 1] = NewRow
          /\ \A i \in DOMAIN reviews'[s] : i # Len(reviews[s]) + 1 =>
                i \in DOMAIN reviews[s] /\ reviews'[s][i] = reviews[s][i]
      BY <3>1, NewRowTyped
    <3>3. IsOpen(NewRow)
      BY DEF NewRow, IsOpen
    <3>4. Len(reviews[s]) + 1 \in OpenRows(s)'
      BY <3>2, <3>3 DEF OpenRows, IsOpen
    <3>5. \A i \in DOMAIN reviews'[s] : reviews'[s][i].own => IsOpen(reviews'[s][i])
      BY <2>5, <3>2, <3>3
    <3> QED BY <2>1, <3>4, <3>5
  <2> QED BY <2>3, <2>4, <2>5
<1>8. UnsureIsAsked'
  <2> SUFFICES ASSUME NEW s \in Pair, verdicts[s].verdict = "unsure"
               PROVE  /\ verdicts[s].who # "person"
                      /\ OpenRows(s)' # {} \/ "review" \in used.torn
    BY <1>1, <1>2 DEF UnsureIsAsked
  <2>1. verdicts[s].who # "person" /\ (s = Question \/ OpenRows(s) # {} \/ "review" \in used.torn)
    BY DEF AskedInv, UnsureIsAsked
  <2>2. s # Question => OpenRows(s)' = OpenRows(s)
    BY <1>4 DEF OpenRows
  <2>3. s = Question => OpenRows(s)' # {}
    BY <1>6, <1>7
  <2> QED BY <2>1, <2>2, <2>3
<1>9. ClosedByPerson'
  <2> SUFFICES ASSUME NEW s \in Pair, NEW i \in DOMAIN reviews'[s], reviews'[s][i].own
               PROVE  /\ decisions[s].answer = NoAnswer
                      /\ IsOpen(reviews'[s][i]) \/ verdicts[s].who = "person"
    BY <1>1 DEF AskedInv, ClosedByPerson
  <2>1. CASE s # Question
    BY <1>4, <2>1 DEF AskedInv, ClosedByPerson
  <2>2. CASE s = Question
    BY <1>6, <1>7, <2>2
  <2> QED BY <2>1, <2>2
<1> QED BY <1>3, <1>8, <1>9 DEF AskedInv

(* People answer, which leaves nothing unsure, or ask again.               *)
LEMMA PeopleAsked ==
    ASSUME AskedInv, DecisionsOK, Rows, People
    PROVE  AskedInv'
<1>1. UNCHANGED <<pc, todo, dec>> /\ used' = [used EXCEPT !.answers = @ + 1]
  BY DEF People, AnswerOpen, FlagOpen, FlagAnswered, ReplaceAnswer, Answering, runVars
<1>2. used'.torn = used.torn /\ Question' = Question
  BY <1>1 DEF DecisionsOK, UsedShape, Question
<1>3. PICK s \in Pair : \E i \in DOMAIN reviews[s], v \in Verdict :
         \/ \E actor \in Actor : AnswerOpen(actor, s, i, v)
         \/ FlagOpen(s, i, v)
         \/ FlagAnswered(s, i, v)
         \/ ReplaceAnswer(s, i, v)
  BY DEF People
<1>4. PICK i \in DOMAIN reviews[s], v \in Verdict :
         \/ \E actor \in Actor : AnswerOpen(actor, s, i, v)
         \/ FlagOpen(s, i, v)
         \/ FlagAnswered(s, i, v)
         \/ ReplaceAnswer(s, i, v)
  BY <1>3
<1> DEFINE rs == reviews[s]
           new == reviews'[s]
<1>5. /\ rs \in Seq(Row) /\ rs[i] \in Row /\ i \in Nat
      /\ \A t \in Pair : t # s => reviews'[t] = reviews[t]
  BY <1>4 DEF Rows, AnswerOpen, FlagOpen, FlagAnswered, ReplaceAnswer
<1>6. CASE UNCHANGED <<verdicts, decisions>> /\ KeepsRows(rs, new)
  <2>1. \A t \in Pair : OpenRows(t) # {} => OpenRows(t)' # {}
    BY <1>5, <1>6 DEF OpenRows, KeepsRows
  <2>2. UnsureIsAsked'
    BY <1>1, <1>2, <1>6, <2>1 DEF AskedInv, UnsureIsAsked
  <2>3. ClosedByPerson'
    BY <1>5, <1>6 DEF AskedInv, ClosedByPerson, KeepsRows
  <2>4. ActsOnDecision'
    BY <1>1, <1>2, <1>6 DEF AskedInv, ActsOnDecision, AnswerOf
  <2> QED BY <2>2, <2>3, <2>4 DEF AskedInv
<1>7. ASSUME NEW row, TakesEffect(s, row, v),
             \A j \in DOMAIN new : new[j].own => j \in DOMAIN rs /\ rs[j].own
      PROVE  AskedInv'
  <2>1. verdicts' = [verdicts EXCEPT ![s] = [verdict |-> v, who |-> "person"]]
    BY <1>7 DEF TakesEffect, Judged
  <2>2. /\ verdicts'[s].verdict = v /\ verdicts'[s].who = "person"
        /\ \A t \in Pair : t # s => verdicts'[t] = verdicts[t]
    BY <2>1 DEF DecisionsOK, OfPairs
  <2>3. v # "unsure"
    BY DEF Verdict, Joining
  <2>4. /\ \A t \in Pair : t # s => decisions'[t] = decisions[t]
        /\ decisions'[s] = decisions[s] \/ decisions'[s] = [decisions[s] EXCEPT !.final = v]
    BY <1>7 DEF TakesEffect, DecisionsOK
  <2>5. /\ decisions'[s].answer = decisions[s].answer
        /\ decisions'[s].final = decisions[s].final \/ decisions'[s].final \in Answer
    BY <2>4 DEF DecisionsOK, DecisionShape, Answer
  <2>6. \A t \in Pair : t # s => OpenRows(t)' = OpenRows(t)
    BY <1>5 DEF OpenRows
  <2>7. UnsureIsAsked'
    BY <1>1, <1>2, <2>2, <2>3, <2>6 DEF AskedInv, UnsureIsAsked
  <2>8. ClosedByPerson'
    BY <1>5, <1>7, <2>2, <2>4, <2>5 DEF AskedInv, ClosedByPerson
  <2>9. ActsOnDecision'
    BY <1>1, <1>2, <2>2, <2>3, <2>4, <2>5 DEF AskedInv, ActsOnDecision, AnswerOf
  <2> QED BY <2>7, <2>8, <2>9 DEF AskedInv
<1>8. CASE \E actor \in Actor : AnswerOpen(actor, s, i, v)
  <2>1. PICK actor \in Actor : AnswerOpen(actor, s, i, v)
    BY <1>8
  <2>2. new = [rs EXCEPT ![i] = Decided(rs[i], v, actor)]
    BY <2>1 DEF AnswerOpen, Rows
  <2>3. Decided(rs[i], v, actor).own = rs[i].own
    BY <1>5 DEF Decided, Row
  <2>4. \A j \in DOMAIN new : new[j].own => j \in DOMAIN rs /\ rs[j].own
    BY <1>5, <2>2, <2>3
  <2>5. TakesEffect(s, rs[i], v)
    BY <2>1 DEF AnswerOpen
  <2> QED BY <1>7, <2>4, <2>5
<1>9. CASE FlagOpen(s, i, v)
  <2>1. UNCHANGED <<verdicts, decisions>> /\ new = [rs EXCEPT ![i] = [rs[i] EXCEPT !.flagged = TRUE]]
    BY <1>9 DEF FlagOpen, Rows
  <2>2. /\ [rs[i] EXCEPT !.flagged = TRUE].own = rs[i].own
        /\ [rs[i] EXCEPT !.flagged = TRUE].status = rs[i].status
    BY <1>5 DEF Row
  <2>3. KeepsRows(rs, new)
    BY <1>5, <2>1, <2>2 DEF KeepsRows, IsOpen
  <2> QED BY <1>6, <2>1, <2>3
<1>10. Copy(rs[i], i) \in Row /\ ~Copy(rs[i], i).own
  <2>1. Copy(rs[i], i) \in Row
    BY <1>5, RowCopied
  <2> QED BY <1>5, <2>1 DEF Copy, Row
<1>11. ASSUME NEW row \in Row, new = Append(rs, row), ~row.own PROVE KeepsRows(rs, new)
  BY <1>5, <1>11 DEF KeepsRows
<1>12. CASE FlagAnswered(s, i, v)
  <2>1. UNCHANGED <<verdicts, decisions>> /\ new = Append(rs, Copy(rs[i], i))
    BY <1>12 DEF FlagAnswered, Rows
  <2>2. KeepsRows(rs, new)
    BY <1>10, <1>11, <2>1
  <2> QED BY <1>6, <2>1, <2>2
<1>13. CASE ReplaceAnswer(s, i, v)
  <2> DEFINE row == Decided(Copy(rs[i], i), v, "owner")
  <2>1. new = Append(rs, row) /\ TakesEffect(s, rs[i], v)
    BY <1>13 DEF ReplaceAnswer, Rows
  <2>2. row \in Row /\ ~row.own
    BY <1>10, RowCloses DEF Actor, Decided, Row
  <2>3. KeepsRows(rs, new)
    BY <1>11, <2>1, <2>2
  <2> QED BY <1>7, <2>1, <2>3 DEF KeepsRows
<1> QED BY <1>4, <1>8, <1>9, <1>12, <1>13

LEMMA StepAsks ==
    ASSUME AskedInv, DecisionsOK, Rows, [Next]_vars
    PROVE  AskedInv'
<1>1. CASE ReadQuestion \/ Ask \/ Save \/ Judge \/ Review \/ People
  BY <1>1, ReadAsked, AskAsked, SaveAsked, JudgeAsked, ReviewAsked, PeopleAsked
<1>2. UsedShape
  BY DEF DecisionsOK
<1>3. CASE StartRun
  BY <1>2, <1>3, QuietAsked DEF StartRun, UsedShape
<1>4. CASE BeginResolution \/ PlanPage \/ LeaveQuestion
  BY <1>2, <1>4, QuietAsked DEF BeginResolution, PlanPage, LeaveQuestion, NextQuestion
<1>5. CASE CommitResolution
  BY <1>2, <1>5, QuietAsked DEF CommitResolution, Goes, Lose, UsedShape
<1>6. CASE StopShort
  <2>1. /\ UNCHANGED <<verdicts, decisions, reviews>> /\ pc' = "match"
        /\ used' = [used EXCEPT !.lost = @ + 1, !.torn = @ \cup Torn]
    BY <1>6 DEF StopShort
  <2>2. used'.torn = used.torn \cup Torn
    BY <1>2, <2>1 DEF UsedShape
  <2> QED BY <2>1, <2>2, QuietAsked DEF Torn
<1>7. CASE CutOff
  <2>1. /\ UNCHANGED <<verdicts, decisions, reviews>> /\ pc' = "idle"
        /\ used' = [used EXCEPT !.cut = @ + 1, !.torn = @ \cup Torn]
    BY <1>7 DEF CutOff
  <2>2. used'.torn = used.torn \cup Torn
    BY <1>2, <2>1 DEF UsedShape
  <2> QED BY <2>1, <2>2, QuietAsked DEF Torn
<1>8. CASE \E p \in Page : Reread(p)
  BY <1>2, <1>8, QuietAsked DEF Reread, runVars, UsedShape
<1>9. CASE UNCHANGED vars
  BY <1>9, QuietAsked DEF vars, runVars
<1> QED BY <1>1, <1>3, <1>4, <1>5, <1>6, <1>7, <1>8, <1>9 DEF Next, Run

(* A page a resolution lets wait has a pair judged unsure, but for one it  *)
(* holds back for its name.                                                *)
LEMMA WaitsForVerdict ==
    ASSUME NEW w, NEW p \in Page, NEW plan \in Plans(w, p),
           plan.kind \notin {"join", "create", "ask", "dispute", "unresolvable"}
    PROVE  \/ Pending(w, p) # {}
           \/ Ids(p) = {} /\ said[p].name \in w.contested /\ Named(p)
<1>1. ASSUME Claims(p) = {} PROVE plan.kind = "unresolvable"
  BY <1>1 DEF Plans
<1>2. CASE Claims(p) # {} /\ Same(w, p) # {}
  <2>1. plan \in PlanByVerdict(w, p)
    BY <1>2 DEF Plans
  <2> QED BY <2>1 DEF PlanByVerdict, Joins
<1>3. CASE Claims(p) # {} /\ Same(w, p) = {} /\ Ids(p) = {} /\ said[p].name \in w.contested
  BY <1>3 DEF Claims
<1>4. CASE /\ Claims(p) # {} /\ Same(w, p) = {}
           /\ ~(Ids(p) = {} /\ said[p].name \in w.contested)
  <2>1. plan \in PlanByClaims(w, p)
    BY <1>4 DEF Plans
  <2>2. ASSUME NEW e, plan \in {IF e \in Pending(w, p) THEN Waits ELSE Joins(e)} PROVE Pending(w, p) # {}
    BY <2>2 DEF Joins
  <2>3. ASSUME plan \in PlanBySimilarity(w, p) PROVE Pending(w, p) # {}
    <3>1. \/ plan = [kind |-> "create", to |-> <<p>>]
          \/ \E q : plan = IF \E i \in 1..Len(q) : q[i] \in Pending(w, p) THEN Waits ELSE AsksAbout(q)
      BY <2>3 DEF PlanBySimilarity
    <3> QED BY <3>1 DEF AsksAbout
  <2>4. ASSUME NEW e, plan \in PlanByName(w, p, e) PROVE Pending(w, p) # {}
    <3>1. \/ e \in Pending(w, p)
          \/ \E q : plan = IF \E i \in 1..Len(q) : q[i] \in Pending(w, p) THEN Waits ELSE AsksAbout(q)
          \/ plan = AsksAbout(<<e>>)
          \/ plan = Joins(e)
      BY <2>4 DEF PlanByName
    <3> QED BY <3>1 DEF AsksAbout, Joins
  <2> QED BY <2>1, <2>2, <2>3, <2>4 DEF PlanByClaims
<1> QED BY <1>1, <1>2, <1>3, <1>4

(* What a resolution that began now would read.                            *)
LEMMA ViewReads ==
    ASSUME NEW can
    PROVE  /\ View(can).joined = joined /\ View(can).judged = verdicts
           /\ \A n \in View(can).contested :
                \E read : /\ read.joined = joined /\ read.judged = verdicts
                          /\ Contested(read, n)
BY DEF View, NoPass

(* A page that is held back for its name is held by another that carries   *)
(* it, and is asked about or says which it is.                             *)
LEMMA HeldByAnother ==
    ASSUME NEW w, NEW p \in Page, Ids(p) = {}, Contested(w, said[p].name)
    PROVE  \E q \in Unjoined(w) : /\ said[q].name = said[p].name
                                  /\ Pending(w, q) # {} \/ Ids(q) # {}
BY DEF Contested

(* A pair a resolution finds pending has a question open.                  *)
LEMMA PendingIsAsked ==
    ASSUME NEW w, NEW p \in Page, w.judged = verdicts, Pending(w, p) # {},
           UnsureIsAsked, pc = "idle", "review" \notin used.torn
    PROVE  HasQuestion(p)
<1>1. PICK e \in Page : verdicts[<<p, e>>].verdict = "unsure"
  BY DEF Pending, Given
<1> QED BY <1>1 DEF UnsureIsAsked, HasQuestion, Pair

LEMMA AskedHelps == AskedInv => NobodyWaitsInVain
<1> SUFFICES ASSUME AskedInv, pc = "idle", "review" \notin used.torn
             PROVE  EveryPageIsHelped
  BY DEF NobodyWaitsInVain
<1> DEFINE w == View(mode = "asks")
<1>1. w.joined = joined /\ w.judged = verdicts
  BY ViewReads
<1>2. \A p \in Page : Pending(w, p) # {} => HasQuestion(p)
  BY <1>1, PendingIsAsked DEF AskedInv
<1> HIDE DEF w
<1>3. ASSUME NEW q \in Page, Ids(q) # {} PROVE IsHelped(w, q)
  BY <1>2, <1>3, WaitsForVerdict DEF IsHelped, OnItsWay
<1>4. ASSUME NEW p \in Unjoined(w), ~IsHelped(w, p)
      PROVE  \E q \in Unjoined(w) \ {p} : said[q].name = said[p].name /\ IsHelped(w, q)
  <2>1. p \in Page /\ ~HasQuestion(p)
    BY <1>4 DEF Unjoined, IsHelped
  <2>2. Ids(p) = {} /\ said[p].name \in w.contested
    BY <1>2, <1>4, <2>1, WaitsForVerdict DEF IsHelped, OnItsWay
  <2>3. PICK read : /\ read.joined = joined /\ read.judged = verdicts
                    /\ Contested(read, said[p].name)
    BY <2>2, ViewReads DEF w
  <2>4. PICK q \in Unjoined(read) : /\ said[q].name = said[p].name
                                    /\ Pending(read, q) # {} \/ Ids(q) # {}
    BY <2>1, <2>2, <2>3, HeldByAnother
  <2>5. q \in Page /\ q \in Unjoined(w)
    BY <1>1, <2>3, <2>4 DEF Unjoined
  <2>6. IsHelped(w, q)
    <3>1. CASE Ids(q) # {}
      BY <1>3, <2>5, <3>1
    <3>2. CASE Pending(read, q) # {}
      BY <2>3, <2>5, <3>2, PendingIsAsked DEF AskedInv, IsHelped
    <3> QED BY <2>4, <3>1, <3>2
  <2> QED BY <1>4, <2>4, <2>5, <2>6
<1> QED BY <1>4 DEF EveryPageIsHelped, w

(* Between runs a page that waits has a question open that a person can    *)
(* answer, or stands behind a page of its name that has a way on.          *)
THEOREM NobodyWaits == Spec => []NobodyWaitsInVain
<1> DEFINE I == DecidersOK /\ Rows /\ AskedInv
<1>1. Init => I
  <2> SUFFICES ASSUME Init PROVE I
    OBVIOUS
  <2>1. DecidersOK /\ Rows
    BY InitAgrees DEF Init, Rows
  <2>2. \A s \in Pair : verdicts[s] = NoVerdict /\ decisions[s] = NoDecision /\ reviews[s] = <<>>
    BY DEF Init
  <2>3. UnsureIsAsked /\ ClosedByPerson
    BY <2>2 DEF UnsureIsAsked, ClosedByPerson, NoVerdict, NoDecision, Answer
  <2>4. ActsOnDecision
    BY DEF Init, ActsOnDecision
  <2> QED BY <2>1, <2>3, <2>4 DEF AskedInv
<1>2. I /\ [Next]_vars => I'
  BY StepAgrees, StepKeepsRows, StepAsks DEF DecidersOK
<1>3. I => NobodyWaitsInVain
  BY AskedHelps
<1> QED BY <1>1, <1>2, <1>3, PTL DEF Spec
=============================================================================
