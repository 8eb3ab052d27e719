------------------------------ MODULE Matching ------------------------------
(***************************************************************************)
(* Matching: which record each page of a dataset belongs to.  A run's      *)
(* resolution joins the pages that are not joined yet, or lets them wait   *)
(* with questions (platform/store/src/entities.ts, core/src/matching.ts);  *)
(* its match steps put the questions to a rule, a decider, or a person     *)
(* (worker/src/match.ts, store/src/decisions.ts); and the owner and a      *)
(* consumer's reviewer answer, disagree and are replaced                   *)
(* (worker/src/review.ts), while runs go on.                               *)
(*                                                                         *)
(* A resolution is one transaction that reads the verdicts as it begins    *)
(* and commits what it joined at its end.  A match step is several: it     *)
(* reads, asks, saves its decision, judges, and opens or dismisses the     *)
(* question, and may be carried out again from its beginning.  A person's  *)
(* answer is one transaction, and may come between any two of these.       *)
(*                                                                         *)
(* All pages are live, of one record type with one kind of identifier and  *)
(* one key, and within one scope (for products, one brand).  A record is   *)
(* the page it was started for: a page starts at most one.                 *)
(***************************************************************************)
EXTENDS Integers, FiniteSets, Sequences

CONSTANTS
    Page,
    NoPage,
    Order,          \* where each page comes by source and address
    Id,             \* identifiers
    Name,
    NoName,
    Reads,          \* what reading a page may find: its identifiers, its name, and
                    \* whether its site refuses AI input
    Alike,          \* pairs of names at least MATCH_SIMILARITY alike
    Marks,          \* pairs of names that differ only by model marks
    Mode,           \* "asks" (a decider is asked), "none" (there is none), or
                    \* "barred" (the dataset does not allow AI input)
    MaxCandidates,  \* MAX_MATCH_CANDIDATES
    MaxQuestions,   \* MAX_MATCH_QUESTIONS
    MaxRuns,        \* bound: runs
    MaxRereads,     \* bound: pages that change
    MaxAnswers,     \* bound: answers people give
    MaxRows,        \* bound: questions a pair has, where people disagree
    MaxFaults       \* bound: steps carried out again, and runs cut off

Claim == Id \cup Name
Pair == Page \X Page
Reading == [ids : SUBSET Id, name : Name \cup {NoName}, refuses : BOOLEAN]

Joining == {"same", "edition"}
Verdict == Joining \cup {"not_same"}
NoAnswer == "no answer"
Answer == Verdict \cup {NoAnswer}

ASSUME PageAssumption == NoPage \notin Page /\ IsFiniteSet(Page)
ASSUME OrderAssumption ==
    /\ Order \in [Page -> Nat]
    /\ \A p, q \in Page : Order[p] = Order[q] => p = q
ASSUME NameAssumption == NoName \notin Name /\ Id \cap Name = {}
ASSUME ReadsAssumption == Reads \in [Page -> (SUBSET Reading) \ {{}}]
ASSUME ModeAssumption == Mode \subseteq {"asks", "none", "barred"} /\ Mode # {}
ASSUME BoundAssumption ==
    /\ MaxCandidates \in Nat \ {0} /\ MaxQuestions \in Nat
    /\ MaxRuns \in Nat /\ MaxRereads \in Nat /\ MaxAnswers \in Nat /\ MaxRows \in Nat
    /\ MaxFaults \in Nat

VARIABLES
    said,           \* each page's surviving values
    joined,         \* each page's record
    owner,          \* the record that owns each claim
    verdicts,       \* the judgement on each page and record
    decisions,      \* the current decision about each pair
    reviews,        \* the questions each pair has had, oldest first
    \* The run.
    pc,
    mode,
    again,          \* whether its questions have been asked, and it resolves again
    pass,           \* the resolution that is under way
    todo,           \* the questions left to ask
    dec,            \* the decision the match step acts on
    made,           \* the pairs this run has saved a decision about
    used            \* how often each bound has been used

runVars == <<pc, mode, again, pass, todo, dec, made>>
vars == <<said, joined, owner, verdicts, decisions, reviews, runVars, used>>

NoVerdict == [verdict |-> "none", who |-> "none"]
NoDecision == [evidence |-> {}, outcome |-> "none", weighed |-> FALSE, answer |-> NoAnswer,
               final |-> NoAnswer]
NoPass == [left |-> {}, joined |-> [p \in Page |-> NoPage], owner |-> [c \in Claim |-> NoPage],
           judged |-> [s \in Pair |-> NoVerdict], can |-> FALSE, contested |-> {},
           fresh |-> <<>>, askedAgain |-> <<>>]

Init ==
    /\ said \in {f \in [Page -> Reading] : \A p \in Page : f[p] \in Reads[p]}
    /\ joined = [p \in Page |-> NoPage]
    /\ owner = [c \in Claim |-> NoPage]
    /\ verdicts = [s \in Pair |-> NoVerdict]
    /\ decisions = [s \in Pair |-> NoDecision]
    /\ reviews = [s \in Pair |-> <<>>]
    /\ pc = "idle"
    /\ mode \in Mode
    /\ again = FALSE
    /\ pass = NoPass
    /\ todo = <<>>
    /\ dec = NoDecision
    /\ made = {}
    /\ used = [runs |-> 0, rereads |-> 0, answers |-> 0, lost |-> 0, cut |-> 0, torn |-> {}]

-----------------------------------------------------------------------------
(* What pages and records say.                                             *)

Ids(p) == said[p].ids
Named(p) == said[p].name # NoName
Claims(p) == Ids(p) \cup (IF Named(p) THEN {said[p].name} ELSE {})

(* In a resolution's view w, or in the state itself.                       *)
Members(w, e) == {p \in Page : w.joined[p] = e}
Records(w) == {w.joined[p] : p \in Page} \ {NoPage}
IdsOf(w, e) == UNION {Ids(p) : p \in Members(w, e)}
NamesOf(w, e) == {said[p].name : p \in Members(w, e)} \ {NoName}

(* identifiersDisagree                                                     *)
Disagree(a, b) == a # {} /\ b # {} /\ a \cap b = {}

SimilarNames(n, m) == n = m \/ <<n, m>> \in Alike \/ <<m, n>> \in Alike
DifferByMarks(n, m) == <<n, m>> \in Marks \/ <<m, n>> \in Marks

-----------------------------------------------------------------------------
(* planMatch: what to do with a page that is not joined yet.               *)

(* "Unsure by rule" means no decider was asked. It is no answer once one   *)
(* can be.                                                                 *)
AskedAgain(w, s) == w.can /\ w.judged[s].verdict = "unsure" /\ w.judged[s].who = "rule"
Given(w, p, V) == {e \in Page : w.judged[<<p, e>>].verdict \in V /\ ~AskedAgain(w, <<p, e>>)}
Same(w, p) == Given(w, p, Joining)
Apart(w, p) == Given(w, p, {"not_same"})
Pending(w, p) == Given(w, p, {"unsure"})
Chosen(w, p) == {e \in Same(w, p) : w.judged[<<p, e>>].who = "person"}

(* A name's claim is contested: contestedNames.                            *)
Unjoined(w) == {p \in Page : w.joined[p] = NoPage}
Contested(w, n) ==
    LET own == w.owner[n]
        carriers == {p \in Unjoined(w) : said[p].name = n}
        given == {Ids(p) : p \in {q \in carriers : Ids(q) # {}}}
        theirs == IF own = NoPage THEN {} ELSE IdsOf(w, own)
    IN  \/ own # NoPage /\ \E p \in carriers : own \in Pending(w, p)
        \/ given # {} /\ \E a, b \in given \cup {theirs} : Disagree(a, b)

(* The first few of a set of records, in some order: closest first, which  *)
(* the names tell, or by ID, which are random.                             *)
FirstFew(S, k) ==
    LET size == IF Cardinality(S) < k THEN Cardinality(S) ELSE k
    IN  {f \in [1..size -> S] : \A i, j \in 1..size : f[i] = f[j] => i = j}

Waits == [kind |-> "wait", to |-> <<>>]
Joins(e) == [kind |-> "join", to |-> <<e>>]
AsksAbout(q) == [kind |-> "ask", to |-> q]

(* By a verdict that joins the page, when there is one.                    *)
PlanByVerdict(w, p) ==
    LET same == Same(w, p) IN
    IF Cardinality(Chosen(w, p)) = 1 THEN {Joins(e) : e \in Chosen(w, p)}
    ELSE IF Cardinality(same) > 1 THEN {[kind |-> "dispute", to |-> <<>>]}
    ELSE IF Pending(w, p) = {} THEN {Joins(e) : e \in same}
    ELSE {Waits}

(* By a name that record e owns.  (PlanByOwner: its owner takes the page,  *)
(* whoever else carries the name.)                                         *)
PlanByOwner(w, p, e) ==
    IF e \in Pending(w, p) THEN {Waits}
    ELSE IF Disagree(Ids(p), IdsOf(w, e)) THEN {AsksAbout(<<e>>)}
    ELSE {Joins(e)}

PlanByName(w, p, e) ==
    LET sharing == {x \in Records(w) : said[p].name \in NamesOf(w, x)} \ ({e} \cup Apart(w, p))
        asked == {<<e>> \o f : f \in FirstFew(sharing, MaxCandidates - 1)}
    IN
    IF e \in Pending(w, p) THEN {Waits}
    ELSE IF sharing # {}
    THEN {IF \E i \in 1..Len(q) : q[i] \in Pending(w, p) THEN Waits ELSE AsksAbout(q) : q \in asked}
    ELSE IF Disagree(Ids(p), IdsOf(w, e)) THEN {AsksAbout(<<e>>)}
    ELSE {Joins(e)}

(* By names like its own.                                                  *)
PlanBySimilarity(w, p) ==
    LET similar == {x \in Records(w) \ Apart(w, p) :
                      Named(p) /\ \E n \in NamesOf(w, x) : SimilarNames(said[p].name, n)}
    IN
    IF similar = {} THEN {[kind |-> "create", to |-> <<p>>]}
    ELSE {IF \E i \in 1..Len(q) : q[i] \in Pending(w, p) THEN Waits ELSE AsksAbout(q)
            : q \in FirstFew(similar, MaxCandidates)}

(* Identifiers outrank names; a verdict keeps the page from a record.      *)
OwnersOf(w, p, C) == ({w.owner[c] : c \in C} \ {NoPage}) \ Apart(w, p)
PlanByClaims(w, p) ==
    LET byId == OwnersOf(w, p, Ids(p))
        byName == OwnersOf(w, p, Claims(p) \ Ids(p))
    IN
    IF byId # {} THEN {IF e \in Pending(w, p) THEN Waits ELSE Joins(e) : e \in byId}
    ELSE IF byName # {} THEN UNION {PlanByName(w, p, e) : e \in byName}
    ELSE PlanBySimilarity(w, p)

Plans(w, p) ==
    IF Claims(p) = {} THEN {[kind |-> "unresolvable", to |-> <<>>]}
    ELSE IF Same(w, p) # {} THEN PlanByVerdict(w, p)
    ELSE IF Ids(p) = {} /\ said[p].name \in w.contested
    THEN {IF Pending(w, p) # {} THEN Waits ELSE [kind |-> "hold", to |-> <<>>]}
    ELSE PlanByClaims(w, p)

-----------------------------------------------------------------------------
(* resolveEntities                                                         *)

(* Pages already joined claim what nobody owns first, in their order.      *)
Claimed(c) ==
    LET givers == {p \in Page : joined[p] # NoPage /\ c \in Claims(p)}
        first == CHOOSE p \in givers : \A q \in givers : Order[p] <= Order[q]
    IN  IF owner[c] = NoPage /\ givers # {} THEN joined[first] ELSE owner[c]

(* The other pages go in three groups: those that give identifiers, those  *)
(* placed by a verdict, and the rest.                                      *)
Placed(w, p) == Given(w, p, Verdict) # {}
Group(w, p) == IF Ids(p) # {} THEN 1 ELSE IF Placed(w, p) THEN 2 ELSE 3
Before(w, p, q) ==
    \/ Group(w, p) < Group(w, q)
    \/ Group(w, p) = Group(w, q) /\ Order[p] < Order[q]

(* The state as a resolution that begins now reads it.                     *)
View(can) ==
    LET read == [NoPass EXCEPT !.joined = joined, !.owner = owner, !.judged = verdicts, !.can = can]
    IN  [read EXCEPT !.contested = {n \in Name : Contested(read, n)},
                     !.owner = [c \in Claim |-> Claimed(c)],
                     !.left = Unjoined(read)]

(* A run starts, and later its resolution, or its second one.              *)
StartRun ==
    /\ pc = "idle" /\ used.runs < MaxRuns
    /\ used' = [used EXCEPT !.runs = @ + 1]
    /\ pc' = "resolve"
    /\ mode' \in Mode
    /\ again' = FALSE
    /\ made' = {}
    /\ UNCHANGED <<said, joined, owner, verdicts, decisions, reviews, pass, todo, dec>>

BeginResolution ==
    /\ pc = "resolve"
    /\ pass' = View(mode = "asks")
    /\ pc' = "plan"
    /\ UNCHANGED <<said, joined, owner, verdicts, decisions, reviews, mode, again, todo, dec, made, used>>

(* A page joins: the record owns what the page claims and nobody owns.     *)
Joined(w, p, e) ==
    [w EXCEPT !.left = @ \ {p}, !.joined[p] = e,
              !.owner = [c \in Claim |-> IF c \in Claims(p) /\ @[c] = NoPage THEN e ELSE @[c]]]

(* A page's questions follow those of the pages before it.                 *)
Asked(w, p, q) ==
    LET pairs == [i \in 1..Len(q) |-> <<p, q[i]>>]
        old(s) == AskedAgain(w, s)
        new(s) == ~AskedAgain(w, s)
    IN  [w EXCEPT !.left = @ \ {p}, !.fresh = @ \o SelectSeq(pairs, new),
                  !.askedAgain = @ \o SelectSeq(pairs, old)]

PlanPage ==
    /\ pc = "plan"
    /\ \E p \in pass.left :
         /\ \A q \in pass.left \ {p} : Before(pass, p, q)
         /\ \E plan \in Plans(pass, p) :
              pass' = CASE plan.kind \in {"join", "create"} -> Joined(pass, p, Head(plan.to))
                        [] plan.kind = "ask" -> Asked(pass, p, plan.to)
                        [] OTHER -> [pass EXCEPT !.left = @ \ {p}]
    /\ UNCHANGED <<said, joined, owner, verdicts, decisions, reviews, pc, mode, again, todo, dec, made, used>>

(* A step's result is lost, so that it is carried out once more.           *)
Lose ==
    /\ used.lost + used.cut < MaxFaults
    /\ used' = [used EXCEPT !.lost = @ + 1]

(* What a step does next: go on, or once more from its beginning.          *)
Goes(on, start) ==
    \/ pc' = on /\ UNCHANGED used
    \/ pc' = start /\ Lose

Questions(w) ==
    LET all == w.fresh \o w.askedAgain
    IN  SubSeq(all, 1, IF Len(all) < MaxQuestions THEN Len(all) ELSE MaxQuestions)

CommitResolution ==
    /\ pc = "plan" /\ pass.left = {}
    /\ joined' = pass.joined
    /\ owner' = pass.owner
    /\ IF again \/ Questions(pass) = <<>>
       THEN Goes("idle", "resolve") /\ UNCHANGED todo
       ELSE Goes("match", "resolve") /\ todo' = Questions(pass)
    /\ pass' = NoPass
    /\ UNCHANGED <<said, verdicts, decisions, reviews, mode, again, dec, made>>

-----------------------------------------------------------------------------
(* matchItem: one question, in a step of its own.                          *)

Question == Head(todo)
OfPage == Question[1]
OfRecord == Question[2]

(* matchSides, as what a question is asked on: the values of the page and  *)
(* of the record's pages, and which of these are editions.                 *)
Evidence(p, e) ==
    {<<p, Ids(p), said[p].name, "page">>}
    \cup {<<q, Ids(q), said[q].name,
            IF verdicts[<<q, e>>].verdict = "edition" THEN "edition" ELSE "member">> :
            q \in {x \in Page : joined[x] = e}}

Consent(p, e) == mode # "barred" /\ \A q \in {p} \cup {x \in Page : joined[x] = e} : ~said[q].refuses
CanAsk(p, e) == Consent(p, e) /\ mode = "asks"

(* modelNumberRule, asked before any decider.                              *)
Rule(p, e) ==
    LET names == {said[x].name : x \in {y \in Page : joined[y] = e}} \ {NoName}
    IN  Named(p) /\ names # {} /\ \A n \in names : DifferByMarks(said[p].name, n)

(* stands: whether an earlier decision still answers the question.         *)
Stands(d, p, e) ==
    \/ d.final # NoAnswer \/ d.outcome = "rule"
    \/ d.outcome = "accepted" /\ Consent(p, e)
    \/ d.outcome = "escalated" /\ (d.weighed \/ ~CanAsk(p, e))

NextQuestion ==
    /\ todo' = Tail(todo)
    /\ again' = (Tail(todo) = <<>>)
    /\ pc' = IF Tail(todo) = <<>> THEN "resolve" ELSE "match"

(* It reads both sides, and looks for an earlier decision on them.         *)
ReadQuestion ==
    /\ pc = "match"
    /\ LET d == decisions[Question] evidence == Evidence(OfPage, OfRecord) IN
       IF d.outcome # "none" /\ d.evidence = evidence /\ Stands(d, OfPage, OfRecord)
       THEN dec' = d /\ pc' = "judge"
       ELSE dec' = [NoDecision EXCEPT !.evidence = evidence] /\ pc' = "ask"
    /\ UNCHANGED <<said, joined, owner, verdicts, decisions, reviews, mode, again, pass, todo, made, used>>

(* The run's budget is spent, or the decider fails: asked the next run.    *)
LeaveQuestion ==
    /\ pc = "ask"
    /\ CanAsk(OfPage, OfRecord) /\ ~Rule(OfPage, OfRecord)
    /\ NextQuestion
    /\ dec' = NoDecision
    /\ UNCHANGED <<said, joined, owner, verdicts, decisions, reviews, mode, pass, made, used>>

(* What the cascade comes to.  A decider's join about a page judged to     *)
(* join another record is not accepted.  (CascadeAlone: it is.)            *)
Accepted(v) == [dec EXCEPT !.outcome = "accepted", !.weighed = TRUE, !.answer = v]
Escalated(weighed) == [dec EXCEPT !.outcome = "escalated", !.weighed = weighed]
JoinsAnother(p, e) == \E x \in Page \ {e} : verdicts[<<p, x>>].verdict \in Joining
CascadeAlone(p, e) ==
    IF Rule(p, e) THEN {[dec EXCEPT !.outcome = "rule", !.answer = "not_same"]}
    ELSE IF ~CanAsk(p, e) THEN {Escalated(FALSE)}
    ELSE {Escalated(FALSE), Escalated(TRUE)} \cup {Accepted(v) : v \in Verdict}

Cascade(p, e) ==
    IF Rule(p, e) THEN {[dec EXCEPT !.outcome = "rule", !.answer = "not_same"]}
    ELSE IF ~CanAsk(p, e) THEN {Escalated(FALSE)}
    ELSE {Escalated(FALSE), Escalated(TRUE)}
         \cup {Accepted(v) : v \in {x \in Verdict : x \in Joining => ~JoinsAnother(p, e)}}

Ask ==
    /\ pc = "ask"
    /\ dec' \in Cascade(OfPage, OfRecord)
    /\ pc' = "save"
    /\ UNCHANGED <<said, joined, owner, verdicts, decisions, reviews, mode, again, pass, todo, made, used>>

(* saveDecision: the newest is the pair's current decision, and the        *)
(* questions asked before are about an earlier one.  A step that runs      *)
(* again gets back what it saved.                                          *)
Save ==
    /\ pc = "save"
    /\ IF Question \in made
       THEN dec' = decisions[Question] /\ UNCHANGED <<decisions, reviews, made>>
       ELSE /\ decisions' = [decisions EXCEPT ![Question] = dec]
            /\ reviews' = [reviews EXCEPT ![Question] =
                             [i \in DOMAIN @ |-> [@[i] EXCEPT !.own = FALSE, !.current = FALSE]]]
            /\ made' = made \cup {Question}
            /\ UNCHANGED dec
    /\ pc' = "judge"
    /\ UNCHANGED <<said, joined, owner, verdicts, mode, again, pass, todo, used>>

(* judge: only a person replaces a person's verdict.  (JudgedLast: the     *)
(* last one counts.)                                                       *)
JudgedLast(s, v, who) ==
    verdicts' = [verdicts EXCEPT ![s] = [verdict |-> v, who |-> who]]

Judged(s, v, who) ==
    verdicts' = IF verdicts[s].who = "person" /\ who # "person" THEN verdicts
                ELSE [verdicts EXCEPT ![s] = [verdict |-> v, who |-> who]]

(* applyVerdict: the judgement first.                                      *)
AnswerOf(d) == IF d.final # NoAnswer THEN d.final ELSE d.answer
Judge ==
    /\ pc = "judge"
    /\ IF AnswerOf(dec) = NoAnswer
       THEN Judged(Question, "unsure", IF dec.weighed THEN "llm" ELSE "rule")
       ELSE Judged(Question, AnswerOf(dec), IF dec.final # NoAnswer THEN "person"
                                            ELSE IF dec.outcome = "rule" THEN "rule" ELSE "llm")
    /\ pc' = "review"
    /\ UNCHANGED <<said, joined, owner, decisions, reviews, mode, again, pass, todo, dec, made, used>>

IsOpen(r) == r.status = "open"
OpenRows(s) == {i \in DOMAIN reviews[s] : IsOpen(reviews[s][i])}

(* openReview: a question whose ID is the decision's stays as it is once   *)
(* it is closed; an open one about the pair moves to the decision.         *)
NewRow == [status |-> "open", flagged |-> FALSE, answer |-> NoAnswer, by |-> "none", copyOf |-> 0,
           own |-> TRUE, current |-> TRUE]
OpenedReview(s) ==
    IF \E i \in DOMAIN reviews[s] : reviews[s][i].own /\ ~IsOpen(reviews[s][i]) THEN reviews
    ELSE IF OpenRows(s) # {}
    THEN [reviews EXCEPT ![s] = [i \in DOMAIN @ |->
            IF IsOpen(@[i]) THEN [@[i] EXCEPT !.current = TRUE] ELSE @[i]]]
    ELSE [reviews EXCEPT ![s] = Append(@, NewRow)]

(* dismissReviews: a flagged question waits for the owner.                 *)
(* (DismissedAll: it is dismissed with the others.)                        *)
DismissedAll(s) ==
    [reviews EXCEPT ![s] = [i \in DOMAIN @ |->
        IF IsOpen(@[i]) THEN [@[i] EXCEPT !.status = "dismissed"] ELSE @[i]]]

DismissedReview(s) ==
    [reviews EXCEPT ![s] = [i \in DOMAIN @ |->
        IF IsOpen(@[i]) /\ ~@[i].flagged THEN [@[i] EXCEPT !.status = "dismissed"] ELSE @[i]]]

(* applyVerdict: then the question.  (ReviewedWeighed: only of what a      *)
(* decider weighed.)                                                       *)
ReviewedWeighed(d) ==
    IF AnswerOf(d) # NoAnswer THEN DismissedReview(Question)
    ELSE IF d.weighed THEN OpenedReview(Question) ELSE reviews

Reviewed(d) ==
    IF AnswerOf(d) # NoAnswer THEN DismissedReview(Question) ELSE OpenedReview(Question)

Review ==
    /\ pc = "review"
    /\ reviews' = Reviewed(dec)
    /\ \/ NextQuestion /\ UNCHANGED used
       \/ Lose /\ pc' = "match" /\ UNCHANGED <<todo, again>>
    /\ dec' = NoDecision
    /\ UNCHANGED <<said, joined, owner, verdicts, decisions, mode, pass, made>>

(* Where a step may end after its first write and before its last.         *)
Torn == {pc} \cap {"judge", "review"}

(* A match step stops short and is carried out again.  One that has not    *)
(* saved its decision leaves nothing behind, nor does a resolution that    *)
(* has not committed.                                                      *)
StopShort ==
    /\ pc \in {"judge", "review"} /\ used.lost + used.cut < MaxFaults
    /\ used' = [used EXCEPT !.lost = @ + 1, !.torn = @ \cup Torn]
    /\ pc' = "match"
    /\ dec' = NoDecision
    /\ UNCHANGED <<said, joined, owner, verdicts, decisions, reviews, mode, again, pass, todo, made>>

(* A run fails, or is cut off.                                             *)
CutOff ==
    /\ pc # "idle" /\ used.lost + used.cut < MaxFaults
    /\ used' = [used EXCEPT !.cut = @ + 1, !.torn = @ \cup Torn]
    /\ pc' = "idle"
    /\ pass' = NoPass
    /\ todo' = <<>>
    /\ dec' = NoDecision
    /\ UNCHANGED <<said, joined, owner, verdicts, decisions, reviews, mode, again, made>>

(* Before a run resolves, reading a page again may find other values.      *)
Reread(p) ==
    /\ pc = "idle" /\ used.rereads < MaxRereads
    /\ used' = [used EXCEPT !.rereads = @ + 1]
    /\ said' \in {[said EXCEPT ![p] = r] : r \in Reads[p] \ {said[p]}}
    /\ UNCHANGED <<joined, owner, verdicts, decisions, reviews, runVars>>

-----------------------------------------------------------------------------
(* answerReview: the owner, and a consumer's reviewer.                     *)

Actor == {"owner", "reviewer"}
Answering ==
    /\ used.answers < MaxAnswers
    /\ used' = [used EXCEPT !.answers = @ + 1]

(* refuseSecondRecord: a page joins one record.                            *)
Refused(s, v) ==
    /\ v \in Joining
    /\ \/ \E e \in Page \ {s[2]} : verdicts[<<s[1], e>>].verdict \in Joining /\ verdicts[<<s[1], e>>].who = "person"
       \/ joined[s[1]] \notin {NoPage, s[2]}

(* finalizeDecision, of the decision the question is about, and answerMatch. *)
TakesEffect(s, row, v) ==
    /\ decisions' = IF row.current THEN [decisions EXCEPT ![s].final = v] ELSE decisions
    /\ Judged(s, v, "person")

Decided(row, v, actor) == [row EXCEPT !.status = "decided", !.answer = v, !.by = actor]

(* An open question is answered: answerOptionIn.                           *)
AnswerOpen(actor, s, i, v) ==
    LET row == reviews[s][i] IN
    /\ Answering
    /\ IsOpen(row)
    /\ row.flagged => actor = "owner"
    /\ ~Refused(s, v)
    /\ reviews' = [reviews EXCEPT ![s][i] = Decided(row, v, actor)]
    /\ TakesEffect(s, row, v)
    /\ UNCHANGED <<said, joined, owner, runVars>>

(* A reviewer's answer that the owner would be refused goes to the owner.  *)
FlagOpen(s, i, v) ==
    LET row == reviews[s][i] IN
    /\ Answering
    /\ IsOpen(row) /\ ~row.flagged
    /\ Refused(s, v)
    /\ reviews' = [reviews EXCEPT ![s][i].flagged = TRUE]
    /\ UNCHANGED <<said, joined, owner, verdicts, decisions, runVars>>

(* reopenFlagged: an open copy, flagged, unless another question is open.  *)
Copy(row, i) == [row EXCEPT !.status = "open", !.flagged = TRUE, !.answer = NoAnswer, !.by = "none",
                            !.copyOf = i, !.own = FALSE]
Reopens(s, i, v) ==
    /\ reviews[s][i].status = "decided" /\ reviews[s][i].answer # v
    /\ OpenRows(s) = {}
    /\ Len(reviews[s]) < MaxRows

(* A reviewer answers otherwise than a person did: flagAnswered.           *)
FlagAnswered(s, i, v) ==
    /\ Answering
    /\ Reopens(s, i, v)
    /\ reviews' = [reviews EXCEPT ![s] = Append(@, Copy(@[i], i))]
    /\ UNCHANGED <<said, joined, owner, verdicts, decisions, runVars>>

(* The owner replaces a reviewer's answer, by answering a copy of the      *)
(* question at once: replaceAnswer.                                        *)
AnsweredAgain(s, i) == \E j \in DOMAIN reviews[s] : reviews[s][j].copyOf = i /\ reviews[s][j].by = "owner"
ReplaceAnswer(s, i, v) ==
    LET row == reviews[s][i] IN
    /\ Answering
    /\ Reopens(s, i, v)
    /\ row.by # "owner" /\ ~AnsweredAgain(s, i)
    /\ ~Refused(s, v)
    /\ reviews' = [reviews EXCEPT ![s] = Append(@, Decided(Copy(row, i), v, "owner"))]
    /\ TakesEffect(s, row, v)
    /\ UNCHANGED <<said, joined, owner, runVars>>

Run ==
    \/ StartRun \/ BeginResolution \/ PlanPage \/ CommitResolution
    \/ ReadQuestion \/ LeaveQuestion \/ Ask \/ Save \/ Judge \/ Review
    \/ StopShort \/ CutOff
    \/ \E p \in Page : Reread(p)

People ==
    \E s \in Pair : \E i \in DOMAIN reviews[s], v \in Verdict :
      \/ \E actor \in Actor : AnswerOpen(actor, s, i, v)
      \/ FlagOpen(s, i, v)
      \/ FlagAnswered(s, i, v)
      \/ ReplaceAnswer(s, i, v)

Next == Run \/ People

Spec == Init /\ [][Next]_vars

-----------------------------------------------------------------------------
(* Properties.                                                             *)

(* Between runs nobody waits in vain: a page that no resolution would join *)
(* or ask about now has a question open that a person can answer, or stands *)
(* behind a page of its name that has a way on itself.  That is so unless  *)
(* a step has ended between a judgement and its question.  (planMatch,     *)
(* matchItem, applyVerdict, and the answers.)                              *)
HasQuestion(p) == \E e \in Page : OpenRows(<<p, e>>) # {}
OnItsWay(w, p) ==
    \A plan \in Plans(w, p) : plan.kind \in {"join", "create", "ask", "dispute", "unresolvable"}
IsHelped(w, p) == OnItsWay(w, p) \/ HasQuestion(p)
EveryPageIsHelped ==
    LET w == View(mode = "asks") IN
    \A p \in Unjoined(w) :
      \/ IsHelped(w, p)
      \/ \E q \in Unjoined(w) \ {p} : said[q].name = said[p].name /\ IsHelped(w, q)
NobodyWaitsInVain == pc = "idle" /\ "review" \notin used.torn => EveryPageIsHelped

(* A page that gives only a name, and that no verdict places, joins or     *)
(* starts a record only when no other record carries its name, the records *)
(* of the pages that join in the same resolution included.  (planMatch,    *)
(* contestedNames, and the order of resolveEntities.)                      *)
NameIsSettled ==
    [][\A p \in Page :
         joined[p] = NoPage /\ joined'[p] # NoPage /\ Ids(p) = {}
         /\ ~Placed(pass, p)
         => \A q \in Page : said[q].name = said[p].name /\ joined'[q] # NoPage
                              => joined'[q] = joined'[p]]_vars

(* What a person has said of a page and a record stays a person's, when a  *)
(* run that asked before applies what a decider said, or asks once more.   *)
(* (judge, applyVerdict, finalizeDecision)                                 *)
PersonOutranks ==
    [][\A s \in Pair : verdicts[s].who = "person" => verdicts'[s].who = "person"]_vars

(* A question that people disagree about stays open until the owner        *)
(* answers it, whatever runs and reviewers do meanwhile.  (dismissReviews, *)
(* openReview, closeReview, reopenFlagged)                                 *)
FlagWaitsForOwner ==
    [][\A s \in Pair : \A i \in DOMAIN reviews[s] :
         IsOpen(reviews[s][i]) /\ reviews[s][i].flagged
         => \/ IsOpen(reviews'[s][i]) /\ reviews'[s][i].flagged
            \/ reviews'[s][i].status = "decided" /\ reviews'[s][i].by = "owner"]_vars

(* Deciders never join one page to two records, unless a step has ended    *)
(* between its decision and its judgement.  (sameVerdictsOf in matchItem,  *)
(* and the decisions that are used again.)                                 *)
DecidersAgree ==
    "judge" \notin used.torn =>
      \A p, e, f \in Page :
        /\ verdicts[<<p, e>>].who = "llm" /\ verdicts[<<p, e>>].verdict \in Joining
        /\ verdicts[<<p, f>>].who = "llm" /\ verdicts[<<p, f>>].verdict \in Joining
        => e = f
-----------------------------------------------------------------------------
(* What NobodyWaitsInVain rests on.                                        *)

(* A pair judged unsure has a question open, unless the step is about to   *)
(* open it, or one has ended there; a person is never unsure.              *)
UnsureIsAsked ==
    \A s \in Pair : verdicts[s].verdict = "unsure" =>
        /\ verdicts[s].who # "person"
        /\ \/ OpenRows(s) # {}
           \/ pc = "review" /\ Question = s
           \/ "review" \in used.torn

(* A decision's own question is one it could not answer, and is closed     *)
(* only by a person; so is a decision final only by one.                   *)
ClosedByPerson ==
    \A s \in Pair :
        /\ decisions[s].answer \in Answer /\ decisions[s].final \in Answer
        /\ decisions[s].final # NoAnswer => verdicts[s].who = "person"
        /\ \A i \in DOMAIN reviews[s] : reviews[s][i].own =>
              /\ decisions[s].answer = NoAnswer
              /\ IsOpen(reviews[s][i]) \/ verdicts[s].who = "person"

(* The step acts on the pair's decision, as it was or is; what it has      *)
(* judged by an answer is not unsure.                                      *)
ActsOnDecision ==
    pc \in {"save", "judge", "review"} => \A s \in Pair : Question = s =>
        /\ pc = "save" => dec.answer \in Answer /\ dec.final = NoAnswer
        /\ pc \in {"judge", "review"} =>
              /\ dec.answer = decisions[s].answer /\ dec.final \in Answer
              /\ dec.final # NoAnswer => verdicts[s].who = "person"
        /\ pc = "review" /\ AnswerOf(dec) # NoAnswer => verdicts[s].verdict # "unsure"

AskedInv == UnsureIsAsked /\ ClosedByPerson /\ ActsOnDecision
=============================================================================
