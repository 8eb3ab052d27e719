--------------------------- MODULE TaxonomyReview ---------------------------
(***************************************************************************)
(* A dataset's taxonomy: its versions, the proposals of the review that    *)
(* ends each run, who decides them, and the autonomy a kind of change      *)
(* earns (platform/store/src/proposals.ts and taxonomy.ts, the review step *)
(* of worker/src/taxonomy-review.ts, the routes of proposal-api.ts, and    *)
(* what core/src/taxonomy-changes.ts applies and undoes).                  *)
(*                                                                         *)
(* Every decision is a transaction under the lock of the dataset's row.    *)
(* What was read before it may be old: the review step reads the taxonomy, *)
(* asks a model, and saves; then it reads which kinds have autonomy and    *)
(* applies its proposals one after another; applying a definition reads    *)
(* the taxonomy and then writes; so does seeding.  The step may stop       *)
(* anywhere and run again.                                                 *)
(*                                                                         *)
(* The taxonomy is one feature's values: each has a slug, which names it   *)
(* for good, and a name, which no live sibling shares.                     *)
(***************************************************************************)
EXTENDS Integers, FiniteSets

CONSTANTS
    Item,           \* values, by slug
    NoItem,
    Name,
    NoName,
    Seeded,         \* the name of each value of the seed
    Kind,           \* the kinds of change that can earn autonomy
    KindOf,         \* the kind of the change that adds an item
    NoKind,         \* every other kind, which is always the owner's
    Additive,       \* the kinds that a consumer's reviewer decides
    Scope,
    Definition,
    FirstDefinition,
    ScopeOf,        \* the scope a definition declares
    AutonomyAfter,  \* AUTONOMY_AFTER
    Proposable,     \* the changes that a review proposes or the owner edits one into
    Caller,         \* who applies definitions and seeds the taxonomy, at once
    MaxAnswer,      \* bound: changes in a review's answer
    MaxRuns,        \* bound: runs
    MaxVersions,    \* bound: versions
    MaxLogged,      \* bound: the review log
    MaxLost         \* bound: review steps that run again

Change == [kind : {"add", "rename"}, item : Item, name : Name]
          \cup [kind : {"retire", "restore"}, item : Item, name : {NoName}]
          \cup {[kind |-> "scope", item |-> NoItem, name |-> NoName]}

ASSUME ItemAssumption == NoItem \notin Item /\ NoName \notin Name /\ NoKind \notin Kind
ASSUME SeedAssumption == \E S \in SUBSET Item : S # {} /\ Seeded \in [S -> Name]
ASSUME KindAssumption == KindOf \in [Item -> Kind] /\ Additive \subseteq Kind
ASSUME ScopeAssumption == ScopeOf \in [Definition -> Scope] /\ FirstDefinition \in Definition
ASSUME AfterAssumption == AutonomyAfter \in Nat \ {0}
ASSUME ProposableAssumption == Proposable \subseteq {c \in Change : c.kind \notin {"restore", "scope"}}
ASSUME BoundAssumption ==
    /\ MaxAnswer \in Nat /\ MaxRuns \in Nat
    /\ MaxVersions \in Nat \ {0} /\ MaxLogged \in Nat /\ MaxLost \in Nat

Run == 1..MaxRuns
Version == 1..MaxVersions

(* A proposal's ID comes from its run and its place in the answer.         *)
Proposal == Run \X (1..MaxAnswer)
NoProposal == <<0, 0>>
NoChange == [kind |-> "none", item |-> NoItem, name |-> NoName]

VARIABLES
    latest,         \* the latest version, 0 before the seed
    versions,       \* each with its taxonomy, its change, and where it came from
    defn,           \* the definition in force
    request,        \* what the applications of definitions and seedings have read
    proposals,      \* status, change, and the version it made
    streak,         \* each kind's run of unedited acceptances
    logged, log,    \* the review log
    \* The review step of a run.
    pc,
    base,           \* the version it read
    seen,           \* seenChanges
    todo,           \* its open proposals whose kinds had autonomy when it looked
    lost,
    crossed         \* history: what was written last, of definitions and seeds, had read what
                    \* another has written over since

versionVars == <<latest, versions>>
reviewVars == <<pc, base, seen, todo, lost>>
decisionVars == <<proposals, streak, logged, log>>
vars == <<versionVars, defn, request, crossed, decisionVars, reviewVars>>

Seed(s) == [state |-> [i \in Item |-> IF i \in DOMAIN Seeded THEN "live" ELSE "absent"],
            name  |-> [i \in Item |-> IF i \in DOMAIN Seeded THEN Seeded[i] ELSE NoName],
            scope |-> s]

NoVersion == [taxonomy |-> Seed(CHOOSE s \in Scope : TRUE), change |-> NoChange, before |-> NoName,
              auto |-> FALSE, proposal |-> NoProposal, undoes |-> 0]
Idle == [kind |-> "none", defn |-> FirstDefinition, base |-> 0, rescoped |-> FALSE,
         overtaken |-> FALSE]
NoEntry == [action |-> "none", kind |-> NoKind, proposal |-> NoProposal]

Init ==
    /\ latest = 0
    /\ versions = [v \in Version |-> NoVersion]
    /\ defn = FirstDefinition
    /\ request = [a \in Caller |-> Idle]
    /\ proposals = [p \in Proposal |-> [status |-> "none", change |-> NoChange, version |-> 0]]
    /\ streak = [k \in Kind |-> 0]
    /\ logged = 0
    /\ log = [j \in 1..MaxLogged |-> NoEntry]
    /\ pc = [r \in Run |-> "off"]
    /\ base = [r \in Run |-> 0]
    /\ seen = [r \in Run |-> {}]
    /\ todo = [r \in Run |-> {}]
    /\ lost = 0
    /\ crossed = FALSE

-----------------------------------------------------------------------------
(* Changes: what applying one needs, does, and keeps to be undone.         *)

Taxonomy == versions[latest].taxonomy

Live(t) == {i \in Item : t.state[i] = "live"}
Siblings(i) == {j \in Item \ {i} : KindOf[j] = KindOf[i]}
NameFree(t, i, n) == \A j \in Siblings(i) \cap Live(t) : t.name[j] # n

(* applyOne, and taxonomyIssues: slugs are never given again, names only   *)
(* to one live sibling, and a feature keeps a live value.                  *)
Applies(t, c) ==
    \/ c.kind = "add" /\ t.state[c.item] = "absent" /\ NameFree(t, c.item, c.name)
    \/ c.kind = "rename" /\ c.item \in Live(t) /\ NameFree(t, c.item, c.name)
    \/ c.kind = "retire" /\ c.item \in Live(t) /\ Live(t) # {c.item}
    \/ c.kind = "restore" /\ t.state[c.item] = "retired" /\ NameFree(t, c.item, t.name[c.item])

Applied(t, c) ==
    CASE c.kind = "add" -> [t EXCEPT !.state[c.item] = "live", !.name[c.item] = c.name]
      [] c.kind = "rename" -> [t EXCEPT !.name[c.item] = c.name]
      [] c.kind = "retire" -> [t EXCEPT !.state[c.item] = "retired"]
      [] c.kind = "restore" -> [t EXCEPT !.state[c.item] = "live"]

(* ChangeBefore: the name a rename replaced.                               *)
Before(t, c) == IF c.kind = "rename" THEN t.name[c.item] ELSE NoName

InverseForward(c, before) ==
    CASE c.kind \in {"add", "restore"} -> [kind |-> "retire", item |-> c.item, name |-> NoName]
      [] c.kind = "retire" -> [kind |-> "restore", item |-> c.item, name |-> NoName]
      [] c.kind = "rename" -> c

(* inverseChanges.                                                         *)
InverseChange(c, before) ==
    CASE c.kind \in {"add", "restore"} -> [kind |-> "retire", item |-> c.item, name |-> NoName]
      [] c.kind = "retire" -> [kind |-> "restore", item |-> c.item, name |-> NoName]
      [] c.kind = "rename" -> [kind |-> "rename", item |-> c.item, name |-> before]

(* The kind a change earns autonomy as.                                    *)
AutonomyKind(c) == IF c.kind = "add" THEN KindOf[c.item] ELSE NoKind

(* commitTaxonomy, of the current version's successor.                     *)
Commit(c, auto, p, undoes) ==
    /\ latest < MaxVersions
    /\ latest' = latest + 1
    /\ versions' = [versions EXCEPT ![latest + 1] =
                      [taxonomy |-> Applied(Taxonomy, c), change |-> c, before |-> Before(Taxonomy, c),
                       auto |-> auto, proposal |-> p, undoes |-> undoes]]

(* logAction, in the transaction of what it logs.                          *)
Log(action, kind, p) ==
    /\ logged < MaxLogged
    /\ logged' = logged + 1
    /\ log' = [log EXCEPT ![logged + 1] = [action |-> action, kind |-> kind, proposal |-> p]]

SetStreak(k, n) == streak' = IF k = NoKind THEN streak ELSE [streak EXCEPT ![k] = n]

-----------------------------------------------------------------------------
(* decideProposal, by the owner, or by a consumer's reviewer.              *)

IsOpen(p) == proposals[p].status = "open"
MayDecide(role, c) == role = "owner" \/ AutonomyKind(c) \in Additive

(* The proposal has become one of the current version.                     *)
Settle(p, status, version) ==
    proposals' = [proposals EXCEPT ![p].status = status, ![p].version = version]

(* The change applies as the next version, whatever version it was checked *)
(* against; if it no longer does, the proposal stays open.                 *)
Accept(role, p) ==
    LET c == proposals[p].change
        k == AutonomyKind(c)
    IN
    /\ IsOpen(p) /\ latest > 0
    /\ MayDecide(role, c)
    /\ Applies(Taxonomy, c)
    /\ Commit(c, FALSE, p, 0)
    /\ Settle(p, "applied", latest + 1)
    /\ SetStreak(k, IF k = NoKind THEN 0 ELSE streak[k] + 1)
    /\ Log("accept", k, p)
    /\ UNCHANGED <<defn, request, crossed, reviewVars>>

(* The owner's change applies in the proposal's place.                     *)
Edit(p, c) ==
    LET k == AutonomyKind(proposals[p].change) IN
    /\ IsOpen(p) /\ latest > 0
    /\ Applies(Taxonomy, c)
    /\ Commit(c, FALSE, p, 0)
    /\ Settle(p, "applied", latest + 1)
    /\ SetStreak(k, 0)
    /\ Log("edit", k, p)
    /\ UNCHANGED <<defn, request, crossed, reviewVars>>

Reject(role, p) ==
    LET k == AutonomyKind(proposals[p].change) IN
    /\ IsOpen(p)
    /\ MayDecide(role, proposals[p].change)
    /\ Settle(p, "rejected", 0)
    /\ SetStreak(k, 0)
    /\ Log("reject", k, p)
    /\ UNCHANGED <<versionVars, defn, request, crossed, reviewVars>>

Revoke(k) ==
    /\ SetStreak(k, 0)
    /\ Log("revoke", k, NoProposal)
    /\ UNCHANGED <<versionVars, defn, request, crossed, proposals, reviewVars>>

UndoneAlready(v) == \E u \in 1..latest : versions[u].undoes = v

(* undoVersion: the seed is not undone, nor a version twice, nor one that  *)
(* changed the scope.  Undoing what Spatula applied on its own takes its   *)
(* kind's autonomy.                                                        *)
Undo(v) ==
    LET c == InverseChange(versions[v].change, versions[v].before)
        k == IF versions[v].auto THEN AutonomyKind(versions[v].change) ELSE NoKind
    IN
    /\ v \in 2..latest
    /\ ~UndoneAlready(v)
    /\ versions[v].change.kind # "scope"
    /\ Applies(Taxonomy, c)
    /\ Commit(c, FALSE, NoProposal, v)
    /\ SetStreak(k, 0)
    /\ Log("undo", k, NoProposal)
    /\ UNCHANGED <<defn, request, crossed, proposals, reviewVars>>

-----------------------------------------------------------------------------
(* The review, a step of the run's end.                                    *)

Goto(r, to) == pc' = [pc EXCEPT ![r] = to]

ProposalsOf(r) == {p \in Proposal : p[1] = r /\ proposals[p].status # "none"}

(* A run that has proposed doesn't ask again.                              *)
Begin(r) ==
    /\ pc[r] = "off" /\ latest > 0
    /\ \A q \in 1..(r - 1) : pc[q] # "off"
    /\ Goto(r, IF ProposalsOf(r) # {} THEN "look" ELSE "ask")
    /\ base' = [base EXCEPT ![r] = IF ProposalsOf(r) # {} THEN 0 ELSE latest]
    /\ UNCHANGED <<versionVars, defn, request, crossed, decisionVars, seen, todo, lost>>

SeenStatus == {"open", "rejected", "applied"}

(* seenChanges, read after the taxonomy.                                   *)
Ask(r) ==
    /\ pc[r] = "ask"
    /\ seen' = [seen EXCEPT ![r] = {proposals[p].change : p \in {q \in Proposal : proposals[q].status \in SeenStatus}}]
    /\ Goto(r, "save")
    /\ UNCHANGED <<versionVars, defn, request, crossed, decisionVars, base, todo, lost>>

(* checkProposals: a change is kept if it applies to the version the       *)
(* review read, changes something there, and isn't one that was seen.      *)
Kept(r, answer, k) ==
    LET c == answer[k]
        t == versions[base[r]].taxonomy
    IN
    /\ Applies(t, c) /\ Applied(t, c) # t
    /\ c \notin seen[r]
    /\ \A j \in 1..(k - 1) : answer[j] # c

HeldAlready(c) == \E q \in Proposal : proposals[q].status \in SeenStatus /\ proposals[q].change = c

SavedAnyway(r, answer) ==
    [p \in Proposal |->
        IF p[1] # r \/ p[2] \notin DOMAIN answer \/ proposals[p].status # "none" THEN proposals[p]
        ELSE IF Kept(r, answer, p[2])
        THEN [status |-> "open", change |-> answer[p[2]], version |-> 0]
        ELSE [status |-> "dropped", change |-> answer[p[2]], version |-> 0]]

(* saveProposals: an ID is saved once, and an open, rejected or applied    *)
(* change is held once.                                                    *)
Saved(r, answer) ==
    [p \in Proposal |->
        IF p[1] # r \/ p[2] \notin DOMAIN answer \/ proposals[p].status # "none" THEN proposals[p]
        ELSE IF Kept(r, answer, p[2])
        THEN IF HeldAlready(answer[p[2]]) THEN proposals[p]
             ELSE [status |-> "open", change |-> answer[p[2]], version |-> 0]
        ELSE [status |-> "dropped", change |-> answer[p[2]], version |-> 0]]

(* The model answers, or doesn't: then nothing is saved.                   *)
Save(r) ==
    /\ pc[r] = "save"
    /\ \E n \in 0..MaxAnswer : \E answer \in [1..n -> Proposable] : proposals' = Saved(r, answer)
    /\ Goto(r, "look")
    /\ base' = [base EXCEPT ![r] = 0]
    /\ seen' = [seen EXCEPT ![r] = {}]
    /\ UNCHANGED <<versionVars, defn, request, crossed, streak, logged, log, todo, lost>>

Earned(k) == k # NoKind /\ streak[k] >= AutonomyAfter

(* applyEarned: the run's open proposals whose kinds have autonomy now.    *)
Look(r) ==
    /\ pc[r] = "look"
    /\ todo' = [todo EXCEPT ![r] =
                  {p \in ProposalsOf(r) : IsOpen(p) /\ Earned(AutonomyKind(proposals[p].change))}]
    /\ Goto(r, "apply")
    /\ UNCHANGED <<versionVars, defn, request, crossed, decisionVars, base, seen, lost>>

ApplyAsLooked(r, p) ==
    LET c == proposals[p].change IN
    /\ pc[r] = "apply" /\ p \in todo[r]
    /\ todo' = [todo EXCEPT ![r] = @ \ {p}]
    /\ IF IsOpen(p) /\ Applies(Taxonomy, c)
       THEN /\ Commit(c, TRUE, p, 0)
            /\ Settle(p, "applied", latest + 1)
            /\ Log("apply", AutonomyKind(c), p)
       ELSE UNCHANGED <<versionVars, proposals, logged, log>>
    /\ UNCHANGED <<defn, request, crossed, streak, pc, base, seen, lost>>

(* decideProposal, by Spatula: the kind has autonomy still, as the         *)
(* transaction reads it.  What can't be applied stays open, with a note.   *)
Apply(r, p) ==
    LET c == proposals[p].change IN
    /\ pc[r] = "apply" /\ p \in todo[r]
    /\ todo' = [todo EXCEPT ![r] = @ \ {p}]
    /\ IF IsOpen(p) /\ Earned(AutonomyKind(c)) /\ Applies(Taxonomy, c)
       THEN /\ Commit(c, TRUE, p, 0)
            /\ Settle(p, "applied", latest + 1)
            /\ Log("apply", AutonomyKind(c), p)
       ELSE UNCHANGED <<versionVars, proposals, logged, log>>
    /\ UNCHANGED <<defn, request, crossed, streak, pc, base, seen, lost>>

End(r) ==
    /\ pc[r] = "apply" /\ todo[r] = {}
    /\ Goto(r, "ended")
    /\ UNCHANGED <<versionVars, defn, request, crossed, decisionVars, base, seen, todo, lost>>

(* The step stops, and runs again from its start, or its run ends there.   *)
Stop(r) ==
    /\ pc[r] \in {"ask", "save", "look", "apply"}
    /\ \/ lost < MaxLost /\ lost' = lost + 1 /\ Goto(r, "off")
       \/ Goto(r, "ended") /\ UNCHANGED lost
    /\ base' = [base EXCEPT ![r] = 0]
    /\ seen' = [seen EXCEPT ![r] = {}]
    /\ todo' = [todo EXCEPT ![r] = {}]
    /\ UNCHANGED <<versionVars, defn, request, crossed, decisionVars>>

-----------------------------------------------------------------------------
(* The owner applies a definition, and seeds the taxonomy: each reads, and *)
(* then writes in a transaction.                                           *)

ReadToApply(a, d) ==
    /\ request[a].kind = "none" /\ d # defn
    /\ request' = [request EXCEPT ![a] =
                     [kind |-> "apply", defn |-> d, base |-> latest,
                      rescoped |-> latest > 0 /\ Taxonomy.scope # ScopeOf[d], overtaken |-> FALSE]]
    /\ UNCHANGED <<versionVars, defn, crossed, decisionVars, reviewVars>>

(* What the others have read may be old now.                               *)
Answered(a) ==
    /\ crossed' = request[a].overtaken
    /\ request' = [b \in Caller |->
                     IF b = a \/ request[b].kind = "none" THEN Idle
                     ELSE [request[b] EXCEPT !.overtaken = TRUE]]

Refused(a) == request' = [request EXCEPT ![a] = Idle] /\ UNCHANGED crossed

Rescope(s) ==
    /\ latest < MaxVersions
    /\ latest' = latest + 1
    /\ versions' = [versions EXCEPT ![latest + 1] =
                      [NoVersion EXCEPT !.taxonomy = [Taxonomy EXCEPT !.scope = s],
                                        !.change = [kind |-> "scope", item |-> NoItem, name |-> NoName]]]

ApplyDespite(a) ==
    LET q == request[a] IN
    /\ q.kind = "apply"
    /\ defn' = q.defn
    /\ Answered(a)
    /\ IF q.rescoped /\ latest = q.base THEN Rescope(ScopeOf[q.defn]) ELSE UNCHANGED versionVars
    /\ UNCHANGED <<decisionVars, reviewVars>>

(* A new scope is a new version, the successor of the one that was read:   *)
(* if another came first, its key is taken and nothing is applied.         *)
ApplyDefinition(a) ==
    LET q == request[a] IN
    /\ q.kind = "apply"
    /\ \/ q.rescoped /\ latest # q.base /\ Refused(a) /\ UNCHANGED <<versionVars, defn>>
       \/ q.rescoped /\ latest = q.base /\ Rescope(ScopeOf[q.defn]) /\ defn' = q.defn /\ Answered(a)
       \/ ~q.rescoped /\ defn' = q.defn /\ Answered(a) /\ UNCHANGED versionVars
    /\ UNCHANGED <<decisionVars, reviewVars>>

(* The seed's scope is the definition's.                                   *)
ReadToSeed(a) ==
    /\ request[a].kind = "none" /\ latest = 0
    /\ request' = [request EXCEPT ![a] = [Idle EXCEPT !.kind = "seed", !.defn = defn]]
    /\ UNCHANGED <<versionVars, defn, crossed, decisionVars, reviewVars>>

(* seedTaxonomyVersion: not where there is a taxonomy.                     *)
SeedTaxonomy(a) ==
    /\ request[a].kind = "seed"
    /\ \/ latest > 0 /\ Refused(a) /\ UNCHANGED versionVars
       \/ /\ latest = 0
          /\ latest' = 1
          /\ versions' = [versions EXCEPT ![1].taxonomy = Seed(ScopeOf[request[a].defn])]
          /\ Answered(a)
    /\ UNCHANGED <<defn, decisionVars, reviewVars>>

Next ==
    \/ \E p \in Proposal :
         \/ \E role \in {"owner", "reviewer"} : Accept(role, p) \/ Reject(role, p)
         \/ \E c \in Proposable : Edit(p, c)
    \/ \E k \in Kind : Revoke(k)
    \/ \E v \in Version : Undo(v)
    \/ \E r \in Run :
         \/ Begin(r) \/ Ask(r) \/ Save(r) \/ Look(r) \/ End(r) \/ Stop(r)
         \/ \E p \in Proposal : Apply(r, p)
    \/ \E a \in Caller :
         \/ \E d \in Definition : ReadToApply(a, d)
         \/ ApplyDefinition(a) \/ ReadToSeed(a) \/ SeedTaxonomy(a)

Spec == Init /\ [][Next]_vars
-----------------------------------------------------------------------------
(* Properties.                                                             *)

TypeOK ==
    /\ latest \in 0..MaxVersions
    /\ versions \in [Version ->
         [taxonomy : [state : [Item -> {"absent", "live", "retired"}],
                      name : [Item -> Name \cup {NoName}], scope : Scope],
          change : Change \cup {NoChange}, before : Name \cup {NoName}, auto : BOOLEAN,
          proposal : Proposal \cup {NoProposal}, undoes : 0..MaxVersions]]
    /\ defn \in Definition
    /\ request \in [Caller -> [kind : {"none", "apply", "seed"}, defn : Definition,
                                     base : 0..MaxVersions, rescoped : BOOLEAN, overtaken : BOOLEAN]]
    /\ crossed \in BOOLEAN
    /\ proposals \in [Proposal ->
         [status : {"none", "open", "rejected", "applied", "dropped"},
          change : Proposable \cup {NoChange}, version : 0..MaxVersions]]
    /\ streak \in [Kind -> Nat]
    /\ logged \in 0..MaxLogged
    /\ log \in [1..MaxLogged ->
         [action : {"none", "accept", "edit", "reject", "apply", "undo", "revoke"},
          kind : Kind \cup {NoKind}, proposal : Proposal \cup {NoProposal}]]
    /\ pc \in [Run -> {"off", "ask", "save", "look", "apply", "ended"}]
    /\ base \in [Run -> 0..MaxVersions]
    /\ seen \in [Run -> SUBSET Proposable]
    /\ todo \in [Run -> SUBSET Proposal]
    /\ lost \in 0..MaxLost

Breaking == {"edit", "reject", "undo", "revoke"}

(* The acceptances of a kind that the log has before its entry j and after *)
(* what last broke the kind's run.                                         *)
RunBefore(k, j) ==
    {i \in 1..(j - 1) :
        /\ log[i].action = "accept" /\ log[i].kind = k
        /\ \A b \in i..(j - 1) : ~(log[b].kind = k /\ log[b].action \in Breaking)}

(* Spatula applies a change on its own only with its kind's earned         *)
(* autonomy: as the review log has it, the ten last decisions people made  *)
(* about the kind were unedited acceptances, and it wasn't revoked, nor a  *)
(* change of Spatula's undone, since (ADR 0007).                           *)
AutonomyIsEarned ==
    \A j \in 1..logged :
        log[j].action = "apply" => Cardinality(RunBefore(log[j].kind, j)) >= AutonomyAfter

(* A proposal is decided once, however often it is asked for and whoever   *)
(* answers: the log has one decision of it, and it made one version if it  *)
(* was applied and none if not.  A change that was decided isn't proposed  *)
(* again.                                                                  *)
SettledOnce ==
    /\ \A i, j \in 1..logged :
         i # j /\ log[i].proposal = log[j].proposal => log[i].proposal = NoProposal
    /\ \A p \in Proposal : \A v \in 1..latest :
         versions[v].proposal = p <=> proposals[p].status = "applied" /\ proposals[p].version = v
    /\ \A p, q \in Proposal :
         p # q /\ proposals[p].status \in SeenStatus /\ proposals[q].status \in SeenStatus
            => proposals[p].change # proposals[q].change

(* How readers see a value.                                                *)
Shown(t, i) == IF t.state[i] = "live" THEN t.name[i] ELSE NoName

(* Undoing a version puts back what it changed, as it was, and touches     *)
(* nothing else, whatever came in between; and no version is undone twice. *)
UndoIsExact ==
    \A u \in 1..latest : LET v == versions[u].undoes IN
        v # 0 =>
            /\ \A i \in Item :
                 Shown(versions[u].taxonomy, i) =
                   Shown(versions[IF i = versions[v].change.item THEN v - 1 ELSE u - 1].taxonomy, i)
            /\ versions[u].taxonomy.scope = versions[u - 1].taxonomy.scope
            /\ \A w \in 1..latest : versions[w].undoes = v => w = u

(* The taxonomy keeps to the definition's scope, whatever is decided while *)
(* definitions are applied.  Not so after an application or a seeding that *)
(* wrote what it had read before another wrote, until the next one that    *)
(* wasn't crossed.                                                         *)
ScopeKept == ~crossed /\ latest > 0 => Taxonomy.scope = ScopeOf[defn]

(* The taxonomy keeps to the definition's scope, as applyDefinition has it *)
(* (datasets.ts, ADR 0007), however many are applied at once.              *)
ScopeIsTheDefinitions == latest > 0 => Taxonomy.scope = ScopeOf[defn]
=============================================================================
