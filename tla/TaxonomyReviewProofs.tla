------------------------ MODULE TaxonomyReviewProofs ------------------------
(***************************************************************************)
(* Proofs about TaxonomyReview, for any values, kinds, definitions, runs   *)
(* and bounds: types, proposals settled once, versions undone exactly, and *)
(* autonomy earned; and, while one application goes at once, the scope.    *)
(***************************************************************************)
EXTENDS TaxonomyReview, FiniteSetTheorems, TLAPS

-----------------------------------------------------------------------------
(* The types, one part for each group of variables.                        *)

Tax == [state : [Item -> {"absent", "live", "retired"}],
        name : [Item -> Name \cup {NoName}], scope : Scope]
VersionRecord ==
    [taxonomy : Tax, change : Change \cup {NoChange}, before : Name \cup {NoName}, auto : BOOLEAN,
     proposal : Proposal \cup {NoProposal}, undoes : 0..MaxVersions]
RequestRecord ==
    [kind : {"none", "apply", "seed"}, defn : Definition, base : 0..MaxVersions, rescoped : BOOLEAN,
     overtaken : BOOLEAN]
ProposalRecord ==
    [status : {"none", "open", "rejected", "applied", "dropped"},
     change : Proposable \cup {NoChange}, version : 0..MaxVersions]
LogRecord ==
    [action : {"none", "accept", "edit", "reject", "apply", "undo", "revoke"},
     kind : Kind \cup {NoKind}, proposal : Proposal \cup {NoProposal}]

VersionOK == latest \in 0..MaxVersions /\ versions \in [Version -> VersionRecord]
RequestOK == defn \in Definition /\ request \in [Caller -> RequestRecord] /\ crossed \in BOOLEAN
ProposalOK == proposals \in [Proposal -> ProposalRecord]
LogOK ==
    /\ streak \in [Kind -> Nat] /\ logged \in 0..MaxLogged
    /\ log \in [1..MaxLogged -> LogRecord]
ReviewOK ==
    /\ pc \in [Run -> {"off", "ask", "save", "look", "apply", "ended"}]
    /\ base \in [Run -> 0..MaxVersions]
    /\ seen \in [Run -> SUBSET Proposable]
    /\ todo \in [Run -> SUBSET Proposal]
    /\ lost \in 0..MaxLost

LEMMA TypeParts == TypeOK <=> VersionOK /\ RequestOK /\ ProposalOK /\ LogOK /\ ReviewOK
BY DEF TypeOK, VersionOK, RequestOK, ProposalOK, LogOK, ReviewOK, VersionRecord, Tax,
       RequestRecord, ProposalRecord, LogRecord

LEMMA ProposableIsChange == Proposable \subseteq Change
BY ProposableAssumption

LEMMA ProposableKind ==
    ASSUME NEW c \in Proposable PROVE c.kind \notin {"restore", "scope"}
BY ProposableAssumption

LEMMA NoProposalFresh == NoProposal \notin Proposal
BY DEF NoProposal, Proposal, Run

LEMMA SeedTyped ==
    ASSUME NEW s \in Scope PROVE Seed(s) \in Tax
BY SeedAssumption DEF Seed, Tax

LEMMA DefinitionsScope ==
    ASSUME NEW d \in Definition
    PROVE /\ ScopeOf[d] \in Scope
          /\ (CHOOSE s \in Scope : TRUE) \in Scope
BY ScopeAssumption

LEMMA NoVersionTyped == NoVersion \in VersionRecord
<1>1. Seed(CHOOSE s \in Scope : TRUE) \in Tax
  BY ScopeAssumption, DefinitionsScope, SeedTyped
<1>2. 0 \in 0..MaxVersions
  BY BoundAssumption
<1> QED
  BY <1>1, <1>2 DEF NoVersion, VersionRecord

LEMMA IdleTyped == Idle \in RequestRecord
BY ScopeAssumption, BoundAssumption DEF Idle, RequestRecord

LEMMA KindTyped ==
    ASSUME NEW c \in Change \cup {NoChange} PROVE AutonomyKind(c) \in Kind \cup {NoKind}
BY KindAssumption DEF AutonomyKind, Change, NoChange

(* The current taxonomy, what a change makes of it, and its inverse.       *)
LEMMA TaxonomyTyped ==
    ASSUME VersionOK, latest > 0
    PROVE Taxonomy \in Tax /\ latest \in Version
BY BoundAssumption DEF VersionOK, Version, Taxonomy, VersionRecord

LEMMA AppliedTyped ==
    ASSUME NEW t \in Tax, NEW c \in Change, Applies(t, c)
    PROVE /\ Applied(t, c) \in Tax
          /\ Applied(t, c).scope = t.scope
          /\ Before(t, c) \in Name \cup {NoName}
          /\ c.item \in Item
<1>1. CASE c.kind = "add" /\ c \in [kind : {"add", "rename"}, item : Item, name : Name]
  BY <1>1 DEF Applied, Tax, Before
<1>2. CASE c.kind = "rename" /\ c \in [kind : {"add", "rename"}, item : Item, name : Name]
  BY <1>2 DEF Applied, Tax, Before
<1>3. CASE c.kind = "retire" /\ c \in [kind : {"retire", "restore"}, item : Item, name : {NoName}]
  BY <1>3 DEF Applied, Tax, Before
<1>4. CASE c.kind = "restore" /\ c \in [kind : {"retire", "restore"}, item : Item, name : {NoName}]
  BY <1>4 DEF Applied, Tax, Before
<1> QED
  BY <1>1, <1>2, <1>3, <1>4 DEF Change, Applies

LEMMA InverseTyped ==
    ASSUME NEW c \in Change, c.kind # "scope", NEW b \in Name \cup {NoName},
           c.kind = "rename" => b \in Name
    PROVE InverseChange(c, b) \in Change /\ InverseChange(c, b).item = c.item
<1>1. CASE c.kind \in {"add", "restore"} /\ c.item \in Item
  BY <1>1 DEF InverseChange, Change
<1>2. CASE c.kind = "retire" /\ c.item \in Item
  BY <1>2 DEF InverseChange, Change
<1>3. CASE c.kind = "rename" /\ c.item \in Item
  BY <1>3 DEF InverseChange, Change
<1> QED
  BY <1>1, <1>2, <1>3 DEF Change

-----------------------------------------------------------------------------
(* How a step changes the versions.                                        *)

(* A review runs only on a taxonomy.                                       *)
RunningInv == \A r \in Run : pc[r] # "off" => latest > 0

(* A new scope is of a taxonomy that was there.                            *)
RequestInv == \A a \in Caller : request[a].rescoped => request[a].base > 0

CommitStep ==
    \E c \in Proposable, auto \in BOOLEAN, p \in Proposal :
        latest > 0 /\ Applies(Taxonomy, c) /\ Commit(c, auto, p, 0)
Undoing(v) == InverseChange(versions[v].change, versions[v].before)
UndoStep ==
    \E v \in 2..latest :
        /\ ~UndoneAlready(v)
        /\ versions[v].change.kind # "scope"
        /\ Applies(Taxonomy, Undoing(v))
        /\ Commit(Undoing(v), FALSE, NoProposal, v)
ScopeStep ==
    \E s \in Scope :
        /\ latest > 0 /\ latest < MaxVersions
        /\ latest' = latest + 1
        /\ versions' = [versions EXCEPT ![latest + 1] =
                          [NoVersion EXCEPT
                             !.taxonomy = [Taxonomy EXCEPT !.scope = s],
                             !.change = [kind |-> "scope", item |-> NoItem, name |-> NoName]]]
SeedStep ==
    \E s \in Scope :
        latest = 0 /\ latest' = 1 /\ versions' = [versions EXCEPT ![1].taxonomy = Seed(s)]
VersionStep == CommitStep \/ UndoStep \/ ScopeStep \/ SeedStep \/ UNCHANGED versionVars

LEMMA ChangeApplies ==
    ASSUME NEW c \in Proposable \cup {NoChange}, NEW t, Applies(t, c) PROVE c \in Proposable
BY DEF Applies, NoChange

LEMMA VersionSteps ==
    ASSUME TypeOK, RunningInv, RequestInv, [Next]_vars PROVE VersionStep
<1> USE TypeParts
<1>1. ASSUME NEW p \in Proposal, NEW role \in {"owner", "reviewer"}, Accept(role, p) PROVE CommitStep
  <2> DEFINE c == proposals[p].change
  <2>1. c \in Proposable \cup {NoChange} /\ Applies(Taxonomy, c)
    BY <1>1 DEF Accept, ProposalOK, ProposalRecord
  <2>2. c \in Proposable
    BY <2>1, ChangeApplies
  <2>3. latest > 0 /\ Commit(c, FALSE, p, 0)
    BY <1>1 DEF Accept
  <2> QED
    BY <2>1, <2>2, <2>3 DEF CommitStep
<1>2. ASSUME NEW p \in Proposal, NEW c \in Proposable, Edit(p, c) PROVE CommitStep
  BY <1>2 DEF Edit, CommitStep
<1>3. ASSUME NEW v \in Version, Undo(v) PROVE UndoStep
  BY <1>3 DEF Undo, UndoStep, Undoing
<1>4. ASSUME NEW r \in Run, NEW p \in Proposal, Apply(r, p) PROVE VersionStep
  <2> DEFINE c == proposals[p].change
  <2>1. CASE IsOpen(p) /\ Earned(AutonomyKind(c)) /\ Applies(Taxonomy, c)
    <3>1. c \in Proposable \cup {NoChange} /\ Applies(Taxonomy, c)
      BY <2>1 DEF ProposalOK, ProposalRecord
    <3>2. c \in Proposable
      BY <3>1, ChangeApplies
    <3>3. latest > 0
      BY <1>4 DEF Apply, RunningInv
    <3>4. Commit(c, TRUE, p, 0)
      BY <1>4, <2>1 DEF Apply
    <3> QED
      BY <3>1, <3>2, <3>3, <3>4 DEF CommitStep, VersionStep
  <2>2. CASE ~(IsOpen(p) /\ Earned(AutonomyKind(c)) /\ Applies(Taxonomy, c))
    BY <1>4, <2>2 DEF Apply, VersionStep
  <2> QED
    BY <2>1, <2>2
<1>5. ASSUME NEW a \in Caller, ApplyDefinition(a) PROVE VersionStep
  <2>1. request[a] \in RequestRecord /\ latest \in Nat
    BY BoundAssumption DEF RequestOK, VersionOK
  <2>2. ScopeOf[request[a].defn] \in Scope
    BY <2>1, DefinitionsScope DEF RequestRecord
  <2>3. CASE request[a].rescoped /\ latest = request[a].base /\ latest < MaxVersions
             /\ latest' = latest + 1
    <3>1. latest > 0
      BY <2>1, <2>3 DEF RequestInv
    <3> QED
      BY <1>5, <2>1, <2>2, <2>3, <3>1 DEF ApplyDefinition, Rescope, ScopeStep, VersionStep, versionVars
  <2> QED
    BY <1>5, <2>3 DEF ApplyDefinition, Rescope, VersionStep
<1>6. ASSUME NEW a \in Caller, SeedTaxonomy(a) PROVE VersionStep
  <2>1. request[a].defn \in Definition /\ latest \in Nat
    BY BoundAssumption DEF RequestOK, RequestRecord, VersionOK
  <2>2. ScopeOf[request[a].defn] \in Scope
    BY <2>1, DefinitionsScope
  <2> QED
    BY <1>6, <2>1, <2>2 DEF SeedTaxonomy, SeedStep, VersionStep
<1>7. ASSUME Next, ~(\E p \in Proposal, role \in {"owner", "reviewer"} : Accept(role, p)),
             ~(\E p \in Proposal, c \in Proposable : Edit(p, c)), ~(\E v \in Version : Undo(v)),
             ~(\E r \in Run, p \in Proposal : Apply(r, p)),
             ~(\E a \in Caller : ApplyDefinition(a) \/ SeedTaxonomy(a))
      PROVE UNCHANGED versionVars
  BY <1>7, Zenon DEF Next, Reject, Revoke, Begin, Ask, Save, Look, End, Stop, ReadToApply, ReadToSeed
<1> QED
  BY <1>1, <1>2, <1>3, <1>4, <1>5, <1>6, <1>7 DEF VersionStep, vars

-----------------------------------------------------------------------------
(* What the versions say of each other.                                    *)

FreshInv == \A v \in Version : v > latest => versions[v] = NoVersion

(* A version has another scope than the one before it, or is a change of   *)
(* it.                                                                     *)
Rescopes(v) ==
    /\ versions[v].change.kind = "scope"
    /\ versions[v].taxonomy.state = versions[v - 1].taxonomy.state
    /\ versions[v].taxonomy.name = versions[v - 1].taxonomy.name
Changes(v) ==
    /\ versions[v].change \in Change /\ versions[v].change.kind # "scope"
    /\ Applies(versions[v - 1].taxonomy, versions[v].change)
    /\ versions[v].taxonomy = Applied(versions[v - 1].taxonomy, versions[v].change)
    /\ versions[v].before = Before(versions[v - 1].taxonomy, versions[v].change)
HistoryInv == \A v \in 2..latest : Rescopes(v) \/ Changes(v)

(* Only a value that never was has no name.                                *)
Named(t) == \A i \in Item : t.state[i] # "absent" => t.name[i] \in Name
NamedInv == \A v \in 1..latest : Named(versions[v].taxonomy)

(* An undone version came before, and is undone once.                      *)
UndoneInv ==
    \A u \in 1..latest :
        versions[u].undoes # 0 =>
            /\ versions[u].undoes \in 2..(u - 1)
            /\ \A w \in 1..latest : versions[w].undoes = versions[u].undoes => w = u

(* A retirement that hasn't been undone left its value retired, under the  *)
(* name it had, and it is the value's only one: nothing else brings a      *)
(* value back.                                                             *)
Retires(v) == v \in 2..latest /\ versions[v].change.kind = "retire" /\ ~UndoneAlready(v)
RetiredInv ==
    \A v \in 2..latest : Retires(v) =>
        LET i == versions[v].change.item IN
        /\ Taxonomy.state[i] = "retired"
        /\ Taxonomy.name[i] = versions[v - 1].taxonomy.name[i]
        /\ \A w \in 2..latest : Retires(w) /\ versions[w].change.item = i => w = v

VersionInv ==
    VersionOK /\ FreshInv /\ HistoryInv /\ NamedInv /\ UndoneInv /\ RetiredInv /\ UndoIsExact

(* Versions are added one at a time, and those that are there stay.        *)
Added == latest > 0 /\ latest < MaxVersions /\ latest' = latest + 1
         /\ \E rec : versions' = [versions EXCEPT ![latest + 1] = rec]

LEMMA AddedKeeps ==
    ASSUME VersionOK, Added
    PROVE /\ latest \in 1..(MaxVersions - 1) /\ latest + 1 \in Version /\ latest \in Version
          /\ \A v \in 1..latest : v \in Version /\ versions'[v] = versions[v]
          /\ \A v \in Version : v > latest + 1 => versions'[v] = versions[v]
          /\ DOMAIN versions = Version
BY BoundAssumption DEF VersionOK, Added, Version

LEMMA CommitAdds ==
    ASSUME VersionOK, latest > 0, NEW c, NEW auto, NEW p, NEW u, Commit(c, auto, p, u)
    PROVE /\ Added
          /\ versions'[latest + 1] =
               [taxonomy |-> Applied(Taxonomy, c), change |-> c, before |-> Before(Taxonomy, c),
                auto |-> auto, proposal |-> p, undoes |-> u]
<1> DEFINE rec == [taxonomy |-> Applied(Taxonomy, c), change |-> c, before |-> Before(Taxonomy, c),
                   auto |-> auto, proposal |-> p, undoes |-> u]
<1>1. latest < MaxVersions /\ latest' = latest + 1 /\ versions' = [versions EXCEPT ![latest + 1] = rec]
  BY DEF Commit
<1>2. latest + 1 \in Version /\ DOMAIN versions = Version
  BY <1>1, BoundAssumption DEF VersionOK, Version
<1> HIDE DEF rec
<1>3. Added /\ versions'[latest + 1] = rec
  BY <1>1, <1>2 DEF Added
<1> QED
  BY <1>3 DEF rec

(* What a change does to its own value, and to no other.                   *)
LEMMA AppliedTo ==
    ASSUME NEW t \in Tax, NEW c \in Change, Applies(t, c)
    PROVE /\ \A i \in Item \ {c.item} :
               Applied(t, c).state[i] = t.state[i] /\ Applied(t, c).name[i] = t.name[i]
          /\ c.kind = "add" => t.state[c.item] = "absent"
          /\ c.kind = "rename" => /\ t.state[c.item] = "live" /\ Applied(t, c).state[c.item] = "live"
                                  /\ Applied(t, c).name[c.item] = c.name /\ c.name \in Name
          /\ c.kind = "retire" => /\ t.state[c.item] = "live" /\ Applied(t, c).state[c.item] = "retired"
                                  /\ Applied(t, c).name[c.item] = t.name[c.item]
          /\ c.kind = "restore" => /\ t.state[c.item] = "retired" /\ Applied(t, c).state[c.item] = "live"
                                   /\ Applied(t, c).name[c.item] = t.name[c.item]
          /\ c.kind \in {"add", "rename", "retire", "restore"}
<1>1. CASE c.kind = "add" /\ c \in [kind : {"add", "rename"}, item : Item, name : Name]
  BY <1>1 DEF Applies, Applied, Tax
<1>2. CASE c.kind = "rename" /\ c \in [kind : {"add", "rename"}, item : Item, name : Name]
  BY <1>2 DEF Applies, Applied, Tax, Live
<1>3. CASE c.kind = "retire" /\ c \in [kind : {"retire", "restore"}, item : Item, name : {NoName}]
  BY <1>3 DEF Applies, Applied, Tax, Live
<1>4. CASE c.kind = "restore" /\ c \in [kind : {"retire", "restore"}, item : Item, name : {NoName}]
  BY <1>4 DEF Applies, Applied, Tax
<1> QED
  BY <1>1, <1>2, <1>3, <1>4 DEF Change, Applies

(* A change and its record keep the types and the history.                 *)
LEMMA CommitKeeps ==
    ASSUME VersionInv, latest > 0, NEW c \in Change, c.kind # "scope", Applies(Taxonomy, c),
           NEW auto \in BOOLEAN, NEW p \in Proposal \cup {NoProposal}, NEW u \in 0..latest,
           Commit(c, auto, p, u)
    PROVE VersionOK' /\ FreshInv' /\ HistoryInv' /\ NamedInv'
<1> DEFINE n == latest + 1
<1>1. Added /\ versions'[n] =
                 [taxonomy |-> Applied(Taxonomy, c), change |-> c, before |-> Before(Taxonomy, c),
                  auto |-> auto, proposal |-> p, undoes |-> u]
  BY CommitAdds DEF VersionInv
<1>2. /\ latest \in 1..(MaxVersions - 1) /\ n \in Version /\ latest \in Version /\ latest' = n
      /\ \A v \in 1..latest : v \in Version /\ versions'[v] = versions[v]
      /\ \A v \in Version : v > n => versions'[v] = versions[v]
      /\ DOMAIN versions = Version
  BY <1>1, AddedKeeps DEF VersionInv, Added
<1>3. Taxonomy \in Tax
  BY TaxonomyTyped DEF VersionInv
<1>4. VersionOK'
  <2>1. versions'[n] \in VersionRecord
    BY <1>1, <1>2, <1>3, AppliedTyped, BoundAssumption DEF VersionRecord
  <2>2. versions' = [versions EXCEPT ![n] = versions'[n]]
    BY <1>1, <1>2 DEF Added, VersionInv, VersionOK
  <2> QED
    BY <1>2, <2>1, <2>2, BoundAssumption DEF VersionInv, VersionOK
<1>5. FreshInv'
  BY <1>2, BoundAssumption DEF FreshInv, VersionInv, Version
<1>6. HistoryInv'
  <2> SUFFICES ASSUME NEW v \in 2..n PROVE (Rescopes(v) \/ Changes(v))'
    BY <1>2 DEF HistoryInv
  <2>1. CASE v = n
    <3>1. versions'[n - 1] = versions[latest]
      BY <1>2
    <3>2. Changes(v)'
      BY <1>1, <2>1, <3>1 DEF Changes, Taxonomy
    <3> QED
      BY <3>2
  <2>2. CASE v \in 2..latest
    <3>1. versions'[v] = versions[v] /\ versions'[v - 1] = versions[v - 1]
      BY <1>2, <2>2
    <3>2. Rescopes(v) \/ Changes(v)
      BY <2>2 DEF VersionInv, HistoryInv
    <3> QED
      BY <3>1, <3>2 DEF Rescopes, Changes
  <2> QED
    BY <1>2, <2>1, <2>2
<1>7. NamedInv'
  <2>1. Named(Taxonomy)
    BY <1>2 DEF VersionInv, NamedInv, Taxonomy
  <2>2. Named(Applied(Taxonomy, c))
    BY <1>3, <2>1, AppliedTo, c \in Change DEF Named, Applied, Change, Tax
  <2> QED
    BY <1>1, <1>2, <2>2 DEF VersionInv, NamedInv
<1> QED
  BY <1>4, <1>5, <1>6, <1>7

(* A version that undoes none leaves what was undone as it was.            *)
LEMMA NothingUndone ==
    ASSUME VersionInv, Added, versions'[latest + 1].undoes = 0
    PROVE /\ UndoneInv' /\ UndoIsExact'
          /\ \A v \in 2..latest : UndoneAlready(v)' <=> UndoneAlready(v)
<1> DEFINE n == latest + 1
<1>1. /\ latest \in 1..(MaxVersions - 1) /\ n \in Version /\ latest' = n
      /\ \A v \in 1..latest : v \in Version /\ versions'[v] = versions[v]
      /\ versions'[n].undoes = 0
  BY AddedKeeps DEF VersionInv, Added
<1>2. UndoneInv'
  BY <1>1 DEF VersionInv, UndoneInv
<1>3. \A v \in 2..latest : UndoneAlready(v)' <=> UndoneAlready(v)
  BY <1>1 DEF UndoneAlready
<1>4. UndoIsExact'
  <2> SUFFICES ASSUME NEW u \in 1..n, versions'[u].undoes # 0
               PROVE /\ \A i \in Item :
                          Shown(versions'[u].taxonomy, i) =
                            Shown(versions'[IF i = versions'[versions'[u].undoes].change.item
                                            THEN versions'[u].undoes - 1 ELSE u - 1].taxonomy, i)
                     /\ versions'[u].taxonomy.scope = versions'[u - 1].taxonomy.scope
                     /\ \A w \in 1..n : versions'[w].undoes = versions'[u].undoes => w = u
    BY <1>1 DEF UndoIsExact
  <2> DEFINE v == versions[u].undoes
  <2>1. u \in 1..latest /\ versions'[u] = versions[u]
    BY <1>1
  <2>2. v \in 2..(u - 1)
    BY <2>1 DEF VersionInv, UndoneInv
  <2>3. /\ versions'[v] = versions[v] /\ versions'[v - 1] = versions[v - 1]
        /\ versions'[u - 1] = versions[u - 1]
    BY <1>1, <2>1, <2>2
  <2>4. /\ \A i \in Item :
              Shown(versions[u].taxonomy, i) =
                Shown(versions[IF i = versions[v].change.item THEN v - 1 ELSE u - 1].taxonomy, i)
        /\ versions[u].taxonomy.scope = versions[u - 1].taxonomy.scope
        /\ \A w \in 1..latest : versions[w].undoes = v => w = u
    BY <2>1 DEF VersionInv, UndoIsExact
  <2>5. ASSUME NEW i \in Item
        PROVE Shown(versions'[u].taxonomy, i) =
                Shown(versions'[IF i = versions'[versions'[u].undoes].change.item
                                THEN versions'[u].undoes - 1 ELSE u - 1].taxonomy, i)
    BY <2>1, <2>3, <2>4
  <2>6. \A w \in 1..n : versions'[w].undoes = versions'[u].undoes => w = u
    BY <1>1, <2>1, <2>4
  <2> QED
    BY <2>1, <2>3, <2>4, <2>5, <2>6
<1> QED
  BY <1>2, <1>3, <1>4

(* A change of a live or an absent value leaves the retirements alone.     *)
LEMMA RetirementsKept ==
    ASSUME VersionInv, Added,
           NEW c \in Change, Applies(Taxonomy, c), versions'[latest + 1].taxonomy = Applied(Taxonomy, c),
           versions'[latest + 1].change = c,
           \A v \in 2..latest : Retires(v) /\ c.kind = "restore" /\ versions[v].change.item = c.item
                                  => UndoneAlready(v)',
           \A v \in 2..latest : UndoneAlready(v) => UndoneAlready(v)'
    PROVE RetiredInv'
<1> DEFINE n == latest + 1
<1>1. /\ latest \in 1..(MaxVersions - 1) /\ n \in Version /\ latest' = n
      /\ \A v \in 1..latest : v \in Version /\ versions'[v] = versions[v]
  BY AddedKeeps DEF VersionInv, Added
<1>2. Taxonomy \in Tax /\ Taxonomy' = Applied(Taxonomy, c)
  BY <1>1, TaxonomyTyped DEF VersionInv, Taxonomy
<1>3. ASSUME NEW v \in 2..latest, Retires(v)' PROVE Retires(v) /\ versions[v].change.item # c.item
  <2>1. Retires(v)
    BY <1>1, <1>3 DEF Retires
  <2>2. Taxonomy.state[versions[v].change.item] = "retired"
    BY <2>1 DEF VersionInv, RetiredInv
  <2>3. ~UndoneAlready(v)'
    BY <1>3 DEF Retires
  <2> QED
    BY <1>2, <2>1, <2>2, <2>3, AppliedTo
<1>4. ASSUME NEW v \in 2..latest, Retires(v) PROVE versions[v].change.item \in Item
  <2>1. versions[v].change.kind = "retire"
    BY <1>4 DEF Retires
  <2>2. versions[v].change \in Change
    BY <2>1 DEF VersionInv, HistoryInv, Rescopes, Changes
  <2> QED
    BY <2>1, <2>2 DEF Change
<1> SUFFICES ASSUME NEW v \in 2..n, Retires(v)'
             PROVE LET i == versions'[v].change.item IN
                   /\ Taxonomy'.state[i] = "retired"
                   /\ Taxonomy'.name[i] = versions'[v - 1].taxonomy.name[i]
                   /\ \A w \in 2..n : Retires(w)' /\ versions'[w].change.item = i => w = v
  BY <1>1 DEF RetiredInv
<1>5. CASE v = n
  <2>1. c.kind = "retire"
    BY <1>1, <1>5 DEF Retires
  <2>2. \A w \in 2..latest : Retires(w)' => versions'[w].change.item # c.item
    BY <1>1, <1>3
  <2>3. versions'[n].change = c /\ versions'[n - 1] = versions[latest]
    BY <1>1
  <2> QED
    BY <1>1, <1>2, <1>5, <2>1, <2>2, <2>3, AppliedTo DEF Taxonomy
<1>6. CASE v \in 2..latest
  <2> DEFINE i == versions[v].change.item
  <2>1. Retires(v) /\ i # c.item /\ i \in Item
    BY <1>3, <1>4, <1>6
  <2>2. /\ Taxonomy.state[i] = "retired" /\ Taxonomy.name[i] = versions[v - 1].taxonomy.name[i]
        /\ \A w \in 2..latest : Retires(w) /\ versions[w].change.item = i => w = v
    BY <1>6, <2>1 DEF VersionInv, RetiredInv
  <2>3. versions'[v] = versions[v] /\ versions'[v - 1] = versions[v - 1]
    BY <1>1, <1>6
  <2>4. ASSUME NEW w \in 2..n, Retires(w)', versions'[w].change.item = i PROVE w = v
    <3>1. CASE w = n
      BY <1>1, <2>1, <2>4, <3>1
    <3>2. CASE w \in 2..latest
      BY <1>1, <1>3, <2>2, <2>4, <3>2
    <3> QED
      BY <1>1, <3>1, <3>2
  <2> QED
    BY <1>2, <2>1, <2>2, <2>3, <2>4, AppliedTo
<1> QED
  BY <1>1, <1>5, <1>6

LEMMA CommitStepKeeps == ASSUME VersionInv, CommitStep PROVE VersionInv'
<1> PICK c \in Proposable, auto \in BOOLEAN, p \in Proposal :
        latest > 0 /\ Applies(Taxonomy, c) /\ Commit(c, auto, p, 0)
  BY DEF CommitStep
<1>1. c \in Change /\ c.kind # "scope" /\ c.kind # "restore"
  BY ProposableAssumption
<1>2. latest \in Nat /\ 0 \in 0..latest
  BY BoundAssumption DEF VersionInv, VersionOK
<1>3. VersionOK' /\ FreshInv' /\ HistoryInv' /\ NamedInv'
  BY <1>1, <1>2, CommitKeeps
<1>4. Added /\ versions'[latest + 1] =
                 [taxonomy |-> Applied(Taxonomy, c), change |-> c, before |-> Before(Taxonomy, c),
                  auto |-> auto, proposal |-> p, undoes |-> 0]
  BY CommitAdds DEF VersionInv
<1>5. /\ UndoneInv' /\ UndoIsExact'
      /\ \A v \in 2..latest : UndoneAlready(v)' <=> UndoneAlready(v)
  BY <1>4, NothingUndone
<1>6. RetiredInv'
  BY <1>1, <1>4, <1>5, RetirementsKept
<1> QED
  BY <1>3, <1>5, <1>6 DEF VersionInv

LEMMA ScopeStepKeeps == ASSUME VersionInv, NEW d \in Definition, ScopeStep PROVE VersionInv'
<1> DEFINE n == latest + 1
<1> PICK s \in Scope :
        /\ latest > 0 /\ latest < MaxVersions
        /\ latest' = latest + 1
        /\ versions' = [versions EXCEPT ![latest + 1] =
                          [NoVersion EXCEPT
                             !.taxonomy = [Taxonomy EXCEPT !.scope = s],
                             !.change = [kind |-> "scope", item |-> NoItem, name |-> NoName]]]
  BY DEF ScopeStep
<1>1. Added
  BY DEF Added
<1>2. /\ latest \in 1..(MaxVersions - 1) /\ n \in Version /\ latest' = n
      /\ \A v \in 1..latest : v \in Version /\ versions'[v] = versions[v]
      /\ \A v \in Version : v > n => versions'[v] = versions[v]
      /\ DOMAIN versions = Version
  BY <1>1, AddedKeeps DEF VersionInv
<1>3. Taxonomy \in Tax /\ [Taxonomy EXCEPT !.scope = s] \in Tax
  BY TaxonomyTyped DEF VersionInv, Tax
<1>4. NoVersion \in VersionRecord
  BY NoVersionTyped
<1>5. /\ versions'[n] \in VersionRecord /\ versions'[n].undoes = 0
      /\ versions'[n].change.kind = "scope" /\ versions'[n].taxonomy = [Taxonomy EXCEPT !.scope = s]
  BY <1>2, <1>3, <1>4 DEF VersionRecord, NoVersion, Change
<1>6. VersionOK'
  <2>1. versions' = [versions EXCEPT ![n] = versions'[n]]
    BY <1>2
  <2> QED
    BY <1>2, <1>5, <2>1, BoundAssumption DEF VersionInv, VersionOK
<1>7. FreshInv'
  BY <1>2, BoundAssumption DEF FreshInv, VersionInv, Version
<1>8. HistoryInv'
  <2> SUFFICES ASSUME NEW v \in 2..n PROVE (Rescopes(v) \/ Changes(v))'
    BY <1>2 DEF HistoryInv
  <2>1. CASE v = n
    BY <1>2, <1>3, <1>5, <2>1 DEF Rescopes, Taxonomy, Tax
  <2>2. CASE v \in 2..latest
    <3>1. versions'[v] = versions[v] /\ versions'[v - 1] = versions[v - 1]
      BY <1>2, <2>2
    <3>2. Rescopes(v) \/ Changes(v)
      BY <2>2 DEF VersionInv, HistoryInv
    <3> QED
      BY <3>1, <3>2 DEF Rescopes, Changes
  <2> QED
    BY <1>2, <2>1, <2>2
<1>9. /\ UndoneInv' /\ UndoIsExact'
      /\ \A v \in 2..latest : UndoneAlready(v)' <=> UndoneAlready(v)
  BY <1>1, <1>5, NothingUndone
<1>10. RetiredInv'
  <2>1. Taxonomy' = [Taxonomy EXCEPT !.scope = s]
    BY <1>2, <1>5 DEF Taxonomy
  <2>2. \A v \in 2..n : Retires(v)' <=> v \in 2..latest /\ Retires(v)
    BY <1>2, <1>5, <1>9 DEF Retires
  <2>3. \A v \in 2..latest : versions'[v] = versions[v] /\ versions'[v - 1] = versions[v - 1]
    BY <1>2
  <2>4. Taxonomy'.state = Taxonomy.state /\ Taxonomy'.name = Taxonomy.name
    BY <1>3, <2>1 DEF Tax
  <2> QED
    BY <1>2, <2>2, <2>3, <2>4 DEF RetiredInv, VersionInv
<1>11. NamedInv'
  <2>1. Named(Taxonomy)
    BY <1>2 DEF VersionInv, NamedInv, Taxonomy
  <2>2. Named([Taxonomy EXCEPT !.scope = s])
    BY <1>3, <2>1 DEF Named, Tax
  <2> QED
    BY <1>2, <1>5, <2>2 DEF VersionInv, NamedInv
<1> QED
  BY <1>6, <1>7, <1>8, <1>9, <1>10, <1>11 DEF VersionInv

LEMMA SeedStepKeeps == ASSUME VersionInv, SeedStep PROVE VersionInv'
<1> PICK s \in Scope : latest = 0 /\ latest' = 1 /\ versions' = [versions EXCEPT ![1].taxonomy = Seed(s)]
  BY DEF SeedStep
<1>1. 1 \in Version /\ DOMAIN versions = Version /\ versions[1] = NoVersion
  BY BoundAssumption DEF VersionInv, VersionOK, Version, FreshInv
<1>2. VersionOK'
  <2>1. versions[1] \in VersionRecord
    BY <1>1 DEF VersionInv, VersionOK
  <2>2. [versions[1] EXCEPT !.taxonomy = Seed(s)] \in VersionRecord
    BY <2>1, SeedTyped DEF VersionRecord
  <2> QED
    BY <1>1, <2>2, BoundAssumption DEF VersionInv, VersionOK
<1>3. FreshInv'
  BY <1>1, BoundAssumption DEF VersionInv, FreshInv, Version
<1>4. versions'[1].undoes = 0
  BY <1>1 DEF NoVersion
<1>5. NamedInv'
  <2>1. versions'[1].taxonomy = Seed(s)
    BY <1>1 DEF NoVersion
  <2>2. Named(Seed(s))
    BY SeedAssumption DEF Named, Seed
  <2> QED
    BY <2>1, <2>2 DEF NamedInv
<1> QED
  BY <1>2, <1>3, <1>4, <1>5 DEF VersionInv, HistoryInv, UndoneInv, RetiredInv, UndoIsExact

LEMMA UndoStepKeeps == ASSUME VersionInv, UndoStep PROVE VersionInv'
<1> DEFINE n == latest + 1
<1> PICK o \in 2..latest :
        /\ ~UndoneAlready(o)
        /\ versions[o].change.kind # "scope"
        /\ Applies(Taxonomy, Undoing(o))
        /\ Commit(Undoing(o), FALSE, NoProposal, o)
  BY DEF UndoStep
<1> DEFINE before == versions[o - 1].taxonomy
           undone == versions[o].change
<1>1. latest \in 2..MaxVersions /\ o - 1 \in 1..latest
  BY BoundAssumption DEF VersionInv, VersionOK
<1>2. /\ undone \in Change /\ before \in Tax /\ Named(before)
      /\ Applies(before, undone) /\ versions[o].before = Before(before, undone)
  <2>1. Changes(o)
    BY DEF VersionInv, HistoryInv, Rescopes
  <2>2. before \in Tax
    <3>1. o - 1 \in Version
      BY <1>1, BoundAssumption DEF Version
    <3>2. versions[o - 1] \in VersionRecord
      BY <3>1 DEF VersionInv, VersionOK
    <3> QED
      BY <3>2 DEF VersionRecord
  <2>3. Named(before)
    BY <1>1 DEF VersionInv, NamedInv
  <2> QED
    BY <2>1, <2>2, <2>3 DEF Changes
<1>3. /\ undone.kind = "rename" => before.state[undone.item] = "live"
      /\ undone.kind = "add" => before.state[undone.item] = "absent"
      /\ undone.kind = "retire" => before.state[undone.item] = "live"
      /\ undone.kind = "restore" => before.state[undone.item] = "retired"
      /\ undone.kind \in {"add", "rename", "retire", "restore"}
      /\ undone.item \in Item
  BY <1>2, AppliedTo, AppliedTyped
<1>4. /\ versions[o].before \in Name \cup {NoName}
      /\ undone.kind = "rename" => /\ versions[o].before = before.name[undone.item]
                                   /\ versions[o].before \in Name
  BY <1>2, <1>3, AppliedTyped DEF Before, Named
<1> PICK c \in Change : c = Undoing(o)
  BY <1>2, <1>4, InverseTyped DEF Undoing
<1>5. /\ c.kind # "scope" /\ c.item = undone.item
      /\ undone.kind \in {"add", "restore"} => c.kind = "retire"
      /\ undone.kind = "retire" => c.kind = "restore"
      /\ undone.kind = "rename" => c.kind = "rename" /\ c.name = before.name[undone.item]
  BY <1>3, <1>4 DEF Undoing, InverseChange
<1> PICK auto \in BOOLEAN, p \in Proposal \cup {NoProposal} : auto = FALSE /\ p = NoProposal
  OBVIOUS
<1>6. Applies(Taxonomy, c) /\ Commit(c, auto, p, o) /\ latest > 0 /\ o \in 0..latest
  <2> HIDE DEF Undoing
  <2>1. Applies(Taxonomy, c)
    OBVIOUS
  <2>2. /\ latest < MaxVersions
        /\ latest' = latest + 1
        /\ versions' = [versions EXCEPT ![latest + 1] =
                          [taxonomy |-> Applied(Taxonomy, Undoing(o)), change |-> Undoing(o),
                           before |-> Before(Taxonomy, Undoing(o)),
                           auto |-> FALSE, proposal |-> NoProposal, undoes |-> o]]
    BY DEF Commit
  <2>3. Commit(c, auto, p, o)
    BY <2>2, Zenon DEF Commit
  <2> QED
    BY <1>1, <2>1, <2>3
<1>7. VersionOK' /\ FreshInv' /\ HistoryInv' /\ NamedInv'
  BY <1>1, <1>5, <1>6, CommitKeeps
<1>8. Added /\ versions'[n] =
                 [taxonomy |-> Applied(Taxonomy, c), change |-> c, before |-> Before(Taxonomy, c),
                  auto |-> auto, proposal |-> p, undoes |-> o]
  BY <1>6, CommitAdds DEF VersionInv
<1>9. /\ latest' = n /\ \A v \in 1..latest : v \in Version /\ versions'[v] = versions[v]
      /\ Taxonomy \in Tax
  BY <1>8, <1>6, AddedKeeps, TaxonomyTyped DEF VersionInv, Added
<1>10. UndoneInv'
  <2>1. \A w \in 1..latest : versions[w].undoes # o
    BY DEF UndoneAlready
  <2> QED
    BY <1>1, <1>8, <1>9, <2>1 DEF VersionInv, UndoneInv
<1>11. RetiredInv'
  <2>1. \A v \in 2..latest : UndoneAlready(v) => UndoneAlready(v)'
    BY <1>1, <1>9 DEF UndoneAlready
  <2>2. UndoneAlready(o)'
    BY <1>1, <1>8, <1>9 DEF UndoneAlready
  <2>3. ASSUME NEW v \in 2..latest, Retires(v), c.kind = "restore", versions[v].change.item = c.item
        PROVE UndoneAlready(v)'
    <3>1. Retires(o)
      BY <1>3, <1>5, <2>3 DEF Retires
    <3>2. v = o
      BY <1>5, <2>3, <3>1 DEF VersionInv, RetiredInv
    <3> QED
      BY <2>2, <3>2
  <2> QED
    BY <1>6, <1>8, <2>1, <2>3, RetirementsKept
<1>12. \A i \in Item :
         Shown(versions'[n].taxonomy, i) =
           Shown(IF i = undone.item THEN before ELSE Taxonomy, i)
  <2> TAKE i \in Item
  <2>1. versions'[n].taxonomy = Applied(Taxonomy, c)
    BY <1>8
  <2>2. CASE i # undone.item
    BY <1>5, <1>6, <1>9, <2>1, <2>2, AppliedTo DEF Shown
  <2>3. CASE i = undone.item /\ undone.kind \in {"add", "restore"}
    BY <1>3, <1>5, <1>6, <1>9, <2>1, <2>3, AppliedTo DEF Shown
  <2>4. CASE i = undone.item /\ undone.kind = "rename"
    BY <1>3, <1>5, <1>6, <1>9, <2>1, <2>4, AppliedTo DEF Shown
  <2>5. CASE i = undone.item /\ undone.kind = "retire"
    <3>1. Retires(o)
      BY <2>5 DEF Retires
    <3>2. Taxonomy.name[i] = before.name[i]
      BY <2>5, <3>1 DEF VersionInv, RetiredInv
    <3> QED
      BY <1>3, <1>5, <1>6, <1>9, <2>1, <2>5, <3>2, AppliedTo DEF Shown
  <2> QED
    BY <1>3, <2>2, <2>3, <2>4, <2>5
<1>13. UndoIsExact'
  <2> SUFFICES ASSUME NEW u \in 1..n, versions'[u].undoes # 0
               PROVE /\ \A i \in Item :
                          Shown(versions'[u].taxonomy, i) =
                            Shown(versions'[IF i = versions'[versions'[u].undoes].change.item
                                            THEN versions'[u].undoes - 1 ELSE u - 1].taxonomy, i)
                     /\ versions'[u].taxonomy.scope = versions'[u - 1].taxonomy.scope
                     /\ \A w \in 1..n : versions'[w].undoes = versions'[u].undoes => w = u
    BY <1>9 DEF UndoIsExact
  <2>0. \A w \in 1..n : versions'[w].undoes = versions'[u].undoes => w = u
    BY <1>9, <1>10 DEF UndoneInv
  <2>1. CASE u = n
    <3>1. /\ versions'[n].undoes = o /\ versions'[o] = versions[o] /\ versions'[o - 1] = versions[o - 1]
          /\ versions'[n - 1] = versions[latest]
      BY <1>1, <1>8, <1>9
    <3>2. versions'[n].taxonomy.scope = Taxonomy.scope
      BY <1>6, <1>8, <1>9, AppliedTyped
    <3> QED
      BY <1>12, <2>0, <2>1, <3>1, <3>2 DEF Taxonomy
  <2>2. CASE u \in 1..latest
    <3> DEFINE v == versions[u].undoes
    <3>1. versions'[u] = versions[u]
      BY <1>9, <2>2
    <3>2. v \in 2..(u - 1)
      BY <2>2, <3>1 DEF VersionInv, UndoneInv
    <3> HIDE DEF v
    <3>3. /\ versions'[v] = versions[v] /\ versions'[v - 1] = versions[v - 1]
          /\ versions'[u - 1] = versions[u - 1]
      <4>1. v \in 1..latest /\ v - 1 \in 1..latest /\ u - 1 \in 1..latest
        BY <1>1, <2>2, <3>2
      <4> QED
        BY <1>9, <4>1
    <3> USE DEF v
    <3>4. /\ \A i \in Item :
                Shown(versions[u].taxonomy, i) =
                  Shown(versions[IF i = versions[v].change.item THEN v - 1 ELSE u - 1].taxonomy, i)
          /\ versions[u].taxonomy.scope = versions[u - 1].taxonomy.scope
      BY <2>2, <3>1 DEF VersionInv, UndoIsExact
    <3> QED
      BY <2>0, <3>1, <3>3, <3>4
  <2> QED
    BY <1>1, <2>1, <2>2
<1> QED
  BY <1>7, <1>10, <1>11, <1>13 DEF VersionInv

LEMMA VersionsKept == ASSUME VersionInv, NEW d \in Definition, VersionStep PROVE VersionInv'
<1>1. CASE UNCHANGED versionVars
  BY <1>1 DEF versionVars, VersionInv, VersionOK, FreshInv, HistoryInv, Rescopes, Changes, NamedInv,
              UndoneInv, RetiredInv, Retires, UndoneAlready, Taxonomy, UndoIsExact
<1> QED
  BY <1>1, CommitStepKeeps, UndoStepKeeps, ScopeStepKeeps, SeedStepKeeps DEF VersionStep

-----------------------------------------------------------------------------
(* The types of the other variables, and what reviews and applications     *)
(* have read.                                                              *)

LEMMA SettleTyped ==
    ASSUME ProposalOK, NEW p \in Proposal, NEW status \in {"rejected", "applied"},
           NEW v \in 0..MaxVersions, Settle(p, status, v)
    PROVE ProposalOK'
BY DEF ProposalOK, ProposalRecord, Settle

LEMMA SavedTyped ==
    ASSUME ProposalOK, NEW r \in Run, NEW n \in 0..MaxAnswer, NEW answer \in [1..n -> Proposable]
    PROVE Saved(r, answer) \in [Proposal -> ProposalRecord]
<1> SUFFICES ASSUME NEW p \in Proposal PROVE Saved(r, answer)[p] \in ProposalRecord
  BY DEF Saved
<1>1. proposals[p] \in ProposalRecord
  BY DEF ProposalOK
<1>2. CASE p[2] \in DOMAIN answer
  <2>1. answer[p[2]] \in Proposable /\ 0 \in 0..MaxVersions
    BY <1>2, BoundAssumption
  <2> QED
    BY <1>1, <2>1 DEF Saved, ProposalRecord
<1>3. CASE p[2] \notin DOMAIN answer
  BY <1>1, <1>3 DEF Saved
<1> QED
  BY <1>2, <1>3

LEMMA LogTyped ==
    ASSUME LogOK, NEW action \in {"accept", "edit", "reject", "apply", "undo", "revoke"},
           NEW k \in Kind \cup {NoKind}, NEW p \in Proposal \cup {NoProposal}, Log(action, k, p)
    PROVE /\ logged' = logged + 1 /\ logged \in Nat /\ logged' \in 1..MaxLogged
          /\ log' \in [1..MaxLogged -> LogRecord]
          /\ log'[logged + 1] = [action |-> action, kind |-> k, proposal |-> p]
          /\ \A i \in 1..logged : log'[i] = log[i] /\ i \in 1..MaxLogged
BY BoundAssumption DEF LogOK, Log, LogRecord

LEMMA StreakTyped ==
    ASSUME LogOK, NEW k \in Kind \cup {NoKind}, NEW n \in Nat, SetStreak(k, n)
    PROVE streak' \in [Kind -> Nat]
BY DEF LogOK, SetStreak

(* The steps that decide, by what they log.                                *)
Decides(action, k, p, n) ==
    /\ Log(action, k, p)
    /\ IF action = "accept" THEN SetStreak(k, IF k = NoKind THEN 0 ELSE streak[k] + 1)
       ELSE IF action = "apply" THEN Earned(k) /\ UNCHANGED streak
       ELSE SetStreak(k, 0)
    /\ \/ /\ action \in {"accept", "edit", "apply"}
          /\ p \in Proposal /\ IsOpen(p)
          /\ n = latest + 1 /\ latest > 0 /\ latest < MaxVersions /\ latest' = n
          /\ Settle(p, "applied", n)
          /\ \E rec : versions' = [versions EXCEPT ![n] = rec] /\ rec.proposal = p
       \/ /\ action = "reject"
          /\ p \in Proposal /\ IsOpen(p)
          /\ Settle(p, "rejected", 0)
          /\ UNCHANGED versionVars
       \/ action = "undo" /\ p = NoProposal /\ UNCHANGED proposals /\ UndoStep
       \/ action = "revoke" /\ p = NoProposal /\ UNCHANGED proposals /\ UNCHANGED versionVars

DecideStep ==
    \E action \in {"accept", "edit", "reject", "apply", "undo", "revoke"}, k \in Kind \cup {NoKind},
       p \in Proposal \cup {NoProposal}, n \in Nat :
        Decides(action, k, p, n)
SaveStep ==
    /\ \E r \in Run, n \in 0..MaxAnswer : \E answer \in [1..n -> Proposable] : proposals' = Saved(r, answer)
    /\ UNCHANGED <<versionVars, streak, logged, log>>
OtherStep ==
    /\ ScopeStep \/ SeedStep \/ UNCHANGED versionVars
    /\ UNCHANGED decisionVars

LEMMA CommitOf ==
    ASSUME VersionOK, NEW c, NEW auto, NEW p, NEW u, Commit(c, auto, p, u)
    PROVE /\ latest + 1 \in Nat /\ latest < MaxVersions /\ latest' = latest + 1
          /\ \E rec : versions' = [versions EXCEPT ![latest + 1] = rec] /\ rec.proposal = p
<1> DEFINE new == [taxonomy |-> Applied(Taxonomy, c), change |-> c, before |-> Before(Taxonomy, c),
                   auto |-> auto, proposal |-> p, undoes |-> u]
<1>1. latest < MaxVersions /\ latest' = latest + 1 /\ versions' = [versions EXCEPT ![latest + 1] = new]
  BY DEF Commit
<1>2. new.proposal = p
  OBVIOUS
<1> HIDE DEF new
<1>3. \E rec : versions' = [versions EXCEPT ![latest + 1] = rec] /\ rec.proposal = p
  BY <1>1, <1>2, Zenon
<1>4. latest + 1 \in Nat
  BY BoundAssumption DEF VersionOK
<1> QED
  BY <1>1, <1>3, <1>4, Zenon

LEMMA DecisionSteps ==
    ASSUME TypeOK, RunningInv, RequestInv, [Next]_vars PROVE DecideStep \/ SaveStep \/ OtherStep
<1> USE TypeParts
<1>0. /\ latest \in Nat /\ VersionOK
      /\ \A p \in Proposal : /\ proposals[p].change \in Change \cup {NoChange}
                             /\ AutonomyKind(proposals[p].change) \in Kind \cup {NoKind}
  BY KindTyped, ProposableIsChange, BoundAssumption DEF VersionOK, ProposalOK, ProposalRecord
<1>1. ASSUME NEW p \in Proposal, NEW role \in {"owner", "reviewer"}, Accept(role, p) PROVE DecideStep
  <2>1. PICK k \in Kind \cup {NoKind} : k = AutonomyKind(proposals[p].change)
    BY <1>0
  <2>2. PICK c : c = proposals[p].change
    OBVIOUS
  <2>3. Commit(c, FALSE, p, 0)
    BY <1>1, <2>2 DEF Accept, Commit
  <2>4. /\ latest + 1 \in Nat /\ latest < MaxVersions /\ latest' = latest + 1
        /\ \E rec : versions' = [versions EXCEPT ![latest + 1] = rec] /\ rec.proposal = p
    BY <1>0, <2>3, CommitOf
  <2>5. PICK n \in Nat : n = latest + 1
    BY <2>4
  <2>6. Log("accept", k, p) /\ SetStreak(k, IF k = NoKind THEN 0 ELSE streak[k] + 1)
    BY <1>1, <2>1 DEF Accept, Log, SetStreak
  <2>7. IsOpen(p) /\ latest > 0 /\ Settle(p, "applied", n)
    BY <1>1, <2>5 DEF Accept, Settle
  <2>8. Decides("accept", k, p, n)
    BY <2>4, <2>5, <2>6, <2>7 DEF Decides
  <2> QED
    BY <2>8 DEF DecideStep
<1>2. ASSUME NEW p \in Proposal, NEW c \in Proposable, Edit(p, c) PROVE DecideStep
  <2>1. PICK k \in Kind \cup {NoKind} : k = AutonomyKind(proposals[p].change)
    BY <1>0
  <2>3. Commit(c, FALSE, p, 0)
    BY <1>2 DEF Edit
  <2>4. /\ latest + 1 \in Nat /\ latest < MaxVersions /\ latest' = latest + 1
        /\ \E rec : versions' = [versions EXCEPT ![latest + 1] = rec] /\ rec.proposal = p
    BY <1>0, <2>3, CommitOf
  <2>5. PICK n \in Nat : n = latest + 1
    BY <2>4
  <2>6. Log("edit", k, p) /\ SetStreak(k, 0)
    BY <1>2, <2>1 DEF Edit, Log, SetStreak
  <2>7. IsOpen(p) /\ latest > 0 /\ Settle(p, "applied", n)
    BY <1>2, <2>5 DEF Edit, Settle
  <2>8. Decides("edit", k, p, n)
    BY <2>4, <2>5, <2>6, <2>7 DEF Decides
  <2> QED
    BY <2>8 DEF DecideStep
<1>3. ASSUME NEW p \in Proposal, NEW role \in {"owner", "reviewer"}, Reject(role, p) PROVE DecideStep
  <2>1. PICK k \in Kind \cup {NoKind} : k = AutonomyKind(proposals[p].change)
    BY <1>0
  <2>2. Log("reject", k, p) /\ SetStreak(k, 0)
    BY <1>3, <2>1 DEF Reject, Log, SetStreak
  <2>3. Decides("reject", k, p, 0)
    BY <1>3, <2>2 DEF Decides, Reject
  <2> QED
    BY <2>3 DEF DecideStep
<1>4. ASSUME NEW r \in Run, NEW p \in Proposal, Apply(r, p) PROVE DecideStep \/ OtherStep
  <2>1. CASE IsOpen(p) /\ Earned(AutonomyKind(proposals[p].change)) /\ Applies(Taxonomy, proposals[p].change)
    <3>1. PICK k \in Kind \cup {NoKind} : k = AutonomyKind(proposals[p].change)
      BY <1>0
    <3>2. PICK c : c = proposals[p].change
      OBVIOUS
    <3>3. Commit(c, TRUE, p, 0)
      BY <1>4, <2>1, <3>2 DEF Apply, Commit
    <3>4. /\ latest + 1 \in Nat /\ latest < MaxVersions /\ latest' = latest + 1
          /\ \E rec : versions' = [versions EXCEPT ![latest + 1] = rec] /\ rec.proposal = p
      BY <1>0, <3>3, CommitOf
    <3>5. PICK n \in Nat : n = latest + 1
      BY <3>4
    <3>6. Log("apply", k, p) /\ Earned(k) /\ UNCHANGED streak
      BY <1>4, <2>1, <3>1 DEF Apply, Log, Earned
    <3>7. IsOpen(p) /\ Settle(p, "applied", n)
      BY <1>4, <2>1, <3>5 DEF Apply, Settle
    <3>8. latest > 0
      BY <1>4 DEF Apply, RunningInv
    <3>9. Decides("apply", k, p, n)
      BY <3>4, <3>5, <3>6, <3>7, <3>8 DEF Decides
    <3> QED
      BY <3>9 DEF DecideStep
  <2>2. CASE ~(IsOpen(p) /\ Earned(AutonomyKind(proposals[p].change)) /\ Applies(Taxonomy, proposals[p].change))
    BY <1>4, <2>2 DEF Apply, OtherStep, decisionVars
  <2> QED
    BY <2>1, <2>2
<1>5. ASSUME NEW k \in Kind, Revoke(k) PROVE DecideStep
  <2>1. Decides("revoke", k, NoProposal, 0)
    BY <1>5 DEF Revoke, Decides
  <2> QED
    BY <2>1 DEF DecideStep
<1>6. ASSUME NEW v \in Version, Undo(v) PROVE DecideStep
  <2>1. UndoStep
    BY <1>6 DEF Undo, UndoStep, Undoing
  <2>2. versions[v].change \in Change \cup {NoChange}
    BY <1>0 DEF VersionOK, VersionRecord
  <2>3. PICK k \in Kind \cup {NoKind} :
          k = IF versions[v].auto THEN AutonomyKind(versions[v].change) ELSE NoKind
    BY <2>2, KindTyped
  <2>4. Log("undo", k, NoProposal) /\ SetStreak(k, 0)
    BY <1>6, <2>3 DEF Undo, Log, SetStreak
  <2>5. Decides("undo", k, NoProposal, 0)
    BY <1>6, <2>1, <2>4 DEF Undo, Decides
  <2> QED
    BY <2>5 DEF DecideStep
<1>7. ASSUME NEW r \in Run, Save(r) PROVE SaveStep
  BY <1>7 DEF Save, SaveStep
<1>8. ASSUME Next, ~(\E p \in Proposal, role \in {"owner", "reviewer"} : Accept(role, p) \/ Reject(role, p)),
             ~(\E p \in Proposal, c \in Proposable : Edit(p, c)), ~(\E k \in Kind : Revoke(k)),
             ~(\E v \in Version : Undo(v)), ~(\E r \in Run : Save(r) \/ \E p \in Proposal : Apply(r, p))
      PROVE /\ UNCHANGED decisionVars
            /\ \/ UNCHANGED versionVars
               \/ \E a \in Caller : ApplyDefinition(a) \/ SeedTaxonomy(a)
  BY <1>8, Zenon DEF Next, Begin, Ask, Look, End, Stop, ReadToApply, ReadToSeed, ApplyDefinition,
                     SeedTaxonomy
<1>9. ASSUME NEW a \in Caller, ApplyDefinition(a) \/ SeedTaxonomy(a)
      PROVE ScopeStep \/ SeedStep \/ UNCHANGED versionVars
  <2>1. request[a] \in RequestRecord
    BY DEF RequestOK
  <2>2. ScopeOf[request[a].defn] \in Scope
    BY <2>1, DefinitionsScope DEF RequestRecord
  <2>3. CASE request[a].rescoped /\ latest = request[a].base /\ latest < MaxVersions
             /\ latest' = latest + 1 /\ ApplyDefinition(a)
    <3>1. latest > 0
      BY <1>0, <2>1, <2>3 DEF RequestInv
    <3> QED
      BY <1>0, <2>1, <2>2, <2>3, <3>1 DEF ApplyDefinition, Rescope, ScopeStep, versionVars
  <2>4. CASE SeedTaxonomy(a)
    BY <1>0, <2>2, <2>4 DEF SeedTaxonomy, SeedStep
  <2> QED
    BY <1>9, <2>3, <2>4 DEF ApplyDefinition, Rescope
<1>10. CASE UNCHANGED vars
  BY <1>10 DEF vars, OtherStep, decisionVars
<1>11. CASE Next
  BY <1>1, <1>2, <1>3, <1>4, <1>5, <1>6, <1>7, <1>8, <1>9, <1>11 DEF OtherStep
<1> QED
  BY <1>10, <1>11

LEMMA DecidesStreak ==
    ASSUME LogOK, NEW action \in {"accept", "edit", "reject", "apply", "undo", "revoke"},
           NEW k \in Kind \cup {NoKind}, NEW p \in Proposal \cup {NoProposal}, NEW n \in Nat,
           Decides(action, k, p, n)
    PROVE /\ Log(action, k, p)
          /\ action = "apply" => k \in Kind /\ streak[k] >= AutonomyAfter /\ UNCHANGED streak
          /\ k = NoKind => UNCHANGED streak
          /\ action = "accept" /\ k \in Kind => streak' = [streak EXCEPT ![k] = streak[k] + 1]
          /\ action \notin {"accept", "apply"} /\ k \in Kind => streak' = [streak EXCEPT ![k] = 0]
          /\ streak' \in [Kind -> Nat]
<1>1. Log(action, k, p)
  BY Zenon DEF Decides
<1>2. CASE action = "apply"
  BY <1>1, <1>2 DEF Decides, Earned, LogOK
<1>3. CASE action = "accept" /\ k = NoKind
  BY <1>1, <1>3, ItemAssumption DEF Decides, SetStreak, LogOK
<1>4. CASE action = "accept" /\ k \in Kind
  <2>1. streak' = [streak EXCEPT ![k] = streak[k] + 1]
    BY <1>4, ItemAssumption DEF Decides, SetStreak
  <2> QED
    BY <1>1, <1>4, <2>1, ItemAssumption DEF LogOK
<1>5. CASE action \notin {"accept", "apply"}
  <2>1. streak' = IF k = NoKind THEN streak ELSE [streak EXCEPT ![k] = 0]
    BY <1>5 DEF Decides, SetStreak
  <2> QED
    BY <1>1, <1>5, <2>1, ItemAssumption DEF LogOK
<1> QED
  BY <1>2, <1>3, <1>4, <1>5

LEMMA DecisionsTyped ==
    ASSUME ProposalOK, LogOK, VersionOK, DecideStep \/ SaveStep \/ OtherStep
    PROVE ProposalOK' /\ LogOK'
<1>1. CASE DecideStep
  <2> PICK action \in {"accept", "edit", "reject", "apply", "undo", "revoke"}, k \in Kind \cup {NoKind},
           p \in Proposal \cup {NoProposal}, n \in Nat : Decides(action, k, p, n)
    BY <1>1 DEF DecideStep
  <2>1. Log(action, k, p) /\ streak' \in [Kind -> Nat]
    BY DecidesStreak
  <2>2. /\ logged' \in 1..MaxLogged
        /\ log' \in [1..MaxLogged -> LogRecord]
    BY <2>1, LogTyped
  <2>3. LogOK'
    BY <2>1, <2>2, BoundAssumption DEF LogOK
  <2>4. ProposalOK'
    <3>1. CASE UNCHANGED proposals
      BY <3>1 DEF ProposalOK
    <3>2. CASE p \in Proposal /\ Settle(p, "rejected", 0)
      <4>1. 0 \in 0..MaxVersions
        BY BoundAssumption
      <4> QED
        BY <3>2, <4>1, SettleTyped
    <3>3. CASE p \in Proposal /\ Settle(p, "applied", n) /\ n = latest + 1 /\ latest < MaxVersions
      <4>1. n \in 0..MaxVersions
        BY <3>3, BoundAssumption DEF VersionOK
      <4> QED
        BY <3>3, <4>1, SettleTyped
    <3> QED
      BY <3>1, <3>2, <3>3, Zenon DEF Decides
  <2> QED
    BY <2>3, <2>4
<1>2. CASE SaveStep
  BY <1>2, SavedTyped DEF SaveStep, ProposalOK, LogOK
<1>3. CASE OtherStep
  BY <1>3 DEF OtherStep, decisionVars, ProposalOK, LogOK
<1> QED
  BY <1>1, <1>2, <1>3

-----------------------------------------------------------------------------
(* A kind's streak is what the log says it is.                             *)

StreakInv ==
    /\ \A k \in Kind : streak[k] = Cardinality(RunBefore(k, logged + 1))
    /\ AutonomyIsEarned

LEMMA RunFinite ==
    ASSUME LogOK, NEW k, NEW j \in 1..(logged + 1)
    PROVE IsFiniteSet(RunBefore(k, j)) /\ j \notin RunBefore(k, j)
<1>1. IsFiniteSet(1..(j - 1)) /\ RunBefore(k, j) \subseteq 1..(j - 1)
  BY FS_Interval, BoundAssumption DEF RunBefore, LogOK
<1> QED
  BY <1>1, FS_Subset, BoundAssumption DEF LogOK

(* A new entry changes no earlier run; it adds to its kind's run, ends it, *)
(* or leaves it.                                                           *)
LEMMA RunExtends ==
    ASSUME LogOK, NEW action \in {"accept", "edit", "reject", "apply", "undo", "revoke"},
           NEW k \in Kind \cup {NoKind}, NEW p \in Proposal \cup {NoProposal}, Log(action, k, p),
           NEW m, m = logged + 1
    PROVE /\ logged \in Nat /\ m \in Nat /\ logged' = m
          /\ \A q : \A j \in 1..m : RunBefore(q, j)' = RunBefore(q, j)
          /\ \A q : q # k \/ action = "apply" => RunBefore(q, m + 1)' = RunBefore(q, m)
          /\ action = "accept" => RunBefore(k, m + 1)' = RunBefore(k, m) \cup {m}
          /\ action \in Breaking => RunBefore(k, m + 1)' = {}
<1>1. /\ logged' = m /\ logged \in Nat /\ m \in Nat \ {0} /\ logged = m - 1
      /\ log'[m].action = action /\ log'[m].kind = k
      /\ \A i \in 1..(m - 1) : log'[i] = log[i]
  <2>1. /\ logged' = logged + 1 /\ logged \in Nat
        /\ log'[logged + 1] = [action |-> action, kind |-> k, proposal |-> p]
        /\ \A i \in 1..logged : log'[i] = log[i]
    BY LogTyped
  <2> QED
    BY <2>1
<1>2. ASSUME NEW q, NEW j \in 1..m PROVE RunBefore(q, j)' = RunBefore(q, j)
  BY <1>1 DEF RunBefore
<1> DEFINE Goes(l, q, i, n) ==
             /\ l[i].action = "accept" /\ l[i].kind = q
             /\ \A b \in i..n : ~(l[b].kind = q /\ l[b].action \in Breaking)
<1>3. ASSUME NEW q PROVE RunBefore(q, m + 1)' = {i \in 1..m : Goes(log', q, i, m)}
  BY <1>1 DEF RunBefore
<1>4. ASSUME NEW q PROVE RunBefore(q, m) = {i \in 1..(m - 1) : Goes(log', q, i, m - 1)}
  BY <1>1 DEF RunBefore
<1>5. ASSUME NEW q, NEW i \in 1..(m - 1), ~(q = k /\ action \in Breaking)
      PROVE Goes(log', q, i, m) <=> Goes(log', q, i, m - 1)
  <2>1. \A b \in i..m : b = m \/ b \in i..(m - 1)
    BY <1>1
  <2>2. i..(m - 1) \subseteq i..m
    BY <1>1
  <2> QED
    BY <1>1, <1>5, <2>1, <2>2, Zenon
<1>6. ASSUME NEW q PROVE Goes(log', q, m, m) <=> action = "accept" /\ k = q
  <2>1. m..m = {m}
    BY <1>1
  <2> QED
    BY <1>1, <2>1 DEF Breaking
<1>7. ASSUME NEW q, NEW i \in 1..m, q = k, action \in Breaking PROVE ~Goes(log', q, i, m)
  <2>1. m \in i..m
    BY <1>1
  <2> QED
    BY <1>1, <1>7, <2>1, Zenon
<1>8. 1..m = 1..(m - 1) \cup {m} /\ m \notin 1..(m - 1)
  BY <1>1
<1>9. "accept" \notin Breaking /\ "apply" \notin Breaking
  BY DEF Breaking
<1> HIDE DEF Goes
<1>10. ASSUME NEW q, q # k \/ action = "apply" PROVE RunBefore(q, m + 1)' = RunBefore(q, m)
  <2>1. ~(q = k /\ action \in Breaking) /\ ~(q = k /\ action = "accept")
    BY <1>9, <1>10
  <2>2. ~Goes(log', q, m, m) /\ \A i \in 1..(m - 1) : Goes(log', q, i, m) <=> Goes(log', q, i, m - 1)
    BY <1>5, <1>6, <2>1
  <2>3. {i \in 1..m : Goes(log', q, i, m)} = {i \in 1..(m - 1) : Goes(log', q, i, m - 1)}
    BY <1>8, <2>2
  <2> QED
    BY <1>3, <1>4, <2>3
<1>11. ASSUME action = "accept" PROVE RunBefore(k, m + 1)' = RunBefore(k, m) \cup {m}
  BY <1>3, <1>4, <1>5, <1>6, <1>8, <1>9, <1>11
<1>12. ASSUME action \in Breaking PROVE RunBefore(k, m + 1)' = {}
  BY <1>3, <1>7, <1>12
<1> QED
  BY <1>1, <1>2, <1>10, <1>11, <1>12

LEMMA StreaksKept ==
    ASSUME LogOK, StreakInv, DecideStep \/ SaveStep \/ OtherStep PROVE StreakInv'
<1>1. CASE DecideStep
  <2> PICK action \in {"accept", "edit", "reject", "apply", "undo", "revoke"}, k \in Kind \cup {NoKind},
           p \in Proposal \cup {NoProposal}, n \in Nat : Decides(action, k, p, n)
    BY <1>1 DEF DecideStep
  <2> PICK m : m = logged + 1
    OBVIOUS
  <2>1. /\ Log(action, k, p)
        /\ action = "apply" => k \in Kind /\ streak[k] >= AutonomyAfter /\ UNCHANGED streak
        /\ k = NoKind => UNCHANGED streak
        /\ action = "accept" /\ k \in Kind => streak' = [streak EXCEPT ![k] = streak[k] + 1]
        /\ action \notin {"accept", "apply"} /\ k \in Kind => streak' = [streak EXCEPT ![k] = 0]
    BY DecidesStreak
  <2>2. /\ logged \in Nat /\ m \in Nat /\ logged' = m
        /\ \A q : \A j \in 1..m : RunBefore(q, j)' = RunBefore(q, j)
        /\ \A q : q # k \/ action = "apply" => RunBefore(q, m + 1)' = RunBefore(q, m)
        /\ action = "accept" => RunBefore(k, m + 1)' = RunBefore(k, m) \cup {m}
        /\ action \in Breaking => RunBefore(k, m + 1)' = {}
    BY <2>1, RunExtends
  <2>3. ASSUME NEW q \in Kind PROVE streak'[q] = Cardinality(RunBefore(q, m + 1)')
    <3>1. streak[q] = Cardinality(RunBefore(q, m)) /\ streak \in [Kind -> Nat] /\ q # NoKind
      BY ItemAssumption DEF StreakInv, LogOK
    <3>2. CASE action = "apply" \/ q # k
      <4>1. streak'[q] = streak[q]
        BY <2>1, <3>1, <3>2
      <4>2. RunBefore(q, m + 1)' = RunBefore(q, m)
        BY <2>2, <3>2
      <4> QED
        BY <3>1, <4>1, <4>2
    <3>3. CASE action = "accept" /\ q = k
      <4>1. streak'[q] = streak[q] + 1
        BY <2>1, <3>1, <3>3
      <4>2. IsFiniteSet(RunBefore(q, m)) /\ m \notin RunBefore(q, m)
        BY <2>2, RunFinite
      <4>3. Cardinality(RunBefore(q, m) \cup {m}) = Cardinality(RunBefore(q, m)) + 1
        BY <4>2, FS_AddElement
      <4>4. RunBefore(q, m + 1)' = RunBefore(q, m) \cup {m}
        BY <2>2, <3>3
      <4> QED
        BY <3>1, <4>1, <4>3, <4>4
    <3>4. CASE action \in Breaking /\ q = k
      <4>1. streak'[q] = 0
        BY <2>1, <3>1, <3>4 DEF Breaking
      <4>2. RunBefore(q, m + 1)' = {}
        BY <2>2, <3>4
      <4> QED
        BY <4>1, <4>2, FS_EmptySet
    <3> QED
      BY <3>2, <3>3, <3>4 DEF Breaking
  <2>4. ASSUME NEW j \in 1..m, log'[j].action = "apply"
        PROVE Cardinality(RunBefore(log[j].kind, j)') >= AutonomyAfter
    <3>1. /\ log'[m] = [action |-> action, kind |-> k, proposal |-> p]
          /\ \A i \in 1..logged : log'[i] = log[i]
      <4>1. /\ log'[logged + 1] = [action |-> action, kind |-> k, proposal |-> p]
            /\ \A i \in 1..logged : log'[i] = log[i]
        BY <2>1, LogTyped
      <4> QED
        BY <4>1
    <3> PICK q : q = log'[j].kind
      OBVIOUS
    <3>2. RunBefore(q, j)' = RunBefore(q, j)
      BY <2>2
    <3>4. Cardinality(RunBefore(q, j)) >= AutonomyAfter
      <4>1. CASE j = m
        <5>1. action = "apply" /\ q = k
          BY <2>4, <3>1, <4>1
        <5>2. k \in Kind /\ streak[k] >= AutonomyAfter
          BY <2>1, <5>1
        <5> QED
          BY <4>1, <5>1, <5>2 DEF StreakInv
      <4>2. CASE j \in 1..logged
        <5>1. log'[j] = log[j]
          BY <3>1, <4>2
        <5> QED
          BY <2>4, <4>2, <5>1 DEF StreakInv, AutonomyIsEarned
      <4> QED
        BY <2>2, <4>1, <4>2
    <3>5. RunBefore(q, j)' = RunBefore(log[j].kind, j)'
      BY DEF RunBefore
    <3> QED
      BY <3>2, <3>4, <3>5
  <2>5. AutonomyIsEarned'
    BY <2>2, <2>4 DEF AutonomyIsEarned
  <2>6. \A q \in Kind : streak'[q] = Cardinality(RunBefore(q, logged + 1)')
    <3> TAKE q \in Kind
    <3>1. RunBefore(q, logged + 1)' = RunBefore(q, m + 1)'
      BY <2>2 DEF RunBefore
    <3> QED
      BY <2>3, <3>1
  <2> QED
    BY <2>5, <2>6 DEF StreakInv
<1>2. CASE SaveStep \/ OtherStep
  <2>1. streak' = streak /\ logged' = logged /\ log' = log
    BY <1>2 DEF SaveStep, OtherStep, decisionVars
  <2>2. \A q \in Kind : streak'[q] = Cardinality(RunBefore(q, logged + 1)')
    BY <2>1 DEF StreakInv, RunBefore
  <2>3. ASSUME NEW j \in 1..logged, log[j].action = "apply"
        PROVE Cardinality(RunBefore(log[j].kind, j)') >= AutonomyAfter
    <3>1. RunBefore(log[j].kind, j)' = RunBefore(log[j].kind, j)
      BY <2>1 DEF RunBefore
    <3> QED
      BY <2>3, <3>1 DEF StreakInv, AutonomyIsEarned
  <2>4. AutonomyIsEarned'
    BY <2>1, <2>3 DEF AutonomyIsEarned
  <2> QED
    BY <2>2, <2>4 DEF StreakInv
<1> QED
  BY <1>1, <1>2

-----------------------------------------------------------------------------
(* A proposal is settled once.                                             *)

SettledInv ==
    /\ \A i \in 1..logged : log[i].proposal \in Proposal =>
         proposals[log[i].proposal].status \in {"rejected", "applied"}
    /\ \A p \in Proposal : proposals[p].status = "applied" => proposals[p].version \in 1..latest
    /\ SettledOnce

(* The versions each proposal made are those it says.                      *)
MadeInv ==
    /\ \A p \in Proposal : proposals[p].status = "applied" => proposals[p].version \in 1..latest
    /\ \A p \in Proposal : \A v \in 1..latest :
         versions[v].proposal = p <=> proposals[p].status = "applied" /\ proposals[p].version = v
LoggedInv ==
    /\ \A i \in 1..logged : log[i].proposal \in Proposal =>
         proposals[log[i].proposal].status \in {"rejected", "applied"}
    /\ \A i, j \in 1..logged :
         i # j /\ log[i].proposal = log[j].proposal => log[i].proposal = NoProposal
HeldInv ==
    \A p, q \in Proposal :
        p # q /\ proposals[p].status \in SeenStatus /\ proposals[q].status \in SeenStatus
           => proposals[p].change # proposals[q].change

LEMMA SettledParts == SettledInv <=> MadeInv /\ LoggedInv /\ HeldInv
BY DEF SettledInv, SettledOnce, MadeInv, LoggedInv, HeldInv

(* A version that no proposal made changes nothing about them.             *)
LEMMA UnproposedKeeps ==
    ASSUME MadeInv, latest \in Nat, latest' = latest + 1,
           \A v \in 1..latest : versions'[v].proposal = versions[v].proposal,
           versions'[latest + 1].proposal = NoProposal,
           \A p \in Proposal : proposals'[p].status = "applied" <=> proposals[p].status = "applied",
           \A p \in Proposal : proposals[p].status = "applied" => proposals'[p] = proposals[p]
    PROVE MadeInv'
<1>1. ASSUME NEW p \in Proposal, proposals'[p].status = "applied" PROVE proposals'[p].version \in 1..latest'
  BY <1>1 DEF MadeInv
<1>2. ASSUME NEW p \in Proposal, NEW v \in 1..latest'
      PROVE versions'[v].proposal = p <=> proposals'[p].status = "applied" /\ proposals'[p].version = v
  <2>1. CASE v \in 1..latest
    BY <2>1 DEF MadeInv
  <2>2. CASE v = latest + 1
    BY <2>2, NoProposalFresh DEF MadeInv
  <2> QED
    BY <2>1, <2>2
<1> QED
  BY <1>1, <1>2 DEF MadeInv

LEMMA UnversionedKeeps ==
    ASSUME MadeInv, UNCHANGED versionVars,
           \A p \in Proposal : proposals'[p].status = "applied" <=> proposals[p].status = "applied",
           \A p \in Proposal : proposals[p].status = "applied" => proposals'[p] = proposals[p]
    PROVE MadeInv'
BY DEF MadeInv, versionVars

(* Only a decision makes a version of a proposal.                          *)
LEMMA OtherVersions ==
    ASSUME VersionOK, FreshInv, UndoStep \/ ScopeStep \/ SeedStep
    PROVE /\ latest \in Nat /\ latest' = latest + 1
          /\ \A v \in 1..latest : versions'[v].proposal = versions[v].proposal
          /\ versions'[latest + 1].proposal = NoProposal
<1>1. /\ latest \in Nat /\ \A v \in 1..latest : v \in Version
      /\ latest < MaxVersions => latest + 1 \in Version
      /\ DOMAIN versions = Version /\ 1 \in Version
  BY BoundAssumption DEF VersionOK, Version
<1>2. CASE UndoStep
  BY <1>1, <1>2 DEF UndoStep, Commit
<1>3. CASE ScopeStep
  <2>0. PICK s \in Scope :
           /\ latest < MaxVersions /\ latest' = latest + 1
           /\ versions' = [versions EXCEPT ![latest + 1] =
                            [NoVersion EXCEPT
                               !.taxonomy = [Taxonomy EXCEPT !.scope = s],
                               !.change = [kind |-> "scope", item |-> NoItem, name |-> NoName]]]
    BY <1>3 DEF ScopeStep
  <2> DEFINE new == [NoVersion EXCEPT
                       !.taxonomy = [Taxonomy EXCEPT !.scope = s],
                       !.change = [kind |-> "scope", item |-> NoItem, name |-> NoName]]
  <2>1. new.proposal = NoProposal
    BY DEF NoVersion
  <2>2. versions' = [versions EXCEPT ![latest + 1] = new]
    BY <2>0
  <2> HIDE DEF new
  <2>3. latest < MaxVersions /\ latest' = latest + 1
    BY <2>0
  <2> QED
    BY <1>1, <2>1, <2>2, <2>3
<1>4. CASE SeedStep
  <2>1. latest = 0 /\ latest' = 1 /\ versions'[1].proposal = versions[1].proposal
    BY <1>1, <1>4 DEF SeedStep, VersionOK, VersionRecord
  <2>2. versions[1].proposal = NoProposal
    BY <1>1, <2>1 DEF FreshInv, NoVersion
  <2> QED
    BY <2>1, <2>2
<1> QED
  BY <1>2, <1>3, <1>4

(* What a decision does to the log, the proposals and the versions.        *)
LEMMA DecidesMade ==
    ASSUME VersionOK, ProposalOK, FreshInv, MadeInv,
           NEW action \in {"accept", "edit", "reject", "apply", "undo", "revoke"},
           NEW k \in Kind \cup {NoKind}, NEW p \in Proposal \cup {NoProposal}, NEW n \in Nat,
           Decides(action, k, p, n)
    PROVE /\ MadeInv'
          /\ \A q \in Proposal : q # p => proposals'[q] = proposals[q]
          /\ p \in Proposal => /\ proposals[p].status = "open"
                               /\ proposals'[p].status \in {"rejected", "applied"}
                               /\ proposals'[p].change = proposals[p].change
<1>0. latest \in Nat /\ DOMAIN versions = Version
  BY BoundAssumption DEF VersionOK
<1>1. CASE /\ p \in Proposal /\ IsOpen(p)
           /\ n = latest + 1 /\ latest > 0 /\ latest < MaxVersions /\ latest' = n
           /\ Settle(p, "applied", n)
           /\ \E rec : versions' = [versions EXCEPT ![n] = rec] /\ rec.proposal = p
  <2>1. /\ \A q \in Proposal : q # p => proposals'[q] = proposals[q]
        /\ proposals[p].status = "open" /\ proposals'[p].status = "applied"
        /\ proposals'[p].change = proposals[p].change /\ proposals'[p].version = n
    BY <1>1 DEF Settle, ProposalOK, ProposalRecord, IsOpen
  <2>2. PICK rec : versions' = [versions EXCEPT ![n] = rec] /\ rec.proposal = p
    BY <1>1
  <2>3. n \in Version /\ \A v \in 1..latest : v \in Version /\ v # n
    <3>1. n = latest + 1 /\ latest < MaxVersions
      BY <1>1
    <3> QED
      BY <1>0, <3>1, BoundAssumption DEF Version
  <2>4. versions'[n].proposal = p /\ \A v \in 1..latest : versions'[v] = versions[v]
    BY <1>0, <2>2, <2>3
  <2>5. ASSUME NEW q \in Proposal, proposals'[q].status = "applied"
        PROVE proposals'[q].version \in 1..latest'
    <3>1. CASE q = p
      BY <1>0, <1>1, <2>1, <3>1
    <3>2. CASE q # p
      <4>1. proposals[q].version \in 1..latest
        BY <2>1, <2>5, <3>2 DEF MadeInv
      <4> QED
        BY <1>0, <1>1, <2>1, <3>2, <4>1
    <3> QED
      BY <3>1, <3>2
  <2>6. ASSUME NEW q \in Proposal, NEW v \in 1..latest'
        PROVE versions'[v].proposal = q <=> proposals'[q].status = "applied" /\ proposals'[q].version = v
    <3>1. CASE v = n /\ q = p
      BY <2>1, <2>4, <3>1
    <3>2. CASE v = n /\ q # p
      <4>1. versions'[v].proposal # q
        BY <2>4, <3>2
      <4>2. proposals[q].status = "applied" => proposals[q].version # n
        BY <1>0, <2>3 DEF MadeInv
      <4> QED
        BY <2>1, <3>2, <4>1, <4>2
    <3>3. CASE v \in 1..latest /\ q = p
      <4>1. versions[v].proposal # p
        BY <2>1, <3>3 DEF MadeInv
      <4> QED
        BY <2>1, <2>3, <2>4, <3>3, <4>1
    <3>4. CASE v \in 1..latest /\ q # p
      BY <2>1, <2>4, <3>4 DEF MadeInv
    <3> QED
      BY <1>0, <1>1, <3>1, <3>2, <3>3, <3>4
  <2> QED
    BY <2>1, <2>5, <2>6 DEF MadeInv
<1>2. CASE p \in Proposal /\ IsOpen(p) /\ Settle(p, "rejected", 0) /\ UNCHANGED versionVars
  <2>1. /\ \A q \in Proposal : q # p => proposals'[q] = proposals[q]
        /\ proposals[p].status = "open" /\ proposals'[p].status = "rejected"
        /\ proposals'[p].change = proposals[p].change
    BY <1>2 DEF Settle, ProposalOK, ProposalRecord, IsOpen
  <2>2. /\ \A q \in Proposal : proposals'[q].status = "applied" <=> proposals[q].status = "applied"
        /\ \A q \in Proposal : proposals[q].status = "applied" => proposals'[q] = proposals[q]
    BY <2>1
  <2> QED
    BY <1>2, <2>1, <2>2, UnversionedKeeps
<1>3. CASE p = NoProposal /\ UNCHANGED proposals /\ UndoStep
  <2>1. MadeInv'
    BY <1>3, OtherVersions, UnproposedKeeps
  <2> QED
    BY <1>3, <2>1, NoProposalFresh
<1>4. CASE p = NoProposal /\ UNCHANGED proposals /\ UNCHANGED versionVars
  <2>1. MadeInv'
    BY <1>4, UnversionedKeeps
  <2> QED
    BY <1>4, <2>1, NoProposalFresh
<1> QED
  BY <1>1, <1>2, <1>3, <1>4, Zenon DEF Decides

LEMMA SavedOnce ==
    ASSUME ProposalOK, MadeInv, HeldInv, NEW r \in Run, NEW n \in 0..MaxAnswer,
           NEW answer \in [1..n -> Proposable], proposals' = Saved(r, answer)
    PROVE /\ HeldInv'
          /\ \A p \in Proposal : proposals[p].status # "none" => proposals'[p] = proposals[p]
          /\ \A p \in Proposal : proposals'[p].status = "applied" <=> proposals[p].status = "applied"
<1> DEFINE New(p) == /\ p[1] = r /\ p[2] \in 1..n /\ proposals[p].status = "none"
                     /\ Kept(r, answer, p[2]) /\ ~HeldAlready(answer[p[2]])
                     /\ proposals'[p].change = answer[p[2]] /\ proposals'[p].status = "open"
<1>1. ASSUME NEW p \in Proposal
      PROVE \/ proposals'[p] = proposals[p]
            \/ proposals[p].status = "none" /\ proposals'[p].status = "dropped"
            \/ New(p)
  <2>1. DOMAIN answer = 1..n
    OBVIOUS
  <2>2. proposals'[p] =
           IF p[1] # r \/ p[2] \notin DOMAIN answer \/ proposals[p].status # "none" THEN proposals[p]
           ELSE IF Kept(r, answer, p[2])
           THEN IF HeldAlready(answer[p[2]]) THEN proposals[p]
                ELSE [status |-> "open", change |-> answer[p[2]], version |-> 0]
           ELSE [status |-> "dropped", change |-> answer[p[2]], version |-> 0]
    BY DEF Saved
  <2>3. CASE p[1] # r \/ p[2] \notin DOMAIN answer \/ proposals[p].status # "none"
    BY <2>2, <2>3
  <2>4. CASE /\ p[1] = r /\ p[2] \in DOMAIN answer /\ proposals[p].status = "none"
             /\ Kept(r, answer, p[2]) /\ ~HeldAlready(answer[p[2]])
    <3>1. proposals'[p] = [status |-> "open", change |-> answer[p[2]], version |-> 0]
      BY <2>2, <2>4
    <3>2. proposals'[p].change = answer[p[2]] /\ proposals'[p].status = "open"
      BY <3>1
    <3> QED
      BY <2>1, <2>4, <3>2
  <2>5. CASE /\ p[1] = r /\ p[2] \in DOMAIN answer /\ proposals[p].status = "none"
             /\ Kept(r, answer, p[2]) /\ HeldAlready(answer[p[2]])
    BY <2>2, <2>5
  <2>6. CASE /\ p[1] = r /\ p[2] \in DOMAIN answer /\ proposals[p].status = "none"
             /\ ~Kept(r, answer, p[2])
    <3>1. proposals'[p] = [status |-> "dropped", change |-> answer[p[2]], version |-> 0]
      BY <2>2, <2>6
    <3>2. proposals'[p].status = "dropped"
      BY <3>1
    <3> QED
      BY <2>6, <3>2
  <2> QED
    BY <2>3, <2>4, <2>5, <2>6
<1>2. ASSUME NEW p \in Proposal, New(p), NEW q \in Proposal, ~New(q), proposals'[q].status \in SeenStatus
      PROVE proposals'[p].change # proposals'[q].change
  <2>1. proposals'[q] = proposals[q]
    BY <1>1, <1>2 DEF SeenStatus
  <2> QED
    BY <1>2, <2>1 DEF HeldAlready
<1>3. ASSUME NEW p \in Proposal, New(p), NEW q \in Proposal, New(q), p # q
      PROVE proposals'[p].change # proposals'[q].change
  <2>1. p[2] \in 1..n /\ q[2] \in 1..n /\ p[2] # q[2]
    BY <1>3 DEF Proposal
  <2>2. CASE p[2] < q[2]
    <3>1. answer[p[2]] # answer[q[2]]
      <4>1. p[2] \in 1..(q[2] - 1)
        BY <2>1, <2>2
      <4> QED
        BY <1>3, <4>1 DEF Kept
    <3> QED
      BY <1>3, <3>1
  <2>3. CASE q[2] < p[2]
    <3>1. answer[p[2]] # answer[q[2]]
      <4>1. q[2] \in 1..(p[2] - 1)
        BY <2>1, <2>3
      <4> QED
        BY <1>3, <4>1 DEF Kept
    <3> QED
      BY <1>3, <3>1
  <2> QED
    BY <2>1, <2>2, <2>3
<1>4. ASSUME NEW p \in Proposal, NEW q \in Proposal, p # q,
             proposals'[p].status \in SeenStatus, proposals'[q].status \in SeenStatus
      PROVE proposals'[p].change # proposals'[q].change
  <2>1. CASE ~New(p) /\ ~New(q)
    <3>1. proposals'[p] = proposals[p] /\ proposals'[q] = proposals[q]
      BY <1>1, <1>4, <2>1 DEF SeenStatus
    <3> QED
      BY <1>4, <3>1 DEF HeldInv
  <2>2. CASE New(p) /\ ~New(q)
    BY <1>2, <1>4, <2>2
  <2>3. CASE ~New(p) /\ New(q)
    <3>1. proposals'[q].change # proposals'[p].change
      BY <1>2, <1>4, <2>3
    <3> QED
      BY <3>1
  <2>4. CASE New(p) /\ New(q)
    BY <1>3, <1>4, <2>4
  <2> QED
    BY <2>1, <2>2, <2>3, <2>4
<1>5. ASSUME NEW p \in Proposal
      PROVE /\ proposals[p].status # "none" => proposals'[p] = proposals[p]
            /\ proposals'[p].status = "applied" <=> proposals[p].status = "applied"
  BY <1>1
<1> HIDE DEF New
<1> QED
  BY <1>4, <1>5 DEF HeldInv

LEMMA SettledKept ==
    ASSUME VersionOK, FreshInv, ProposalOK, LogOK, SettledInv, DecideStep \/ SaveStep \/ OtherStep
    PROVE SettledInv'
<1>0. MadeInv /\ LoggedInv /\ HeldInv
  BY SettledParts
<1>1. CASE DecideStep
  <2> PICK action \in {"accept", "edit", "reject", "apply", "undo", "revoke"}, k \in Kind \cup {NoKind},
           p \in Proposal \cup {NoProposal}, n \in Nat : Decides(action, k, p, n)
    BY <1>1 DEF DecideStep
  <2>1. /\ MadeInv'
        /\ \A q \in Proposal : q # p => proposals'[q] = proposals[q]
        /\ p \in Proposal => /\ proposals[p].status = "open"
                             /\ proposals'[p].status \in {"rejected", "applied"}
                             /\ proposals'[p].change = proposals[p].change
    BY <1>0, DecidesMade
  <2>2. HeldInv'
    <3>1. ASSUME NEW q \in Proposal, proposals'[q].status \in SeenStatus
          PROVE proposals[q].status \in SeenStatus /\ proposals'[q].change = proposals[q].change
      BY <2>1, <3>1 DEF SeenStatus
    <3> QED
      BY <1>0, <3>1 DEF HeldInv
  <2>3. LoggedInv'
    <3>1. Log(action, k, p)
      BY DecidesStreak
    <3> PICK m : m = logged + 1
      OBVIOUS
    <3>2. /\ logged \in Nat /\ logged' = m /\ log'[m].proposal = p
          /\ \A i \in 1..logged : log'[i] = log[i]
      <4>1. /\ logged' = logged + 1 /\ logged \in Nat
            /\ log'[logged + 1] = [action |-> action, kind |-> k, proposal |-> p]
            /\ \A i \in 1..logged : log'[i] = log[i]
        BY <3>1, LogTyped
      <4> QED
        BY <4>1
    <3>3. ASSUME NEW i \in 1..logged, log[i].proposal \in Proposal
          PROVE log[i].proposal # p /\ proposals'[log[i].proposal] = proposals[log[i].proposal]
      <4>1. proposals[log[i].proposal].status \in {"rejected", "applied"}
        BY <1>0, <3>3 DEF LoggedInv
      <4> QED
        BY <2>1, <3>3, <4>1
    <3>4. ASSUME NEW i \in 1..m, log'[i].proposal \in Proposal
          PROVE proposals'[log'[i].proposal].status \in {"rejected", "applied"}
      <4>1. CASE i \in 1..logged
        BY <1>0, <3>2, <3>3, <3>4, <4>1 DEF LoggedInv
      <4>2. CASE i = m
        BY <2>1, <3>2, <3>4, <4>2
      <4> QED
        BY <3>2, <4>1, <4>2
    <3>5. ASSUME NEW i \in 1..m, NEW j \in 1..m, i # j, log'[i].proposal = log'[j].proposal
          PROVE log'[i].proposal = NoProposal
      <4>1. CASE i \in 1..logged /\ j \in 1..logged
        BY <1>0, <3>2, <3>5, <4>1 DEF LoggedInv
      <4>2. CASE i = m /\ j \in 1..logged
        <5>1. log[j].proposal = p
          BY <3>2, <3>5, <4>2
        <5>2. p \notin Proposal
          BY <3>3, <4>2, <5>1
        <5> QED
          BY <3>2, <4>2, <5>2
      <4>3. CASE j = m /\ i \in 1..logged
        <5>1. log[i].proposal = p
          BY <3>2, <3>5, <4>3
        <5>2. p \notin Proposal
          BY <3>3, <4>3, <5>1
        <5> QED
          BY <3>2, <3>5, <4>3, <5>2
      <4> QED
        BY <3>2, <3>5, <4>1, <4>2, <4>3
    <3> QED
      BY <3>2, <3>4, <3>5 DEF LoggedInv
  <2>4. (MadeInv /\ LoggedInv /\ HeldInv)'
    BY <2>1, <2>2, <2>3
  <2> QED
    BY <2>4 DEF SettledInv, SettledOnce, MadeInv, LoggedInv, HeldInv
<1>2. CASE SaveStep
  <2>1. PICK r \in Run, n \in 0..MaxAnswer : \E answer \in [1..n -> Proposable] : proposals' = Saved(r, answer)
    BY <1>2 DEF SaveStep
  <2>2. /\ HeldInv'
        /\ \A p \in Proposal : proposals[p].status # "none" => proposals'[p] = proposals[p]
        /\ \A p \in Proposal : proposals'[p].status = "applied" <=> proposals[p].status = "applied"
    BY <1>0, <2>1, SavedOnce
  <2>3. MadeInv'
    BY <1>0, <1>2, <2>2, UnversionedKeeps DEF SaveStep
  <2>4. LoggedInv'
    <3>1. logged' = logged /\ log' = log
      BY <1>2 DEF SaveStep
    <3> QED
      BY <1>0, <2>2, <3>1 DEF LoggedInv
  <2> QED
    BY <2>2, <2>3, <2>4 DEF SettledInv, SettledOnce, MadeInv, LoggedInv, HeldInv
<1>3. CASE OtherStep
  <2>1. proposals' = proposals /\ logged' = logged /\ log' = log
    BY <1>3 DEF OtherStep, decisionVars
  <2>2. HeldInv' /\ LoggedInv'
    BY <1>0, <2>1 DEF HeldInv, LoggedInv
  <2>3. /\ \A q \in Proposal : proposals'[q].status = "applied" <=> proposals[q].status = "applied"
        /\ \A q \in Proposal : proposals[q].status = "applied" => proposals'[q] = proposals[q]
    BY <2>1
  <2>4. MadeInv'
    <3>1. CASE ScopeStep \/ SeedStep
      <4>1. /\ latest \in Nat /\ latest' = latest + 1
            /\ \A v \in 1..latest : versions'[v].proposal = versions[v].proposal
            /\ versions'[latest + 1].proposal = NoProposal
        BY <3>1, OtherVersions
      <4> QED
        BY <1>0, <2>3, <4>1, UnproposedKeeps
    <3>2. CASE UNCHANGED versionVars
      BY <1>0, <2>3, <3>2, UnversionedKeeps
    <3> QED
      BY <1>3, <3>1, <3>2 DEF OtherStep
  <2> QED
    BY <2>2, <2>4 DEF SettledInv, SettledOnce, MadeInv, LoggedInv, HeldInv
<1> QED
  BY <1>1, <1>2, <1>3

-----------------------------------------------------------------------------
(* Review steps, and applications.                                         *)

Elsewhere ==
    \/ \E p \in Proposal :
         \/ \E role \in {"owner", "reviewer"} : Accept(role, p) \/ Reject(role, p)
         \/ \E c \in Proposable : Edit(p, c)
    \/ \E k \in Kind : Revoke(k)
    \/ \E v \in Version : Undo(v)

LEMMA ElsewhereKeeps == ASSUME Elsewhere PROVE UNCHANGED <<defn, request, crossed, reviewVars>>
BY DEF Elsewhere, Accept, Reject, Edit, Revoke, Undo

(* What a review read as seen was proposed.                                *)
ProposedInv == \A p \in Proposal : proposals[p].status # "none" => proposals[p].change \in Proposable

LEMMA ProposedKept ==
    ASSUME VersionOK, ProposalOK, LogOK, FreshInv, SettledInv, ProposedInv,
           DecideStep \/ SaveStep \/ OtherStep
    PROVE ProposedInv'
<1>1. CASE DecideStep
  <2> PICK action \in {"accept", "edit", "reject", "apply", "undo", "revoke"}, k \in Kind \cup {NoKind},
           p \in Proposal \cup {NoProposal}, n \in Nat : Decides(action, k, p, n)
    BY <1>1 DEF DecideStep
  <2>1. /\ \A q \in Proposal : q # p => proposals'[q] = proposals[q]
        /\ p \in Proposal => /\ proposals[p].status = "open"
                             /\ proposals'[p].change = proposals[p].change
    BY SettledParts, DecidesMade
  <2> QED
    BY <2>1 DEF ProposedInv
<1>2. CASE SaveStep
  <2> PICK r \in Run, n \in 0..MaxAnswer : \E answer \in [1..n -> Proposable] : proposals' = Saved(r, answer)
    BY <1>2 DEF SaveStep
  <2> PICK answer \in [1..n -> Proposable] : proposals' = Saved(r, answer)
    OBVIOUS
  <2> SUFFICES ASSUME NEW p \in Proposal, proposals'[p].status # "none"
               PROVE proposals'[p].change \in Proposable
    BY DEF ProposedInv
  <2>1. p[2] \in DOMAIN answer => answer[p[2]] \in Proposable
    OBVIOUS
  <2> QED
    BY <2>1 DEF Saved, ProposedInv
<1>3. CASE OtherStep
  BY <1>3 DEF OtherStep, decisionVars, ProposedInv
<1> QED
  BY <1>1, <1>2, <1>3

LEMMA ReviewsKept ==
    ASSUME ReviewOK, ProposalOK, ProposedInv, latest \in 0..MaxVersions, RunningInv,
           latest > 0 => latest' > 0, [Next]_vars
    PROVE ReviewOK' /\ RunningInv'
<1>0. 0 \in 0..MaxVersions /\ latest \in Nat
  BY BoundAssumption
<1>1. CASE UNCHANGED reviewVars
  BY <1>1 DEF reviewVars, ReviewOK, RunningInv
<1>2. ASSUME NEW r \in Run, Begin(r) PROVE ReviewOK' /\ RunningInv'
  <2>1. /\ \E to \in {"look", "ask"} : pc' = [pc EXCEPT ![r] = to]
        /\ \E b \in 0..MaxVersions : base' = [base EXCEPT ![r] = b]
        /\ seen' = seen /\ todo' = todo /\ lost' = lost /\ latest > 0
    BY <1>0, <1>2 DEF Begin, Goto
  <2> QED
    BY <2>1 DEF ReviewOK, RunningInv
<1>3. ASSUME NEW r \in Run, Ask(r) PROVE ReviewOK' /\ RunningInv'
  <2>1. {proposals[p].change : p \in {q \in Proposal : proposals[q].status \in SeenStatus}} \subseteq Proposable
    BY DEF ProposedInv, SeenStatus
  <2> QED
    BY <1>3, <2>1 DEF Ask, Goto, ReviewOK, RunningInv
<1>4. ASSUME NEW r \in Run, Save(r) PROVE ReviewOK' /\ RunningInv'
  BY <1>0, <1>4 DEF Save, Goto, ReviewOK, RunningInv
<1>5. ASSUME NEW r \in Run, Look(r) PROVE ReviewOK' /\ RunningInv'
  BY <1>5 DEF Look, Goto, ReviewOK, RunningInv, ProposalsOf
<1>6. ASSUME NEW r \in Run, End(r) PROVE ReviewOK' /\ RunningInv'
  BY <1>6 DEF End, Goto, ReviewOK, RunningInv
<1>7. ASSUME NEW r \in Run, Stop(r) PROVE ReviewOK' /\ RunningInv'
  <2>1. /\ \E to \in {"off", "ended"} : pc' = [pc EXCEPT ![r] = to]
        /\ lost' \in 0..MaxLost /\ pc[r] # "off"
        /\ base' = [base EXCEPT ![r] = 0]
        /\ seen' = [seen EXCEPT ![r] = {}] /\ todo' = [todo EXCEPT ![r] = {}]
    BY <1>7, BoundAssumption DEF Stop, Goto, ReviewOK
  <2> QED
    BY <1>0, <2>1 DEF ReviewOK, RunningInv
<1>8. ASSUME NEW r \in Run, NEW p \in Proposal, Apply(r, p) PROVE ReviewOK' /\ RunningInv'
  <2>1. /\ todo' = [todo EXCEPT ![r] = todo[r] \ {p}]
        /\ pc' = pc /\ base' = base /\ seen' = seen /\ lost' = lost
    BY <1>8 DEF Apply, ReviewOK
  <2> QED
    BY <2>1 DEF ReviewOK, RunningInv
<1>9. ASSUME NEW a \in Caller,
             (\E d \in Definition : ReadToApply(a, d)) \/ ApplyDefinition(a) \/ ReadToSeed(a)
             \/ SeedTaxonomy(a)
      PROVE UNCHANGED reviewVars
  BY <1>9 DEF ReadToApply, ApplyDefinition, ReadToSeed, SeedTaxonomy
<1>10. CASE UNCHANGED vars
  BY <1>1, <1>10 DEF vars
<1>11. CASE Elsewhere
  BY <1>1, <1>11, ElsewhereKeeps
<1> QED
  BY <1>1, <1>2, <1>3, <1>4, <1>5, <1>6, <1>7, <1>8, <1>9, <1>10, <1>11, Zenon DEF Next, Elsewhere

LEMMA RequestsKept ==
    ASSUME RequestOK, latest \in 0..MaxVersions, RequestInv, [Next]_vars
    PROVE RequestOK' /\ RequestInv'
<1>0. 0 \in 0..MaxVersions /\ latest \in Nat /\ Idle \in RequestRecord /\ ~Idle.rescoped
  BY BoundAssumption, IdleTyped DEF RequestOK, Idle
<1>1. CASE UNCHANGED <<defn, request, crossed>>
  BY <1>1 DEF RequestOK, RequestInv
<1>2. ASSUME NEW a \in Caller, NEW d \in Definition, ReadToApply(a, d) PROVE RequestOK' /\ RequestInv'
  <2>1. PICK b \in BOOLEAN : b = (latest > 0 /\ Taxonomy.scope # ScopeOf[d])
    OBVIOUS
  <2>2. /\ request' = [request EXCEPT ![a] = [kind |-> "apply", defn |-> d, base |-> latest,
                                             rescoped |-> b, overtaken |-> FALSE]]
        /\ defn' = defn /\ crossed' = crossed /\ (b => latest > 0)
    BY <1>2, <2>1 DEF ReadToApply
  <2> QED
    BY <2>2 DEF RequestOK, RequestInv, RequestRecord
<1>3. ASSUME NEW a \in Caller, Answered(a) \/ Refused(a)
      PROVE /\ request' \in [Caller -> RequestRecord] /\ crossed' \in BOOLEAN
            /\ RequestInv'
  <2> HIDE DEF Idle
  <2>1. CASE Refused(a)
    BY <1>0, <2>1 DEF Refused, RequestOK, RequestInv
  <2>2. CASE Answered(a)
    <3>1. crossed' \in BOOLEAN
      BY <2>2 DEF Answered, RequestOK, RequestRecord
    <3>2. ASSUME NEW b \in Caller
          PROVE /\ [request[b] EXCEPT !.overtaken = TRUE] \in RequestRecord
                /\ [request[b] EXCEPT !.overtaken = TRUE].rescoped => request[b].base > 0
                /\ [request[b] EXCEPT !.overtaken = TRUE].base = request[b].base
      BY DEF RequestOK, RequestRecord, RequestInv
    <3> QED
      BY <1>0, <2>2, <3>1, <3>2 DEF Answered, RequestInv
  <2> QED
    BY <1>3, <2>1, <2>2
<1>4. ASSUME NEW a \in Caller, ReadToSeed(a) PROVE RequestOK' /\ RequestInv'
  <2> DEFINE new == [Idle EXCEPT !.kind = "seed", !.defn = defn]
  <2>1. new \in RequestRecord /\ ~new.rescoped
    BY <1>0 DEF RequestOK, RequestRecord
  <2>2. request' = [request EXCEPT ![a] = new] /\ defn' = defn /\ crossed' = crossed
    BY <1>4 DEF ReadToSeed
  <2> HIDE DEF new
  <2> QED
    BY <2>1, <2>2 DEF RequestOK, RequestInv
<1>5. ASSUME NEW a \in Caller, ApplyDefinition(a) \/ SeedTaxonomy(a) PROVE RequestOK' /\ RequestInv'
  <2>1. Answered(a) \/ Refused(a)
    BY <1>5 DEF ApplyDefinition, SeedTaxonomy
  <2>2. defn' = defn \/ defn' = request[a].defn
    BY <1>5 DEF ApplyDefinition, SeedTaxonomy
  <2> QED
    BY <1>3, <2>1, <2>2 DEF RequestOK, RequestRecord
<1>6. ASSUME NEW r \in Run,
             \/ Begin(r) \/ Ask(r) \/ Save(r) \/ Look(r) \/ End(r) \/ Stop(r)
             \/ \E p \in Proposal : Apply(r, p)
      PROVE UNCHANGED <<defn, request, crossed>>
  BY <1>6 DEF Begin, Ask, Save, Look, End, Stop, Apply
<1>7. CASE UNCHANGED vars
  BY <1>1, <1>7 DEF vars
<1>8. CASE Elsewhere
  BY <1>1, <1>8, ElsewhereKeeps
<1> QED
  BY <1>1, <1>2, <1>4, <1>5, <1>6, <1>7, <1>8, Zenon DEF Next, Elsewhere

-----------------------------------------------------------------------------
(* The invariant, and what follows from it.                                *)

IInv ==
    /\ TypeOK /\ VersionInv /\ RunningInv /\ RequestInv
    /\ StreakInv /\ SettledInv /\ ProposedInv

LEMMA IInvInit == Init => IInv
<1> SUFFICES ASSUME Init PROVE IInv
  OBVIOUS
<1> USE DEF Init
<1>1. /\ 0 \in 0..MaxVersions /\ 0 \in 0..MaxLogged /\ 0 \in 0..MaxLost /\ Version = 1..MaxVersions
      /\ 1..0 = {} /\ 2..0 = {}
  BY BoundAssumption DEF Version
<1>2. NoVersion \in VersionRecord /\ Idle \in RequestRecord
  BY NoVersionTyped, IdleTyped
<1>11. ~Idle.rescoped
  BY DEF Idle
<1>3. VersionOK
  BY <1>1, <1>2 DEF VersionOK
<1>4. RequestOK /\ RequestInv
  <2> HIDE DEF Idle
  <2> QED
    BY <1>2, <1>11, ScopeAssumption DEF RequestOK, RequestInv
<1>5. ProposalOK /\ ProposedInv
  BY <1>1 DEF ProposalOK, ProposalRecord, ProposedInv
<1>6. LogOK
  BY <1>1 DEF LogOK, LogRecord, NoEntry
<1>7. ReviewOK /\ RunningInv
  BY <1>1 DEF ReviewOK, RunningInv
<1>8. VersionInv
  <2>1. FreshInv
    BY DEF FreshInv
  <2>2. HistoryInv /\ NamedInv /\ UndoneInv /\ RetiredInv /\ UndoIsExact
    BY <1>1 DEF HistoryInv, NamedInv, UndoneInv, RetiredInv, UndoIsExact
  <2> QED
    BY <1>3, <2>1, <2>2 DEF VersionInv
<1>9. StreakInv
  <2>1. AutonomyIsEarned
    BY <1>1 DEF AutonomyIsEarned
  <2>2. ASSUME NEW k \in Kind PROVE streak[k] = Cardinality(RunBefore(k, logged + 1))
    <3>1. RunBefore(k, logged + 1) = {}
      BY DEF RunBefore
    <3> QED
      BY <3>1, FS_EmptySet
  <2> QED
    BY <2>1, <2>2 DEF StreakInv
<1>10. SettledInv
  BY <1>1 DEF SettledInv, SettledOnce, SeenStatus
<1> QED
  BY <1>3, <1>4, <1>5, <1>6, <1>7, <1>8, <1>9, <1>10, TypeParts DEF IInv

LEMMA IInvStep == IInv /\ [Next]_vars => IInv'
<1> SUFFICES ASSUME IInv, [Next]_vars PROVE IInv'
  OBVIOUS
<1>1. /\ TypeOK /\ VersionInv /\ RunningInv /\ RequestInv /\ StreakInv /\ SettledInv /\ ProposedInv
      /\ VersionOK /\ RequestOK /\ ProposalOK /\ LogOK /\ ReviewOK /\ FreshInv
      /\ defn \in Definition /\ latest \in 0..MaxVersions /\ latest \in Nat
  BY TypeParts, BoundAssumption DEF IInv, RequestOK, VersionOK, VersionInv
<1>2. VersionStep
  BY <1>1, VersionSteps
<1>3. VersionInv'
  BY <1>1, <1>2, VersionsKept
<1>4. latest > 0 => latest' > 0
  <2>1. CASE CommitStep
    BY <1>1, <2>1 DEF CommitStep, Commit
  <2>2. CASE UndoStep
    BY <1>1, <2>2 DEF UndoStep, Commit
  <2>3. CASE ScopeStep \/ SeedStep \/ UNCHANGED versionVars
    <3>1. latest' = latest + 1 \/ latest' = 1 \/ latest' = latest
      BY <2>3 DEF ScopeStep, SeedStep, versionVars
    <3> QED
      BY <1>1, <3>1
  <2> QED
    BY <1>2, <2>1, <2>2, <2>3 DEF VersionStep
<1>5. DecideStep \/ SaveStep \/ OtherStep
  BY <1>1, DecisionSteps
<1>6. ProposalOK' /\ LogOK'
  BY <1>1, <1>5, DecisionsTyped
<1>7. StreakInv'
  BY <1>1, <1>5, StreaksKept
<1>8. SettledInv'
  BY <1>1, <1>5, SettledKept
<1>9. ProposedInv'
  BY <1>1, <1>5, ProposedKept
<1>10. ReviewOK' /\ RunningInv'
  BY <1>1, <1>4, ReviewsKept
<1>11. RequestOK' /\ RequestInv'
  BY <1>1, RequestsKept
<1>12. VersionOK'
  BY <1>3 DEF VersionInv
<1>13. TypeOK'
  BY <1>6, <1>10, <1>11, <1>12
     DEF TypeOK, VersionOK, RequestOK, ProposalOK, LogOK, ReviewOK, VersionRecord, Tax,
         RequestRecord, ProposalRecord, LogRecord
<1> QED
  BY <1>3, <1>7, <1>8, <1>9, <1>10, <1>11, <1>13 DEF IInv

LEMMA Invariant == Spec => []IInv
<1>1. Init => IInv
  BY IInvInit
<1>2. IInv /\ [Next]_vars => IInv'
  BY IInvStep
<1> QED
  BY <1>1, <1>2, PTL DEF Spec

(* The variables keep their types.                                         *)
THEOREM TypeCorrect == Spec => []TypeOK
<1>1. IInv => TypeOK
  BY DEF IInv
<1> QED
  BY <1>1, Invariant, PTL

(* Spatula applies on its own only what its kind has earned, however       *)
(* reviews, decisions, undoings and revocations come between.              *)
THEOREM Earns == Spec => []AutonomyIsEarned
<1>1. IInv => AutonomyIsEarned
  BY DEF IInv, StreakInv
<1> QED
  BY <1>1, Invariant, PTL

(* A proposal is decided once, makes one version if it is applied, and a   *)
(* change that was decided isn't proposed again.                           *)
THEOREM Settles == Spec => []SettledOnce
<1>1. IInv => SettledOnce
  BY DEF IInv, SettledInv
<1> QED
  BY <1>1, Invariant, PTL

(* Undoing a version puts back what it changed and nothing else.           *)
THEOREM Undoes == Spec => []UndoIsExact
<1>1. IInv => UndoIsExact
  BY DEF IInv, VersionInv
<1> QED
  BY <1>1, Invariant, PTL

-----------------------------------------------------------------------------
(* The scope, while one application or seeding goes at once: what it read  *)
(* about the scope still holds when it writes.                             *)

Unmoved ==
    /\ UNCHANGED <<defn, request, crossed>>
    /\ \/ UNCHANGED versionVars
       \/ latest > 0 /\ latest' > 0 /\ Taxonomy'.scope = Taxonomy.scope

LEMMA CommitScope ==
    ASSUME VersionOK, latest > 0, NEW c, Applies(Taxonomy, c), NEW auto, NEW p, NEW u,
           Commit(c, auto, p, u)
    PROVE latest' > 0 /\ Taxonomy'.scope = Taxonomy.scope
<1>1. Taxonomy \in Tax /\ latest \in Nat
  BY TaxonomyTyped, BoundAssumption DEF VersionOK
<1>2. Applied(Taxonomy, c).scope = Taxonomy.scope
  <2> PICK t : t = Taxonomy
    OBVIOUS
  <2>1. t \in Tax /\ Applies(t, c)
    BY <1>1
  <2>2. Applied(t, c).scope = t.scope
    BY <2>1 DEF Applied, Applies, Tax
  <2> QED
    BY <2>2
<1>3. Added /\ versions'[latest + 1].taxonomy = Applied(Taxonomy, c)
  <2>1. /\ Added
        /\ versions'[latest + 1] =
             [taxonomy |-> Applied(Taxonomy, c), change |-> c, before |-> Before(Taxonomy, c),
              auto |-> auto, proposal |-> p, undoes |-> u]
    BY CommitAdds
  <2> QED
    BY <2>1
<1>4. latest' = latest + 1
  BY <1>3 DEF Added
<1>5. Taxonomy' = versions'[latest + 1].taxonomy
  BY <1>4 DEF Taxonomy
<1> QED
  BY <1>1, <1>2, <1>3, <1>4, <1>5

LEMMA ScopeUnmoved ==
    ASSUME TypeOK, RunningInv,
           \/ Elsewhere
           \/ \E r \in Run : \/ Begin(r) \/ Ask(r) \/ Save(r) \/ Look(r) \/ End(r) \/ Stop(r)
                             \/ \E p \in Proposal : Apply(r, p)
    PROVE Unmoved
<1>0. VersionOK /\ latest \in Nat
  BY TypeParts, BoundAssumption DEF VersionOK
<1>1. ASSUME NEW p \in Proposal, NEW role \in {"owner", "reviewer"}, Accept(role, p) PROVE Unmoved
  <2> PICK c : c = proposals[p].change
    OBVIOUS
  <2>1. latest > 0 /\ Applies(Taxonomy, c) /\ Commit(c, FALSE, p, 0)
    BY <1>1 DEF Accept, Commit
  <2>2. latest' > 0 /\ Taxonomy'.scope = Taxonomy.scope
    BY <1>0, <2>1, CommitScope
  <2> QED
    BY <1>1, <2>1, <2>2 DEF Accept, Unmoved
<1>2. ASSUME NEW p \in Proposal, NEW c \in Proposable, Edit(p, c) PROVE Unmoved
  <2>1. latest > 0 /\ Applies(Taxonomy, c) /\ Commit(c, FALSE, p, 0)
    BY <1>2 DEF Edit
  <2>2. latest' > 0 /\ Taxonomy'.scope = Taxonomy.scope
    BY <1>0, <2>1, CommitScope
  <2> QED
    BY <1>2, <2>1, <2>2 DEF Edit, Unmoved
<1>3. ASSUME NEW v \in Version, Undo(v) PROVE Unmoved
  <2> PICK c : c = InverseChange(versions[v].change, versions[v].before)
    OBVIOUS
  <2>1. latest > 0 /\ Applies(Taxonomy, c) /\ Commit(c, FALSE, NoProposal, v)
    BY <1>0, <1>3 DEF Undo, Commit
  <2>2. latest' > 0 /\ Taxonomy'.scope = Taxonomy.scope
    BY <1>0, <2>1, CommitScope
  <2> QED
    BY <1>3, <2>1, <2>2 DEF Undo, Unmoved
<1>4. ASSUME NEW r \in Run, NEW p \in Proposal, Apply(r, p) PROVE Unmoved
  <2> PICK c : c = proposals[p].change
    OBVIOUS
  <2>1. CASE IsOpen(p) /\ Earned(AutonomyKind(c)) /\ Applies(Taxonomy, c)
    <3>1. latest > 0 /\ Applies(Taxonomy, c) /\ Commit(c, TRUE, p, 0)
      BY <1>4, <2>1 DEF Apply, Commit, RunningInv
    <3>2. latest' > 0 /\ Taxonomy'.scope = Taxonomy.scope
      BY <1>0, <3>1, CommitScope
    <3> QED
      BY <1>4, <3>1, <3>2 DEF Apply, Unmoved
  <2>2. CASE ~(IsOpen(p) /\ Earned(AutonomyKind(c)) /\ Applies(Taxonomy, c))
    BY <1>4, <2>2 DEF Apply, Unmoved
  <2> QED
    BY <2>1, <2>2
<1>5. ASSUME NEW p \in Proposal, NEW role \in {"owner", "reviewer"}, Reject(role, p) PROVE Unmoved
  BY <1>5 DEF Reject, Unmoved
<1>6. ASSUME NEW k \in Kind, Revoke(k) PROVE Unmoved
  BY <1>6 DEF Revoke, Unmoved
<1>7. ASSUME NEW r \in Run, Begin(r) \/ Ask(r) \/ Save(r) \/ Look(r) \/ End(r) \/ Stop(r) PROVE Unmoved
  BY <1>7 DEF Begin, Ask, Save, Look, End, Stop, Unmoved
<1> QED
  BY <1>1, <1>2, <1>3, <1>4, <1>5, <1>6, <1>7, Zenon DEF Elsewhere

(* What an application or a seeding has read and nobody has overtaken      *)
(* still holds.                                                            *)
ReadInv ==
    \A a \in Caller : ~request[a].overtaken =>
        /\ request[a].kind = "apply" /\ ~request[a].rescoped =>
              latest = 0 \/ Taxonomy.scope = ScopeOf[request[a].defn]
        /\ request[a].kind = "seed" => request[a].defn = defn

LEMMA ScopeInit == Init => ReadInv /\ ScopeKept
BY DEF Init, ReadInv, ScopeKept, Idle

LEMMA ScopeStays ==
    ASSUME IInv, ReadInv, ScopeKept, [Next]_vars
    PROVE ReadInv' /\ ScopeKept'
<1>0. /\ TypeOK /\ RunningInv /\ VersionOK /\ RequestOK /\ latest \in Nat /\ DOMAIN versions = Version
      /\ Idle \in RequestRecord /\ Idle.kind = "none" /\ 0 \notin 1..latest
  <2>1. Idle.kind = "none"
    BY DEF Idle
  <2> HIDE DEF Idle
  <2> QED
    BY <2>1, TypeParts, BoundAssumption, IdleTyped DEF IInv, VersionOK
<1>1. CASE Unmoved
  <2>1. defn' = defn /\ request' = request /\ crossed' = crossed
    BY <1>1 DEF Unmoved
  <2>2. CASE UNCHANGED versionVars
    BY <2>1, <2>2 DEF versionVars, ReadInv, ScopeKept, Taxonomy
  <2>3. CASE latest > 0 /\ latest' > 0 /\ Taxonomy'.scope = Taxonomy.scope
    BY <2>1, <2>3 DEF ReadInv, ScopeKept
  <2> QED
    BY <1>1, <2>2, <2>3 DEF Unmoved
<1>2. ASSUME NEW a \in Caller, NEW d \in Definition, ReadToApply(a, d)
      PROVE ReadInv' /\ ScopeKept'
  <2>1. /\ \A b \in Caller \ {a} : request'[b] = request[b]
        /\ request'[a].kind = "apply" /\ request'[a].defn = d
        /\ ~request'[a].rescoped => latest = 0 \/ Taxonomy.scope = ScopeOf[d]
        /\ defn' = defn /\ latest' = latest /\ versions' = versions /\ crossed' = crossed
    <3>1. PICK b \in BOOLEAN : b = (latest > 0 /\ Taxonomy.scope # ScopeOf[d])
      OBVIOUS
    <3>2. /\ request' = [request EXCEPT ![a] =
                           [kind |-> "apply", defn |-> d, base |-> latest, rescoped |-> b,
                            overtaken |-> FALSE]]
          /\ defn' = defn /\ latest' = latest /\ versions' = versions /\ crossed' = crossed
      BY <1>2, <3>1 DEF ReadToApply, versionVars
    <3>3. ~b => latest = 0 \/ Taxonomy.scope = ScopeOf[d]
      <4>1. ~b => ~(latest > 0) \/ Taxonomy.scope = ScopeOf[d]
        BY <3>1, Zenon
      <4> QED
        BY <1>0, <4>1
    <3> QED
      BY <1>0, <3>2, <3>3 DEF RequestOK
  <2>2. Taxonomy' = Taxonomy
    BY <2>1 DEF Taxonomy
  <2> QED
    BY <2>1, <2>2 DEF ReadInv, ScopeKept
<1>3. ASSUME NEW a \in Caller, ReadToSeed(a) PROVE ReadInv' /\ ScopeKept'
  <2>1. /\ \A b \in Caller \ {a} : request'[b] = request[b]
        /\ request'[a].kind = "seed" /\ request'[a].defn = defn
        /\ defn' = defn /\ latest' = latest /\ versions' = versions /\ crossed' = crossed
    BY <1>0, <1>3 DEF ReadToSeed, RequestOK, RequestRecord, versionVars, Idle
  <2>2. Taxonomy' = Taxonomy
    BY <2>1 DEF Taxonomy
  <2> QED
    BY <2>1, <2>2 DEF ReadInv, ScopeKept
<1>4. ASSUME NEW a \in Caller, Answered(a)
      PROVE ReadInv' /\ crossed' = request[a].overtaken
  <2>1. ASSUME NEW b \in Caller PROVE request'[b].kind = "none" \/ request'[b].overtaken
    <3>1. request[b] \in RequestRecord
      BY <1>0 DEF RequestOK
    <3>2. [request[b] EXCEPT !.overtaken = TRUE].overtaken
      BY <3>1 DEF RequestRecord
    <3> HIDE DEF Idle
    <3>3. request'[b] = Idle \/ request'[b] = [request[b] EXCEPT !.overtaken = TRUE]
      BY <1>4 DEF Answered
    <3> QED
      BY <1>0, <3>2, <3>3
  <2> QED
    BY <1>4, <2>1 DEF Answered, ReadInv
<1>5. ASSUME NEW a \in Caller, Refused(a), defn' = defn, UNCHANGED versionVars
      PROVE ReadInv' /\ ScopeKept'
  <2>1. request'[a].kind = "none" /\ \A b \in Caller \ {a} : request'[b] = request[b]
    BY <1>0, <1>5 DEF Refused, RequestOK
  <2>2. crossed' = crossed /\ latest' = latest /\ Taxonomy' = Taxonomy
    BY <1>5 DEF Refused, versionVars, Taxonomy
  <2> QED
    BY <1>5, <2>1, <2>2 DEF ReadInv, ScopeKept
<1>6. ASSUME NEW a \in Caller, ApplyDefinition(a) PROVE ReadInv' /\ ScopeKept'
  <2> PICK d : d = request[a].defn
    OBVIOUS
  <2>1. CASE Refused(a) /\ defn' = defn /\ UNCHANGED versionVars
    BY <1>5, <2>1
  <2>2. CASE Answered(a) /\ request[a].rescoped /\ latest = request[a].base /\ Rescope(ScopeOf[d])
             /\ defn' = d
    <3>1. latest + 1 \in Version /\ latest + 1 > 0 /\ Taxonomy \in Tax
      <4>1. latest > 0
        BY <1>0, <2>2 DEF IInv, RequestInv
      <4> QED
        BY <1>0, <2>2, <4>1, BoundAssumption, TaxonomyTyped DEF Version, Rescope
    <3> DEFINE new == [Taxonomy EXCEPT !.scope = ScopeOf[d]]
               rec == [NoVersion EXCEPT
                         !.taxonomy = new,
                         !.change = [kind |-> "scope", item |-> NoItem, name |-> NoName]]
    <3>2. new.scope = ScopeOf[d]
      BY <3>1 DEF Tax
    <3>3. versions' = [versions EXCEPT ![latest + 1] = rec] /\ latest' = latest + 1
      BY <2>2 DEF Rescope
    <3> HIDE DEF new
    <3>4. rec.taxonomy = new
      BY DEF NoVersion
    <3> HIDE DEF rec
    <3>5. versions'[latest'].taxonomy = new
      BY <1>0, <3>1, <3>3, <3>4
    <3> QED
      BY <1>4, <2>2, <3>2, <3>5 DEF ScopeKept, Taxonomy
  <2>3. CASE Answered(a) /\ request[a].kind = "apply" /\ ~request[a].rescoped /\ defn' = d
             /\ UNCHANGED versionVars
    <3>1. ~request[a].overtaken => latest = 0 \/ Taxonomy.scope = ScopeOf[d]
      BY <2>3 DEF ReadInv
    <3>2. latest' = latest /\ Taxonomy' = Taxonomy
      BY <2>3 DEF versionVars, Taxonomy
    <3> QED
      BY <1>0, <1>4, <2>3, <3>1, <3>2 DEF ScopeKept
  <2> QED
    BY <1>6, <2>1, <2>2, <2>3 DEF ApplyDefinition
<1>7. ASSUME NEW a \in Caller, SeedTaxonomy(a) PROVE ReadInv' /\ ScopeKept'
  <2>1. CASE Refused(a) /\ UNCHANGED versionVars
    BY <1>5, <1>7, <2>1 DEF SeedTaxonomy
  <2>2. CASE /\ latest = 0 /\ latest' = 1 /\ Answered(a)
             /\ versions' = [versions EXCEPT ![1].taxonomy = Seed(ScopeOf[request[a].defn])]
    <3> DEFINE s == ScopeOf[request[a].defn]
    <3>1. versions'[1].taxonomy = Seed(s)
      BY <1>0, <2>2, BoundAssumption DEF Version, VersionOK, VersionRecord
    <3>2. Seed(s).scope = s
      BY DEF Seed
    <3>3. defn' = defn /\ (~request[a].overtaken => request[a].defn = defn)
      BY <1>7 DEF SeedTaxonomy, ReadInv
    <3> QED
      BY <1>4, <2>2, <3>1, <3>2, <3>3 DEF ScopeKept, Taxonomy
  <2> QED
    BY <1>7, <2>1, <2>2 DEF SeedTaxonomy
<1>8. CASE UNCHANGED vars
  BY <1>1, <1>8 DEF vars, Unmoved
<1> QED
  BY <1>0, <1>1, <1>2, <1>3, <1>6, <1>7, <1>8, ScopeUnmoved, Zenon DEF Next, Elsewhere

(* The taxonomy has the scope of the definition in force, however many     *)
(* definitions are applied at once, unless the last of them, or the seed,  *)
(* was written from what another had written over.                         *)
THEOREM Scopes == Spec => []ScopeKept
<1>1. Init => ReadInv /\ ScopeKept
  BY ScopeInit
<1>2. IInv /\ (ReadInv /\ ScopeKept) /\ [Next]_vars => (ReadInv /\ ScopeKept)'
  BY ScopeStays
<1> QED
  BY <1>1, <1>2, Invariant, PTL DEF Spec
=============================================================================
