-------------------------- MODULE PublishedHistory --------------------------
(***************************************************************************)
(* What a dataset of the platform promises the consumers of its snapshots, *)
(* without saying how (docs/adr/0004, "Publication and consumers").        *)
(*                                                                         *)
(* A run makes at most one snapshot.  A snapshot is published under the    *)
(* next generation, or waits for the owner; at most one waits.  A snapshot *)
(* enters the history, or starts to wait, only while it is newer than      *)
(* every snapshot made so far, so the generations follow the order the     *)
(* runs started in.  Nothing published is ever changed or withdrawn.       *)
(***************************************************************************)
EXTENDS Integers

CONSTANTS Run

VARIABLES
    startedAt,  \* [Run -> Nat]: when each run started, 0 before it did
    head,       \* the latest published generation, 0 before the first
    number,     \* [Run -> Nat]: the generation of the run's snapshot, 0 if none
    waiting,    \* the runs whose snapshot waits for the owner
    made        \* the runs that have made a snapshot, whatever became of it

historyVars == <<startedAt, head, number, waiting, made>>

Init ==
    /\ startedAt = [r \in Run |-> 0]
    /\ head = 0
    /\ number = [r \in Run |-> 0]
    /\ waiting = {}
    /\ made = {}

(* r is newer than every run that has made a snapshot.                     *)
Newest(r) == \A m \in made : startedAt[m] < startedAt[r]

Start(r) ==
    /\ startedAt[r] = 0
    /\ startedAt'[r] \in Nat
    /\ startedAt' = [startedAt EXCEPT ![r] = startedAt'[r]]
    /\ \A q \in Run : startedAt[q] < startedAt'[r]
    /\ UNCHANGED <<head, number, waiting, made>>

(* A run publishes its snapshot; what waited is older, and waits no more.  *)
Publish(r) ==
    /\ Newest(r)
    /\ r \notin made
    /\ head' = head + 1
    /\ number' = [number EXCEPT ![r] = head + 1]
    /\ waiting' = {}
    /\ made' = made \cup {r}
    /\ UNCHANGED startedAt

(* A run's snapshot starts to wait, in the place of the one that did.      *)
Hold(r) ==
    /\ Newest(r)
    /\ r \notin made
    /\ waiting' = {r}
    /\ made' = made \cup {r}
    /\ UNCHANGED <<startedAt, head, number>>

(* The owner lets the waiting snapshot into the history.                   *)
Release(r) ==
    /\ r \in waiting
    /\ head' = head + 1
    /\ number' = [number EXCEPT ![r] = head + 1]
    /\ waiting' = waiting \ {r}
    /\ UNCHANGED <<startedAt, made>>

(* The owner discards it, or a newer run finds it out of date.             *)
Drop ==
    /\ waiting # {}
    /\ waiting' = {}
    /\ UNCHANGED <<startedAt, head, number, made>>

Next ==
    \/ Drop
    \/ \E r \in Run : Start(r) \/ Publish(r) \/ Hold(r) \/ Release(r)

Spec == Init /\ [][Next]_historyVars

=============================================================================
