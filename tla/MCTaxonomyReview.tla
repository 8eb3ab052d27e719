-------------------------- MODULE MCTaxonomyReview --------------------------
(* A feature with one value, which two others can join; the first may be   *)
(* renamed to what one of them is called.                                  *)
EXTENDS TaxonomyReview, TLC

CONSTANTS x, y, z, A, B, C, width, d1, d2, d3, s1, s2, c1, c2

MCSeeded == [i \in {x} |-> A]
MCKindOf == [i \in {x, y, z} |-> width]
MCScopeOf == [d \in Definition |-> IF d = d2 THEN s2 ELSE s1]
MCProposable == {[kind |-> "add", item |-> y, name |-> B],
                 [kind |-> "add", item |-> z, name |-> C],
                 [kind |-> "rename", item |-> x, name |-> B]}

(* Callers are alike.                                                      *)
MCSymmetry == Permutations(Caller)

Busy == {c \in Caller : request[c].kind # "none"}
Crossing == crossed \/ Cardinality(Busy) > 1 \/ \E c \in Busy : request[c].overtaken

(* Bounds: definitions are applied, and the taxonomy is seeded, while the  *)
(* log has fewer than MaxBusy entries and no review has run again; two at  *)
(* once, or crossing, besides only until a second review begins.           *)
CONSTANT MaxBusy
MCExplored ==
    /\ Busy # {} \/ crossed => logged < MaxBusy /\ lost = 0
    /\ Crossing => pc[2] = "off"
=============================================================================
