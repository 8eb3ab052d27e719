--------------------------- MODULE MCPublication ---------------------------
(* Instances of Publication for TLC.                                       *)
EXTENDS Publication, TLC

CONSTANTS r1, r2, t1, t2, t3, a1, a2, p1, p2

MCRun == {r1, r2}
MCTry == {t1, t2, t3}
MCRunOf == t1 :> r1 @@ t2 :> r1 @@ t3 :> r2
MCAnswer == {a1, a2}
MCProduct == {p1, p2}

(* Tries of one run, the owner's requests, and products are alike.         *)
MCSymmetry == Permutations({t1, t2}) \cup Permutations(MCAnswer) \cup Permutations(MCProduct)

(* Two runs that may overlap, with one try each, under definitions that    *)
(* change.                                                                 *)
MCTry2 == {t1, t3}
MCRunOf2 == t1 :> r1 @@ t3 :> r2
MCAnswer1 == {a1}
MCSymmetry2 == Permutations(MCProduct)

=============================================================================
