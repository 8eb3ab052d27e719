----------------------------- MODULE MCMatching -----------------------------
(* Two pages of one name with identifiers that differ, and one known by    *)
(* that name, or by one that differs by a model mark.  When it is read     *)
(* again it may give the second page's identifier, and its site may refuse *)
(* AI input.                                                               *)
EXTENDS Matching

CONSTANTS a, b, c, i1, i2, n, mark

MCOrder == [p \in {a, b, c} |-> CASE p = a -> 1 [] p = c -> 2 [] OTHER -> 3]
MCReads ==
    [p \in {a, b, c} |->
       CASE p = a -> {[ids |-> {i1}, name |-> n, refuses |-> FALSE]}
         [] p = b -> {[ids |-> {i2}, name |-> n, refuses |-> FALSE]}
         [] OTHER -> {[ids |-> {}, name |-> n, refuses |-> FALSE],
                      [ids |-> {}, name |-> mark, refuses |-> FALSE],
                      [ids |-> {i2}, name |-> n, refuses |-> TRUE]}]
MCAlike == {<<n, mark>>}
MCMarks == {<<n, mark>>}
=============================================================================
