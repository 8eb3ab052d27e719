--------------------------- MODULE MCPageReading ---------------------------
(* Two bodies, one of which says more, and a revision that reads less from *)
(* it, and leaves the LLM nothing to fill of the other.                    *)
EXTENDS PageReading

CONSTANTS h1, h2, a, b

MCSays == [h \in {h1, h2} |-> [k \in Rev |-> IF h = h1 THEN {a} ELSE IF k = 1 THEN {a, b} ELSE {b}]]
MCFills == [h \in {h1, h2} |-> IF h = h1 THEN {1} ELSE Rev]
=============================================================================
