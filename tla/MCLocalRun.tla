----------------------------- MODULE MCLocalRun -----------------------------
(* Two seeds, one of which leads to another page.                          *)
EXTENDS LocalRun, TLC

CONSTANTS s1, s2, u1

MCTask == {s1, s2, u1}
MCParent == s1 :> NoTask @@ s2 :> NoTask @@ u1 :> s1

=============================================================================
