----------------------------- MODULE MCCrawlJob -----------------------------
(* Instances of CrawlJob for TLC.                                          *)
EXTENDS CrawlJob, TLC

CONSTANTS j1, s1, s2, u1, c1, c2, w1

(* Two requests that can both start a job, each with a seed of its own; a  *)
(* seed's page links to another page.                                      *)
MCTask == {s1, s2, u1}
MCJobOf == [t \in MCTask |-> j1]
MCParent == s1 :> c1 @@ s2 :> c2 @@ u1 :> s1

(* One request starts the job, with two seeds, one of which leads to       *)
(* another page; a second request can do anything but start it again.      *)
MCTask2 == {s1, s2, u1}
MCJobOf2 == [t \in MCTask2 |-> j1]
MCParent2 == s1 :> c1 @@ s2 :> c1 @@ u1 :> s1

=============================================================================
