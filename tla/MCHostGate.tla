---------------------------- MODULE MCHostGate ------------------------------
(***************************************************************************)
(* Two runs of two datasets on one host: one asks for the usual interval,  *)
(* the other for twice as long.                                            *)
(***************************************************************************)
EXTENDS HostGate, TLC

CONSTANTS a, b

MCRun == {a, b}
MCInterval == (a :> 0) @@ (b :> 2)
MCRetryAfter == {0, 1, 9}

=============================================================================
