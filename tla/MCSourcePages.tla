--------------------------- MODULE MCSourcePages ---------------------------
(* Runs of a source for TLC.                                               *)
EXTENDS SourcePages
=============================================================================
