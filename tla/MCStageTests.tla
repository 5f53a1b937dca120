---------------------------- MODULE MCStageTests ----------------------------
(* Small instances of StageTests for TLC. *)
EXTENDS StageTests
CONSTANTS c1, c2
=============================================================================
