---------------------------- MODULE MCBlueGreen ----------------------------
(* Small instances of BlueGreen for TLC. *)
EXTENDS BlueGreen
=============================================================================
