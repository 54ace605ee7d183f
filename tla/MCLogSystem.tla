---------------------------- MODULE MCLogSystem -----------------------------
(* The logging server for TLC *)
EXTENDS LogSystem
=============================================================================
