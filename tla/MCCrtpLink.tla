----------------------------- MODULE MCCrtpLink -----------------------------
(* The communication stack for TLC *)
EXTENDS CrtpLink
=============================================================================
