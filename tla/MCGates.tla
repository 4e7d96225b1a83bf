------------------------------ MODULE MCGates -------------------------------
(***************************************************************************)
(* The instance of Gates for TLC.                                          *)
(***************************************************************************)
EXTENDS Gates, MCWorkflows
=============================================================================
