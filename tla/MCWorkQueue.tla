---------------------------- MODULE MCWorkQueue -----------------------------
(***************************************************************************)
(* The instance of WorkQueue for TLC: its constants are in the .cfg.       *)
(***************************************************************************)
EXTENDS WorkQueue
=============================================================================
