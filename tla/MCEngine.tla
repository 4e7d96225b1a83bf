------------------------------ MODULE MCEngine ------------------------------
(***************************************************************************)
(* Instances of Engine for TLC.                                            *)
(***************************************************************************)
EXTENDS Engine, MCWorkflows, TLC

(* The workers are interchangeable.                                        *)
Alike == Permutations(Workers)
=============================================================================
