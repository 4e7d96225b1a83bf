------------------------------- MODULE MCWave -------------------------------
(***************************************************************************)
(* The instance of WaveRuntime for TLC.                                    *)
(***************************************************************************)
EXTENDS WaveRuntime, MCValidation
=============================================================================
