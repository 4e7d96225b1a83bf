--------------------------- MODULE MCPlatformJob ----------------------------
(***************************************************************************)
(* The instance of PlatformJob for TLC.                                    *)
(***************************************************************************)
EXTENDS PlatformJob
=============================================================================
