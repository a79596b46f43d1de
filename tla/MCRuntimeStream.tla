---------------------------- MODULE MCRuntimeStream ----------------------------
(* The instance of RuntimeStream for TLC.                                  *)
EXTENDS RuntimeStream
=============================================================================
