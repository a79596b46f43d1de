----------------------------- MODULE MCAuditedState -----------------------------
(* The instance of AuditedState for TLC.                                   *)
EXTENDS AuditedState
=============================================================================
