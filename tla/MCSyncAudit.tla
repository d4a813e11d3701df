---------------------------- MODULE MCSyncAudit ----------------------------
(* SyncAudit for TLC. *)
EXTENDS SyncAudit
=============================================================================
