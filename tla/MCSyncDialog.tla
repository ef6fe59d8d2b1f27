---------------------------- MODULE MCSyncDialog ----------------------------
(* SyncDialog with the entries of MCSyncEntries. *)
EXTENDS SyncDialog, MCSyncEntries
=============================================================================
