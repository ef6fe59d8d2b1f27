------------------------------ MODULE MCSyncCli ------------------------------
(* SyncCli with the entries of MCSyncEntries. *)
EXTENDS SyncCli, MCSyncEntries
=============================================================================
