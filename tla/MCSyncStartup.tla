---------------------------- MODULE MCSyncStartup ----------------------------
(* SyncStartup with the entries of MCSyncEntries. *)
EXTENDS SyncStartup, MCSyncEntries
=============================================================================
