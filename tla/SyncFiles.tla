------------------------------ MODULE SyncFiles ------------------------------
(***************************************************************************)
(* What the three ways of synchronising share: the blob files, the two     *)
(* version globals of shell/syncmanager.c, and what a reply does to them.  *)
(***************************************************************************)
EXTENDS SyncData

VARIABLES
  server,    \* the version the server publishes
  packaged,  \* the version of the data installed with the program
  user,      \* user[f]: content of f in the user's configuration directory
  our, srv   \* our_/server_blobs_update_version

files == <<server, packaged, user>>
glob  == <<our, srv>>

\* if (!optional || our < server) of send_request_for_net_action()
Wanted(e) == ~Optional(e) \/ our < srv

\* g_file_replace + splice: what the file of e holds afterwards.
Stored(e, c) == [user EXCEPT ![File(e)] = c]

\* The body of e breaks off in the splice.  A file that did not exist is written
\* in place; the copy that replaces an older one is renamed over it or dropped.
Truncated(e) ==
  {Stored(e, Broken)} \cup (IF user[File(e)] = Absent THEN {} ELSE {user})

\* The version file is read back after every reply that reached the file code.
ReadBack(e) == srv' = IF e = N THEN Parse(user'[VersionFile], srv) ELSE srv

\* A new program version removes some of the user's files.
WithoutFiles(removed) == [f \in Files |-> IF f \in removed THEN Absent ELSE user[f]]
=============================================================================
