----------------------------- MODULE BlobCatalog -----------------------------
(***************************************************************************)
(* What the blob files in the user's configuration directory go through,   *)
(* whoever writes them: the abstract specification of a synchronisation.   *)
(*                                                                         *)
(* One file changes at a time.  It receives the server's data of some      *)
(* version between the one it already holds and the one now published, so  *)
(* that data never go back; or a marker of a failed transfer; or, only in  *)
(* a file that something is uploaded from, the server's answer.  A new     *)
(* program version may remove files, all at once.                          *)
(***************************************************************************)
EXTENDS SyncData

VARIABLES server, user

catalogVars == <<server, user>>

Init == server \in Nat /\ user = [f \in Files |-> Absent]

Publish == server' = server + 1 /\ UNCHANGED user

UploadFiles == {File(e) : e \in {x \in E : Upload(x)}}

Store(f, c) ==
  /\ IsVersion(c) => user[f] <= c /\ c <= server
  /\ user' = [user EXCEPT ![f] = c]
  /\ UNCHANGED server

Wipe(S) ==
  /\ user' = [f \in Files |-> IF f \in S THEN Absent ELSE user[f]]
  /\ UNCHANGED server

Next ==
  \/ Publish
  \/ \E f \in Files : \E c \in {Broken} \cup 0..server : Store(f, c)
  \/ \E f \in UploadFiles : Store(f, Reply)
  \/ \E S \in SUBSET Files : Wipe(S)

Spec == Init /\ [][Next]_catalogVars
=============================================================================
