------------------------------- MODULE SyncCli -------------------------------
(***************************************************************************)
(* hardinfo2 -r -u NOTE: synchronisation without a GUI                     *)
(* (hardinfo2/hardinfo.c, shell/syncmanager.c).                            *)
(*                                                                         *)
(* The entries are downloaded before the report is generated and the       *)
(* benchmark results are sent after it, one blocking request at a time.    *)
(* got_msg() leaves its output stream open.  GIO writes a file that does   *)
(* not exist in place, but replaces an existing one by renaming a copy     *)
(* when the stream is closed, which never happens.                         *)
(***************************************************************************)
EXTENDS SyncFiles

CONSTANTS
  Faults,      \* faults of a request: subset of {"http", "net", "disk"}
  Cleaned,     \* the files removed when a new program version starts
  MaxVersion   \* bound on the versions the server publishes

ASSUME CliAssumption ==
  /\ Faults \subseteq {"http", "net", "disk"}
  /\ Cleaned \subseteq Files
  /\ MaxVersion \in Nat

VARIABLES
  pc,         \* "down", the two calls of update_on_startup, or the report
  skip,       \* params.skip_benchmarks: benchmark.so is not loaded
  todo,       \* entries of the current call still to be handled
  met,        \* faults met by this process
  before      \* the server's version and the user's files at its start

process == <<pc, glob, skip, todo, met, before>>
vars    == <<files, process>>
-----------------------------------------------------------------------------
\* The entries the loaded modules have registered.
BenchmarkFiles == {File(e) : e \in {x \in E : Upload(x)}}
Registered(skipped) == {e \in E : skipped => File(e) \notin BenchmarkFiles}

\* send_benchmark 0: everything but the upload; 1: nothing but the upload.
Phase(sending) == {e \in Registered(skip) : Upload(e) = sending}

\* "wrong direction for sync sending": the list is reversed for the loop.
CurrentUnreversed == Min(todo)   \* mutant: the list keeps its direction
Current == Max(todo)

\* got_msg() with a body whose content is c: only a new file receives it.
WrittenTruncating(e, c) == Stored(e, c)   \* mutant: O_TRUNC
Written(e, c) == IF user[File(e)] = Absent THEN Stored(e, c) ELSE user

\* What a request can store when it meets the given faults: a failed one has no
\* body, and an error page is stored like any other.
Replies(e, fault) ==
  CASE fault \in {"net", "http"} -> {Written(e, Broken)}
    [] fault = "disk"            -> {user}
    [] OTHER                     -> {Written(e, IF Upload(e) THEN Reply ELSE server)}
-----------------------------------------------------------------------------
Init ==
  /\ server \in 0..MaxVersion
  /\ packaged \in 0..server
  /\ user = [f \in Files |-> Absent]
  /\ pc = "down"
  /\ our = 0 /\ srv = 0
  /\ skip = FALSE
  /\ todo = {} /\ met = {}
  /\ before = [server |-> server, user |-> user]

\* The server's data move on (external).
Publish ==
  /\ server < MaxVersion
  /\ server' = server + 1
  /\ UNCHANGED <<packaged, user, process>>

\* main() up to sync_manager_update_on_startup(0), with the data installed and
\* the user's files it finds.
Begin(installed, found) ==
  /\ pc = "down"
  /\ pc' = "download"
  /\ packaged' = installed /\ user' = found
  /\ skip' \in BOOLEAN
  /\ our' = ReadOur(found[VersionFile], installed, 0)
  /\ srv' = 0 /\ met' = {}
  /\ todo' = Phase(FALSE)'
  /\ before' = [server |-> server, user |-> found]
  /\ UNCHANGED server

Start == Begin(packaged, user)

\* A new program version removes the user's blobs first.
StartUpgraded ==
  \E p \in (packaged + 1)..server :
    Begin(p, WithoutFiles(Cleaned))

\* sync_one(): the entry is optional and thought to be up to date.
Skip ==
  /\ pc \in {"download", "send"} /\ todo # {} /\ ~Wanted(Current)
  /\ todo' = todo \ {Current}
  /\ UNCHANGED <<files, pc, our, srv, skip, met, before>>

\* sync_one(): one request, blocking.  Its result is ignored.
Request ==
  /\ pc \in {"download", "send"} /\ todo # {} /\ Wanted(Current)
  /\ \E fault \in Faults \cup {"none"} :
       /\ user' \in Replies(Current, fault)
       /\ met' = met \cup ({fault} \ {"none"})
  /\ ReadBack(Current)
  /\ todo' = todo \ {Current}
  /\ UNCHANGED <<server, packaged, pc, our, skip, before>>

\* The report is generated.
Report ==
  /\ pc = "download" /\ todo = {}
  /\ pc' = "report"
  /\ UNCHANGED <<files, our, srv, skip, todo, met, before>>

\* sync_manager_update_on_startup(1), unless benchmarks are skipped.
SendResults ==
  /\ pc = "report" /\ ~skip
  /\ pc' = "send"
  /\ our' = ReadOur(user[VersionFile], packaged, our)
  /\ todo' = Phase(TRUE)
  /\ UNCHANGED <<files, srv, skip, met, before>>

Finish ==
  /\ (pc = "report" /\ skip) \/ (pc = "send" /\ todo = {})
  /\ pc' = "down"
  /\ UNCHANGED <<files, our, srv, skip, todo, met, before>>

\* The process is killed, perhaps while it writes a new file in place.
Kill ==
  /\ pc # "down"
  /\ pc' = "down"
  /\ user' \in {user} \cup {Written(e, Broken) : e \in todo}
  /\ UNCHANGED <<server, packaged, our, srv, skip, todo, met, before>>

Next == Publish \/ Start \/ StartUpgraded \/ Skip \/ Request \/ Report
          \/ SendResults \/ Finish \/ Kill

Spec == Init /\ [][Next]_vars
-----------------------------------------------------------------------------
\* A run that starts without files, meets no fault and finds the server ahead of
\* the packaged data has every registered file at the recorded version before
\* the report is generated: the version is asked for first (syncmanager.c:994).
FirstRunIsComplete ==
  /\ pc = "report" /\ met = {} /\ our < srv
  /\ before.user = [f \in Files |-> Absent]
  => \A e \in Registered(skip) : user[File(e)] >= user[VersionFile]

\* Whatever a request meets, and wherever the process is killed, data the user
\* already has are neither damaged nor lost; only an upgrade removes them.
GoodDataSurvive ==
  [][\A f \in Files :
       IsVersion(user[f]) => IsVersion(user'[f]) \/ (pc = "down" /\ user'[f] = Absent)]_vars

\* "if not send benchmark - sync everything else" (syncmanager.c:1004): after a
\* download that met no fault, started with a sound version file, that file is not
\* older than the server's version at the start.
EverythingElseSynced ==
  pc = "report" /\ met = {} /\ IsVersion(before.user[VersionFile]) =>
    user[VersionFile] >= before.server
=============================================================================
