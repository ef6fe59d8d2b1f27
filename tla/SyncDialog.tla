----------------------------- MODULE SyncDialog -----------------------------
(***************************************************************************)
(* The Synchronize dialog of the GUI (shell/syncmanager.c).                *)
(*                                                                         *)
(* One thread runs everything; pc says how deep it is nested: the main     *)
(* window ("idle"), gtk_dialog_run ("confirm"), the few events handled     *)
(* before the first request ("prelude"), the top of the action loop        *)
(* ("loop"), the nested main loop of a request ("wait"), the one that      *)
(* waits for the user to close the dialog ("closing"), and the reload that *)
(* ends a sync ("reload").  "down" is a process that is not running.       *)
(***************************************************************************)
EXTENDS SyncFiles

CONSTANTS
  Faults,       \* faults of a reply: subset of {"http", "net", "partial", "disk"}
  Cleaned,      \* the files removed when a new program version starts
  PromptAbort,  \* an aborted request completes before the user's next click
  MaxVersion    \* bound on the versions the server publishes

ASSUME DialogAssumption ==
  /\ Faults \subseteq {"http", "net", "partial", "disk"}
  /\ Cleaned \subseteq Files
  /\ PromptAbort \in BOOLEAN
  /\ MaxVersion \in Nat

VARIABLES
  pc,
  ticked,    \* ticked[e]: SyncEntry.selected
  todo,      \* actions still to run, the first of the array excluded
  mark,      \* mark[e]: what the row of e shows
  sentAt,    \* server version when the current request was sent
  busy,      \* the current request has not completed
  error,     \* error of the current SyncNetAction is set
  cancel,    \* sd->flag_cancel
  quit,      \* the innermost run of loop has been told to quit
  late       \* entries whose request outlived its SyncNetAction

rows   == <<todo, mark>>
req    == <<sentAt, busy, error>>
flags  == <<cancel, quit>>
vars   == <<files, pc, glob, ticked, rows, req, flags, late>>

Marks == {"none", "done", "current", "failed", "canceled"}
-----------------------------------------------------------------------------
\* sync_manager_get_selected_actions(): the ticked entries and the last one.
SelectedIgnoringTicks == E   \* mutant: the ticks are not looked at
Selected == {e \in E : e = N \/ ticked[e]}

\* The action loop runs i = n-1 .. 1: the first element of the array, index
\* 0, is left out.
Listed == Selected \ {Min(Selected)}

CurrentUpwards == Min(todo)   \* mutant: i runs from 1 to n-1
Current == Max(todo)

\* The body a faultless reply to e carries, built at some time between the
\* request and its delivery.
BodiesCached(e) == IF Upload(e) THEN {Reply} ELSE 0..server   \* mutant: a stale cache answers
Bodies(e) == IF Upload(e) THEN {Reply} ELSE sentAt..server

\* g_main_loop_quit(loop) at the end of got_response(), whatever happened.
QuitForgotten == quit' = quit   \* mutant: the error path returns early
QuitLoop == quit' = TRUE

\* What is left to do after the current action: a failed one breaks the loop.
RemainingAfterError(failed) == todo \ {Current}   \* mutant: no break
Remaining(failed) == IF failed THEN {} ELSE todo \ {Current}
-----------------------------------------------------------------------------
Init ==
  /\ server \in 0..MaxVersion
  /\ packaged \in 0..server
  /\ user = [f \in Files |-> Absent]
  /\ pc = "down"
  /\ our = 0 /\ srv = 0
  /\ ticked = [e \in E |-> TRUE]
  /\ todo = {} /\ mark = [e \in E |-> "none"]
  /\ sentAt = 0 /\ busy = FALSE /\ error = FALSE
  /\ cancel = FALSE /\ quit = FALSE
  /\ late = {}

\* The server's data move on (external).
Publish ==
  /\ server < MaxVersion
  /\ server' = server + 1
  /\ UNCHANGED <<packaged, user, pc, glob, ticked, rows, req, flags, late>>

\* Everything a process keeps in memory starts over.
FreshProcess ==
  /\ our' = 0 /\ srv' = 0
  /\ ticked' = [e \in E |-> TRUE]
  /\ todo' = {} /\ mark' = [e \in E |-> "none"]
  /\ sentAt' = 0 /\ busy' = FALSE /\ error' = FALSE
  /\ cancel' = FALSE /\ quit' = FALSE
  /\ late' = {}

\* main(): the program starts.
Launch ==
  /\ pc = "down"
  /\ pc' = "idle"
  /\ FreshProcess
  /\ UNCHANGED files

\* main(): a new program version starts and removes the user's blobs.
LaunchUpgraded ==
  /\ pc = "down"
  /\ pc' = "idle"
  /\ packaged' \in (packaged + 1)..server
  /\ user' = WithoutFiles(Cleaned)
  /\ FreshProcess
  /\ UNCHANGED server

\* The process ends, by the user or a crash, wherever it is.
Stop ==
  /\ pc # "down"
  /\ pc' = "down"
  /\ FreshProcess
  /\ UNCHANGED files

\* A crash in the splice that writes a new file in place.
CrashInSplice ==
  /\ pc = "wait" /\ busy /\ user[File(Current)] = Absent
  /\ user' = Stored(Current, Broken)
  /\ pc' = "down"
  /\ FreshProcess
  /\ UNCHANGED <<server, packaged>>

\* The user acts only after the completions that are already due.
UserMayAct == PromptAbort => late = {}

\* cb_sync_manager() -> sync_manager_show(): the list is filled, all ticked.
OpenDialog ==
  /\ pc = "idle" /\ UserMayAct
  /\ pc' = "confirm"
  /\ ticked' = [e \in E |-> TRUE]
  /\ mark' = [e \in E |-> "none"]
  /\ UNCHANGED <<files, glob, todo, req, flags, late>>

\* sel_toggle(): only the upload entry can be unticked.
Toggle ==
  /\ pc = "confirm"
  /\ \E e \in E : Upload(e) /\ ticked' = [ticked EXCEPT ![e] = ~@]
  /\ UNCHANGED <<files, pc, glob, rows, req, flags, late>>

Dismiss ==
  /\ pc = "confirm"
  /\ pc' = "idle"
  /\ UNCHANGED <<files, glob, ticked, rows, req, flags, late>>

\* GTK_RESPONSE_ACCEPT -> sync_dialog_start_sync()
StartSync ==
  /\ pc = "confirm" /\ UserMayAct
  /\ pc' = "prelude"
  /\ our' = ReadOur(user[VersionFile], packaged, our)
  /\ todo' = Listed
  /\ cancel' = FALSE /\ quit' = FALSE
  /\ UNCHANGED <<files, srv, ticked, mark, req, late>>

\* gtk_main_iteration_do() is over and the action loop starts.
EnterLoop ==
  /\ pc = "prelude"
  /\ pc' = "loop"
  /\ UNCHANGED <<files, glob, ticked, rows, req, flags, late>>

\* _cancel_sync() during the pending events or the nested loop of a request.
CancelClick ==
  /\ pc \in {"prelude", "wait"} /\ ~cancel
  /\ cancel' = TRUE
  /\ quit' = (pc = "wait")
  /\ UNCHANGED <<files, pc, glob, ticked, rows, req, late>>

\* Top of the loop: the user has cancelled.
LoopCanceled ==
  /\ pc = "loop" /\ todo # {} /\ cancel
  /\ mark' = [mark EXCEPT ![Current] = "canceled"]
  /\ todo' = {}
  /\ UNCHANGED <<files, pc, glob, ticked, req, flags, late>>

\* Top of the loop: the entry is optional and thought to be up to date.
LoopSkip ==
  /\ pc = "loop" /\ todo # {} /\ ~cancel /\ ~Wanted(Current)
  /\ mark' = [mark EXCEPT ![Current] = "done"]
  /\ todo' = todo \ {Current}
  /\ UNCHANGED <<files, pc, glob, ticked, req, flags, late>>

\* Top of the loop: soup_session_send_async() and g_main_loop_run().
LoopSend ==
  /\ pc = "loop" /\ todo # {} /\ ~cancel /\ Wanted(Current)
  /\ pc' = "wait"
  /\ mark' = [mark EXCEPT ![Current] = "current"]
  /\ sentAt' = server /\ busy' = TRUE /\ error' = FALSE
  /\ quit' = FALSE
  /\ UNCHANGED <<files, glob, ticked, todo, cancel, late>>

\* The loop is over: to the reload, or to wait for the user first.
LoopEnd ==
  /\ pc = "loop" /\ todo = {}
  /\ pc' = IF cancel THEN "closing" ELSE "reload"
  /\ quit' = FALSE
  /\ UNCHANGED <<files, glob, ticked, rows, req, cancel, late>>

\* got_response() with no error.  The HTTP status is never looked at: an error
\* page is stored like any other body.
ReplyOk ==
  /\ pc = "wait" /\ busy
  /\ \E c \in Bodies(Current) \cup (IF "http" \in Faults THEN {Broken} ELSE {}) :
       user' = Stored(Current, c)
  /\ ReadBack(Current)
  /\ busy' = FALSE /\ QuitLoop
  /\ UNCHANGED <<server, packaged, pc, our, ticked, rows, sentAt, error, cancel, late>>

\* soup_session_send_finish() fails: nothing reaches the file code.  An abort
\* completes the request the same way, whatever Faults says.
ReplyNetError ==
  /\ pc = "wait" /\ busy
  /\ "net" \in Faults \/ cancel
  /\ error' = TRUE /\ busy' = FALSE /\ QuitLoop
  /\ UNCHANGED <<files, pc, glob, ticked, rows, sentAt, cancel, late>>

\* got_response() when the body breaks off: the splice sets the error.
ReplyPartial ==
  /\ pc = "wait" /\ busy
  /\ "partial" \in Faults
  /\ user' \in Truncated(Current)
  /\ ReadBack(Current)
  /\ error' = TRUE /\ busy' = FALSE /\ QuitLoop
  /\ UNCHANGED <<server, packaged, pc, our, ticked, rows, sentAt, cancel, late>>

\* g_file_replace() fails; the old version file is read back all the same.
ReplyDiskError ==
  /\ pc = "wait" /\ busy
  /\ "disk" \in Faults
  /\ user' = user
  /\ ReadBack(Current)
  /\ error' = TRUE /\ busy' = FALSE /\ QuitLoop
  /\ UNCHANGED <<server, packaged, pc, our, ticked, rows, sentAt, cancel, late>>

\* g_main_loop_run(loop) returns in send_request_for_net_action() and the
\* action loop looks at the result.  A request that has not completed (the
\* loop was quit by someone else) counts as done.
RequestReturns ==
  /\ pc = "wait" /\ quit
  /\ pc' = "loop"
  /\ late' = IF busy THEN late \cup {Current} ELSE late
  /\ mark' = [mark EXCEPT ![Current] = IF error THEN "failed" ELSE "done"]
  /\ todo' = Remaining(error)
  /\ cancel' = (cancel \/ error)
  /\ busy' = FALSE /\ error' = FALSE /\ quit' = FALSE
  /\ UNCHANGED <<files, glob, ticked, sentAt>>

\* close_clicked()
CloseClick ==
  /\ pc = "closing" /\ UserMayAct /\ ~quit
  /\ quit' = TRUE
  /\ UNCHANGED <<files, pc, glob, ticked, rows, req, cancel, late>>

CloseReturns ==
  /\ pc = "closing" /\ quit
  /\ pc' = "reload" /\ quit' = FALSE
  /\ UNCHANGED <<files, glob, ticked, rows, req, cancel, late>>

\* shell_do_reload(FALSE), then sync_dialog_destroy()
Reload ==
  /\ pc = "reload"
  /\ pc' = "idle"
  /\ UNCHANGED <<files, glob, ticked, rows, req, flags, late>>

\* The whole body of a late reply.  A request that Cancel aborted gets none; one whose
\* wait was quit by another late completion may, with the data of whenever it was
\* sent, but there is none with PromptAbort.
LateBodies(e) ==
  IF PromptAbort THEN {}
  ELSE {Stored(e, c) : c \in IF Upload(e) THEN {Reply} ELSE {Broken} \cup 0..server}

\* A request completes after its action array was freed: it stores nothing, or what
\* came of its body, and quits whatever loop is running.
LateReply ==
  /\ pc \in {"idle", "confirm", "prelude", "wait", "closing", "reload"}
  /\ \E e \in late :
       /\ late' = late \ {e}
       /\ user' \in {user} \cup (IF "partial" \in Faults THEN Truncated(e) ELSE {}) \cup LateBodies(e)
       /\ ReadBack(e)
  /\ quit' = IF pc \in {"wait", "closing"} THEN TRUE ELSE quit
  /\ UNCHANGED <<server, packaged, pc, our, ticked, rows, req, cancel>>

-----------------------------------------------------------------------------
User    == OpenDialog \/ Toggle \/ Dismiss \/ StartSync \/ CancelClick \/ CloseClick
Thread  == EnterLoop \/ LoopCanceled \/ LoopSkip \/ LoopSend \/ LoopEnd
             \/ RequestReturns \/ CloseReturns \/ Reload
Network == ReplyOk \/ ReplyNetError \/ ReplyPartial \/ ReplyDiskError

Next == Publish \/ Launch \/ LaunchUpgraded \/ Stop \/ CrashInSplice
          \/ User \/ Thread \/ Network \/ LateReply

\* The thread runs, and every request completes: the session's timeout is ten
\* seconds (ensure_soup_session) and an aborted one completes with an error.
Fairness == WF_vars(Thread) /\ WF_vars(Network) /\ WF_vars(LateReply)

Spec     == Init /\ [][Next]_vars
FairSpec == Spec /\ Fairness
-----------------------------------------------------------------------------
TypeOK ==
  /\ server \in Nat /\ packaged \in Nat
  /\ user \in [Files -> Contents]
  /\ pc \in {"down", "idle", "confirm", "prelude", "loop", "wait", "closing", "reload"}
  /\ our \in Nat /\ srv \in Nat
  /\ ticked \in [E -> BOOLEAN]
  /\ todo \subseteq E /\ late \subseteq E
  /\ mark \in [E -> Marks]
  /\ sentAt \in Nat
  /\ busy \in BOOLEAN /\ error \in BOOLEAN
  /\ cancel \in BOOLEAN /\ quit \in BOOLEAN

\* A sync that ran through: neither cancelled nor failed.
Clean == pc = "reload" /\ ~cancel

\* A sync that ran through and found the server ahead has brought every file it
\* listed, the server's answer to the upload apart, to the version recorded in
\* the version file, which is stored first (syncmanager.c:579-616).
CleanSyncIsFresh ==
  Clean /\ our < srv =>
    \A e \in Listed : ~Upload(e) /\ user[File(e)] # Broken =>
      user[File(e)] >= user[VersionFile]

\* Rows complete from the last entry to the first, and the first one that fails
\* or is cancelled is the last one touched: whatever was fetched before it has
\* been stored, nothing below it has been requested (syncmanager.c:579-616).
NothingAfterFailure ==
  \A a, b \in Listed : a > b /\ mark[b] # "none" => mark[a] = "done"

\* The answer to "Send benchmark results" lands in benchmark.json; a sync that
\* runs through has replaced it by the results received after it.
UploadAnswerReplaced == Clean => \A f \in Files : user[f] # Reply

\* Unticking "Send benchmark results" opts out of the upload (README.md:143):
\* a request that uploads is only ever started with its entry ticked.
OptOutHonoured ==
  [][pc' = "wait" /\ pc # "wait" /\ Upload(Current) => ticked[Current]]_vars

\* Every sync that starts ends, whatever the network does: the main window is
\* back, the dialog waits for the user to close it, or the process is gone.
SyncEnds == pc = "prelude" ~> pc \in {"idle", "closing", "down"}

-----------------------------------------------------------------------------
(* What the program says and the code does not do; each is the one property *)
(* of a run that expects it violated.                                       *)

\* Every entry the dialog lists with a tick is synchronised by a sync that runs
\* through: "Update CPU database" (modules/devices.c:1233) is listed.
EveryTickedEntrySynced ==
  Clean /\ our < srv =>
    \A e \in Selected : ~Upload(e) => user[File(e)] >= user[VersionFile]

-----------------------------------------------------------------------------
(* What every way of synchronising promises about the files.                *)
Catalog == INSTANCE BlobCatalog
CatalogSpec == Catalog!Spec
=============================================================================
