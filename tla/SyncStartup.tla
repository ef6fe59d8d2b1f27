----------------------------- MODULE SyncStartup -----------------------------
(***************************************************************************)
(* "Synchronize on startup" in the GUI: sync_manager_update_on_startup(0)  *)
(* queues one idle callback, sync_one(), per entry.  A callback that sends *)
(* a request runs the global GMainLoop `loop` from inside the main loop,   *)
(* and the callbacks still queued run inside that one: the calls nest.     *)
(* They all run the same loop, so the first reply makes every one of them  *)
(* return, and each frees its SyncNetAction on the way out.                *)
(*                                                                         *)
(* The user may start a sync from the dialog meanwhile; what matters here  *)
(* is that the dialog overwrites `loop` and releases its own one at the    *)
(* end.  Its requests are the subject of SyncDialog.  The queue is assumed *)
(* to be empty by then: it takes two clicks, and the callbacks run as soon *)
(* as the main loop is idle.                                               *)
(***************************************************************************)
EXTENDS SyncFiles

CONSTANTS
  Faults,      \* faults of a reply: subset of {"http", "net", "partial", "disk"}
  Cleaned,     \* the files removed when a new program version starts
  MaxVersion   \* bound on the versions the server publishes

ASSUME StartupAssumption ==
  /\ Faults \subseteq {"http", "net", "partial", "disk"}
  /\ Cleaned \subseteq Files
  /\ MaxVersion \in Nat

VARIABLES
  pc,       \* "down", "running", or "quitting": gtk_main_quit() was called
  queue,    \* entries whose idle callback has not run
  frames,   \* entries inside send_request_for_net_action(), innermost last
  sentAt,   \* server version when the request of e was sent; Absent: none in flight
  freed,    \* entries whose SyncNetAction has been freed
  turning,  \* the startup loop: "run", "quit", or "unwind" once a frame returned
  refs,     \* its reference count
  dialog    \* "none", "open": the dialog's loop is the global one, "closed"

stack == <<queue, frames, freed, turning, refs>>
vars  == <<files, glob, pc, stack, sentAt, dialog>>

NoRequests == [e \in E |-> Absent]
Flying     == {e \in E : sentAt[e] # Absent}
-----------------------------------------------------------------------------
\* g_main_loop_new() and one reference per entry; the first is never dropped.
InitialRefsReleased == N   \* mutant: unref'd at the end of the function
InitialRefs == N + 1

\* sync_one() sends nothing that uploads while the GUI runs.
Sends(e) == ~Upload(e) /\ Wanted(e)

\* A body built at some time between the request and its delivery.
BodiesCached(e) == IF Upload(e) THEN {Reply} ELSE 0..server   \* mutant: a stale cache answers
Bodies(e) == IF Upload(e) THEN {Reply} ELSE sentAt[e]..server

\* g_main_loop_quit(loop) at the end of got_response(): the global one.
QuitForgotten == turning' = turning   \* mutant: an early return
QuitLoop == turning' = IF dialog = "none" /\ frames # <<>> THEN "quit" ELSE turning

\* The main loop, or the innermost nested one, dispatches events.
Dispatching == pc # "down" /\ (frames = <<>> \/ turning # "quit")
-----------------------------------------------------------------------------
FreshProcess ==
  /\ our' = 0 /\ srv' = 0
  /\ queue' = {} /\ frames' = <<>>
  /\ sentAt' = NoRequests
  /\ freed' = {} /\ turning' = "run" /\ refs' = 0
  /\ dialog' = "none"

Init ==
  /\ server \in 0..MaxVersion
  /\ packaged \in 0..server
  /\ user = [f \in Files |-> Absent]
  /\ our = 0 /\ srv = 0
  /\ pc = "down"
  /\ queue = {} /\ frames = <<>> /\ sentAt = NoRequests
  /\ freed = {} /\ turning = "run" /\ refs = 0
  /\ dialog = "none"

\* The server's data move on (external).
Publish ==
  /\ server < MaxVersion
  /\ server' = server + 1
  /\ UNCHANGED <<packaged, user, glob, pc, stack, sentAt, dialog>>

\* main() up to gtk_main(), with the option set; the files it finds.
Begin(installed, found) ==
  /\ pc = "down"
  /\ pc' = "running"
  /\ packaged' = installed /\ user' = found
  /\ our' = ReadOur(found[VersionFile], installed, 0) /\ srv' = 0
  /\ queue' = E /\ refs' = InitialRefs
  /\ UNCHANGED <<server, frames, sentAt, freed, turning, dialog>>

Start == Begin(packaged, user)

\* A new program version removes the user's blobs first.
StartUpgraded ==
  \E p \in (packaged + 1)..server : Begin(p, WithoutFiles(Cleaned))

\* sync_one() of the next entry in list order, nothing to send.
IdleSkip ==
  /\ Dispatching /\ queue # {}
  /\ LET e == Min(queue) IN
       /\ ~Sends(e)
       /\ queue' = queue \ {e}
       /\ freed' = freed \cup {e}
  /\ refs' = refs - 1
  /\ UNCHANGED <<files, glob, pc, frames, sentAt, turning, dialog>>

\* sync_one() of the next entry in list order sends and runs the loop.
IdleSend ==
  /\ Dispatching /\ queue # {}
  /\ LET e == Min(queue) IN
       /\ Sends(e)
       /\ queue' = queue \ {e}
       /\ frames' = Append(frames, e)
       /\ sentAt' = [sentAt EXCEPT ![e] = server]
  /\ turning' = "run"
  /\ UNCHANGED <<files, glob, pc, freed, refs, dialog>>

\* What got_response() does to the files and the version with its record alive.
Delivered(e) ==
  \/ /\ user' \in {Stored(e, c) : c \in Bodies(e)}
     /\ ReadBack(e)
  \/ /\ "http" \in Faults
     /\ user' = Stored(e, Broken)
     /\ ReadBack(e)
  \/ /\ "net" \in Faults
     /\ UNCHANGED <<user, srv>>
  \/ /\ "partial" \in Faults
     /\ user' \in Truncated(e)
     /\ ReadBack(e)
  \/ /\ "disk" \in Faults
     /\ user' = user
     /\ ReadBack(e)

\* got_response() of a request whose record is alive.
LiveReply ==
  /\ pc # "down"
  /\ \E e \in Flying \ freed :
       /\ Delivered(e)
       /\ sentAt' = [sentAt EXCEPT ![e] = Absent]
  /\ QuitLoop
  /\ UNCHANGED <<server, packaged, our, pc, queue, frames, freed, refs, dialog>>

\* got_response() of a request whose record has been freed: what it finds there
\* is undefined.  The record may still look as it was; or its error looks set,
\* and the reply is dropped.  A crash is Stop.
DeadReply ==
  /\ pc # "down"
  /\ \E e \in Flying \cap freed :
       /\ Delivered(e) \/ UNCHANGED <<user, srv>>
       /\ sentAt' = [sentAt EXCEPT ![e] = Absent]
  /\ QuitLoop
  /\ UNCHANGED <<server, packaged, our, pc, queue, frames, freed, refs, dialog>>

\* The innermost g_main_loop_run(loop) finds the loop told to quit, and sync_one()
\* drops a reference to whatever `loop` is and frees its record.
FrameReturns ==
  /\ pc # "down" /\ frames # <<>> /\ turning # "run" /\ dialog # "open"
  /\ LET top == frames[Len(frames)] IN freed' = freed \cup {top}
  /\ frames' = SubSeq(frames, 1, Len(frames) - 1)
  /\ turning' = "unwind"
  /\ refs' = IF dialog = "none" THEN refs - 1 ELSE refs
  /\ UNCHANGED <<files, glob, pc, queue, sentAt, dialog>>

\* sync_dialog_start_sync() overwrites `loop`.
DialogTakesLoop ==
  /\ pc # "down" /\ queue = {} /\ dialog = "none"
  /\ dialog' = "open"
  /\ UNCHANGED <<files, glob, pc, stack, sentAt>>

\* ... and releases its own at the end; `loop` is left as it is.
DialogEnds ==
  /\ pc # "down" /\ dialog = "open"
  /\ dialog' = "closed"
  /\ UNCHANGED <<files, glob, pc, stack, sentAt>>

\* cb_quit(): gtk_main_quit(), which stops the outermost loop only.
QuitClick ==
  /\ pc = "running"
  /\ pc' = "quitting"
  /\ UNCHANGED <<files, glob, stack, sentAt, dialog>>

\* gtk_main() returns once nothing is nested in it; the process ends.
End ==
  /\ pc = "quitting" /\ frames = <<>> /\ dialog # "open"
  /\ pc' = "down"
  /\ FreshProcess
  /\ UNCHANGED files

\* The process is killed, or crashes on a freed record or loop.
Stop ==
  /\ pc # "down"
  /\ pc' = "down"
  /\ FreshProcess
  /\ UNCHANGED files

\* ... or in the splice that writes a new file in place.
StopInSplice ==
  /\ pc # "down"
  /\ \E e \in Flying : user[File(e)] = Absent /\ user' = Stored(e, Broken)
  /\ pc' = "down"
  /\ FreshProcess
  /\ UNCHANGED <<server, packaged>>

Replies == LiveReply \/ DeadReply
Thread  == IdleSkip \/ IdleSend \/ FrameReturns \/ End
Next    == Publish \/ Start \/ StartUpgraded \/ Thread \/ Replies
             \/ DialogTakesLoop \/ DialogEnds \/ QuitClick \/ Stop \/ StopInSplice

\* The thread runs, every request completes (the session's timeout is ten
\* seconds, ensure_soup_session), and a dialog is closed some day.
Fairness == WF_vars(Thread) /\ WF_vars(Replies) /\ WF_vars(DialogEnds)

Spec     == Init /\ [][Next]_vars
FairSpec == Spec /\ Fairness
-----------------------------------------------------------------------------
\* Every g_main_loop_quit(loop) of a reply acts on a loop that still exists, even
\* when every frame has returned, unless the dialog has taken `loop` away: the
\* reference of g_main_loop_new() outlives those of the callbacks.
LoopOutlivesReplies == Flying # {} /\ dialog = "none" => refs > 0

\* Every startup sync runs to its end: callbacks and frames are gone, unless the
\* dialog took `loop` away while a frame ran it.
StartupSettles == pc # "down" ~> (queue = {} /\ frames = <<>>) \/ dialog # "none"

\* Closing the main window ends the process, with the same exception.
QuitEnds == pc = "quitting" ~> pc = "down" \/ dialog # "none"

\* "Synchronize on startup" (shell/menu.c:112): once a startup sync has settled,
\* the data in use are not older than the version it has recorded; otherwise the
\* next sync finds the server no newer than that and fetches nothing either.
StartupSynchronizes ==
  pc = "running" /\ queue = {} /\ frames = <<>> /\ Flying = {} /\ dialog = "none" =>
    \A e \in E : Optional(e) =>
      Effective(user[File(e)], packaged) >= user[VersionFile]

-----------------------------------------------------------------------------
(* What every way of synchronising promises about the files.                *)
Catalog == INSTANCE BlobCatalog
CatalogSpec == Catalog!Spec
=============================================================================
