------------------------------ MODULE ShellPage ------------------------------
(***************************************************************************)
(* The main window (shell/shell.c): selecting a row of the tree shows its  *)
(* page, refreshing or a change of the desktop theme shows it again, and   *)
(* timers keep it up to date.                                              *)
(*                                                                         *)
(* One thread runs everything, but a handler that is at work lets a few    *)
(* other events run (gtk_main_iteration_do), so handlers nest.  The agenda *)
(* is what is left of all handlers at work, the innermost first: an        *)
(* "events" step is a place where up to n events are handled, a "dialog"   *)
(* step the modal dialog of a benchmark.                                   *)
(***************************************************************************)
EXTENDS Integers, Sequences, FiniteSets

CONSTANTS
  Entries,    \* the entries of the modules: 1..n
  Fields,     \* Fields[e]: the number of "UpdateInterval$" keys of e's page
  Reloads,    \* entries whose page has a ReloadInterval
  Rescans,    \* entries whose page has a RescanInterval
  Network,    \* entries of the module "Network"
  Slow,       \* benchmarks: their scan opens a dialog
  Budget,     \* events handled at once (5 in the code)
  Depth,      \* bound: handlers at work at once
  Slots,      \* bound: field timers at once
  MaxChains   \* bound: reload and rescan timers of an entry at once

ASSUME ShellAssumption ==
  /\ Entries \subseteq Nat \ {0}
  /\ Fields \in [Entries -> Nat]
  /\ Reloads \subseteq Entries /\ Rescans \subseteq Entries
  /\ Network \subseteq Entries /\ Slow \subseteq Entries
  /\ Budget \in Nat /\ Depth \in Nat /\ Slots \in Nat /\ MaxChains \in Nat

VARIABLES
  tree,       \* the selected row: an entry, a module's own row, or none
  current,    \* module_selected(): current, the entry shown last
  selected,   \* shell->selected
  flag,       \* flag[e]: entry->selected
  working,    \* module_selected(): its own updating
  updating,   \* the window's updating: closing it must wait
  sensitive,  \* shell->hbox takes input
  refresh,    \* RefreshAction is enabled
  closing,    \* a close request waits
  quit,       \* the main loop has been told to quit
  styling,    \* stylechange_in_progress
  aborting,   \* params.aborting_benchmarks
  page,       \* what fills the page: an entry, or Module
  table,      \* the entry whose rows are in update_tbl, or None
  owner,      \* owner[t]: the entry of field timer t
  live,       \* field timers attached to the main loop
  list,       \* field timers recorded in update_sfusrc
  data,       \* field timers whose ShellFieldUpdate is allocated
  reloads,    \* reloads[e]: reload timers of e
  rescans,    \* rescans[e]: rescan timers of e
  agenda,
  skipped     \* history: the last module_selected() to begin did nothing

row    == <<tree, current, selected, flag, working>>
window == <<updating, sensitive, refresh, closing, quit>>
fields == <<owner, live, list, data>>
shown  == <<page, table>>
timers == <<fields, reloads, rescans>>
modes  == <<styling, aborting>>
vars   == <<row, window, shown, timers, modes, agenda, skipped>>

None   == 0          \* NULL
Module == -1         \* a module's own row
NoRow  == -2         \* the selection was taken back
Timers == 1..Slots
Timed  == {e \in Entries : Fields[e] > 0} \union Reloads \union Rescans

Step(do, e, on, n) == [do |-> do, e |-> e, on |-> on, n |-> n]
Events(n)     == Step("events", None, FALSE, n)
View(on)      == Step("view", None, on, 0)
Window(on)    == Step("window", None, on, 0)
Select        == Step("select", None, FALSE, 0)
Show(e)       == Step("show", e, FALSE, 0)
Scan(e, reload) == Step("scan", e, reload, 0)
Dialog(e)     == Step("dialog", e, FALSE, 0)
Fill(e, reload) == Step("fill", e, reload, 0)
ModulePage    == Step("module", None, FALSE, 0)
EndSelect(e)  == Step("end", e, FALSE, 0)
Reload(reload) == Step("reload", None, reload, 0)
AfterScan     == Step("reloaded", None, FALSE, 0)
EndReload(style) == Step("enable", None, style, 0)
-----------------------------------------------------------------------------
Head1 == Head(agenda)
At(do) == ~quit /\ agenda # <<>> /\ Head1.do = do
AtRest == ~quit /\ agenda = <<>>

\* The main loop, a nested iteration of it, or a dialog waits for an event.
Waiting == \/ AtRest
           \/ At("events") /\ Head1.n > 0
           \/ At("dialog")

Dialogs == {i \in DOMAIN agenda : agenda[i].do = "dialog"}
Nested  == Cardinality({i \in DOMAIN agenda : agenda[i].do \in {"events", "dialog"}})

\* An event's handler runs first; an iteration counts it.
Handling(steps) ==
  agenda' = IF At("events") THEN steps \o <<[Head1 EXCEPT !.n = @ - 1]>> \o Tail(agenda)
                            ELSE steps \o agenda

Then(steps) == agenda' = steps \o Tail(agenda)

\* shell_do_reload(), of the user or of a theme change
DoReload(reload, style) == <<View(FALSE), Reload(reload), EndReload(style)>>

\* g_source_remove() and g_free() of all that is recorded
ClearedForgetsSource == live   \* mutant: the source is not removed
Cleared == live \ list

\* The n free timers a page takes.
Fresh(n) == LET free == Timers \ Cleared
            IN {t \in free : Cardinality({u \in free : u < t}) < n}

\* module_selected() clears the flag of the entry shown last.
Unflagged == [e \in Entries |-> flag[e] /\ e # current]

\* What module_selected() does for a row.
EntrySteps(e) ==
  <<View(FALSE), Show(e)>> \o (IF e \in Slow THEN <<Scan(e, FALSE)>> ELSE <<>>)
  \o <<Fill(e, FALSE), View(TRUE), EndSelect(e)>>
\* The summary's pulses handle events, and it enables the view itself.
ModuleSteps ==
  <<View(FALSE), ModulePage, Events(Budget), View(TRUE), View(TRUE), EndSelect(None)>>

\* shell_do_reload() after module_entry_reload()
AfterScanStepsNone == IF aborting THEN <<>> ELSE <<Select>>   \* mutant: the view stays disabled
AfterScanSteps == IF aborting THEN <<View(TRUE)>> ELSE <<Select>>

\* update_field() of an entry that is no longer selected frees what records the
\* timers, and forgets it.
RecordsKept == list   \* mutant: update_sfusrc is not reset
RecordsDropped == {}

\* The timers of e a handler has not replaced yet.
Chains(e) == reloads[e] + Cardinality({i \in DOMAIN agenda : agenda[i] = Fill(e, TRUE)})

\* reload_section() returns FALSE, rescan_section() whether e is still shown.
AfterReloadTimerKept(e) == reloads[e]   \* mutant: it returns TRUE
AfterReloadTimer(e) == reloads[e] - 1
AfterRescanTimerKept(e) == rescans[e]   \* mutant: it returns TRUE
AfterRescanTimer(e) == IF flag[e] THEN rescans[e] ELSE rescans[e] - 1

\* destroy_event() asks whether an update runs.
CloseNowAlways == TRUE   \* mutant: the window is destroyed at once
CloseNow == ~updating

\* shell_view_set_enabled(): a waiting close request is honoured.
QuitAfterForgotten(on) == FALSE   \* mutant: closing is not looked at
QuitAfter(on) == on /\ closing
-----------------------------------------------------------------------------
\* create_window() and the idle select_first_tree_item(): the first row is a module's.
Init ==
  /\ tree = Module /\ current = None /\ selected = None
  /\ flag = [e \in Entries |-> FALSE] /\ working = FALSE
  /\ updating = TRUE /\ sensitive = TRUE /\ refresh = TRUE
  /\ closing = FALSE /\ quit = FALSE /\ styling = FALSE /\ aborting = FALSE
  /\ page = Module /\ table = None
  /\ owner = [t \in Timers |-> None] /\ live = {} /\ list = {} /\ data = {}
  /\ reloads = [e \in Entries |-> 0] /\ rescans = [e \in Entries |-> 0]
  /\ agenda = <<Select>> /\ skipped = FALSE

(* Events *)

\* Bounds: a handler begins only with room for what it may add.
Pending(e) == Cardinality({i \in DOMAIN agenda : \/ agenda[i].do \in {"select", "reload", "reloaded"}
                                                  \/ agenda[i] \in {Fill(e, FALSE), Fill(e, TRUE)}})
Room ==
  /\ Nested < Depth
  /\ \A e \in Entries :
       /\ Cardinality(live) + Fields[e] <= Slots + (IF list \intersect live = {} THEN 0 ELSE 1)
       /\ reloads[e] + Pending(e) < MaxChains /\ rescans[e] + Pending(e) < MaxChains

\* A row is clicked, or control-clicked (NoRow): the selection's "changed".
Click(r) ==
  /\ Waiting /\ Room /\ Dialogs = {} /\ sensitive /\ r # tree
  /\ tree' = r /\ Handling(<<Select>>)
  /\ UNCHANGED <<current, selected, flag, working, window, shown, timers, modes, skipped>>

\* cb_refresh()
Refresh ==
  /\ Waiting /\ Room /\ Dialogs = {} /\ refresh /\ selected # None
  /\ refresh' = FALSE /\ Handling(DoReload(TRUE, FALSE))
  /\ UNCHANGED <<row, updating, sensitive, closing, quit, shown, timers, modes, skipped>>

\* stylechange_signal(): the desktop turned dark or light.  shell_do_reload() does
\* nothing before an entry has been selected once.
StyleChange ==
  /\ Waiting /\ Room /\ ~styling /\ selected # None
  /\ styling' = TRUE /\ refresh' = FALSE /\ Handling(DoReload(FALSE, TRUE))
  /\ UNCHANGED <<row, updating, sensitive, closing, quit, shown, timers, aborting, skipped>>

\* The window manager asks to close the window: destroy_event(), destroy_me().
Close ==
  /\ Waiting /\ Dialogs = {}
  /\ IF CloseNow THEN quit' = TRUE /\ UNCHANGED closing
                 ELSE closing' = TRUE /\ UNCHANGED quit
  /\ Handling(<<>>)
  /\ UNCHANGED <<row, updating, sensitive, refresh, shown, timers, modes, skipped>>

\* update_field()
FieldShown(t) ==
  /\ Waiting /\ t \in live /\ table = owner[t] /\ flag[owner[t]]
  /\ Handling(<<>>)
  /\ UNCHANGED <<row, window, shown, timers, modes, skipped>>

FieldEnds(t) ==
  /\ Waiting /\ t \in live /\ table = owner[t] /\ ~flag[owner[t]]
  /\ live' = live \ {t} /\ data' = data \ {t} /\ list' = RecordsDropped
  /\ owner' = [u \in Timers |-> IF u \in live' \union list' THEN owner[u] ELSE None]
  /\ Handling(<<>>)
  /\ UNCHANGED <<row, window, shown, reloads, rescans, modes, skipped>>

\* No row of that name: the data is left behind, for the record or for nobody.
FieldUnknown(t) ==
  /\ Waiting /\ t \in live /\ table # owner[t]
  /\ live' = live \ {t} /\ data' = IF t \in list THEN data ELSE data \ {t}
  /\ owner' = [owner EXCEPT ![t] = IF t \in list THEN @ ELSE None]
  /\ Handling(<<>>)
  /\ UNCHANGED <<row, window, shown, list, reloads, rescans, modes, skipped>>

\* reload_section(); the module "Network" handles events before it scrolls back.
ReloadTimerFires(e) ==
  /\ Waiting /\ Nested < Depth /\ reloads[e] > 0 /\ flag[e]
  /\ reloads' = [reloads EXCEPT ![e] = AfterReloadTimer(e)]
  /\ Handling(<<Fill(e, TRUE)>> \o (IF e \in Network THEN <<Events(Budget)>> ELSE <<>>))
  /\ UNCHANGED <<row, window, shown, fields, rescans, modes, skipped>>

ReloadTimerEnds(e) ==
  /\ Waiting /\ reloads[e] > 0 /\ ~flag[e]
  /\ reloads' = [reloads EXCEPT ![e] = AfterReloadTimer(e)]
  /\ Handling(<<>>)
  /\ UNCHANGED <<row, window, shown, fields, rescans, modes, skipped>>

\* rescan_section()
RescanTimerFires(e) ==
  /\ Waiting /\ rescans[e] > 0
  /\ rescans' = [rescans EXCEPT ![e] = AfterRescanTimer(e)]
  /\ Handling(<<>>)
  /\ UNCHANGED <<row, window, shown, fields, reloads, modes, skipped>>

\* The benchmark of a dialog ends, or is stopped.
DialogReturns(stopped) ==
  /\ At("dialog") /\ aborting' = (aborting \/ stopped)
  /\ Then(<<>>)
  /\ UNCHANGED <<row, window, shown, timers, styling, skipped>>

(* Steps of the handlers *)

EventsEnd ==
  /\ At("events") /\ Then(<<>>)
  /\ UNCHANGED <<row, window, shown, timers, modes, skipped>>

\* shell_view_set_enabled() until it handles events, and what follows them.
ViewSetEnabled ==
  /\ At("view") /\ sensitive' = Head1.on /\ refresh' = Head1.on
  /\ Then(<<Events(Budget), Window(Head1.on)>>)
  /\ UNCHANGED <<row, updating, closing, quit, shown, timers, modes, skipped>>

WindowUpdated ==
  /\ At("window") /\ updating' = ~Head1.on /\ quit' = QuitAfter(Head1.on)
  /\ Then(<<>>)
  /\ UNCHANGED <<row, sensitive, refresh, closing, shown, timers, modes, skipped>>

\* module_selected() until the first events
SelectReturns ==
  /\ At("select") /\ (tree = NoRow \/ working)
  /\ flag' = IF tree = NoRow THEN flag ELSE Unflagged
  /\ skipped' = TRUE /\ Then(<<>>)
  /\ UNCHANGED <<tree, current, selected, working, window, shown, timers, modes>>

SelectBegins ==
  /\ At("select") /\ tree # NoRow /\ ~working
  /\ flag' = Unflagged /\ working' = TRUE /\ skipped' = FALSE
  /\ Then(IF tree \in Entries /\ ~flag'[tree] THEN EntrySteps(tree) ELSE ModuleSteps)
  /\ UNCHANGED <<tree, current, selected, window, shown, timers, modes>>

ShowEntry ==
  /\ At("show") /\ flag' = [flag EXCEPT ![Head1.e] = TRUE] /\ selected' = Head1.e
  /\ Then(<<>>)
  /\ UNCHANGED <<tree, current, working, window, shown, timers, modes, skipped>>

\* The store is cleared; update_tbl and the field timers are not.
ShowModule ==
  /\ At("module") /\ refresh' = FALSE /\ page' = Module
  /\ Then(<<>>)
  /\ UNCHANGED <<row, updating, sensitive, closing, quit, table, timers, modes, skipped>>

\* module_entry_scan() of a benchmark, see BenchScan
ScanReturns ==
  /\ At("scan") /\ (aborting \/ ~Head1.on)
  /\ Then(<<>>)
  /\ UNCHANGED <<row, window, shown, timers, modes, skipped>>

ScanOpens ==
  /\ At("scan") /\ ~aborting
  /\ Then(<<Dialog(Head1.e)>>)
  /\ UNCHANGED <<row, window, shown, timers, modes, skipped>>

\* module_selected_show_info() after the scan
ShowInfo ==
  /\ At("fill")
  /\ LET e == Head1.e
         new == Fresh(Fields[e])
     IN /\ page' = e /\ table' = e
        /\ live' = Cleared \union new /\ list' = new /\ data' = (data \ list) \union new
        /\ owner' = [t \in Timers |-> IF t \in new THEN e ELSE IF t \in Cleared THEN owner[t] ELSE None]
        /\ reloads' = [reloads EXCEPT ![e] = IF e \in Reloads THEN @ + 1 ELSE @]
        /\ rescans' = [rescans EXCEPT ![e] = IF e \in Rescans THEN @ + 1 ELSE @]
        /\ aborting' = (aborting /\ e \notin Slow)   \* its callback clears the flag
  /\ Then(<<>>)
  /\ UNCHANGED <<row, window, styling, skipped>>

SelectEnds ==
  /\ At("end") /\ current' = Head1.e /\ working' = FALSE
  /\ Then(<<>>)
  /\ UNCHANGED <<tree, selected, flag, window, shown, timers, modes, skipped>>

\* The rest of shell_do_reload() and of stylechange_signal()
ReloadBegins ==
  /\ At("reload") /\ aborting' = FALSE
  /\ Then(IF Head1.on /\ selected \in Slow THEN <<Scan(selected, TRUE), AfterScan>> ELSE <<Select>>)
  /\ UNCHANGED <<row, window, shown, timers, styling, skipped>>

ReloadSelects ==
  /\ At("reloaded") /\ Then(AfterScanSteps)
  /\ UNCHANGED <<row, window, shown, timers, modes, skipped>>

ReloadEnds ==
  /\ At("enable") /\ aborting' = FALSE /\ refresh' = TRUE /\ styling' = (styling /\ ~Head1.on)
  /\ Then(<<>>)
  /\ UNCHANGED <<row, updating, sensitive, closing, quit, shown, timers, skipped>>
-----------------------------------------------------------------------------
Handler == \/ EventsEnd \/ ViewSetEnabled \/ WindowUpdated
           \/ SelectReturns \/ SelectBegins \/ ShowEntry \/ ShowModule
           \/ ScanReturns \/ ScanOpens \/ ShowInfo \/ SelectEnds
           \/ ReloadBegins \/ ReloadSelects \/ ReloadEnds

Timer == \/ \E t \in Timers : FieldShown(t) \/ FieldEnds(t) \/ FieldUnknown(t)
         \/ \E e \in Entries : ReloadTimerFires(e) \/ ReloadTimerEnds(e) \/ RescanTimerFires(e)

\* A timer of e that finds e not selected.
LeftTimer(e) ==
  \/ \E t \in Timers : owner[t] = e /\ (FieldEnds(t) \/ FieldUnknown(t))
  \/ ReloadTimerEnds(e) \/ (~flag[e] /\ RescanTimerFires(e))

User == \/ \E r \in Entries \union {Module, NoRow} : Click(r)
        \/ Refresh \/ StyleChange \/ Close
        \/ \E stopped \in BOOLEAN : DialogReturns(stopped)

\* The process exits after the main loop.
Exited == quit /\ UNCHANGED vars

Next == Handler \/ Timer \/ User \/ Exited

Spec == Init /\ [][Next]_vars

\* A handler goes on by itself; a benchmark ends whatever the window does; the
\* main loop runs every timer that is due before it polls again.
Fairness ==
  /\ WF_vars(Handler)
  /\ SF_vars(\E stopped \in BOOLEAN : DialogReturns(stopped))
  /\ \A e \in Timed : SF_vars(LeftTimer(e))

FairSpec == Spec /\ Fairness
-----------------------------------------------------------------------------
TypeOK ==
  /\ tree \in Entries \union {Module, NoRow}
  /\ current \in Entries \union {None} /\ selected \in Entries \union {None}
  /\ flag \in [Entries -> BOOLEAN] /\ owner \in [Timers -> Entries \union {None}]
  /\ page \in Entries \union {Module} /\ table \in Entries \union {None}
  /\ live \subseteq Timers /\ list \subseteq Timers /\ data \subseteq Timers
  /\ reloads \in [Entries -> 0..MaxChains] /\ rescans \in [Entries -> 0..MaxChains]
  /\ {working, updating, sensitive, refresh, closing, quit, styling, aborting, skipped}
       \subseteq BOOLEAN

\* Two functions free the data of field timers, shell_clear_field_updates() (shell.c:2400)
\* and update_field() (1831-1846), the latter without stopping the other timers: still
\* every timer that can fire, and every timer that is recorded, has its data.
TimerDataAllocated == live \union list \subseteq data

\* With no handler at work the page and its updates follow the tree, and the window takes
\* input, unless module_selected() returned early since (shell.c:3010, 3020): without a
\* row, or called by a handler that interrupted another.
PageFollowsTree ==
  AtRest /\ ~skipped =>
    /\ page = tree /\ sensitive /\ ~updating
    /\ tree \in Entries => \A e \in Entries : flag[e] = (e = tree)

\* Only showing an entry adds to its reload timers: a reload replaces the one that fired
\* (shell.c:1885-1936, 2092), so that an entry left alone is not reloaded ever more often.
OnlyShowingAddsReloads ==
  [][\A e \in Entries : Chains(e)' > Chains(e) => At("fill") /\ Head1 = Fill(e, FALSE)]_vars

\* The timers of a page that was left end (shell.c:1848, 1912, 1933), however they were
\* recorded: each keeps an entry of a page that may never come back.
LeftTimersEnd ==
  \A e \in Timed :
    ~flag[e] ~> \/ flag[e] \/ quit
                \/ reloads[e] = 0 /\ rescans[e] = 0 /\ \A t \in live : owner[t] # e

\* The window keeps what a window promises that must not be closed while it works
\* (shell.c:691-692, 744-750): with a request waiting it never is usable again.
Closing == INSTANCE CloseRequest WITH
  state <- IF quit THEN "gone" ELSE IF updating THEN "busy" ELSE "open",
  asked <- closing
CloseRefines == Closing!Spec

\* A request to close that waits for an update is honoured after it (shell.c:692, 748);
\* not if the selection was taken back, when a refresh never ends (3010).
CloseHonoured == closing ~> (quit \/ tree = NoRow)
=============================================================================
