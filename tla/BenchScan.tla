------------------------------ MODULE BenchScan ------------------------------
(***************************************************************************)
(* The benchmarks of the graphical program (modules/benchmark.c,           *)
(* benchmark/benches.c and their callers in shell/): who asks for a scan,  *)
(* when a scan runs the benchmark again, the child process that runs it    *)
(* and the modal dialog with its Stop button.                              *)
(*                                                                         *)
(* A caller's work is an agenda of steps: scans, callbacks (which make the *)
(* page) and parts of shell_do_reload().  While a dialog is open the head  *)
(* of the agenda is the scan that opened it, and no other work begins,     *)
(* because the dialog is modal.                                            *)
(***************************************************************************)
EXTENDS Integers, Sequences

CONSTANT N   \* number of benchmark entries

ASSUME NAssumption == N \in Nat \ {0}

VARIABLES
  result,    \* bench_results[b].result: negative, zero or positive
  scanned,   \* the static flag of scan_*(b)
  aborting,  \* params.aborting_benchmarks
  tree,      \* the row selected in the tree
  selected,  \* shell->selected
  agenda,    \* what is left of the work in hand
  dialog,    \* the benchmark whose dialog is open, or None
  child,     \* its process, see Children
  answer,    \* benchmark_dialog->r.result
  response,  \* the last response given to gtk_dialog_run()
  watch,     \* the watch on the child's output is installed
  last,      \* history: how the last run of b ended, see Endings
  tried      \* history: the benchmarks run since the work in hand began

shellVars  == <<tree, selected>>
dialogVars == <<dialog, child, answer, response, watch>>
vars == <<result, scanned, aborting, shellVars, agenda, dialogVars, last, tried>>

Benchmarks == 1..N
Plain      == N + 1               \* an entry of another module
Entries    == Benchmarks \union {Plain}
None       == 0                   \* no entry: a module's own row, NULL, no dialog
Values     == {-1, 0, 1}
Garbage    == 2                   \* output that cannot be read as a line
Lines      == Values \union {Garbage}
Children   == [state : {"none", "running", "printed", "silent"}, line : Lines]
Endings    == [how : {"never", "answered", "stopped", "unread"}, value : Values]
NoChild    == [state |-> "none", line |-> -1]
Ending(how, v) == [how |-> how, value |-> v]   \* v is -1 without an answer

\* Steps of an agenda.
Scan(b, reload) == [step |-> "scan", b |-> b, reload |-> reload]
UploadScan(b)   == [step |-> "uploadScan", b |-> b]
Callback(b)     == [step |-> "callback", b |-> b]
ResetAbort      == [step |-> "reset"]
ModuleSelected  == [step |-> "select"]
BuildResults    == [step |-> "build"]
ShowInfo(e)     == IF e \in Benchmarks THEN <<Scan(e, FALSE), Callback(e)>> ELSE <<>>

\* shell_do_reload(): nothing at all before an entry has been selected once.
DoReloadKeepsFlag(reload) ==   \* mutant: the flag is not reset at the end
  IF selected = None THEN <<>>
  ELSE <<ResetAbort>> \o
       (IF reload /\ selected \in Benchmarks THEN <<Scan(selected, TRUE)>> ELSE <<>>)
       \o <<ModuleSelected>>
DoReload(reload) ==
  IF selected = None THEN <<>>
  ELSE <<ResetAbort>> \o
       (IF reload /\ selected \in Benchmarks THEN <<Scan(selected, TRUE)>> ELSE <<>>)
       \o <<ModuleSelected, ResetAbort>>

\* get_benchmark_results() scans every benchmark; at the end of the sync the page
\* is shown again.
UploadAgenda == [b \in Benchmarks |-> UploadScan(b)] \o <<BuildResults>> \o DoReload(FALSE)
ReportAgenda ==   \* ShowInfo of every benchmark
  [i \in 1..(2 * N) |-> IF i % 2 = 1 THEN Scan((i + 1) \div 2, FALSE) ELSE Callback(i \div 2)]
-----------------------------------------------------------------------------
Head1 == Head(agenda)
Idle  == agenda = <<>>
Ready(step) == ~Idle /\ dialog = None /\ Head1.step = step

\* A scan is wanted when it is forced, has no result, or was never made.
NeedsRunScannedOnly(b, reload) == reload \/ ~scanned[b]   \* mutant: failures count as scanned
NeedsRun(b, reload) == reload \/ result[b] <= 0 \/ ~scanned[b]

\* if(params.aborting_benchmarks) return;
ScanAllowedAlways == TRUE   \* mutant: the return is missing
ScanAllowed == ~aborting

\* bench_results[entry] = r, before the child is started
AtStartKept(b) == result[b]   \* mutant: the old result is kept
AtStart(b) == -1

\* After gtk_dialog_run(): g_source_remove(watch_id) unless the child answered.
WatchAfter == IF response = "NONE" THEN watch ELSE FALSE

\* gtk_dialog_response() after output that cannot be read
ResponseToGarbageForgotten == response   \* mutant: only the value is set
ResponseToGarbage == "100"

\* The head is a scan of b, with the reload flag its caller passes.
ScanHead(b, reload) ==
  \/ Ready("scan") /\ b = Head1.b /\ reload = Head1.reload
  \/ Ready("uploadScan") /\ b = Head1.b /\ reload = (result[b] < 0)
-----------------------------------------------------------------------------
\* hi_module_init() empties the results; the program starts on a module's own row.
Init ==
  /\ result = [b \in Benchmarks |-> -1] /\ scanned = [b \in Benchmarks |-> FALSE]
  /\ aborting = FALSE /\ tree = None /\ selected = None
  /\ agenda = <<>>
  /\ dialog = None /\ child = NoChild /\ answer = -1 /\ response = "" /\ watch = FALSE
  /\ last = [b \in Benchmarks |-> Ending("never", -1)] /\ tried = {}

Begin(work) ==
  /\ Idle /\ agenda' = work /\ tried' = {}
  /\ UNCHANGED <<result, scanned, aborting, dialogVars, last>>

\* The user selects a row of the tree: module_selected().
Select(e) ==
  /\ tree # e /\ tree' = e
  /\ selected' = IF e = None THEN selected ELSE e
  /\ Begin(ShowInfo(e))

Refresh == Begin(DoReload(TRUE))  /\ selected # None /\ UNCHANGED shellVars
Upload  == Begin(UploadAgenda)    /\ UNCHANGED shellVars
Report  == Begin(ReportAgenda)    /\ UNCHANGED shellVars

\* scan_*() returns at once.
ScanReturns ==
  \E b \in Benchmarks, reload \in BOOLEAN :
    /\ ScanHead(b, reload)
    /\ ~ScanAllowed \/ ~NeedsRun(b, reload)
    /\ agenda' = Tail(agenda)
    /\ UNCHANGED <<result, scanned, aborting, shellVars, dialogVars, last, tried>>

\* do_benchmark() opens the dialog and starts the program again as its child.
ScanRuns ==
  \E b \in Benchmarks, reload \in BOOLEAN :
    /\ ScanHead(b, reload) /\ ScanAllowed /\ NeedsRun(b, reload)
    /\ result' = [result EXCEPT ![b] = AtStart(b)]
    /\ scanned' = [scanned EXCEPT ![b] = FALSE]
    /\ dialog' = b /\ child' = [NoChild EXCEPT !.state = "running"] /\ answer' = -1 /\ response' = "" /\ watch' = TRUE
    /\ tried' = tried \union {b}
    /\ UNCHANGED <<aborting, shellVars, agenda, last>>

\* g_spawn_async_with_pipes() fails: no result, and no word to the user.
ScanCannotRun ==
  \E b \in Benchmarks, reload \in BOOLEAN :
    /\ ScanHead(b, reload) /\ ScanAllowed /\ NeedsRun(b, reload)
    /\ result' = [result EXCEPT ![b] = AtStart(b)]
    /\ scanned' = [scanned EXCEPT ![b] = TRUE]
    /\ last' = [last EXCEPT ![b] = Ending("unread", -1)]
    /\ tried' = tried \union {b}
    /\ agenda' = Tail(agenda)
    /\ UNCHANGED <<aborting, shellVars, dialogVars>>

\* The child prints a line, or output that is none.
ChildPrints(v) ==
  /\ child.state = "running" /\ child' = [state |-> "printed", line |-> v]
  /\ UNCHANGED <<result, scanned, aborting, shellVars, agenda, dialog, answer, response,
                 watch, last, tried>>

\* It ends without output: the watch is for G_IO_IN only and never fires.
ChildDiesSilently ==
  /\ child.state = "running" /\ child' = [child EXCEPT !.state = "silent"]
  /\ UNCHANGED <<result, scanned, aborting, shellVars, agenda, dialog, answer, response,
                 watch, last, tried>>

\* do_benchmark_handler(); it removes its watch by returning FALSE.
Handler ==
  /\ watch /\ child.state = "printed"
  /\ answer' = IF child.line = Garbage THEN -1 ELSE child.line
  /\ response' = IF child.line = Garbage THEN ResponseToGarbage ELSE "NONE"
  /\ watch' = FALSE
  /\ UNCHANGED <<result, scanned, aborting, shellVars, agenda, dialog, child, last, tried>>

\* Stop, before or after the handler ran in the same pass of the main loop.
StopClick ==
  /\ dialog # None /\ response' = "ACCEPT"
  /\ UNCHANGED <<result, scanned, aborting, shellVars, agenda, dialog, child, answer,
                 watch, last, tried>>

\* gtk_dialog_run() returns the last response; then the rest of do_benchmark() and
\* of the scan.
DialogReturns ==
  /\ dialog # None /\ response # ""
  /\ LET done == response = "NONE" IN
       /\ result' = IF done THEN [result EXCEPT ![dialog] = answer] ELSE result
       /\ aborting' = (aborting \/ ~done)
       /\ last' = [last EXCEPT ![dialog] = CASE done -> Ending("answered", answer)
                                             [] response = "ACCEPT" -> Ending("stopped", -1)
                                             [] OTHER -> Ending("unread", -1)]
  /\ watch' = WatchAfter
  /\ scanned' = [scanned EXCEPT ![dialog] = TRUE]
  /\ dialog' = None /\ child' = NoChild /\ answer' = -1 /\ response' = ""
  /\ agenda' = Tail(agenda)
  /\ UNCHANGED <<shellVars, tried>>

\* callback_*() clears the flag and makes the page; shell_do_reload() clears it too.
ClearAbort ==
  /\ Ready("callback") \/ Ready("reset")
  /\ aborting' = FALSE /\ agenda' = Tail(agenda)
  /\ UNCHANGED <<result, scanned, shellVars, dialogVars, last, tried>>

\* shell_do_reload() shows the selected row again, unless its scan was aborted.
Reselect ==
  /\ Ready("select")
  /\ agenda' = (IF aborting THEN <<>> ELSE ShowInfo(tree)) \o Tail(agenda)
  /\ selected' = IF aborting \/ tree = None THEN selected ELSE tree
  /\ UNCHANGED <<result, scanned, aborting, tree, dialogVars, last, tried>>

\* get_benchmark_results() leaves the benchmarks without a result out and goes on.
Build ==
  /\ Ready("build") /\ agenda' = Tail(agenda)
  /\ UNCHANGED <<result, scanned, aborting, shellVars, dialogVars, last, tried>>

User    == Refresh \/ Upload \/ Report \/ \E e \in Entries \union {None} : Select(e)
Program == ScanReturns \/ ScanRuns \/ ScanCannotRun \/ DialogReturns \/ Build \/ ClearAbort
           \/ Reselect
Child   == ChildDiesSilently \/ \E v \in Lines : ChildPrints(v)
Next    == User \/ Program \/ Child \/ Handler \/ StopClick

\* The main loop runs and a child does not run forever; nobody has to click.
Fairness == WF_vars(Program) /\ WF_vars(Child) /\ WF_vars(Handler)

Spec     == Init /\ [][Next]_vars
FairSpec == Spec /\ Fairness
-----------------------------------------------------------------------------
DialogOfHead ==
  dialog # None => ~Idle /\ Head1.step \in {"scan", "uploadScan"} /\ Head1.b = dialog

\* The types, and that the watch, which holds the address of the dialog's data, is
\* gone once it fired or the dialog is closed (modules/benchmark.c:767, :773).
TypeOK ==
  /\ result \in [Benchmarks -> Values] /\ scanned \in [Benchmarks -> BOOLEAN]
  /\ aborting \in BOOLEAN
  /\ tree \in Entries \union {None} /\ selected \in Entries \union {None}
  /\ dialog \in Benchmarks \union {None}
  /\ child \in Children /\ last \in [Benchmarks -> Endings]
  /\ answer \in Values /\ response \in {"", "NONE", "ACCEPT", "100"}
  /\ watch \in BOOLEAN /\ (watch => dialog # None /\ response \in {"", "ACCEPT"})
  /\ DialogOfHead
  /\ tried \subseteq Benchmarks

\* A result is the one its benchmark's last run gave, whoever asked for the run and
\* however Stop and the answer raced: neither a stopped run nor one that failed
\* leaves an older number to be shown and uploaded (modules/benchmark.c:701, 760).
ResultIsOfLastRun ==
  \A b \in Benchmarks : dialog # b =>
    result[b] = IF last[b].how = "answered" THEN last[b].value ELSE -1

\* Once a benchmark of an upload was stopped, the upload starts no other: a flag
\* cleared by a callback of an earlier or later page does not let one through
\* (benchmark/benches.c:24, 36; modules/benchmark.c:769).
StopEndsUpload ==
  ~Idle /\ Head1.step = "uploadScan" /\ dialog # None =>
    \A b \in tried \ {dialog} : last[b].how # "stopped"

\* When work is done the flag is clear, so that the next scan runs: after any entry
\* has been selected no Stop outlives the work it belongs to (shell/shell.c:720, 728;
\* benchmark/benches.c:24).
AbortForgotten == [][~Idle /\ Idle' /\ selected # None => ~aborting']_vars

\* An upload that was not stopped has run every benchmark without a result when it
\* puts the results together, those that failed before included
\* (modules/benchmark.c:818-827).
UploadTriesAll ==
  Ready("build") /\ ~aborting => \A b \in Benchmarks : result[b] <= 0 => b \in tried

\* Work in hand ends without a click, unless a child ended without a word.
WorkEnds == ~Idle ~> (Idle \/ child.state = "silent")
=============================================================================
