# A TLA+ verification of hardinfo2

hardinfo2 shows what a Linux machine is made of, runs benchmarks on it, and
exchanges data with a server: it fetches device databases and other people's
benchmark results and sends its own.  This directory models in TLA+

* the **Sync Manager** in its three modes, over files that survive crashes;
* the **benchmark engine**: the timed loop with its threads, the child
  process and its dialog, what each benchmark reports, the page that compares;
* the **main window**: selections, refreshes, timers, and the handlers that
  run in the middle of other handlers;
* the **pages** of all modules, which share globals and one table of details,
  over a machine that changes;
* the **reports** of the window and the command line, and how the program
  starts;
* the **match** of memory sockets and the chips that describe the modules,

checks them with TLC and proves the main invariants with TLAPS.

Paths in this text are relative to the repository's `src/` where they have no
other prefix.

    tlc -config SyncDialog.cfg MCSyncDialog.tla      # one of the runs below
    tlapm SyncDialogProofs.tla                       # one of the proof modules

## 1. Inventory

### Components, their state and their operations

| Component | Source | State it keeps | Operations |
|---|---|---|---|
| Main program | `hardinfo2/hardinfo.c` | `params`, user's configuration directory | parse options, clean user data after an upgrade, choose GUI, report, benchmark |
| Module registry | `hardinfo2/util.c` | list of loaded modules, table of methods, moreinfo table | load in dependency order, sort by weight, call a method by name, scan or reload an entry |
| Sync Manager | `shell/syncmanager.c` | list of `SyncEntry`, one global `GMainLoop *loop`, one soup session, `our_`/`server_blobs_update_version` | dialog, startup synchronisation, command-line synchronisation; per entry one GET or POST |
| Shell | `shell/shell.c`, `callbacks.c` | tree selection, `current`, `shell->selected`, a flag per entry, `updating`, lists of update timers, `update_tbl` | select, reload, refresh, theme change, close, timers that update fields, rescan and reload |
| Report | `shell/report.c`, `hardinfo2/hardinfo.c` | a report context, `params.fmt_opts`, the ticks of the dialog, the cached report | tick, generate, write entry by entry, print topics |
| Benchmark engine | `modules/benchmark.c`, `benchmark/benches.c` | `bench_results[]`, a `scanned` flag per entry, `params.aborting_benchmarks`, one dialog and child | scan, run in a child, Stop, gather results for upload; time a callback in N threads |
| Benchmark comparison | `modules/benchmark.c`, `benchmark/bench_results.c` | the details of the rows | read stored results, add this machine's, rank, choose a window |
| Individual benchmarks | `modules/benchmark/*.c` | none | numeric kernels and external programs |
| Devices, Computer, Network | `modules/devices*`, `computer*`, `network*` | one or more global texts per page, details in the moreinfo table, lists filled once | scan a page (once, or again on reload), make a page of the texts, answer other modules' methods |
| Lookup helpers | `hardinfo2/*_util.c`, `vendor.c`, `expr.c`, `info.c` | caches filled once (names of devices, topology) | list devices, name them, match vendors, evaluate sensor formulas |
| Vendored code, tools, data | `deps/`, `tools/`, `data/` | - | - |

### How they interact

* Modules register `SyncEntry` records with the Sync Manager while they are
  loaded; registration appends (`syncmanager.c:121`), and the version file's entry is
  registered last.  The dialog requests from the last entry down, so that the
  version comes first; a run without a window reverses the list; the startup takes
  it as it is.
* The Sync Manager calls back into the benchmark module for the contents of an
  upload, which runs every benchmark that has no result, each in a modal dialog.
* A page is a global text that its scan fills and its callback puts in a layout;
  the details of its rows are in one table for the whole program, from which each
  scan deletes by the prefix of its keys.  Some scans ask for other pages' scans:
  the summary, the memory page, the GPUs, and every benchmark that has a result,
  for the description of the machine it was measured on.
* The shell calls a page's scan and callback, and then its timers ask for fields;
  the report does the same for every entry that is ticked.
* When a dialog sync ends the shell reloads the selected entry, which scans it.
* Everything in the GUI runs in one thread.  What makes it concurrent is
  *nested main loops*: each synchronous-looking wait (a request, the wait for
  Close, a benchmark dialog) dispatches other events meanwhile.  Real threads
  exist only inside `benchmark_crunch_for()`, and a benchmark in the GUI runs
  in a child process.

### What is hard, and what makes each part correct

* **Dialog sync**: order of the rows, Cancel, completions that come after their
  action array was freed, one loop object shared by waits at different depths,
  bodies that break off, crashes.  Correct: rows finish in order and nothing is
  requested after a failure; a sync that ran through leaves the files at the
  recorded version; data never go back; a sync always ends.
* **Startup sync**: requests begin before `gtk_main()`; one reply unwinds every
  nested wait; the loop's reference count; the dialog overwriting the loop.
  Correct: no completion quits a freed loop; nothing is uploaded; the waits and
  the program end.
* **Command-line sync**: blocking requests with streams that are never closed.
  Correct: a first run is complete; good data survive every failure.
* **Benchmark runs**: Stop racing the answer, a global abort flag with five
  places that clear it, children that fail or die.  Correct: a result is the one
  of the last run; Stop ends an upload; no watch outlives its dialog.
* **Timed loop**: a flag on the stack read by threads.  Correct: only calls in
  time count; no thread survives the frame.
* **Main window**: handlers that let other events run call each other in orders
  nobody wrote down; timers are freed by two functions and recorded by one.
  Correct: a timer never meets freed data; the page follows the tree when nothing
  is at work; timers of a page that was left end; Close is honoured after the work.
* **Pages**: texts and details are freed, deleted and made again by 35 scans that
  share globals.  Correct: a reload shows what a new process would show; a page does
  not change another; no freed text is used; no row lacks its details; updated
  rows end up with the machine's values; a shared cache is counted once; the window
  of results is around this machine.
* **Reports**: flags that open and close tables over sections and pages, and that find
  the lines of a topic; globals that a report sets and must set back.  Correct: exactly
  what was ticked is written, tables nest, topics print whole sections.
* **Memory match**: a queue of sockets that claim and lose modules.  Correct: it ends,
  one to one and stable.

The list `hazards` of `PROJECT.json` has each of these at its line, with the
properties that cover it or the reason none does yet.

## 2. The modules

| Module | Models | Kind |
|---|---|---|
| `SyncData` | `SyncEntry`, contents of a blob file, parsing of the version, the assumptions on the list | constants, pure operators |
| `SyncFiles` | the files, the two version globals, what a reply does to them | shared state |
| `BlobCatalog` | what any synchronisation may do to the files | **abstract specification** |
| `SyncDialog` | the Synchronize dialog | state machine |
| `SyncStartup` | synchronisation when the GUI starts | state machine |
| `SyncCli` | synchronisation around a report, `-r -u NOTE` | state machine |
| `BenchScan` | benchmark scans, child, dialog, Stop, upload and reload | state machine |
| `CrunchFor` | the timed loop and its threads | state machine |
| `CloseRequest` | what a window promises that must not close while it works | **abstract specification** |
| `ShellPage` | the main window: handlers, nested events, timers | state machine |
| `MoreInfo` | global texts and the table of details | pure operators |
| `OsInfo`, `ComputerScan` | the scans of the module Computer | pure operators |
| `NetworkScan` | those of Network | pure operators |
| `BusLists`, `ProcessorPage`, `StorageScan`, `SensorsScan`, `DevicesScan` | those of Devices | pure operators |
| `Methods` | what other modules say of the machine for a benchmark's result | pure operators |
| `Benchmarks` | what each benchmark reports | pure operators |
| `BenchPage` | stored results, ranks, the window shown | pure operators |
| `Pages` | all pages over time, composed of the scans above | state machine |
| `SpdMatch` | memory sockets and SPD chips | state machine |
| `Program` | command line, modules and entries | pure operators |
| `ReportText` | what the report generator writes | pure operators |
| `Report` | the report dialog, the report while it is written, topics and cache | state machine |
| `MC...` | instances for TLC | |
| `SyncDialogProofs`, `SyncStartupProofs`, `SyncCliProofs`, `CrunchForProofs`, `BenchScanProofs`, `ShellPageProofs`, `SpdMatchProofs`, `ReportProofs` | theorems | proofs |

`SyncDialog`, `SyncStartup` and `SyncCli` extend `SyncFiles`, which extends
`SyncData`.  The first two instantiate `BlobCatalog` and implement it.  `SyncCli`
writes only files that do not exist yet, which makes the catalogue's promise easy
for it; its own `GoodDataSurvive` says more.

Definitions marked `mutant` in a comment are not part of a specification: each is a
plausible wrong version of the definition after it, and the property it is listed
with in `PROJECT.json` must fail with it.

### Data

A blob's content is one integer: the version of the server's data it holds, or
`Absent`, `Broken` (empty, cut off, an error page), or `Reply` (the server's answer
to an upload).  JSON, URIs and file formats are left out.  `Parse` keeps the
property of the code's `sscanf` that matters: without a match the variable keeps
its old value.

### SyncDialog

`pc` is the depth of nesting: main window, `gtk_dialog_run`, the prelude (events
handled before the first request), the row loop, the nested loop of a request, the
wait for Close, the reload.  One action per handler: `LoopSend` is
`send_request_for_net_action()` up to its nested loop, `ReplyOk` and the three
failing replies are `got_response()`, `RequestReturns` is what follows the nested
loop.  `RequestReturns` with a request still busy, which happens when something
else quit the loop, leaves the request in `late`; `LateReply` is its completion,
whose action array has been freed.  What it reads there is undefined; the model
gives it the outcomes of an aborted request: the error path, or a truncated body.  Without
`PromptAbort` a request can also become late because another late completion ended its
wait; nobody aborted it, so it may bring its whole body, of whenever it was sent
(`LateBodies`).

### SyncStartup

The queue of idle callbacks, the stack of nested waits (`frames`), requests in
flight, freed records, and the one loop with its reference count.  A completion
tells the loop to quit, and as all frames run the same loop they all return, each
dropping a reference.  The dialog is reduced to what matters here: it overwrites
the global loop and later drops its own.

### SyncCli

Two calls of `sync_manager_update_on_startup()` around the report.  Requests block,
so an action is a whole request.  `Written` is the effect of a
`g_file_replace()` stream that is never closed: a new file receives the body, an
existing one stays.

### BenchScan

A caller's work is an *agenda* of steps: scan, callback, the steps of
`shell_do_reload()`, and for an upload one scan per benchmark and the gathering of
the results.  While a dialog is open its scan is at the head and nothing else
begins.  `Handler` and `StopClick` may both happen before `DialogReturns`, which sees
the last response, as `gtk_dialog_run()` does within one pass of the main loop.
The sync dialog around an upload is the subject of `SyncDialog`.  Left out: the
option that skips all benchmarks; a theme change during a dialog is in `ShellPage`.

### CrunchFor

The caller's steps and, per thread, the two reads of `stop` around each call.

### ShellPage and CloseRequest

`agenda` is what is left of all handlers at work, innermost first.  An "events" step
is one of the loops `while (gtk_events_pending()) gtk_main_iteration_do(FALSE)` of
`shell_view_set_enabled()` and `shell_status_pulse()`; up to `Budget` events are
handled there, each of which may put a handler of its own in front.  A "dialog" step
is the modal dialog of a benchmark.  `flag[e]` is `entry->selected`, `live` the field
timers that can fire, `list` those that are recorded in `update_sfusrc`, `data` those
whose data are allocated, `reloads` and `rescans` the timers nothing records.
`CloseRequest` says what the window promises about being closed.

### Pages and the modules of scans

A scan is an operator from the globals `g` and what the machine has, `h`, to the
globals: what it frees, deletes, keeps and adds, in the code's order.  `g.text` has the
texts (null, freed, or lines), `g.info` the table of details, `g.done` the pages that
`SCAN_START()` counts as scanned, `g.once` what is done once per process.  `Pages` is the
state machine over them: `Change` (the machine), `Open` (another entry is selected, or
the one shown is reloaded), `Rescan`, `Field` (a timer of one field).  A summary scans
seven pages, a GPU page two, and the page of a benchmark with a result eight.

`OsInfo` is `computer/os.c` by files and fields; `ProcessorPage` the processors of x86,
their topology, caches, clocks and year; `BusLists` the lists of USB, PCI and GPU devices
with their names; `Benchmarks` the value of each benchmark from the work that was counted or
what a program printed, and the line of text that carries it from the child; `Methods`
the description of this machine; `BenchPage` ranks it among stored results.  The bytes
of `/proc`, `/sys` and program outputs are records and sequences of small values.

A benchmark's dialog, Stop and the abort flag are in `BenchScan`; in `Pages` a child that
was stopped is one that printed nothing.

### SpdMatch

`dmi_mem_new()` as it is: a queue of sockets; `Leave`, `Claim` and `Displace` are the three
ways a socket leaves its head; `loops` counts down from four rounds; `Fill` writes back
what was matched.

### Program, ReportText and Report

`Program` is the command line after parsing, the window if there is a display, the modules
that open and their entries.  `ReportText` has one operator per function of the report
contexts; output is a sequence of what is written.  `Report` is the dialog with its ticks,
`report_generate()` with events between entries, the command line's report with its topics
(a fold over the lines of the text) and the cache file that a second start finds.

## 3. What is checked

| Run | States | Shows |
|---|---|---|
| `sync_dialog` | 83 045 | the dialog with all four faults, cancels, late completions, crashes and upgrades: `CleanSyncIsFresh`, `NothingAfterFailure`, `UploadAnswerReplaced`, `OptOutHonoured`, `SyncEnds`, and that it implements `BlobCatalog` |
| `sync_startup` | 22 516 | nested waits, one shared loop: `LoopOutlivesReplies`, `StartupSettles`, `QuitEnds`, implements `BlobCatalog` |
| `sync_cli` | 207 822 | any number of runs: `FirstRunIsComplete`, `GoodDataSurvive` |
| `bench_scan` | 25 913 | `ResultIsOfLastRun`, `StopEndsUpload`, `UploadTriesAll`, `AbortForgotten`, `WorkEnds` |
| `crunch_for` | 14 002 | `CountsInTime`, `StopOutlivesThreads`, `ResultIsCallsInTime`, `Returns` |
| `shell_page` | 157 629 | `TimerDataAllocated`, `PageFollowsTree`, `OnlyShowingAddsReloads`, `LeftTimersEnd`, `CloseHonoured`, implements `CloseRequest` (`CloseRefines`) |
| `pages` | 38 973 | `TextsAllocated`, `RowsHaveDetails`, `CachesCountedOnce`, `ReloadEqualsFreshStart`, `PagesIndependent`, `WindowAroundThis`, `FieldsFollowScan` |
| `spd_match` | 565 060 | `StableMatch`, `GivesUpNever` |
| `report` | 42 017 | `TickedReported`, `TablesClose`, `ReportsFiltered`, `TopicPrintsSections` |

and three runs in which the code does not do what the repository says:

| Run | What TLC finds |
|---|---|
| `sync_dialog_index_zero` | `i > 0` leaves out the entry at index 0, "Update CPU database", which the dialog lists with a tick |
| `sync_cli_everything` | streams are never closed, so a file that exists is never replaced: a second `-u` run does not "sync everything else" |
| `sync_startup_blobs` | "Synchronize on startup" fetches the version and records it, but not the blobs, and so keeps later syncs from fetching them |

### What the properties except

Each exception is behaviour of the code that no text of the repository speaks about, met
while a property was stated; it is written in the property, so that everything else is
still checked.

Sync Manager and benchmarks:

* After Cancel in the dialog, the completion of the aborted request quits the loop that
  waits for Close (`syncmanager.c:418`, 282).  No property asks for a click there.
* A dialog that is opened while the startup still waits overwrites the global loop
  (`syncmanager.c:266`).  The waits of the startup then belong to a loop nobody keeps, so
  `LoopOutlivesReplies`, `StartupSettles` and `QuitEnds` are stated for a startup without one.
* An aborted request that completes late with its whole body could store data older than what
  is there; `CatalogSpec`, `CleanSyncIsFresh` and `UploadAnswerReplaced` are stated with `PromptAbort`.
* `WorkEnds` excepts a child that ends without output.  The watch is for
  `G_IO_IN` alone, so the dialog stays until the user clicks Stop.
* `AbortForgotten` is stated once an entry has been selected.  The program starts
  on a module's own row; if the user stops an upload before selecting any
  entry, `shell_do_reload()` returns early and the flag stays set: the next upload
  runs no benchmark and the next benchmark selected is not run either.

Main window (`PageFollowsTree`, `CloseHonoured`, `OnlyShowingAddsReloads`):

* When the selected row is control-clicked away, `module_selected()` returns early
  (`shell.c:3010`), and F5 then leaves the window insensitive for good; a request to close
  waits forever.
* A click or a theme change in the events that end an update is taken by a nested
  `module_selected()` that finds `updating` and returns (`shell.c:3020`), after it has cleared
  the flag of the entry that stays on the page.
* Every selection of a page with a ReloadInterval or RescanInterval starts a chain of
  timers although one from an earlier visit may still wait: chains add up.

Pages (`Remembers`, `Coupled`, `Dangling` in `Pages`):

* The printers' icons stay freed when the last printer has gone (`devices/printers.c:274`),
  the environment's text is freed and then extended (`computer/environment.c:34`), the
  modules' icons are stale when their file can no longer be parsed.
* Reloading the operating system's page makes a new record without the boots
  (`computer.c:189`); the boots' page counts as scanned and stays empty.
* Sensors and memory share one list of intervals; a benchmark's page scans the memory
  and so takes the sensors' intervals away.
* The 1-Wire bus is read in the first run only (`devices/sensors.c:393`), and so is what
  `sensors.conf` says of each chip (`:353`); processors and DMI
  memory are read once; scans of users, groups, printers, input devices, interfaces and
  shares that find nothing or fail leave what was found.
* `pci.ids` and `usb.ids` that are installed or synchronised later are not used once a file
  was found; `pci_lookup_ids()` takes the names of the previous device when vendor, device
  and sub-vendor agree (`hardinfo2/pci_util.c:97`).
* Two firmware names with a comma may be cut to one key.

Reports:

* Each HTML title after the first leaves a surplus `</table>`, which browsers ignore (`Depths`).
* The code looks for a topic at three places of every line, whatever the line is: a topic that
  is found from the second or the fifth character of a page's name prints what follows as if it
  were a group or a block.  `TopicPrintsSections` is about topics that begin what stands on the line.

### Bounds

* Sync: five entries, in registration order: a file at index 0, an optional blob, the
  download and the upload of `benchmark.json`, the version file.  They have every
  combination of flags the program registers; more blobs behave as the ones there.
  `MaxVersion = 2`: an old, a newer and a newest version, enough for data to
  change between a request and its delivery and for one to be skipped.  Runs,
  crashes, syncs and clicks are not bounded: the state spaces are finite without it.
  `sync_dialog` has `PromptAbort = TRUE`: an aborted request completes before the
  user's next click, so `LateReply` happens in the wait for Close and after it.
  With `FALSE` it happens in the prelude and in the waits of later rows as well.  That was run
  by hand with four entries and `MaxVersion = 1` (111 770 states: `NothingAfterFailure`,
  `OptOutHonoured` and `SyncEnds` hold), and the first two are proved for it.  `late` is a set of
  entries: of one entry one late request is kept.
* `BenchScan`: two benchmarks, one that is stopped or fails and one after it; three
  were tried as well (272 236 states).
* `CrunchFor`: two cores, three hardware threads, requests for one thread, one per
  core, one per hardware thread; at most `MaxCalls = 2` calls per thread, so that a
  thread has a call before and one around the end of the time.  The guard on
  `MaxCalls` stands for the end of the time, so `Returns` does not depend on it.
* `ShellPage`: three entries, one with updated fields and a rescan, one that is reloaded
  (in "Network"), one benchmark; `Budget = 1` event at once (the code allows five) with
  handlers nested `Depth = 2` deep, `Slots = 3` field timers, `MaxChains = 2`.  Events that are
  handled one after another in one loop meet each other in the next loop too, and every
  hazard listed shows at depth two.
* `Pages`: each page alone and the ten pairs of pages that share a global (`Parts`), on a machine
  that changes; and any two of the twenty pages that have details (`Still`), on a machine that
  stays, which is enough for one page's prefixes to meet the other's keys.  Of each page the
  machine may have a handful of states (none, one, two devices, a file that cannot be read,
  two devices alike); a benchmark seven, with up to five stored results around its own and one
  equal to it, for windows of -1, 0, 2, 3 and 7 rows.  `MaxIcons = 3` stops a run of storage
  scans, whose icons only grow.  A pair that is not in `Parts` shares only the table of details.
* `SpdMatch`: three sockets of nine kinds, up to three modules.  `GivesUpNever` was also tried
  at random up to 24 of each.
* `Report`: four modules, one of them without entries, one hidden entry and one left out, groups
  of rows with and without details; `MaxStarts = 2` (a window in the first), `MaxScans = 2`.
  Topics (`Found`, `Searches`): a module's and an entry's name in another case of letters, a
  prefix of a group's and a block's name which a row begins with too, a block's, and a search.

Deadlock is checked except where the system may stop: `CrunchFor` ends when the function
returns, `SpdMatch` when the match is written, `Report` with its last start, and `Pages` has
pages for which nothing but the bound of icons is left.

### Fairness

* The thread of the GUI runs whatever is ready (weak fairness of the program's
  own steps).
* Every request completes: `ensure_soup_session()` sets a timeout of ten seconds and
  an aborted request completes with an error.
* A benchmark's child ends, with or without output: its loops are timed (`Returns` in
  `CrunchFor`).  In `ShellPage` the end of a dialog has strong fairness, since the child ends
  whatever handlers come and go around its dialog.
* Timers: GLib dispatches all sources that are due and of equal priority in one iteration, so
  that none is put off forever: strong fairness of the timers of pages that were left in
  `ShellPage`, where handlers may run in between, weak fairness in `Pages`.
* Threads are scheduled and callbacks return.
* A dialog that is open is closed some day (only in `SyncStartup`, where the dialog is
  abstract).  No other click is assumed, and no request to close.

## 4. What is proved

All for every value of the constants that satisfies the named assumptions.  The assumption
on the list of entries (`EntriesAssumption`) is what the program registers: the version entry
is last and alone in its file; an upload's file is downloaded by an entry that is registered
before it and is not optional, and the first entry is another file's
(`modules/benchmark.c:948-972`, `hardinfo2/util.c:908`); no file is downloaded twice.

`SyncDialogProofs` (from `EntriesAssumption`, `DialogAssumption`):

* `TypeCorrect`: `TypeOK`, strengthened by what holds while a request is pending (there is a
  current row).
* `ImplementsCatalog`: `Spec => CatalogSpec`, under `PromptAbort`.  The refinement mapping is the identity on the two
  variables of the catalogue; the step that needs an invariant is the reply, whose body is not
  older than the file because the version it was sent at is at least every version stored
  (`VersionInv`).
* `RowsInOrder`: `NothingAfterFailure`.  `RowInv` ties `todo` to the marks: rows above the
  current one are done, rows below are untouched.
* `CleanSyncIsFreshHolds`, under `PromptAbort`.  `FreshInv` follows a sync through its rows:
  once the version file is stored, `srv` is what it holds, and every row done since has a file
  at least that new; the optional ones because `our < srv` made them wanted.
* `UploadAnswerReplacedHolds`, under `PromptAbort`.  `ReplyInv`: during a sync that is not
  cancelled, a file that holds an answer has its download still in `todo`, even if the answer is
  that of an earlier sync that failed.  The download comes after the upload because it is
  registered before it, and it is never the entry at index 0 that the loop leaves out: this is
  where the assumption is used.
* `OptOutIsHonoured`, which like `RowsInOrder` needs no `PromptAbort`: a request that uploads starts with its entry ticked, whoever ends the
  waits of the requests before it.

`SyncStartupProofs` (from `EntriesAssumption`, `StartupAssumption`):

* `LoopIsAlive`: `LoopOutlivesReplies`.  `ReferenceInv`: as long as no dialog has taken the
  global, the loop has at least one reference of its own, one for each callback in the queue
  and one for each frame that waits: the first of `g_main_loop_new()` is never dropped.
* `ImplementsCatalog`, with a `VersionInv` of its own.

`SyncCliProofs` (from `EntriesAssumption`, `CliAssumption`):

* `GoodDataSurviveHolds`: a file with data keeps data, whatever requests meet and wherever
  the process is killed, until a new program version removes it.
* `FirstRunIsCompleteHolds`.  `FirstRunInv`: the version file is fetched before anything else;
  from then on an entry still to come has no file and one that is done has data of that
  version or later.

`CrunchForProofs` (from `CrunchAssumption`): `TypeCorrect`; `StopOutlivesThreadsHolds`, from an
invariant that ties `launched`, `joined` and the threads' states together;
`CountsInTimeHolds`, from what a thread has counted at each of its steps;
`ResultIsCallsInTimeHolds`: `result` is the sum of the joined threads' calls in time, less at
most one for each of them (`ResultInv`).  The sum is a function of partial sums, whose facts
are proved by taking the least index that would break them.

`BenchScanProofs` (from `NAssumption`):

* `TypeCorrect`, with the watch and the agenda's head; `ResultIsOfLastRunHolds`, from the
  observation that a running benchmark has no result.
* `AbortIsForgotten`: `AgendaInv` says that once an entry is selected the last step of any work
  clears the flag, and that scans of an upload come before all else.
* `StopEndsUploadHolds` and `UploadTriesAllHolds`: `TriedInv`.  While an upload scans, a
  benchmark that was stopped in it has set the flag; until the results are put together every
  benchmark is aborted, has a result, was tried, or is still on the agenda.

`ShellPageProofs` (from `ShellAssumption`):

* `TimerDataAllocatedHolds`, inductive as it stands: wherever data are freed the record is
  dropped or the timers are removed in the same step.
* `CloseRefinesHolds`: `Spec => CloseRefines`, with the invariant that a request waits only
  while an update runs (`AskedWhileUpdating`); the step that ends an update is the only one
  that must look at the request.
* `PageFollowsTreeHolds`, the longest proof.  `AgendaInv` is the shape of the nested handlers
  (`Shape`): each step that disables the window is followed by one that enables it, each step
  of `module_selected()` by its end, there is one such end at most, and some steps are only
  ever first.  Over it, `FlagInv` (the entry at work, or the one shown last, alone is
  selected), `ViewInv` (a window that takes no input has a step left that changes this) and
  `PageInv` (unless another `module_selected()` is to begin, the one at work ends with the
  page of the tree's row).
* `OnlyShowingAddsReloadsHolds`, an action property: `Chains(e)` counts timers and fired reloads
  on the agenda.  The lemmas `CountCat`, `CountTail`, `CountThen` and `CountHandling` say how
  often a step is on an agenda that is cut, joined or extended.

`SpdMatchProofs` (from `ListsAssumption`):

* `OneToOneHolds` and `StableMatchHolds`.  `Content` is the argument of stable matchings: a
  socket that is not in the queue finds no module that would take it, because the score of a
  module only grows.
* `GivesUpNeverHolds`: the limit of four rounds is never the reason to stop.  The queue is
  served in rounds; a socket that has to make way goes to the next one and can get only a module that
  fits it less there, and as scores are multiples of 5 up to 35 there are at most seven rounds.
  Each socket has a weight of at most 40, made of its round and its score; the weights'
  sum grows by 10 or more whenever a socket is taken (`RoundInv`), and while one is left
  in the queue it is below 40 for each.

`ReportProofs` (from `ProgramAssumption`, `NamesAssumption`, `TableAssumption` and
`PagesAssumption`: files, entries, groups and rows come in sequences, a name stands for one row of
the tree, and every page has its groups; of `Found` and `Searches` nothing is assumed).  `ReportCorrect` is the inductive invariant `ReportInv`;
`TextInv` adds to it for the last theorem.

* `TickedReportedHolds`: `TickInv` says that a module has a tick when an entry of it has
  (`Consistent`, which every click keeps because names are apart), and that the entries written
  together with those on the list are all that were ticked.  That is why the module list, which
  skips modules without a tick, loses nothing (`EntriesOfModule`, `ListOfModules`).
* `TablesCloseHolds`: `TableInv` says that the HTML so far is `Proper`: a path of depths
  (`Depth`) leads through it, each thing stands where it may, and it ends at depth 0 or, once
  `first_table` and `first_sub_table` are false, in the table of the last entry.  Pages and
  details end at the depth where they began (`GroupsFit`, `DetailsFit`, `PageFits`), titles
  close what is open, and `DepthsAre` shows that `Depths()` is the only such path.
* `ReportsFilteredHolds`: `FilterInv`; only boots are shortened by a scan, and each entry is
  noted as its scan for this report left it.
* `TopicPrintsSectionsHolds`, for any relation `Found` between topics and lines: a text report is `Formed` (titles of modules and entries are
  underlined, nothing else is, groups and details stand below a title), in the cache too.
  Over such lines `TopicAt` is the invariant of the loop: nothing is printed and what was
  printed has ended, or nothing is printed any more, or one section is.  A section that stands
  apart ends all that began before it (`SectionOver`), which is what makes the single number
  `active` enough; `TopicIs` concludes that `Topic()` is the sections one after the other.

`FlattenSeq` and the recursive functions in `Depths`, `modules_load_all` and `Topic` need
induction over sequences.  The library's theorems for it cannot be instantiated, so
`Induction`, `Recursion` and `SeqInduction` state it for sets and functions in place of
operators, and `FlattenIs` says what `FlattenSeq` computes.  The few facts about the least and
the greatest element of a set of numbers are stated in each module that uses them.

Proving `TopicPrintsSections` corrected it: it had asked for the section of every group and block
of the name, while the code begins none inside a section that is being printed, which the small
instance has no page to show.  The provers leave a `CASE` with two true
guards open, so the guards in `ReportText` are disjoint and the order of the code's tests is explicit.

Only model-checked:

* All liveness (`SyncEnds`, `StartupSettles`, `QuitEnds`, `WorkEnds`, `Returns`, `LeftTimersEnd`,
  `CloseHonoured`), since fairness and ENABLED are beyond the prover.
* The properties of `Pages` (`TextsAllocated`, `RowsHaveDetails`, `CachesCountedOnce` and its
  action properties).  They follow from what each of some forty scans does to its lists, texts and
  details, written as folds with an operator for a parameter, `FoldLeft(LAMBDA ...)`.  Each would
  need the induction that `ReportProofs` does for `FlattenSeq` alone, and
  `CachesCountedOnce` relates a sort and two passes to a cardinality besides.
* The three runs of section 3 that find the code at variance with the repository.

## 5. Not modelled

* Characters: the layout of pages, rows, HTML and JSON, units and translations; the decoding of
  SPD, EDID and device-tree bytes (`spd-decode.c`, `monitors.c`, `dt_util.c`); the formulas of
  `expr.c` and the string rules of `vendor.c`.  They compute a text from bytes without keeping state.
* Processors of other architectures, the readers of udisks2 and X beyond what the storage and
  display pages show of them, and libsensors' own tables.
* The numeric kernels and drawing of the benchmarks, vendored code, menus, icons and the load graph.
* `benchmark_parallel_for()` is reached only from a function nothing calls, so it is left out.  So is the
  reader of `lspci`, which `nolspci` turns off (`hardinfo2/pci_util.c:27`).
* HTTP status codes and the trust placed in the server's data are outside what the repository
  states.  A graphical and a command-line instance at once over one configuration directory
  (`hardinfo2/hardinfo.c:82`) are not composed.

The prefixes of keys in the table of details are the program's own texts, and `Without` deletes by
string prefix as the code does.  Assumed of the inputs of the pages: keys that begin with what the
machine says (memory slots, fields of `/proc/meminfo`, locales, sensors, the rest of a firmware's
name) do not begin with a prefix of the program; processors are numbered from 0; `os-release`
has an ID.  Assumed of the report: the name of an entry is in one module only and is no module's
name.  The code does not check these.  Which lines a topic or a search `*text` is found in, at which
place, is given by the constant `Found`; comparing the letters themselves is left out.

Where the guards of a `CASE` overlap, the first that holds is meant,
which is how TLC reads it.

Observed while modelling, and outside the properties:

* `clocks_summary()` counts equal clock ranges only while they are adjacent in the order of the
  shared-processor lists, so hybrid processors give several rows with one key, of which the page
  keeps the last (`devices/x86/processor.c:260-322`).
* Cancelling the file chooser of a report, or a file that cannot be opened, leaves
  `params.fmt_opts` without markup for good (`shell/report.c:1024-1032`); pages first scanned during
  an HTML report keep its markup.
* The boots' page stays shortened after a report until it is reloaded (`report.c:811`).
* A window benchmark that is closed early reports the score of the tests that were done as if it were
  complete (`benchmark/guibench.c:163`); a result of 0 counts as none for the page and as one for the
  upload; infinite speeds are printed as text that cannot be read back and become "no result".
* The year of a processor's release, once not found, is cached for the process even if a
  synchronisation installs the file (`devices.c:172-238`).
* An element of `benchmark.json` that is no object becomes a null entry that the sort
  dereferences (`benchmark.c:398-422`).

## 6. Plan

1. Lemmas next: `get_bench_window()` (its size, that it holds this machine, that it stays in the
   list), then `Without` and `AddLines` as a start on `RowsHaveDetails`.
2. `SyncShared`: a GUI and a command-line instance over one configuration directory,
   composed of `SyncDialog` and `SyncCli` through `BlobCatalog`.
3. Algorithms without state as functions against reference definitions: the expression
   evaluator, vendor matching.
