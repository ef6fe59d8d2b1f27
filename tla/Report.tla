------------------------------- MODULE Report -------------------------------
(***************************************************************************)
(* Reports: the dialog of the window with its tree of ticks, the report    *)
(* that is written entry by entry while the window's timers go on, and the *)
(* report of the command line with its topics and its cache                *)
(* (shell/report.c, hardinfo2/hardinfo.c).                                 *)
(***************************************************************************)
EXTENDS ReportText, Program

CONSTANTS
  MaxStarts,  \* bound: how often the program is started
  MaxScans    \* bound: how often a page is scanned behind a dialog

Entries(m) == module_load(m)
Flagged(flag) == {e.name : e \in {f \in UNION {Range(Entries(m)) : m \in Range(Files)} : flag \in f.flags}}
Pages == UNION {Range(NamesOf(Entries(m))) : m \in Range(Files)}

ASSUME PagesAssumption == Pages \subseteq DOMAIN Table

VARIABLES
  params,     \* what the command line asked for
  modules,    \* the modules that are loaded
  dialog,     \* "closed", "ticking", "saving", "writing", "asking", "ended", "done"
  ticked,     \* the modules and the entries with a tick in the tree
  fmt_opts,   \* the markup pages are made with
  saved,      \* old_fmt_opts, create_report: what to go back to
  create_report,
  filtered,   \* the pages whose text has been shortened for a report
  ctx,        \* the report being written
  todo,       \* what is left to write: <<"module", m>> and <<"entry", e>>
  sections,   \* the entries written so far, and whether their text was shortened
  cache,      \* the file cachedreport: its format and what it holds
  printed,    \* what the command line printed last, and of which topic
  starts, scans

dialogVars == <<dialog, ticked, fmt_opts, saved, create_report>>
writing    == <<ctx, todo, sections>>
cli        == <<cache, printed, starts>>
program == <<params, modules>>
vars == <<program, dialogVars, filtered, writing, cli, scans>>

Unsaved   == [fmt_opts |-> "none", create_report |-> FALSE]
Nothing   == [format |-> "none", output |-> <<>>]
NotPrinted == [topic |-> "none", format |-> "none", of |-> <<>>, out |-> <<>>]

Window == params.gui_running

\* main() up to the report, the window or the single benchmark.
Start ==
  \E args \in CommandLines, display \in BOOLEAN, broken \in Broken :
    \E p \in {ui_init(parameters_init(args), display)} :
      /\ params' = p
      /\ modules' = modules_load_all(p, broken)
      /\ dialog' = IF p.run_benchmark THEN "done" ELSE "closed"
      /\ fmt_opts' = IF p.gui_running THEN "pango" ELSE "none"
      /\ create_report' = p.create_report
      /\ ctx' = report_context_new("none", p.force_all_details)

Init ==
  /\ params = [gui_running |-> FALSE] /\ modules = <<>>
  /\ dialog = "done" /\ fmt_opts = "none" /\ create_report = FALSE
  /\ ctx = report_context_new("none", FALSE)
  /\ ticked = {} /\ saved = Unsaved /\ filtered = {}
  /\ todo = <<>> /\ sections = <<>>
  /\ cache = Nothing /\ printed = NotPrinted /\ starts = 0 /\ scans = 0
-----------------------------------------------------------------------------
(* The dialog                                                              *)
Children(m) == Range(NamesOf(Visible(m)))

\* What ticking and unticking all reaches: a module without entries is left as it is.
All == UNION {{m} \union Children(m) : m \in {x \in Range(modules) : Children(x) # {}}}
set_all_active(setting) == IF setting THEN ticked \union All ELSE ticked \ All

Open ==
  /\ Window /\ dialog = "closed"
  /\ dialog' = "ticking" /\ ticked' = set_all_active(TRUE)
  /\ UNCHANGED <<program, fmt_opts, saved, create_report, filtered, writing, cli, scans>>

Tick(set) ==
  /\ dialog = "ticking"
  /\ ticked' = set
  /\ UNCHANGED <<program, dialog, fmt_opts, saved, create_report, filtered, writing, cli, scans>>

\* A module takes its entries with it; a tick on an entry ticks its module.
ToggleModule(m) == Tick(IF m \in ticked THEN ticked \ ({m} \union Children(m))
                        ELSE ticked \union {m} \union Children(m))
ToggleEntryAlone(m, e) == Tick(IF e \in ticked THEN ticked \ {e} ELSE ticked \union {e})   \* mutant
ToggleEntry(m, e) == Tick(IF e \in ticked THEN ticked \ {e} ELSE ticked \union {m, e})
SelectAll  == Tick(set_all_active(TRUE))
SelectNone == Tick(set_all_active(FALSE))

Cancel ==
  /\ dialog = "ticking"
  /\ dialog' = "closed" /\ ticked' = set_all_active(FALSE)
  /\ UNCHANGED <<program, fmt_opts, saved, create_report, filtered, writing, cli, scans>>

\* Generate: the dialog hides, the file is asked for.
Generate ==
  /\ dialog = "ticking"
  /\ dialog' = "saving"
  /\ saved' = [saved EXCEPT !.fmt_opts = fmt_opts] /\ fmt_opts' = "none"
  /\ UNCHANGED <<program, ticked, create_report, filtered, writing, cli, scans>>

\* No file is chosen or it cannot be opened: the markup stays off.
NoFile ==
  /\ dialog = "saving"
  /\ dialog' = "closed" /\ ticked' = set_all_active(FALSE)
  /\ UNCHANGED <<program, fmt_opts, saved, create_report, filtered, writing, cli, scans>>

\* report_create_module_list_from_dialog(): modules with a tick, and of them the
\* entries with one; without a window all that there is.
OfModule(m, set) == <<<<"module", m>>>>
  \o LET picked == Kept(NamesOf(Visible(m)), set)
     IN [i \in DOMAIN picked |-> <<"entry", picked[i]>>]
module_list(set) == FlattenSeq([i \in DOMAIN modules |->
                      IF modules[i] \in set THEN OfModule(modules[i], set) ELSE <<>>])

StartWriting(format, set) ==
  /\ dialog' = "writing"
  /\ fmt_opts' = IF format = "html" THEN "html" ELSE fmt_opts
  /\ saved' = [saved EXCEPT !.create_report = create_report] /\ create_report' = TRUE
  /\ ctx' = report_header(report_context_new(format, ctx.all))
  /\ todo' = module_list(set) /\ sections' = <<>>

ChooseFile(kind) ==
  /\ dialog = "saving"
  /\ StartWriting(file_types_get_data_by_name(kind.ext), ticked)
  /\ UNCHANGED <<program, ticked, filtered, cli, scans>>
-----------------------------------------------------------------------------
(* Writing                                                                 *)

WriteModule ==
  /\ dialog = "writing" /\ todo # <<>> /\ Head(todo)[1] = "module"
  /\ ctx' = report_title(ctx, Head(todo)[2])
  /\ todo' = Tail(todo)
  /\ UNCHANGED <<program, dialogVars, filtered, sections, cli, scans>>

\* Of the boots and of a benchmark's results a report shows the first 25.  The boots
\* are shortened when they are scanned, and stay so; the results when they are shown.
ScansBoots(all) == IF all THEN filtered \ Flagged("boot") ELSE filtered \union Flagged("boot")
WriteEntryNoRescan ==   \* mutant: the boots are not scanned anew
  /\ dialog = "writing" /\ todo # <<>> /\ Head(todo)[1] = "entry"
  /\ LET e == Head(todo)[2]
     IN /\ ctx' = report_table(report_subtitle(ctx, e), e)
        /\ filtered' = filtered
        /\ sections' = Append(sections, <<e, e \in filtered' \/ (e \in Flagged("benchmark") /\ ~ctx.all)>>)
  /\ todo' = Tail(todo)
  /\ UNCHANGED <<program, dialogVars, cli, scans>>
WriteEntry ==
  /\ dialog = "writing" /\ todo # <<>> /\ Head(todo)[1] = "entry"
  /\ LET e == Head(todo)[2]
     IN /\ ctx' = report_table(report_subtitle(ctx, e), e)
        /\ filtered' = IF e \in Flagged("boot") THEN ScansBoots(ctx.all) ELSE filtered
        /\ sections' = Append(sections, <<e, e \in filtered' \/ (e \in Flagged("benchmark") /\ ~ctx.all)>>)
  /\ todo' = Tail(todo)
  /\ UNCHANGED <<program, dialogVars, cli, scans>>

\* The dialog goes, with the report and the ticks.
Closed ==
  /\ dialog' = "closed" /\ ticked' = set_all_active(FALSE) /\ fmt_opts' = saved.fmt_opts
  /\ ctx' = report_context_new("none", ctx.all) /\ sections' = <<>>

\* The footer; a report in HTML offers to show itself.
Finish ==
  /\ dialog = "writing" /\ todo = <<>>
  /\ create_report' = saved.create_report
  /\ IF Window /\ ~Html(ctx) THEN Closed
     ELSE /\ ctx' = report_footer(ctx)
          /\ dialog' = IF Window THEN "asking" ELSE "ended"
          /\ UNCHANGED <<ticked, fmt_opts, sections>>
  /\ UNCHANGED <<program, saved, filtered, todo, cli, scans>>

\* The browser is started or not.
Answer ==
  /\ dialog = "asking" /\ Closed
  /\ UNCHANGED <<program, saved, create_report, filtered, todo, cli, scans>>

\* The window shows pages all the time, and its timers and nested main loops run
\* during all dialogs and between two entries: a page is scanned, if it never was
\* or because it is reloaded, with what the report has set.
Background(e) ==
  /\ Window /\ scans < MaxScans /\ scans' = scans + 1
  /\ filtered' = IF e \in Flagged("boot") THEN ScansBoots(ctx.all \/ ~create_report) ELSE filtered
  /\ UNCHANGED <<program, dialogVars, writing, cli>>
-----------------------------------------------------------------------------
(* The command line                                                        *)

PrintTopic(format, of) ==
  printed' = [topic |-> params.topic, format |-> format, of |-> of,
              out |-> CASE params.topic = NoTopic   -> of
                        [] params.topic = "getlist" -> GetList(of)
                        [] params.topic \in Searches -> TextSearch(params.topic, of)
                        [] OTHER                    -> Topic(params.topic, of)]

\* A topic of the report in the cache.  What was read is not ended by a zero: more
\* lines of whatever was in memory may follow.
UsesCache == params.topiccached /\ cache # Nothing
CliCached ==
  /\ ~Window /\ dialog = "closed" /\ UsesCache
  /\ \E junk \in BOOLEAN :
       PrintTopic(cache.format, cache.output \o IF junk THEN <<Made("junk", "")>> ELSE <<>>)
  /\ dialog' = "done"
  /\ UNCHANGED <<program, ticked, fmt_opts, saved, create_report, filtered, writing, cache, starts, scans>>

CliWrite ==
  /\ ~Window /\ dialog = "closed" /\ ~UsesCache
  /\ StartWriting(params.report_format, shell_add_modules_to_gui(modules))
  /\ UNCHANGED <<program, ticked, filtered, cli, scans>>

\* The report that was made goes to the cache, whatever its format, and is
\* printed, or a topic of it.
CliPrint ==
  /\ ~Window /\ dialog = "ended"
  /\ cache' = [format |-> ctx.format, output |-> ctx.output]
  /\ PrintTopic(ctx.format, ctx.output)
  /\ dialog' = "done"
  /\ UNCHANGED <<program, ticked, fmt_opts, saved, create_report, filtered, writing, starts, scans>>

\* The program has ended and is started again.
Restart ==
  /\ dialog = "done" /\ starts < MaxStarts
  /\ starts' = starts + 1
  /\ Start
  /\ ticked' = {} /\ saved' = Unsaved /\ filtered' = {}
  /\ todo' = <<>> /\ sections' = <<>>
  /\ starts > 0 => ~params'.gui_running   \* bound: a window in the first start only
  /\ printed' = NotPrinted
  /\ UNCHANGED <<cache, scans>>

Next ==
  \/ Open \/ Cancel \/ SelectAll \/ SelectNone \/ Generate \/ NoFile
  \/ \E m \in Range(modules) : ToggleModule(m) \/ \E e \in Children(m) : ToggleEntry(m, e)
  \/ \E kind \in Range(file_types) : ChooseFile(kind)
  \/ WriteModule \/ WriteEntry \/ Finish \/ Answer
  \/ \E e \in Pages : Background(e)
  \/ CliWrite \/ CliPrint \/ CliCached \/ Restart

Spec == Init /\ [][Next]_vars
-----------------------------------------------------------------------------
(* Properties                                                              *)

\* A report holds the entries that had a tick when Generate was clicked, all that
\* are not hidden on the command line, once each and in the order of the tree:
\* whatever was ticked and unticked before, no ticked entry is lost because its
\* module has no tick (report_dialog_sel_toggle and the module list agree).
TickedReported ==
  (dialog \in {"writing", "asking", "ended"} /\ todo = <<>>) =>
    LET rows == FlattenSeq([i \in DOMAIN modules |-> NamesOf(Visible(modules[i]))])
    IN [i \in DOMAIN sections |-> sections[i][1]] = IF Window THEN Kept(rows, ticked) ELSE rows

\* The depth of tables after each thing of an HTML report; a browser ignores a
\* </table> that closes nothing, which every title after the first leaves behind.
Depths(output) ==
  LET depth[i \in 1..Len(output) + 1] ==
        IF i = 1 THEN 0
        ELSE CASE output[i - 1].kind = "<table>" -> depth[i - 1] + 1
               [] output[i - 1] = Close /\ depth[i - 1] > 0 -> depth[i - 1] - 1
               [] OTHER -> depth[i - 1]
  IN depth

\* In HTML no table is left open: a title of a module, a table of an entry and what
\* follows the tables begin outside of tables, rows are in a table, and the details
\* of a row in a table of their own inside it.
TablesClose ==
  Html(ctx) =>
    LET depth == Depths(ctx.output)
    IN \A i \in DOMAIN ctx.output :
         LET t == ctx.output[i]
         IN CASE t.kind \in {"h1", "style"} -> depth[i] = 0
              [] t.kind = "<table>" -> depth[i] = (IF t.name = "details" THEN 1 ELSE 0)
              [] t.kind \in {"stitle", "sstitle", "tr"} -> depth[i] > 0
              [] OTHER -> TRUE

\* "Rescan Boots - filter for reports", "Filter benchmarkresults for reports"
\* (report.c:811, 815): whatever the window has scanned before or scans meanwhile, a
\* report without all details shows these two shortened, and others never.
ReportsFiltered ==
  \A i \in DOMAIN sections :
    sections[i][2] = (~ctx.all /\ sections[i][1] \in Flagged("boot") \union Flagged("benchmark"))

\* Where in a line a topic begins that is the beginning of the name of a page, a group or
\* a block, or of what a row says from its fifth character on.
Place == [module |-> 0, entry |-> 0, group |-> 1, block |-> 4, row |-> 4]

\* The section of a text report that begins with line i: up to the next title of its
\* rank or a higher one.  A row has the rank of a block.
Ends == [module |-> {"module"}, entry |-> {"module", "entry"},
         group |-> {"module", "entry", "group"}, block |-> {"module", "entry", "group", "block"},
         row |-> {"module", "entry", "group", "block"}]
SectionEnd(lines, i) ==
  Min({j \in i + 1..Len(lines) : lines[j].kind \in Ends[lines[i].kind]} \union {Len(lines) + 1}) - 1
HeaderOf(lines, i) == lines[Max({j \in 1..i : Heading(lines[j])})]

\* A topic prints the sections of what begins with it, a name or a row: the first
\* module or entry, and of groups, details and rows every one before it, under the
\* title of their entry; a section within one that is printed is not printed again
\* (hardinfo.c:216-264).  A topic that stands in the middle of a name is left out.
TopicPrintsSections ==
  LET lines   == printed.of
      topic   == printed.topic
      called(i, at) == <<topic, at, lines[i]>> \in Found
      named   == {i \in DOMAIN lines :
                    lines[i].kind \in DOMAIN Place /\ called(i, Place[lines[i].kind])}
      whole   == {i \in named : Heading(lines[i])}
      first   == {i \in named : \A j \in whole : i <= j}
      apart   == {i \in first : \A j \in first : j < i => SectionEnd(lines, j) < i}
      section(i) == (IF Heading(lines[i]) THEN <<>> ELSE <<HeaderOf(lines, i)>>)
                    \o SubSeq(lines, i, SectionEnd(lines, i))
  IN (/\ printed.format = "text" /\ topic \notin {NoTopic, "getlist"} \union Searches
      /\ \A i \in DOMAIN lines : \A at \in {0, 1, 4} :
           called(i, at) => lines[i].kind \in DOMAIN Place /\ at = Place[lines[i].kind]) =>
     printed.out = FlattenSeq([i \in DOMAIN lines |-> IF i \in apart THEN section(i) ELSE <<>>])
=====
