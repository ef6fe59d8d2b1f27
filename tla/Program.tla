------------------------------ MODULE Program ------------------------------
(***************************************************************************)
(* How the program starts (hardinfo2/util.c, hardinfo2/hardinfo.c): what   *)
(* the command line asks for, whether there is a window, and which modules *)
(* are loaded with which entries.                                          *)
(***************************************************************************)
EXTENDS Integers, Sequences, SequencesExt

CONSTANTS
  Files,         \* the modules' files in the order they are tried, a sequence
  Weight,        \* Weight[m]: hi_module_get_weight()
  ModuleEntries, \* ModuleEntries[m]: its entries, a sequence of [name, flags]
  CommandLines,  \* what the program is started with
  Broken         \* the sets of files that may not open

ASSUME ProgramAssumption ==
  /\ Files \in Seq(STRING)
  /\ \A m \in Range(Files) :
       Weight[m] \in Int /\ ModuleEntries[m] \in Seq([name : STRING, flags : SUBSET STRING])
  /\ \A args \in CommandLines : args.force_all_details \in BOOLEAN

\* A name stands for one row of the tree: no two modules have an entry of the same
\* name, and no entry is called as a module.
EntryNames(m) == {e.name : e \in Range(ModuleEntries[m])}
ASSUME NamesAssumption ==
  \A m1, m2 \in Range(Files) :
    m1 \notin EntryNames(m2) /\ (m1 # m2 => EntryNames(m1) \intersect EntryNames(m2) = {})

NoTopic == ""

\* A topic makes a report, and leaves out the benchmarks; unknown formats are text.
parameters_init(args) ==
  LET topical == args.topic # NoTopic
      report  == args.create_report \/ topical
      format  == IF args.report_format \in {"html", "shell"} THEN args.report_format ELSE "text"
  IN [create_report |-> report, report_format |-> format,
      topic |-> args.topic, topiccached |-> args.cached,
      skip_benchmarks |-> args.skip_benchmarks \/ topical,
      run_benchmark |-> args.run_benchmark,
      force_all_details |-> args.force_all_details,
      markup_ok |-> report => format = "html",
      gui_running |-> FALSE]

\* A window is opened when neither a report nor a benchmark is asked for; without
\* a display the program makes a report.
ui_init(params, display) ==
  IF params.create_report \/ params.run_benchmark THEN params
  ELSE IF display THEN [params EXCEPT !.gui_running = TRUE]
  ELSE [params EXCEPT !.create_report = TRUE,
                      !.markup_ok = @ /\ params.report_format = "html"]

\* What of a sequence is in a set, in its order.
Kept(s, set) == FlattenSeq([i \in DOMAIN s |-> IF s[i] \in set THEN <<s[i]>> ELSE <<>>])

\* The entries of a module, but for those whose name begins with #.
module_load(m) == Kept(ModuleEntries[m], {e \in Range(ModuleEntries[m]) : "#" \notin e.flags})

\* The modules that open, each put before those found so far, sorted by weight: each
\* goes behind the lighter ones and before those of its own weight.
modules_load_all(params, broken) ==
  LET tried == Kept(Files, {m \in Range(Files) \ broken :
                              m = "benchmark" => params.gui_running \/ ~params.skip_benchmarks})
      lighter(m) == {m1 \in Range(Files) : Weight[m1] < Weight[m]}
      list[i \in 0..Len(tried)] ==
        IF i = 0 THEN <<>>
        ELSE Kept(list[i - 1], lighter(tried[i])) \o <<tried[i]>>
             \o Kept(list[i - 1], Range(Files) \ lighter(tried[i]))
  IN list[Len(tried)]

\* The rows of the tree: the modules, and their entries that are not hidden.
Visible(m) == Kept(module_load(m), {e \in Range(ModuleEntries[m]) : "hide" \notin e.flags})
NamesOf(entries) == [i \in DOMAIN entries |-> entries[i].name]
shell_add_modules_to_gui(modules) ==
  Range(modules) \union UNION {Range(NamesOf(Visible(m))) : m \in Range(modules)}

\* The kinds of file that a report can be saved as.  The name is given the ending of
\* the kind that was chosen, and the first kind with that ending makes the report.
file_types == <<[ext |-> ".html", format |-> "html"], [ext |-> ".txt", format |-> "text"],
                [ext |-> ".txt", format |-> "shell"]>>
file_types_get_data_by_name(ext) ==
  file_types[Min({i \in DOMAIN file_types : file_types[i].ext = ext})].format
=============================================================================
