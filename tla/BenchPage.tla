------------------------------ MODULE BenchPage ------------------------------
(***************************************************************************)
(* The page of a benchmark (modules/benchmark.c, benchmark/bench_results.c): *)
(* the results of other machines from a file, that of this machine among   *)
(* them by rank, and of all these a window around it.                      *)
(***************************************************************************)
EXTENDS Benchmarks, Methods

BenchTexts == {"results"}
-----------------------------------------------------------------------------
(* Results                                                                 *)
PointerBits == 64
NoMemory    == <<<<>>, <<>>>>

\* The frequencies with how many processors have each, as one number; a value is the
\* negative of a frequency, to be sorted by.
cpu_config_val(config) == Total([i \in DOMAIN config |-> config[i].count * (-config[i].value[1])])
gen_machine_id(board, cpu_name, config) == <<board, cpu_name, cpu_config_val(config)>>

\* What is known of this machine; the processors were counted before, if ever.
ThreadsHere(g) == IF IsSet(g.text["cpu_cached"]) THEN g.text["cpu_cached"].lines[1].threads ELSE 0
bench_machine_this(g, machine) ==
  [board        |-> get_motherboard(g, machine["summary"]),
   machine_type |-> computer_get_machinetype(g, machine["summary"]),
   mid          |-> gen_machine_id(get_motherboard(g, machine["summary"]), get_processor_name(g),
                                   get_processor_frequency_desc(g)),
   cpu_name     |-> get_processor_name(g),
   cpu_desc     |-> get_processor_desc(g),
   cpu_config   |-> get_processor_frequency_desc(g),
   gpu_name     |-> get_gpuname(g),
   ogl_renderer |-> get_ogl_renderer(g),
   storage      |-> get_storage_home_models(g, machine["summary"]),
   memory_kiB   |-> get_memory_total(g),
   memory_phys  |-> memory_devices_get_system_memory(machine["dmi_mem"]),
   threads      |-> ThreadsHere(g),
   ptr_bits     |-> PointerBits]
bench_result_this_machine(g, value, machine) ==
  [this |-> TRUE, legacy |-> FALSE, value |-> value, machine |-> bench_machine_this(g, machine)]

\* What the file says of another; all cores of all nodes are counted.
get_cpu_config(node) == Member(node, "CpuConfigMap", Member(node, "CpuConfig", <<>>))
get_cpu_desc(node) ==
  IF Member(node, "NumCpus", 0) = 0 THEN Member(node, "CpuDesc", <<>>)
  ELSE <<[packs |-> node["NumCpus"], threads |-> Member(node, "NumThreads", 0),
          cores |-> Member(node, "NumCores", 0) * Max({Member(node, "NumNodes", 0), 1}),
          nodes |-> Max({Member(node, "NumNodes", 0), 1})]>>
ValueIn(node) ==
  [result |-> Member(node, "BenchmarkResult", 0), time |-> Member(node, "ElapsedTime", 0),
   threads |-> Member(node, "UsedThreads", 0), revision |-> Member(node, "BenchmarkVersion", 0),
   extra |-> Member(node, "ExtraInfo", <<>>)]
MachineIn(node) ==
  [board        |-> Member(node, "Board", <<>>),
   machine_type |-> Member(node, "MachineType", <<>>),
   mid          |-> Member(node, "MachineId", <<>>),
   cpu_name     |-> Member(node, "CpuName", <<>>),
   cpu_desc     |-> get_cpu_desc(node),
   cpu_config   |-> get_cpu_config(node),
   gpu_name     |-> Member(node, "GPU", <<>>),
   ogl_renderer |-> Member(node, "OpenGlRenderer", <<>>),
   storage      |-> Member(node, "Storage", <<>>),
   memory_kiB   |-> Member(node, "MemoryInKiB", 0),
   memory_phys  |-> Member(node, "PhysicalMemoryInMiB", NoMemory),
   threads      |-> Member(node, "NumThreads", 0),
   ptr_bits     |-> Member(node, "PointerBits", 0)]
bench_result_benchmarkjson(node) ==
  [this |-> FALSE, legacy |-> Member(node, "Legacy", FALSE),
   value |-> ValueIn(node), machine |-> MachineIn(node)]

\* The user's file, which the synchronization writes, comes before the packaged one.
find_benchmark_conf(h) == CASE h.user.there     -> <<h.user>>
                            [] h.packaged.there -> <<h.packaged>>
                            [] OTHER            -> <<>>
\* No other machines without an object that has a member for the benchmark
benchmark_include_results_json(file) ==
  IF file = <<>> \/ ~file[1].parses THEN <<>>
  ELSE [i \in DOMAIN file[1].results |-> bench_result_benchmarkjson(file[1].results[i])]
-----------------------------------------------------------------------------
(* Ranks and the window                                                    *)

\* Sorted from the lowest, equal ones as they were, and then turned around.
bench_result_sort(list, i, j) ==
  \/ list[i].value.result < list[j].value.result
  \/ list[i].value.result = list[j].value.result /\ i < j
Permuted(list, order) == [k \in DOMAIN list |-> list[order[k]]]
Ranked(list) ==
  Reverse(Permuted(list, SortSeq([i \in DOMAIN list |-> i], LAMBDA i, j : bench_result_sort(list, i, j))))

\* size results, this machine's at loc (from 0, -1 for none) in the middle if its
\* rank is not too close to an end.
Window(min, max) == [min |-> min, max |-> max]
WindowAt(len, loc, size, first) ==
  CASE first < 0          -> Window(0, Min({size, len}))
    [] first + size > len -> Window(Max({len - size, 0}), len)
    [] OTHER              -> Window(first, first + size)
get_bench_windowUnclamped(len, loc, results) ==   \* mutant: the ends are not looked at
  IF loc >= 0 THEN Window(loc - results \div 2, loc - results \div 2 + results)
  ELSE Window(0, results)
get_bench_window(len, loc, results) ==   \* of at most so many; all if negative
  LET size == CASE results = 0 -> 1 [] results < 0 -> len [] OTHER -> results
  IN IF loc >= 0 THEN WindowAt(len, loc, size, loc - size \div 2)
     ELSE Window(0, IF results = 0 THEN 0 ELSE size)
is_in_bench_window(window, i) == i >= window.min /\ i < window.max

Index(list) == Max({i - 1 : i \in {j \in DOMAIN list : list[j].this}} \union {-1})
Windowed(list, window) ==
  LET at == SelectSeq([i \in DOMAIN list |-> i - 1], LAMBDA i : is_in_bench_window(window, i))
  IN [k \in DOMAIN at |-> list[at[k] + 1]]
-----------------------------------------------------------------------------
(* The page                                                                *)

\* The details.  A name that is not there is unknown, or the field is hidden.
MemoryOf(m) == CASE m.memory_phys # NoMemory -> <<"MiB", m.memory_phys>>
                 [] m.memory_kiB > 0         -> <<"kiB", m.memory_kiB>>
                 [] OTHER                    -> <<"unknown">>
bench_result_more_info_less(b) ==
  [threads |-> b.value.threads, elapsed |-> b.value.time,
   revision |-> IF b.value.revision >= 0 THEN <<b.value.revision>> ELSE <<>>,
   extra |-> b.value.extra, legacy |-> b.legacy,
   board |-> b.machine.board, machine_type |-> b.machine.machine_type,
   cpu |-> <<b.machine.cpu_name, b.machine.cpu_desc, b.machine.cpu_config>>,
   available |-> b.machine.threads, gpu |-> <<b.machine.gpu_name, b.machine.ogl_renderer>>,
   storage |-> b.machine.storage, memory |-> MemoryOf(b.machine), bits |-> b.machine.ptr_bits]

\* A row: what was measured is named, this machine and old results are marked.  The
\* keys go on from page to page, so that none is used twice; here they are the rows.
LabelOf(bench, m) == CASE bench \in GpuBenches  -> <<m.gpu_name>>
                       [] bench = "storage_rw"  -> <<m.storage>>
                       [] OTHER                 -> <<m.cpu_name, m.cpu_config>>
br_mi_add(bench, b, i) ==
  Line("BENCH", i, [this |-> b.this, label |-> LabelOf(bench, b.machine), legacy |-> b.legacy,
                    result |-> b.value.result, mid |-> b.machine.mid, details |-> bench_result_more_info_less(b)])
AllRows(bench, list) == [i \in DOMAIN list |-> br_mi_add(bench, list[i], i)]

\* This machine is among the results when it has one.
ThisFirst(g, value, machine) ==
  IF value.result > 0 THEN <<bench_result_this_machine(g, value, machine)>> ELSE <<>>
ResultsPage(g, lines) ==
  [g EXCEPT !.text["results"] = Heap(lines), !.info = AddLines(Without(@, "BENCH"), lines)]
RankedPage(g, bench, list, size) ==
  ResultsPage(g, AllRows(bench, Windowed(list, get_bench_window(Len(list), Index(list), size))))
benchmark_include_results_reverse(g, bench, machine, size) ==
  RankedPage(g, bench,
             Ranked(ThisFirst(g, g.bench[bench], machine)
                    \o benchmark_include_results_json(find_benchmark_conf(machine[bench]))), size)

\* The pages that bench_machine_this() needs; each is scanned unless it was.
BenchAsks == <<"dmi", "processors", "gpu", "display", "memory", "storage", "os", "battery">>
=============================================================================
