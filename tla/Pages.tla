------------------------------- MODULE Pages -------------------------------
(***************************************************************************)
(* The pages of all modules over time: the machine changes; a page is      *)
(* shown, which scans what it shows if that was never done (or measures,   *)
(* on the page of a benchmark that has no result); it is reloaded (F5 or   *)
(* its ReloadInterval), rescanned (its RescanInterval: sensors and         *)
(* memory), and its fields are updated one by                              *)
(* one.  All pages live in one process and share its globals.              *)
(***************************************************************************)
EXTENDS NetworkScan, SensorsScan, BenchPage

CONSTANTS
  Machine,   \* Machine[p]: what the machine may have of what page p shows
  First,     \* First[p]: what it has of it when the program starts
  Parts,     \* bound: the sets of pages explored together
  Still,     \* bound: those explored on the machine as it is at first
  Sizes,     \* bound: how many results the pages of benchmarks may be limited to
  MaxIcons   \* bound: no scan of the storage when it has so many icons

ASSUME FirstAssumption == \A p \in DOMAIN Machine : First[p] \in Machine[p]
ASSUME PartsAssumption == \A part \in Parts \union Still : part \subseteq DOMAIN Machine
ASSUME SizesAssumption == Sizes \subseteq Int

VARIABLES
  part,      \* the pages of this behaviour
  hw,        \* hw[p]: what the machine has now of what p shows
  max_bench_results,   \* params: negative for no limit
  g,         \* the globals of the process
  shown      \* the page in the window: its rows and its fields with a timer

vars == <<part, max_bench_results, hw, g, shown>>

Pages == DOMAIN Machine
Texts == ComputerTexts \union NetworkTexts \union StorageTexts \union SensorTexts \union DeviceTexts
           \union BenchTexts

Started == [text |-> [name \in Texts |-> Null], info |-> Empty,
            done |-> {},        \* SCAN_START(): the pages that are scanned
            once |-> {}, conf |-> Empty, percentage |-> 0, bench |-> [b \in Benches |-> EmptyValue],
            ids |-> [bus \in {"usb", "pci"} |-> NoFile], lastd |-> NoDevice]
NoPage == [page |-> "", rows |-> Empty, fields |-> {}]
-----------------------------------------------------------------------------
(* What a page does                                                        *)

\* The scan of p, but for SCAN_START() and what it asks of other pages.
ScanComputer(p, g1, h) ==
  CASE p \in {"summary", "security"} -> g1
    [] p = "os"       -> scan_os(g1, h)
    [] p = "modules"  -> scan_modules_do(g1, h)
    [] p = "boots"    -> scan_boots_real(g1, h)
    [] p = "locales"  -> scan_languages(g1, h)
    [] p = "memory"   -> scan_memory_do(g1, h)
    [] p = "fs"       -> scan_filesystems(g1, h)
    [] p = "display"  -> scan_display(g1, h)
    [] p = "env"      -> scan_env_var(g1, h)
    [] p = "dev"      -> scan_dev(g1, h)
    [] p = "users"    -> scan_users_do(g1, h)
    [] p = "groups"   -> scan_groups_do(g1, h)

ScanDevices(p, g1, h) ==
  CASE p = "processors" -> scan_processors(g1, h)
    [] p = "gpu"       -> scan_gpu_do(g1, h)
    [] p = "monitors"  -> monitors_get_info(g1, h)
    [] p = "pci"       -> scan_pci_do(g1, h)
    [] p = "usb"       -> scan_usb(g1, h)
    [] p = "firmware"  -> firmware_get_info(g1, h)
    [] p = "printers"  -> scan_printers_do(g1, h)
    [] p = "battery"   -> scan_battery_do(g1, h)
    [] p = "sensors"   -> scan_sensors_do(g1, h)
    [] p = "input"     -> scan_input_devices(g1, h)
    [] p = "storage"   -> scan_storage(g1, h)
    [] p = "dmi"       -> dmi_get_info(g1, h)
    [] p = "dmi_mem"   -> scan_dmi_mem(g1, h)
    [] p = "dtree"     -> scan_dtree(g1, h)
    [] p = "resources" -> scan_device_resources(g1, h)

ScanNetwork(p, g1, h) ==
  CASE p = "interfaces"  -> scan_net_interfaces(g1, h)
    [] p = "connections" -> scan_connections(g1, h)
    [] p = "route"       -> scan_route(g1, h)
    [] p = "arp"         -> scan_arp(g1, h)
    [] p = "dns"         -> scan_dns(g1, h)
    [] p = "statistics"  -> scan_statistics(g1, h)
    [] p = "shares"      -> scan_shares(g1, h)

\* The benchmark is done, whatever comes of it.
ScanBench(b, g1, h) == [g1 EXCEPT !.bench[b] = do_benchmark(b, h, h.cpus)]

Computer == {"summary", "os", "modules", "boots", "locales", "memory", "fs", "display",
             "env", "dev", "users", "groups", "security"}
Network  == {"interfaces", "connections", "route", "arp", "dns", "statistics", "shares"}
ScanOf(p, g1, h) == CASE p \in Computer -> ScanComputer(p, g1, h)
                      [] p \in Network  -> ScanNetwork(p, g1, h)
                      [] p \in Benches  -> ScanBench(p, g1, h)
                      [] OTHER          -> ScanDevices(p, g1, h)

\* What p looks at; the languages are read for two pages, and the processors counted
\* for the threads of a benchmark.
HardwareOf(p, machine) ==
  CASE p = "locales"   -> machine["os"].languages
    [] p \in Benches   -> machine[p] @@ ("cpus" :> cpu_procs_cores_threads_nodes(machine["processors"]))
    [] OTHER           -> machine[p]

\* What p's scan or callback asks for, in that order; scanned once at most.
GpuAsks(machine, g1) ==
  LET h        == machine["gpu"]
      cards    == SelectSeq(h.devices, LAMBDA d : d.class \in 768..1023) # <<>>
      renderer == IF "display" \in g1.done THEN g1.text["display"].lines # <<>> ELSE machine["display"] # <<>>
  IN CASE cards -> <<"display">> \o IF renderer /\ h.software /\ ~h.virtual THEN <<"processors">> ELSE <<>>
       [] OTHER -> IF dt_soc_gpu(h.nodes) # <<>> THEN <<"processors">> ELSE <<>>

SummaryOf == <<"os", "display", "processors", "gpu", "input", "printers", "storage">>
Asks(p, machine, g1) ==
  CASE p = "summary"            -> SummaryOf
    [] p \in {"boots", "locales"} -> <<"os">>
    [] p = "memory"             -> IF "offset" \in g1.once THEN <<>> ELSE <<"os">>
    [] p = "gpu"                -> GpuAsks(machine, g1)
    [] OTHER                    -> <<>>

\* SCAN_START(), the scan, SCAN_END()
ScanOnce(machine, g1, p) ==
  IF p \in g1.done THEN g1
  ELSE [ScanOf(p, g1, HardwareOf(p, machine)) EXCEPT
          !.done = @ \union {p}, !.once = IF p = "memory" THEN @ \union {"offset"} ELSE @]

\* A benchmark without a result is done again.
Known(g1, p) == p \in g1.done /\ (p \in Benches => g1.bench[p].result > 0)
Scan(g1, p, reload, machine) ==
  IF ~reload /\ Known(g1, p) THEN g1
  ELSE FoldLeft(LAMBDA g2, q : ScanOnce(machine, g2, q),
                [g1 EXCEPT !.done = @ \ {p}], Asks(p, machine, g1) \o <<p>>)

\* With a result of this machine, what other pages know of it is asked for.
Asked(g1, p, machine) ==
  IF p \in Benches /\ g1.bench[p].result > 0
  THEN Topology(FoldLeft(LAMBDA g2, q : Scan(g2, q, FALSE, machine), g1, BenchAsks), machine["processors"])
  ELSE g1

\* The callback that makes p's page; only these change anything.
Callback(g1, p, machine, size) ==
  CASE p = "processors" -> processor_get_info(g1, machine[p])
    [] p = "security"   -> SecurityPage(g1, machine[p])
    [] p \in Benches    -> benchmark_include_results_reverse(g1, p, machine, size)
    [] OTHER            -> g1

\* What p is opened with: the scan, what its callback asks for, and the page.  The
\* sets have one element, which is a way to name it.
Opened(g1, p, reload, machine, size) ==
  {Callback(asked, p, machine, size) :
     asked \in {Asked(scanned, p, machine) : scanned \in {Scan(g1, p, reload, machine)}}}

\* The texts that the callback of p makes the page of; the first is its list.
ComputerPage(p) ==
  CASE p = "os" -> <<"os">>              [] p = "boots" -> <<"boots">>
    [] p = "locales" -> <<"languages">>  [] p = "modules" -> <<"module_list", "icons">>
    [] p = "memory" -> <<"meminfo", "lginterval">>
    [] p = "fs" -> <<"fs_list">>         [] p = "display" -> <<"display">>
    [] p = "env" -> <<"_env">>           [] p = "dev" -> <<"dev_list">>
    [] p = "users" -> <<"users">>        [] p = "groups" -> <<"groups">>
    [] p = "security" -> <<"security">>
    [] p = "summary" -> <<"os", "processors", "display", "gpu_summary", "input_list",
                          "printer_list", "storage_list">>

NetworkPage(p) ==
  CASE p = "interfaces" -> <<"network_interfaces", "network_icons">>
    [] p = "connections" -> <<"__connections">>  [] p = "route" -> <<"__routing_table">>
    [] p = "arp" -> <<"__arp_table">>            [] p = "dns" -> <<"__nameservers">>
    [] p = "statistics" -> <<"__statistics">>
    [] p = "shares" -> <<"smb_shares_list", "nfs_shares_list">>

DevicesPage(p) ==
  CASE p = "processors" -> <<"processors">>
    [] p = "gpu" -> <<"gpu_list">>       [] p = "monitors" -> <<"monitors_info">>
    [] p = "pci" -> <<"pci_list">>       [] p = "usb" -> <<"usb_list", "usb_icons">>
    [] p = "firmware" -> <<"firmware_info">>
    [] p = "printers" -> <<"printer_list", "printer_icons">>
    [] p = "battery" -> <<"battery_list">>
    [] p = "sensors" -> <<"sensors", "lginterval", "sensor_icons">>
    [] p = "input" -> <<"input_list", "input_icons">>
    [] p = "storage" -> <<"storage_list", "storage_icons">>
    [] p = "dmi" -> <<"dmi_info">>       [] p = "dmi_mem" -> <<"memory_devices_info">>
    [] p = "dtree" -> <<"dtree_info">>   [] p = "resources" -> <<"_resources">>

TextsOf(p) == CASE p \in Computer -> ComputerPage(p)
                [] p \in Network  -> NetworkPage(p)
                [] p \in Benches  -> <<"results">>
                [] OTHER          -> DevicesPage(p)

LinesOf(g1, p) == g1.text[TextsOf(p)[1]].lines
KeysIn(lines)  == {lines[i][1] : i \in {j \in DOMAIN lines : Keyed(lines[j])}}
Rescanned      == {"sensors", "memory"}

\* What a page shows: its texts, and the details of its rows.  The storage icons
\* are appended to by every scan: a key then has several, all the same.
Content(g1, p) ==
  [texts   |-> [name \in Range(TextsOf(p)) \ {"storage_icons"} |-> g1.text[name]],
   details |-> LET keys == KeysIn(LinesOf(g1, p)) \intersect DOMAIN g1.info
               IN [k \in keys |-> g1.info[k]]]

\* Only the rows of a rescanned page change by themselves.
PageOf(g1, p) ==
  LET lines == LinesOf(g1, p)
      value(k) == lines[CHOOSE i \in DOMAIN lines : lines[i][1] = k][2]
  IN [page |-> p,
      rows   |-> IF p \in Rescanned THEN [k \in KeysIn(lines) |-> value(k)] ELSE Empty,
      fields |-> IF p \in Rescanned THEN KeysIn(g1.text["lginterval"].lines) ELSE {}]
-----------------------------------------------------------------------------
DefaultSize == 250
Init ==
  /\ part \in Parts \union Still
  /\ max_bench_results \in IF part \subseteq Benches THEN Sizes ELSE {DefaultSize}
  /\ hw = First
  /\ g = Started /\ shown = NoPage

\* What page p can find changes: a device comes or goes, a file can be read or not.
Change(p) ==
  /\ p \in part /\ part \in Parts
  /\ \E h \in Machine[p] \ {hw[p]} : hw' = [hw EXCEPT ![p] = h]
  /\ UNCHANGED <<part, max_bench_results, g, shown>>

\* Another entry is selected: its page is scanned if it never was.  Or the one that is
\* shown is reloaded: F5, or its reload interval.
Open(p) ==
  /\ p \in part
  /\ Len(g.text["storage_icons"].lines) < MaxIcons
  /\ g' \in Opened(g, p, p = shown.page, hw, max_bench_results)
  /\ shown' = PageOf(g', p)
  /\ UNCHANGED <<part, max_bench_results, hw>>

\* The rescan interval: what the page shows is left to the timers of the fields.
Rescan ==
  /\ shown.page \in Rescanned
  /\ g' = Scan(g, shown.page, TRUE, hw)
  /\ UNCHANGED <<part, max_bench_results, hw, shown>>

\* A field's timer: its row gets the value in the table; with no such row it ends.
Field(k) ==
  /\ k \in shown.fields
  /\ shown' = IF k \in DOMAIN shown.rows
              THEN [shown EXCEPT !.rows[k] = Lookup(g.info, k, -1)]
              ELSE [shown EXCEPT !.fields = @ \ {k}]
  /\ UNCHANGED <<part, max_bench_results, hw, g>>

Next == \/ \E p \in Pages : Change(p) \/ Open(p)
        \/ Rescan
        \/ \E k \in shown.fields : Field(k)

Spec == Init /\ [][Next]_vars

\* The timers of the page are timeouts of the main loop, which all run.
FairSpec == Spec /\ WF_vars(Rescan) /\ WF_vars(\E k \in shown.fields : Field(k))
-----------------------------------------------------------------------------
(* Properties                                                              *)

\* What never goes back to a value a new process could have: two lists are filled
\* once, the summary does not read its parts again, slow sensors and the
\* configuration of the others are read once, the estimate of APM stays; a file with
\* names that came later is not looked for, a PCI device may have the names of the one
\* looked up before it, whichever page did (pci_util.c:97), a GPU is named after what
\* other pages have read, and so is the machine of a benchmark's result; and some scans
\* that find nothing leave what was found.
Remembers(p, h) ==
  \/ p \in {"processors", "dmi_mem", "summary", "env"}
  \/ p \in {"users", "groups"} /\ h = <<>>
  \/ p \in {"input", "interfaces"} /\ ~h.readable
  \/ p = "sensors"  /\ "hwmon" \in g.once
       /\ \E chip \in Range(h.hwmon) : chip.slow \/ Lookup(h.conf, chip.name, Empty) # Lookup(g.conf, chip.name, Empty)
  \/ p = "printers" /\ (~h.libcups \/ h.printers = <<>>)
  \/ p = "battery"  /\ h.apm # 0
  \/ p = "modules"  /\ h.json # "good"
  \/ p \in {"usb", "pci", "gpu"} /\
       LET bus == IF p = "usb" THEN "usb" ELSE "pci"
       IN \/ g.ids[bus] \notin {NoFile, FindIds(Started, bus, h.ids).ids[bus]}
          \/ bus = "pci" /\ \E d \in Range(h.devices) :
               SameDevice(g.lastd, d) /\ g.lastd.names # pci_names(g.ids["pci"], d)
  \/ \E q \in (IF p = "gpu" THEN {"display", "processors"} ELSE Range(BenchAsks)) \intersect g.done :
       p \in Benches \union {"gpu"} /\ g.text[TextsOf(q)[1]] # Scan(Started, q, FALSE, hw).text[TextsOf(q)[1]]
  \/ p = "shares"   /\ \A i \in DOMAIN (h.smbconf \o h.usershares) :
                          (h.smbconf \o h.usershares)[i].shares = <<>>

\* After F5 or a reload interval a page shows what a process started now would
\* show: its texts and details keep nothing of the devices that have gone, and no
\* device that came is missing (SCAN_START and what each scan frees, deletes and
\* sets before it fills its list).
ReloadEqualsFreshStart ==
  [][Open(shown.page) =>
       LET p == shown.page
       IN \/ Remembers(p, hw[p])
          \/ \A fresh \in Opened(Started, p, FALSE, hw, max_bench_results) : Content(g', p) = Content(fresh, p)]_vars

\* Pages that do share a global: the boots and the languages are part of the
\* operating system's record (the boots vanish with it), sensors and memory have one
\* list of intervals (a benchmark's page scans the memory too), the benchmarks have
\* one table of results, and the summary is made of other pages.
Coupled(p, q) ==
  \/ <<p, q>> \in {<<"os", "boots">>, <<"os", "locales">>, <<"sensors", "memory">>, <<"memory", "sensors">>}
  \/ p \in Benches /\ q \in Benches \union {"sensors"}
  \/ q = "summary"

\* To show, reload or rescan a page never changes what another scanned page shows,
\* although the details of all devices are in one table and are deleted by prefix
\* (moreinfo_del_with_prefix() and the prefixes of the scans), but for Coupled.
PagesIndependent ==
  [][\A q \in g.done :
       \/ q \in {shown.page, shown'.page} \/ Coupled(shown'.page, q)
       \/ Content(g', q) = Content(g, q)]_vars

\* The texts that are freed and yet used: the printers' icons when the last printer
\* has gone (printers.c:274), the environment that is read again (environment.c:36),
\* and the modules' icons when their file can no longer be parsed.
Dangling == {"printer_icons", "_env", "icons"}

\* No page is made of a text that was freed and not made again.
TextsAllocated ==
  \A p \in g.done : \A i \in DOMAIN TextsOf(p) :
    TextsOf(p)[i] \in Dangling \/ g.text[TextsOf(p)[i]] # Freed

\* A row with a key has its details, those of the scan that listed it, whatever
\* other pages deleted or added since.  Two firmware names with a comma may be cut
\* to one key; the processors' details come with their page.
RowsHaveDetails ==
  \A p \in g.done \ {"summary", "processors"} : \A i \in DOMAIN LinesOf(g, p) :
    LET line == LinesOf(g, p)[i]
    IN Keyed(line) => \/ line[1] \in DOMAIN g.info /\ g.info[line[1]] = line[2]
                      \/ line[1][1] = FirmwareRest

\* The summary of the processors counts each cache once: two processors have the same
\* cache when the same processors share it (the number or the list that
\* processor.c:354-368 tells caches apart by, through a sort and two passes over it).
Caches(cpus) == UNION {{<<c.type, c.level, c.shared>> : c \in Range(cpus[i].caches)} : i \in DOMAIN cpus}
CachesCountedOnce ==
  <<"DEV:CPU", Meta>> \in DOMAIN g.info =>
    LET counted == g.info[<<"DEV:CPU", Meta>>].caches
    IN Cardinality(Caches(CpusOf(g))) = Total([i \in DOMAIN counted |-> counted[i].count])

\* The page of a benchmark ranks this machine: the results go down; there are as many
\* as may be shown; none between the first and the last is left out; this machine is
\* there once if it has a result, and half of those shown are better, unless that
\* would be beyond the best or the worst (get_bench_window(), benchmark.c:490-521).
ResultsOf(b) == (IF g'.bench[b].result > 0 THEN <<g'.bench[b].result>> ELSE <<>>)
                \o [i \in DOMAIN benchmark_include_results_json(find_benchmark_conf(hw[b])) |->
                      benchmark_include_results_json(find_benchmark_conf(hw[b]))[i].value.result]
Times(list, x)  == Cardinality({i \in DOMAIN list : list[i] = x})
RowsShown       == [i \in DOMAIN g'.text["results"].lines |-> g'.text["results"].lines[i][2]]
Rightly(all, rows, limit) ==
  LET results == [i \in DOMAIN rows |-> rows[i].result]
      here    == {i \in DOMAIN rows : rows[i].this}
      size    == CASE limit < 0 -> Len(all) [] limit = 0 -> Cardinality(here) [] OTHER -> Min({limit, Len(all)})
      above(i) == i - 1 = limit \div 2
                    \/ (i - 1 < limit \div 2 /\ results[1] = Max(Range(all)))
                    \/ (i - 1 > limit \div 2 /\ results[size] = Min(Range(all)))
  IN /\ Len(rows) = size
     /\ \A i, j \in DOMAIN rows : i < j => results[i] >= results[j]
     /\ \A x \in Range(all) : rows # <<>> /\ x < results[1] /\ x > results[size] => Times(results, x) = Times(all, x)
     /\ limit > 0 => \A i \in here : above(i)
WindowAroundThis ==
  [][\A b \in Benches : shown'.page = b /\ hw' = hw =>
       /\ Rightly(ResultsOf(b), RowsShown, max_bench_results)
       /\ Cardinality({i \in DOMAIN RowsShown : RowsShown[i].this}) = IF g'.bench[b].result > 0 THEN 1 ELSE 0]_vars

\* The rows agree with the machine, when what it has now has the same keys.  After
\* sensors and memory were both shown one of them has the intervals of the other.
Current ==
  \/ shown.page \notin Rescanned \/ Rescanned \subseteq g.done
  \/ \E now \in {Scan(g, shown.page, TRUE, hw)} :
       LET page == PageOf(now, shown.page)
       IN DOMAIN page.rows = DOMAIN shown.rows => page.rows = shown.rows

\* When the machine changes no more and the user stays on the page, the rows of a
\* rescanned page end up with the machine's readings: the rescan and the fields'
\* timers, which know nothing of each other, together bring every change to its row.
FieldsFollowScan ==
  <>[][UNCHANGED <<hw, shown.page>>]_vars => <>[]Current
=============================================================================
