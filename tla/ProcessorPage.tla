--------------------------- MODULE ProcessorPage ---------------------------
(***************************************************************************)
(* The processors (modules/devices/x86/processor.c, hardinfo2/cpu_util.c    *)
(* and the descriptions of modules/devices.c): what is read of them once,  *)
(* and what their page counts: names, frequencies, clock domains, caches.  *)
(* A processor has what /proc/cpuinfo and sysfs say of it; names, types of *)
(* caches and lists of processors are numbers in the order of the strings. *)
(***************************************************************************)
EXTENDS MoreInfo

\* The runs of equal values of a sequence, each with its length
Firsts(s) == SelectSeq([i \in DOMAIN s |-> i], LAMBDA i : i = 1 \/ s[i] # s[i - 1])
RunsFrom(s, first) ==
  [k \in DOMAIN first |->
     [value |-> s[first[k]], count |-> (IF k < Len(first) THEN first[k + 1] ELSE Len(s) + 1) - first[k]]]
Runs(s) == RunsFrom(s, Firsts(s))
Total(counts) == FoldLeft(LAMBDA n, c : n + c, 0, counts)
Values(runs) == [k \in DOMAIN runs |-> runs[k].value]
Once(s)      == Values(Runs(s))
Before(a, b) == \E i \in DOMAIN a : a[i] < b[i] /\ \A j \in 1..(i - 1) : a[j] = b[j]
InOrder(s)  == SortSeq(s, Before)
-----------------------------------------------------------------------------
(* Reading                                                                 *)

\* What a family of a vendor is called: the first rule for the family whose last
\* model is not passed, what is above family 6, and all others.
Higher == 999
Rule(family, last, name) == [family |-> family, last |-> last, name |-> name]
Families == [
  GenuineIntel |-> [above |-> "Pentium 4", other |-> "i386 class", rules |->
    <<Rule(4, Higher, "i486"), Rule(5, 3, "Pentium Classic"), Rule(5, Higher, "Pentium MMX"),
      Rule(6, 1, "Pentium Pro"), Rule(6, 6, "Pentium II"), Rule(6, 8, "Pentium III"),
      Rule(6, 9, "Pentium M"), Rule(6, Higher, "Pentium III")>>],
  AuthenticAMD |-> [above |-> "Opteron", other |-> "AMD i386 class", rules |->
    <<Rule(4, 9, "80486"), Rule(4, Higher, "5x86"), Rule(5, 3, "K5"), Rule(5, 7, "K6"),
      Rule(5, 8, "K6-2"), Rule(5, 9, "K6-III"), Rule(5, Higher, "K6-2+"), Rule(6, 0, "Athlon"),
      Rule(6, 1, "K7"), Rule(6, 2, "K75"), Rule(6, 3, "Spitfire"), Rule(6, 4, "Thunderbird"),
      Rule(6, 5, "Athlon"), Rule(6, 6, "Palomino"), Rule(6, 7, "Morgan"), Rule(6, 8, "Thoroughbred"),
      Rule(6, 9, "Athlon"), Rule(6, 10, "Barton"), Rule(6, Higher, "Athlon")>>],
  CyrixInstead |-> [above |-> "Cyrix i386 class", other |-> "Cyrix i386 class", rules |->
    <<Rule(4, Higher, "Cyrix 5x86"), Rule(5, Higher, "M1"), Rule(6, 0, "M2"), Rule(6, 5, "Cyrix III"),
      Rule(6, 6, "C5A"), Rule(6, 7, "C5B"), Rule(6, Higher, "C5C-T")>>],
  CentaurHauls |-> [above |-> "Centaur i386 class", other |-> "Centaur i386 class", rules |->
    <<Rule(5, 4, "WinChip C6"), Rule(5, 8, "WinChip 2"), Rule(5, Higher, "WinChip 2A")>>],
  GenuineTMx86 |-> [above |-> "Crusoe", other |-> "Crusoe", rules |-> <<>>]]

FamilyName(fit, cpu, known) == CASE fit # <<>>     -> fit[1].name
                                 [] cpu.family > 6 -> known.above
                                 [] OTHER          -> known.other
Fitting(cpu, known) ==
  FamilyName(SelectSeq(known.rules, LAMBDA r : r.family = cpu.family /\ cpu.model <= r.last), cpu, known)
get_processor_strfamily(cpu) ==
  IF cpu.vendor \in DOMAIN Families THEN Fitting(cpu, Families[cpu.vendor]) ELSE "Unknown"

\* Kernels that list no bugs tell some of them among the flags, or in lines of their
\* own; the same for power management.
OldBugs == {"fxsave_leak", "clflush_monitor", "11ap", "tlb_mmatch", "apic_c1e"}
BugsOf(cpu) == IF cpu.bugs # {} THEN cpu.bugs ELSE cpu.bug_lines \union (cpu.flags \intersect OldBugs)
PmOf(cpu)   == IF cpu.pm # {} THEN cpu.pm ELSE IF "hw_pstate" \in cpu.flags THEN {"hwpstate"} ELSE {}

\* The processors that are clocked with this one, as the kernel tells it
SharedList(cpu) == CASE cpu.freq.domain # 0   -> cpu.freq.domain
                     [] cpu.freq.affected # 0 -> cpu.freq.affected
                     [] OTHER                 -> cpu.id
cpufreq_update(cpu) == [min |-> cpu.freq.min, max |-> cpu.freq.max, shared |-> SharedList(cpu)]

\* The frequency is the highest the processor may be scaled to, if it can be.
Processor(cpu) ==
  [id |-> cpu.id, name |-> cpu.name, strmodel |-> get_processor_strfamily(cpu),
   mhz |-> IF cpu.freq.max > 0 THEN cpu.freq.max \div 1000 ELSE cpu.mhz,
   bugs |-> BugsOf(cpu), pm |-> PmOf(cpu), flags |-> cpu.flags,
   caches |-> cpu.caches, freq |-> cpufreq_update(cpu), topo |-> cpu.topo]
processor_scan(cpuinfo) == [i \in DOMAIN cpuinfo |-> Line("DEV:CPU", cpuinfo[i].id, Processor(cpuinfo[i]))]

\* Ranges like 0-3,8 of processors or nodes
count_from_str(ranges) == Total([i \in DOMAIN ranges |-> ranges[i][2] + 1 - ranges[i][1]])

\* Packages, cores, threads and nodes, counted once; the processors present are
\* taken to have the numbers from 0.  No number of a package or core is as 0.
MaxCoresPerPack == 256
AtLeast(n, least) == IF n < 1 THEN least ELSE n
Counted(packs, cores, threads, nodes) ==
  [packs |-> AtLeast(Cardinality(packs), 1), cores |-> AtLeast(Cardinality(cores), threads),
   threads |-> threads, nodes |-> AtLeast(nodes, 1)]
NoTopo == [socket |-> -9877, core |-> -9877]
TopoOf(h, i)    == IF i \in DOMAIN h.topology THEN h.topology[i] ELSE NoTopo
PackOf(topo)    == AtLeast(topo.socket, 0)
CoreOf(topo)    == AtLeast(PackOf(topo) * MaxCoresPerPack + topo.core, 0)
cpu_procs_cores_threads_nodes(h) ==
  LET all == 0..(count_from_str(h.present) - 1)
  IN Counted({PackOf(TopoOf(h, i)) : i \in all}, {CoreOf(TopoOf(h, i)) : i \in all},
             count_from_str(h.present), count_from_str(h.nodes))
Topology(g, h) ==
  IF IsSet(g.text["cpu_cached"]) \/ h.present = <<>> THEN g
  ELSE [g EXCEPT !.text["cpu_cached"] = Heap(<<cpu_procs_cores_threads_nodes(h)>>)]
-----------------------------------------------------------------------------
(* Describing                                                              *)

\* The names, each once; how many processors have each; and each frequency, the
\* highest first.
Names(cpus) == InOrder([i \in DOMAIN cpus |-> <<cpus[i].name>>])
processor_name(cpus) == Once(Names(cpus))
processor_describe_by_counting_names(cpus) == Runs(Names(cpus))
processor_frequency_desc(cpus) == Runs(InOrder([i \in DOMAIN cpus |-> <<-cpus[i].mhz>>]))
get_processor_max_frequency(cpus) == Max({cpus[i].mhz : i \in DOMAIN cpus} \union {0})

\* What was counted, when there is something; else the names are counted.
processor_describe(g, cpus) ==
  IF IsSet(g.text["cpu_cached"]) /\ g.text["cpu_cached"].lines[1].cores > 0
  THEN g.text["cpu_cached"].lines ELSE processor_describe_by_counting_names(cpus)

\* The domains of processors that are clocked together, then how many have each
\* range.  They are counted while they follow each other in the order of the lists.
ClocksOf(cpus) == [i \in DOMAIN cpus |-> <<cpus[i].freq.shared, cpus[i].freq.max, cpus[i].freq.min>>]
Ranges(domains) == [i \in DOMAIN domains |-> <<domains[i][3], domains[i][2]>>]
clocks_summary(cpus) ==
  Runs(Ranges(Once(InOrder(ClocksOf(SelectSeq(cpus, LAMBDA c : c.freq.max > 0))))))

\* A cache is the same one for all processors that share it: its number, or the list
\* of those who share it when the kernel gives no number.
CacheKeyByShape(c) == <<c.sock, c.type, c.level, c.size, 0, 0>>   \* mutant: the number is not compared
CacheKey(c) == <<c.sock, c.type, c.level, c.size, c.uid, IF c.uid = -1 THEN c.shared ELSE 0>>
KeysOfCaches(all) == [i \in DOMAIN all |-> CacheKey(all[i])]
Shapes(known) == [i \in DOMAIN known |-> SubSeq(known[i], 1, 4)]
caches_summary(cpus) ==
  Runs(Shapes(Once(InOrder(KeysOfCaches(FlattenSeq([i \in DOMAIN cpus |-> cpus[i].caches]))))))

\* What the dynamic loader says is supported; when it says nothing useful, V1.
ldlinux_hwcaps(profiles) == IF profiles = {} THEN {"V1"} ELSE profiles

\* The year of release, kept once a file with years was there, even if it could not
\* be read or does not have the processor.
YearIn(h, name) ==
  IF h.years = "readable" /\ Len(name) = 1 /\ name[1] \in h.released THEN "year" ELSE "unknown"
processor_year(g, h, cpus) ==
  IF IsSet(g.text["cache_processor_year"]) \/ h.years = "none" THEN g
  ELSE [g EXCEPT !.text["cache_processor_year"] = Heap(<<YearIn(h, processor_name(cpus))>>)]
YearOf(g) == IF IsSet(g.text["cache_processor_year"]) THEN g.text["cache_processor_year"].lines[1] ELSE "missing"
-----------------------------------------------------------------------------
(* The page                                                                *)
Meta == -1   \* the row of the summary
ProcessorTexts == {"processors", "cpu_cached", "cache_processor_year"}

\* The scan fills the list once.
scan_processors(g, h) ==
  IF IsSet(g.text["processors"]) \/ h.cpuinfo = <<>> THEN g
  ELSE [g EXCEPT !.text["processors"] = Heap(processor_scan(h.cpuinfo))]
CpusIn(lines) == [i \in DOMAIN lines |-> lines[i][2]]
CpusOf(g) == CpusIn(g.text["processors"].lines)

processor_meta(g, h, cpus) ==
  [name |-> processor_name(cpus), desc |-> processor_describe(g, cpus),
   freq |-> processor_frequency_desc(cpus), year |-> YearOf(g), hwcaps |-> ldlinux_hwcaps(h.profiles),
   clocks |-> clocks_summary(cpus), caches |-> caches_summary(cpus), sockets |-> h.sockets]

\* The callback adds the details: a summary, and each processor.
Described(g, h, cpus) ==
  [g EXCEPT !.info = AddLines(@, <<Line("DEV:CPU", Meta, processor_meta(g, h, cpus))>>
                                 \o g.text["processors"].lines)]
Dated(g, h, cpus) == Described(processor_year(g, h, cpus), h, cpus)
processor_get_info(g, h) == Dated(Topology(g, h), h, CpusOf(g))
=============================================================================
