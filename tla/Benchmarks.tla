----------------------------- MODULE Benchmarks -----------------------------
(***************************************************************************)
(* What each benchmark measures (modules/benchmark/), as the child process *)
(* that runs it does, and how its value comes back as a line of text.      *)
(* Results and times are in hundredths, speeds in whole units; extra is a  *)
(* sequence, empty when nothing is said.  run says what the machine makes  *)
(* of the benchmark, cpus what it has of processors.                       *)
(***************************************************************************)
EXTENDS ProcessorPage

EmptyValue == [result |-> -100, time |-> 0, threads |-> 0, revision |-> -1, extra |-> <<>>]
NotANumber == 2147483647   \* inf and nan, which are not read back

\* The line: three numbers, the revision if there is one or if something extra
\* follows, and that.
bench_value_to_str(r) ==
  <<r.result, r.time, r.threads>>
  \o (IF r.revision >= 0 \/ r.extra # <<>> THEN <<r.revision>> ELSE <<>>)
  \o (IF r.extra # <<>> THEN <<r.extra>> ELSE <<>>)

\* How many of its fields can be read counts.
FieldsRead(line) == IF NotANumber \in {line[1], line[2]} THEN 0 ELSE Len(line)
bench_value_from_str(line) ==
  [result   |-> IF FieldsRead(line) >= 3 THEN line[1] ELSE EmptyValue.result,
   time     |-> IF FieldsRead(line) >= 3 THEN line[2] ELSE EmptyValue.time,
   threads  |-> IF FieldsRead(line) >= 3 THEN line[3] ELSE EmptyValue.threads,
   revision |-> IF FieldsRead(line) >= 4 THEN line[4] ELSE EmptyValue.revision,
   extra    |-> IF FieldsRead(line) >= 5 THEN line[5] ELSE EmptyValue.extra]
-----------------------------------------------------------------------------
(* Counting calls for some seconds                                         *)

\* The file's data, repeated when it is too short; none without the file.
get_test_data(run, least) ==
  CASE run.data = 0     -> <<>>
    [] run.data < least -> <<least>>
    [] OTHER            -> <<run.data>>

\* n threads, one for each core (-1) or for each processor (0); run.calls has the
\* calls that each thread finishes in time, run.late how long the last one takes.
ThreadsFor(n, cpus) == CASE n > 0 -> n [] n < 0 -> cpus.cores [] OTHER -> cpus.threads
benchmark_crunch_for(seconds, n, run, cpus) ==
  [EmptyValue EXCEPT !.threads = ThreadsFor(n, cpus), !.time = 100 * seconds + run.late,
                     !.result = Total(SubSeq(run.calls, 1, ThreadsFor(n, cpus)))]

\* The result is the number of calls over a divisor.
Scored(r, divisor, revision, extra) ==
  [r EXCEPT !.result = (100 * @) \div divisor, !.revision = revision, !.extra = extra]
IfData(data, value) == IF data = <<>> THEN EmptyValue ELSE value

benchmark_fib(run, cpus)     == Scored(benchmark_crunch_for(5, 0, run, cpus), 100, 2, <<"a", 25>>)
benchmark_nqueens(run, cpus) == Scored(benchmark_crunch_for(5, 0, run, cpus), 25, 3, <<"q", 8>>)
benchmark_fft(run, cpus)     == Scored(benchmark_crunch_for(5, 0, run, cpus), 100, 4, <<>>)
benchmark_raytrace(run, cpus) ==   \* it does not need the data it reads
  Scored(benchmark_crunch_for(5, 1, run, cpus), 10, 2, <<"r", 500>>)
benchmark_zlib(run, cpus) ==
  IfData(get_test_data(run, 262144),
         Scored(benchmark_crunch_for(7, 0, run, cpus), 100, 3, <<"e", run.errors>>))
benchmark_cryptohash(run, cpus) ==
  IfData(get_test_data(run, 65536),
         Scored(benchmark_crunch_for(5, 0, run, cpus), 10, 3, <<"r", 250>>))
benchmark_bfish_do(n, run, cpus) ==
  IfData(get_test_data(run, 65536),
         Scored(benchmark_crunch_for(7, n, run, cpus), 100, 3, <<"s", 7>>))
-----------------------------------------------------------------------------
(* SysBench                                                                *)
VersionOne == 1000000

\* -1 when it cannot be started, 0 when it does not tell
sysbench_version(run) == run.version

\* One line of the output.  With a usage line the rest is not read; an old version
\* gives the time, which comes before the events, instead of a rate.
Quotient(n, time) == IF time = 0 THEN NotANumber ELSE (10000 * n) \div time
SysbenchLine(test, s, line) ==
  CASE s.failed             -> s
    [] line.is = "usage"    -> [s EXCEPT !.failed = TRUE]
    [] line.is = "sysbench" -> [s EXCEPT !.r.revision = line.n]
    [] line.is = "time"     -> [s EXCEPT !.r.time = line.n]
    [] line.is = "transferred" /\ test = "memory" -> [s EXCEPT !.r.result = line.n]
    [] line.is = "events" /\ test = "cpu" /\ s.r.revision < VersionOne ->
         [s EXCEPT !.r.result = Quotient(line.n, s.r.time)]
    [] line.is = "rate" /\ test = "cpu" /\ s.r.revision >= VersionOne ->
         [s EXCEPT !.r.result = line.n]
    [] OTHER                -> s
SysbenchLines(test, r, lines) ==
  FoldLeft(LAMBDA s, line : SysbenchLine(test, s, line), [r |-> r, failed |-> FALSE], lines).r

\* The command has an old and a new form; what is printed for each is in run.
sysbench_run(test, threads, parms, version, run) ==
  SysbenchLines(test, [EmptyValue EXCEPT !.threads = IF threads = 0 THEN 1 ELSE threads,
                                         !.extra = <<"time", 7, parms>>],
                IF version < VersionOne THEN run.old ELSE run.new)

\* Whether it failed is not looked at: what was read until then is the value.
benchmark_memory_run(threads, run, cpus) ==
  sysbench_run("memory", ThreadsFor(threads, cpus),
               IF sysbench_version(run) >= VersionOne + 11 THEN "100G" ELSE "3056M",
               sysbench_version(run), run)
benchmark_sbcpu(threads, run) ==
  sysbench_run("cpu", threads, "--cpu-max-prime=10000", sysbench_version(run), run)
-----------------------------------------------------------------------------
(* Network and storage                                                     *)

iperf3_version(run) == run.version
\* The speed is wanted of a JSON text; a member that is not there is 0.
Member(json, name, none) == IF name \in DOMAIN json THEN json[name] ELSE none
iperf3_client(run) ==
  IF ~run.parses THEN EmptyValue
  ELSE [EmptyValue EXCEPT !.extra = <<"iperf3">>, !.threads = 1,
                          !.time = Member(run.received, "seconds", 0),
                          !.result = Member(run.received, "bits_per_second", 0)]
benchmark_iperf3_single(run) ==
  IF iperf3_version(run) <= 0 THEN EmptyValue
  ELSE [iperf3_client(run) EXCEPT !.revision = iperf3_version(run)]

\* What dd says of a run: megabytes and hundredths of a second, written and read;
\* nothing when it is not understood.
Understood(dd) == dd # <<>> /\ dd[1].time # 0 /\ dd[2].time # 0
Speed(part) == Quotient(part.size, part.time)
AfterDd(r, dd, length) ==
  IF ~Understood(dd) THEN r
  ELSE [r EXCEPT !.time = dd[1].time + dd[2].time, !.result = (Speed(dd[1]) + Speed(dd[2])) \div 2,
                 !.extra = <<Speed(dd[2]), Speed(dd[1]), length>>]

\* A short run, and a long one when that took less than 0.2 s or was not understood.
AfterShort(r, run) == IF r.time < 20 THEN AfterDd(r, run.long, "long") ELSE r
storage_runtest(run) ==
  [AfterShort(AfterDd(EmptyValue, run.short, "short"), run) EXCEPT !.threads = 1, !.revision = 2]
-----------------------------------------------------------------------------
(* Graphics                                                                *)

\* The line of a program that draws gears: version, time, frames per second
Gears(line, time) ==
  [EmptyValue EXCEPT !.extra = <<line.ver, line.fps>>, !.threads = 1, !.time = time,
                     !.revision = 100 + line.ver, !.result = line.fps]
opengl_bench(printed) ==
  IF printed = <<>> THEN EmptyValue ELSE Gears(printed[1], printed[1].time)
benchmark_opengl(run) ==   \* without OpenGL when that failed
  IF opengl_bench(run.gl).threads # 1 THEN opengl_bench(run.plain) ELSE opengl_bench(run.gl)
vulkan_bench(run) ==
  IF run.vulkan = <<>> THEN EmptyValue ELSE Gears(run.vulkan[1], 300)

\* Five tests, each drawn for 3 s; frames are counted, and timed while drawn.  When
\* the window is closed only the tests that were over count, the others stay 0.
iterations == <<100, 300, 100, 300, 100>>
divfactor  == <<2231, 2122, 2113, 2334, 2332>>
on_draw(test, frames) == ((10000 * iterations[test] * frames.count) \div frames.time) \div divfactor[test]
guibench(run) == Total([test \in DOMAIN run.frames |-> on_draw(test, run.frames[test])])
Frames(run) == [test \in 1..5 |-> IF test \in DOMAIN run.frames THEN run.frames[test].count ELSE 0]
benchmark_gui(run) == [EmptyValue EXCEPT !.result = guibench(run), !.revision = 5, !.extra = Frames(run)]
-----------------------------------------------------------------------------
(* Caches and memory                                                       *)

\* Blocks of 4, 8, 16, ... bytes up to 128 MB, or 32 MB in a small machine, while 10 s
\* are not over: run.speeds are the speeds by then, -1 for one that is not measured.
Blocks(run) == IF run.memory_kiB <= 512 * 1024 THEN 24 ELSE 26
SpeedOf(run, i) ==
  IF i <= Blocks(run) /\ i \in DOMAIN run.speeds THEN run.speeds[i] ELSE 0

\* In a small machine the last two are as the one before.
Speeds(run) == [i \in 1..26 |-> SpeedOf(run, IF Blocks(run) = 24 /\ i > 24 THEN 24 ELSE i)]

\* The caches, cut to a whole number, and the memory weigh the same.
Truncated(n, d) == IF n < 0 THEN -((-n) \div d) ELSE n \div d
CacheScore(speeds) ==
  12800 * (4 * Truncated(speeds[8] + speeds[10] + speeds[12] + speeds[14], 4)
           + speeds[16] + speeds[18] + speeds[20] + speeds[22])
cacchemem_runtest(run) ==
  IF run.faulty THEN EmptyValue
  ELSE [EmptyValue EXCEPT !.time = run.time, !.result = CacheScore(Speeds(run)), !.threads = 1,
                          !.revision = 4, !.extra = Speeds(run)]
-----------------------------------------------------------------------------
(* All of them                                                             *)
Crunches == {"fib", "nqueens", "fft", "raytrace", "zlib", "cryptohash",
             "bfish_single", "bfish_threads", "bfish_cores"}
Sysbenches == {"sbcpu_single", "sbcpu_all", "sbcpu_quad",
               "memory_single", "memory_dual", "memory_quad", "memory_all"}
GpuBenches == {"gui", "opengl", "vulkan"}
Benches    == Crunches \union Sysbenches \union GpuBenches \union {"iperf3_single", "storage_rw", "cachemem"}

Crunch(b, run, cpus) ==
  CASE b = "fib"           -> benchmark_fib(run, cpus)
    [] b = "nqueens"       -> benchmark_nqueens(run, cpus)
    [] b = "fft"           -> benchmark_fft(run, cpus)
    [] b = "raytrace"      -> benchmark_raytrace(run, cpus)
    [] b = "zlib"          -> benchmark_zlib(run, cpus)
    [] b = "cryptohash"    -> benchmark_cryptohash(run, cpus)
    [] b = "bfish_single"  -> benchmark_bfish_do(1, run, cpus)
    [] b = "bfish_threads" -> benchmark_bfish_do(0, run, cpus)
    [] b = "bfish_cores"   -> benchmark_bfish_do(-1, run, cpus)
Sysbench(b, run, cpus) ==
  CASE b = "sbcpu_single"  -> benchmark_sbcpu(1, run)
    [] b = "sbcpu_all"     -> benchmark_sbcpu(cpus.threads, run)
    [] b = "sbcpu_quad"    -> benchmark_sbcpu(4, run)
    [] b = "memory_single" -> benchmark_memory_run(1, run, cpus)
    [] b = "memory_dual"   -> benchmark_memory_run(2, run, cpus)
    [] b = "memory_quad"   -> benchmark_memory_run(4, run, cpus)
    [] b = "memory_all"    -> benchmark_memory_run(0, run, cpus)
Measured(b, run, cpus) ==
  CASE b \in Crunches       -> Crunch(b, run, cpus)
    [] b \in Sysbenches     -> Sysbench(b, run, cpus)
    [] b = "gui"            -> benchmark_gui(run)
    [] b = "opengl"         -> benchmark_opengl(run)
    [] b = "vulkan"         -> vulkan_bench(run)
    [] b = "iperf3_single"  -> benchmark_iperf3_single(run)
    [] b = "storage_rw"     -> storage_runtest(run)
    [] b = "cachemem"       -> cacchemem_runtest(run)

\* do_benchmark(): the value of the child's line; empty when it prints none.
do_benchmark(b, run, cpus) ==
  IF run.prints THEN bench_value_from_str(bench_value_to_str(Measured(b, run, cpus))) ELSE EmptyValue
=============================================================================
