------------------------------ MODULE MCPages ------------------------------
(* What each page may find on the machine, and which pages are explored    *)
(* together.                                                               *)
EXTENDS Pages

D(i, v) == [id |-> i, v |-> v]

\* Nothing, a device, another version of it, two out of order
Devices == {<<>>, <<D(1, 1)>>, <<D(1, 2)>>, <<D(2, 1), D(1, 1)>>}

\* A distribution by its release files, one of old files only, one that is another in
\* disguise; what runs on it and what it answers; the languages.
Os(etc, usr, files, packages, run, env, manager, bits, zram, zswap, languages) ==
  [release |-> (IF etc = <<>> THEN <<>> ELSE "etc/os-release" :> etc[1])
               @@ (IF usr = <<>> THEN <<>> ELSE "usr/lib/os-release" :> usr[1]),
   files |-> files, packages |-> packages, versions |-> "mxlinux" :> 23, run |-> run, env |-> env,
   manager |-> manager, locale |-> "en", kernel |-> 6, bits |-> bits, zram |-> zram, zswap |-> zswap,
   languages |-> languages]
Release(id, version, cachy) == [name |-> <<<<id, version>>>>, code |-> version, id |-> id, cachy |-> cachy]
Zram(size, stat, chosen, algorithms) ==
  [disksize |-> size, stat |-> stat, chosen |-> chosen, algorithms |-> algorithms]
Zswap(enabled) == [enabled |-> enabled, shrinker |-> "Y", compressor |-> IF enabled = "N" THEN "zstd" ELSE Missing]
Locales(found, list) == [found |-> found, locales |-> list]
None == [k \in {} |-> 0]
MCOs ==
  {Os(<<Release("debian", 12, FALSE)>>, <<Release("debian", 12, FALSE)>>, "debian_version" :> 12, {"mxlinux", "pureos"},
      "ldd" :> {"GLIBC", "GNU libc"} @@ "gnome-shell" :> {"GNOME Shell "},
      "XDG_CURRENT_DESKTOP" :> "GNOME" @@ "XDG_SESSION_TYPE" :> "wayland" @@ "LANG" :> "en", "Mutter", 256,
      Zram(4, <<1, 2, 3>>, Missing, "lzo"), Zswap("N"), Locales(TRUE, <<D(1, 1)>>)),
   Os(<<Release("arch", 1, TRUE)>>, <<Release("arch", 2, FALSE)>>, "arch-release" :> 3, {}, "ldd" :> {"musl libc"},
      "XDG_SESSION_DESKTOP" :> "KDE" @@ "LC_ALL" :> "C" @@ "LANGUAGE" :> "en:de", "", 4000,
      Zram(4, <<1>>, "zstd", "lzo"), Zswap("Y"), Locales(TRUE, <<D(2, 1), D(1, 2)>>)),
   Os(<<Release("ubuntu", 24, FALSE)>>, <<>>, None, {"kubuntu"}, "ldconfig -v" :> {"uClibc"} @@ "kwin" :> {"KDE: "},
      "KDE_FULL_SESSION" :> 1 @@ "KDE_SESSION_VERSION" :> 4, "Xfwm4", 2, Zram(Unknown, <<>>, Missing, Missing), Zswap("N"),
      Locales(FALSE, <<>>)),
   Os(<<Release("rhel", 9, FALSE)>>, <<Release("mandriva", 9, FALSE)>>,
      "redhat-release" :> 9 @@ "slackware-version" :> 15, {}, None,
      "XDG_CURRENT_DESKTOP" :> "MATE" @@ "XDG_SESSION_TYPE" :> "unspecified", "", 0,
      Zram(2, <<>>, Missing, Missing), Zswap(""), Locales(TRUE, <<>>)),
   Os(<<Release("sparky", 7, FALSE)>>, <<>>, "debian_version" :> 11, {}, "diet" :> {"diet version"},
      "DESKTOP_SESSION" :> "lxqt" @@ "XDG_CURRENT_DESKTOP" :> "" @@ "XDG_SESSION_TYPE" :> "x11", "Openbox", 256,
      Zram(Unknown, <<>>, Missing, Missing), Zswap(""), Locales(TRUE, <<D(1, 1)>>)),
   Os(<<>>, <<Release("fedora", 40, FALSE)>>, "gentoo-release" :> 2 @@ "NIXOS" :> 1, {}, None, None, "Metacity", 0,
      Zram(Unknown, <<>>, Missing, Missing), Zswap("Y"), Locales(TRUE, <<D(1, 1)>>)),
   Os(<<>>, <<>>, None, {}, "mate-about" :> {"MATE Desktop Environment "}, None, "", 0, Zram(Unknown, <<>>, Missing, Missing), Zswap(""),
      Locales(FALSE, <<>>))}

Security(run, bits, readable, root, vulnerabilities) ==
  [run |-> run, bits |-> bits, readable |-> readable, root |-> root, aslr |-> IF root THEN 3 ELSE 2,
   systype |-> "Root Only System", lsm |-> IF readable THEN "apparmor" ELSE Missing, landlock |-> root,
   enrolled |-> 2, vulnerabilities |-> vulnerabilities]
MCSecurity ==
  {Security(None, 0, TRUE, FALSE, <<>>),
   Security("mokutil" :> {"enabled"} @@ "selinuxenabled" :> {"0"}, 256, FALSE, TRUE,
            <<{"Not affected"}, {"Mitigation:", "vulnerable"}, {"Mitigation:"}, {}>>),
   Security("bootctl" :> {"disabled"} @@ "selinuxenabled" :> {"1"}, 4000, TRUE, FALSE, <<{"Not affected", "KVM: Mitigation:"}>>),
   Security("bootctl" :> {"setup"}, 4000, TRUE, FALSE, <<{"Vulnerable"}>>)}

\* libsensors has the machine's sensors, with a feature it does not know; or hwmon has,
\* a slow chip and one that the configuration names; or the slow one has gone and one
\* that it names has come.  The other sources are spread over these.
Sensor(kind, n, v, label) ==
  [kind |-> kind, id |-> n, item |-> <<kind, n>>, v |-> v, label |-> label, readable |-> n # 9]
Chip(name, slow, items) == [name |-> name, slow |-> slow, items |-> items]
Feature(i, type, readable) == [id |-> i, v |-> 1, type |-> type, readable |-> readable]
Ipmi(i, v, units) == [id |-> i, v |-> v, units |-> units, short |-> FALSE, head |-> i = 0]
NoSensors == [hwmon |-> <<>>, conf |-> Empty, acpi |-> <<>>, thermal |-> <<>>, omnibook |-> <<>>,
              udisks2 |-> <<>>, cpufreq |-> <<>>, cpuinfo |-> <<>>, windfarm |-> <<>>, ipmi |-> <<>>,
              libsensors |-> <<>>]
InFile(label, formula) == [label |-> label, formula |-> formula]
SensorsConf == "lm78" :> (<<"fan", 1>> :> InFile("ignore", Missing) @@ <<"temp", 2>> :> InFile(Missing, 2))
               @@ "lm80" :> (<<"fan", 1>> :> InFile("ignore", Missing))
Lm78 == Chip("lm78", FALSE, <<Sensor("temp", 2, 1, "AUX"), Sensor("fan", 1, 1, Missing), Sensor("in", 9, 1, Missing)>>)
MCSensors ==
  {[NoSensors EXCEPT !.libsensors = <<Feature(1, "temp", TRUE), Feature(2, "beep", TRUE), Feature(3, "in", FALSE)>>,
                     !.ipmi = <<Ipmi(0, 0, {"C"}), Ipmi(1, 1, {"A"}), Ipmi(2, 1, {})>>],
   [NoSensors EXCEPT !.hwmon = <<Chip("w1", TRUE, <<Sensor("temp", 1, 1, Missing)>>), Lm78>>, !.conf = SensorsConf,
                     !.acpi = <<Feature(1, "temp", FALSE)>>],
   [NoSensors EXCEPT !.hwmon = <<Chip("lm80", FALSE, <<Sensor("fan", 1, 1, "Case")>>)>>, !.conf = SensorsConf,
                     !.windfarm = <<Feature(1, "temp", TRUE)>>]}

MCModules == {[json |-> j, lsmod |-> l, modules |-> d] :
                j \in {"good", "bad", "gone"}, l \in BOOLEAN,
                d \in {<<>>, <<D(1, 1)>>, <<D(2, 1), D(1, 2)>>}}

M(i, size) == [id |-> i, v |-> 1, size |-> size]
MCFilesystems == {[mtab |-> m, mounts |-> f] :
                    m \in BOOLEAN, f \in {<<>>, <<M(2, 1), M(1, 1)>>, <<M(2, 1), M(1, 0)>>}}

\* Two devices of one bus out of order with their hub, which has no interface in
\* use, and the directory of an interface
If(class, subclass, exists) == [class |-> class, subclass |-> subclass, protocol |-> 1, exists |-> exists]
Usb(bus, dev, v, class, ifs) ==
  [bus |-> bus, dev |-> dev, v |-> v, vendor |-> 1, product |-> dev, class |-> class, interfaces |-> ifs]
Readable == {{}, {"installed"}, {"installed", "user"}}
MCUsb == {[ids |-> r, entries |-> e] :
            r \in Readable,
            e \in {<<>>, <<Usb(0, 0, 1, 0, <<>>)>>,
                   <<Usb(1, 2, 1, 0, <<If(0, 0, TRUE), If(3, 1, TRUE)>>)>>,
                   <<Usb(2, 1, 1, 9, <<If(1, 0, FALSE)>>), Usb(0, 0, 1, 0, <<>>),
                     Usb(1, 3, 1, 0, <<If(2, 6, TRUE)>>), Usb(1, 2, 2, 0, <<>>)>>}}

\* The first two differ in their sub-device only; two are display controllers.
Card(i, v, class, device, sdevice, card) ==
  [id |-> i, v |-> v, class |-> class, vendor |-> 1, device |-> device, svendor |-> 1, sdevice |-> sdevice,
   card |-> card, drm |-> card # 0, nvidia |-> 0, intel |-> <<0, 3>>, sclk |-> <<0, 2, 1>>, mclk |-> <<2>>]
Bus(readable, devices) == [ids |-> readable, devices |-> devices]
MCPci == {Bus({}, <<>>), Bus({}, <<Card(1, 1, 512, 1, 1, 0)>>),
          Bus({"installed", "user"}, <<Card(2, 1, 512, 1, 2, 0), Card(1, 1, 512, 1, 1, 0), Card(3, 1, 770, 2, 1, 0)>>)}

Node(v, gpu, compatible) == [v |-> v, gpu |-> gpu, compatible |-> compatible, opp |-> <<1, 2>>]
Soc == <<Node(1, FALSE, {}), Node(2, TRUE, {"arm,mali", "arm,mali-450"}), Node(3, TRUE, {})>>
Gpus(readable, devices, nodes, virtual, software) ==
  [ids |-> readable, devices |-> devices, nodes |-> nodes, virtual |-> virtual, software |-> software]
MCGpu == {Gpus({}, <<Card(1, 1, 512, 1, 1, 0)>>, <<>>, FALSE, FALSE), Gpus({}, <<>>, Soc, FALSE, FALSE)}
         \union
         {Gpus({"installed"}, <<Card(2, 1, 768, 1, 1, 1), Card(1, 2, 770, 2, 1, 0), Card(3, 1, 770, 2, 2, 0)>>,
               Soc, x[1], x[2]) : x \in {<<FALSE, TRUE>>, <<TRUE, FALSE>>}}

Block(name, v, handlers, bus) == [name |-> name, v |-> v, handlers |-> handlers, bus |-> bus]
MCInput == {[readable |-> r, blocks |-> b] :
              r \in BOOLEAN,
              b \in {<<>>,
                     <<Block("pen", 1, "none", "usb"), Block("pen", 2, "none", "usb"),
                       Block("mouse", 1, "mouse", "usb")>>,
                     <<Block("UNKNOWN", 1, "none", "i2c"), Block("plain", 1, "none", "i2c"),
                       Block("keyboard", 1, "kbd", "i2c")>>}}

Table(i, v, good) == [id |-> i, v |-> v, good |-> good]
Spd(i, claimed) == [id |-> i, v |-> 1, claimed |-> claimed]
MCDmiMemory == {[arrays |-> a, sockets |-> s, spd |-> d] :
                  a \in {<<>>, <<D(1, 1)>>}, s \in {<<>>, <<D(2, 1)>>},
                  d \in {<<>>, <<Spd(3, TRUE), Spd(4, FALSE)>>}}

Monitor(i, v, connected) == [id |-> i, v |-> v, connected |-> connected]
MCMonitors == {<<>>, <<Monitor(1, 1, FALSE)>>, <<Monitor(1, 1, TRUE), Monitor(2, 1, TRUE)>>,
               <<Monitor(1, 2, FALSE), Monitor(2, 1, TRUE)>>}

Fw(i, v, updatable, comma) == [id |-> i, v |-> v, updatable |-> updatable, comma |-> comma, rest |-> "rest"]
MCFirmware == {[bus |-> b, devices |-> d] :
                 b \in BOOLEAN,
                 d \in {<<>>, <<Fw(2, 1, TRUE, FALSE), Fw(1, 1, TRUE, FALSE)>>,
                        <<Fw(2, 1, TRUE, TRUE), Fw(1, 2, TRUE, TRUE), Fw(3, 1, FALSE, FALSE)>>}}

Drive(i, v, boot) == [id |-> i, v |-> v, boot |-> boot]
Stored1(u, i, s) == [udisks2 |-> u, ide |-> i, scsi |-> s]
MCStorage ==
  {Stored1(<<>>, i, s) : i \in {<<>>, <<D(1, 1)>>}, s \in {<<>>, <<D(2, 1), D(1, 1)>>}} \union
  {Stored1(u, <<D(1, 1)>>, <<>>) : u \in {<<Drive(2, 1, FALSE), Drive(1, 1, TRUE)>>, <<Drive(1, 2, FALSE), Drive(2, 1, FALSE)>>}}

\* Each source, those of /sys and of ACPI together, all of them
Supply(i, kinds, status, type) == [id |-> i, v |-> 1, kinds |-> kinds, status |-> status, type |-> type]
Mains == Supply(1, {"ac"}, "0", "USB")
Cell(status) == Supply(2, {"battery"}, status, "Battery")
Powered(s, a, c, u) == [supplies |-> s, acpi |-> a, apm |-> c, ups |-> u]
AcpiBattery(i, info, present) == [id |-> i, v |-> 1, info |-> info, state |-> TRUE, present |-> present]
AcpiBatteries == <<AcpiBattery(1, TRUE, FALSE), AcpiBattery(2, TRUE, TRUE), AcpiBattery(3, FALSE, TRUE)>>
Ups == <<"STATUS" :> 1 @@ "LINEV" :> 2>>
MCBattery ==
  {Powered(s, a, 0, <<>>) :
     s \in {<<>>, <<Mains, Cell("Discharging")>>, <<Cell("Full"), Supply(1, {"ac"}, Missing, "Mains")>>},
     a \in {<<>>, AcpiBatteries}} \union
  {Powered(<<>>, <<>>, 1, <<>>), Powered(<<>>, <<>>, 2, Ups), Powered(<<Mains>>, AcpiBatteries, 1, Ups)}

Conf(parses, shares) == [parses |-> parses, shares |-> shares]
MCShares == {[smbconf |-> c, usershares |-> u, exports |-> e] :
               c \in {<<>>, <<Conf(TRUE, <<>>)>>, <<Conf(TRUE, <<D(1, 1)>>)>>},
               u \in {<<>>, <<Conf(TRUE, <<D(2, 1)>>), Conf(FALSE, <<>>)>>, <<Conf(TRUE, <<D(2, 1)>>)>>},
               e \in {<<>>, <<D(3, 1)>>}}

\* Type, level, size, package, number or -1, who shares it
Cache(type, level, size, sock, uid, shared) ==
  [type |-> type, level |-> level, size |-> size, sock |-> sock, uid |-> uid, shared |-> shared]
Cpu(id, family, model, flags, freq, caches) ==
  [id |-> id, name |-> family, vendor |-> IF family = 5 THEN "CyrixInstead" ELSE "GenuineIntel",
   family |-> family, model |-> model, mhz |-> 800, flags |-> flags,
   bugs |-> {}, bug_lines |-> {"f00f"}, pm |-> {}, freq |-> freq, caches |-> caches, topo |-> id]
Freq(min, max, domain, affected) == [min |-> min, max |-> max, domain |-> domain, affected |-> affected]
NoFreq == Freq(0, 0, 0, 0)
Topo(socket, core) == [socket |-> socket, core |-> core]
Processors(cpuinfo, present, topology, years) ==
  [cpuinfo |-> cpuinfo, present |-> present, topology |-> topology, nodes |-> <<>>,
   profiles |-> {}, years |-> years, released |-> {<<6>>}, sockets |-> 1]

\* Two threads of a core with a slower core of other caches; two packages whose
\* caches have no numbers; what can be read differs.
Hybrid == <<Cpu(0, 6, 9, {}, Freq(400, 900000, 1, 0), <<Cache(1, 1, 32, 0, 0, 1), Cache(2, 2, 1024, 0, 0, 1), Cache(2, 3, 8192, 0, 0, 0)>>),
            Cpu(1, 6, 9, {}, Freq(400, 900000, 1, 0), <<Cache(1, 1, 32, 0, 0, 1), Cache(2, 2, 1024, 0, 0, 1), Cache(2, 3, 8192, 0, 0, 0)>>),
            Cpu(2, 6, 9, {}, Freq(400, 700000, 0, 0), <<Cache(1, 1, 32, 0, 8, 3), Cache(2, 2, 1024, 0, 2, 2), Cache(2, 3, 8192, 0, 0, 0)>>),
            Cpu(3, 6, 9, {}, Freq(400, 900000, 0, 4), <<Cache(1, 1, 32, 0, 9, 4), Cache(2, 2, 1024, 0, 2, 2), Cache(2, 3, 8192, 0, 0, 0)>>)>>
Packages == <<Cpu(0, 5, 4, {"hw_pstate", "apic_c1e"}, NoFreq, <<Cache(1, 1, 8, 0, -1, 1)>>),
              Cpu(1, 5, 4, {"hw_pstate", "apic_c1e"}, NoFreq, <<Cache(1, 1, 8, 0, -1, 2)>>),
              Cpu(2, 7, 2, {}, NoFreq, <<Cache(1, 1, 8, 1, -1, 3)>>), Cpu(3, 7, 2, {}, NoFreq, <<>>)>>
MCProcessors ==
  {Processors(<<>>, <<>>, <<>>, "none"),
   Processors(Hybrid, <<<<0, 3>>>>, 0 :> Topo(0, 0) @@ 1 :> Topo(0, 0) @@ 2 :> Topo(0, 4) @@ 3 :> Topo(0, 5), "readable"),
   Processors(Packages, <<<<0, 1>>, <<2, 3>>>>, 0 :> Topo(0, 0) @@ 1 :> Topo(0, 1) @@ 2 :> Topo(1, 0), "bad"),
   Processors(Packages, <<>>, <<>>, "none")}

\* What firmware and devices say of the machine: a board in a virtual machine; names
\* forgotten but for the system's, a laptop; a mapped disk; nothing but a model
Id(maker, product, version) ==
  "baseboard-manufacturer" :> maker @@ "baseboard-product-name" :> product @@ "baseboard-version" :> version
System(maker, product) == "system-manufacturer" :> maker @@ "system-product-name" :> product
Itself(xen, ids, chassis, model, supplies, home, disks) ==
  [xen |-> xen, ids |-> ids, chassis |-> chassis, model |-> model, pmu |-> FALSE, acpi |-> FALSE,
   supplies |-> supplies, home |-> home, disks |-> disks]
MCSummary ==
  {Itself(FALSE, Id("Oracle", "VirtualBox", "1.2") @@ System("innotek", "VirtualBox"), 1, <<>>, {}, <<1>>, <<1>>),
   Itself(FALSE, Id("Default String", "", "0000") @@ System("To be filled by O.E.M.", "Model 1"), -1, <<>>,
          {"Battery"}, <<>>, <<2>>),
   Itself(FALSE, Id("Asus", "B550", "0000"), 3, <<>>, {}, <<>>, <<1, 2>>),
   Itself(TRUE, None, 0, <<>>, {"Mains"}, <<7>>, <<>>), Itself(FALSE, None, 99, <<"Pi">>, {}, <<0>>, <<1>>)}

\* Runs of each benchmark: it prints nothing; it does what it should; it fails half way
\* or does other work.
Crunched(prints, data, calls, late) ==
  [prints |-> prints, data |-> data, calls |-> calls, late |-> late, errors |-> late]
Out(is, n) == [is |-> is, n |-> n]
Sysbenched(version, old, new) == [prints |-> TRUE, version |-> version, old |-> old, new |-> new]
Iperf(version, parses, received) == [prints |-> TRUE, version |-> version, parses |-> parses, received |-> received]
Dd(size, written, read) == <<[size |-> size, time |-> written], [size |-> size, time |-> read]>>
Stored(short, long) == [prints |-> TRUE, short |-> short, long |-> long]
Drawn(gl, plain, vulkan) == [prints |-> TRUE, gl |-> gl, plain |-> plain, vulkan |-> vulkan]
Gear(fps) == <<[ver |-> 2, fps |-> fps, time |-> 500]>>
Framed(n, count) == [prints |-> TRUE, frames |-> [i \in 1..n |-> [count |-> count, time |-> 300]]]
Cached(kiB, faulty, n) ==
  [prints |-> TRUE, memory_kiB |-> kiB, faulty |-> faulty, speeds |-> [i \in 1..n |-> IF i = 9 THEN -1 ELSE 1000], time |-> 900]
RunsOf(b) ==
  CASE b \in Crunches -> <<Crunched(TRUE, 70000, <<200, 100, 300, 200>>, 3), Crunched(TRUE, 0, <<1, 1, 1, 1>>, 0),
                           Crunched(FALSE, 0, <<>>, 0), Crunched(TRUE, 400000, <<210, 100, 300, 200>>, 0)>>
    [] b \in Sysbenches ->
         <<Sysbenched(VersionOne + 20, <<>>, <<Out("sysbench", VersionOne + 20), Out("transferred", 900), Out("rate", 900), Out("time", 1000)>>),
           Sysbenched(VersionOne - 1, <<Out("sysbench", VersionOne - 1), Out("time", 1000), Out("transferred", 800), Out("events", 700)>>, <<>>),
           Sysbenched(-1, <<Out("usage", 0), Out("rate", 9)>>, <<>>),
           Sysbenched(0, <<Out("events", 5), Out("time", 7)>>, <<>>)>>
    [] b = "iperf3_single" ->
         <<Iperf(3, TRUE, "seconds" :> 500 @@ "bits_per_second" :> 900), Iperf(3, FALSE, None),
           Iperf(3, TRUE, "seconds" :> 500), Iperf(-1, TRUE, None)>>
    [] b = "storage_rw" ->
         <<Stored(Dd(100, 10, 5), Dd(1000, 90, 50)), Stored(<<>>, <<>>), Stored(Dd(100, 50, 40), <<>>), Stored(Dd(9, 1, 0), Dd(9, 9, 9))>>
    [] b \in {"opengl", "vulkan"} ->
         <<Drawn(Gear(500), <<>>, Gear(400)), Drawn(<<>>, Gear(300), <<>>), Drawn(<<>>, <<>>, <<>>)>>
    [] b = "gui" -> <<Framed(5, 500), Framed(2, 500), Framed(0, 0)>>
    [] b = "cachemem" -> <<Cached(9999999, FALSE, 26), Cached(9999, FALSE, 24), Cached(9999999, TRUE, 26), Cached(9999999, FALSE, 12)>>

\* Results of others around that of the first run, one of them the same, one of them
\* without a number
OfFirstRun(b) ==
  CASE b \in Sysbenches \union {"iperf3_single"}        -> 900
    [] b \in {"fib", "fft", "zlib", "bfish_threads"}    -> 800
    [] b = "nqueens" -> 3200   [] b = "raytrace" -> 2000   [] b = "cryptohash" -> 8000
    [] b = "bfish_single" -> 200                  [] b = "bfish_cores" -> 600
    [] b = "gui" -> 6747       [] b = "opengl" -> 500      [] b = "vulkan" -> 400
    [] b = "storage_rw" -> 155555                 [] b = "cachemem" -> 102400000
Node1(b, n) ==
  "BenchmarkResult" :> OfFirstRun(b) + n
  @@ "CpuName" :> <<<<n>>>> @@ "NumCpus" :> 1 @@ "NumCores" :> 4 @@ "NumNodes" :> 2 @@ "NumThreads" :> 8 @@ "MemoryInKiB" :> 9
Node2 == "CpuDesc" :> <<"old">> @@ "CpuConfig" :> <<[value |-> <<-900>>, count |-> 2]>> @@ "Legacy" :> TRUE
File(there, parses, results) == [there |-> there, parses |-> parses, results |-> results]
NoResults == File(FALSE, FALSE, <<>>)
FilesOf(b) ==
  <<[user |-> File(TRUE, TRUE, <<Node1(b, 50), Node1(b, 0), Node2, Node1(b, 20), Node1(b, -10)>>), packaged |-> NoResults],
    [user |-> NoResults, packaged |-> File(TRUE, TRUE, <<Node1(b, -20), Node1(b, 0), Node1(b, -30)>>)],
    [user |-> File(TRUE, FALSE, <<>>), packaged |-> File(TRUE, TRUE, <<Node1(b, 10)>>)],
    [user |-> NoResults, packaged |-> NoResults]>>
\* Each run with the most results, the first run with each file; for the one that is
\* explored with other pages only that a file comes
MCBench(b) == {RunsOf(b)[x[1]] @@ FilesOf(b)[x[2]] :
                 x \in IF b = "fft" THEN {<<1, 1>>, <<1, 4>>}
                       ELSE ((DOMAIN RunsOf(b)) \X {1}) \union ({1} \X (DOMAIN FilesOf(b)))}

Lists == {"display", "env", "dev", "users", "groups", "route", "arp",
          "connections", "statistics", "resources"}
Others == {"summary", "os", "security", "memory", "processors", "boots", "locales", "modules", "fs", "usb", "pci", "gpu", "printers", "input", "dmi",
           "dmi_mem", "monitors", "firmware", "dtree", "battery", "sensors", "storage",
           "interfaces", "dns", "shares"}

MCMachine == [p \in Lists \union Others \union Benches |->
  CASE p \in Lists      -> Devices
    [] p \in Benches    -> MCBench(p)
    [] p = "summary"    -> MCSummary
    [] p = "processors" -> MCProcessors
    [] p = "memory"     -> {<<D(2, 1), D(1, 1)>>, <<D(1, 2), D(2, 1)>>}
    [] p = "boots"      -> {[last |-> FALSE, boots |-> <<>>]} \union {[last |-> TRUE, boots |-> d] : d \in {<<D(1, 1)>>, <<D(2, 1), D(1, 1)>>}}
    [] p = "locales"    -> {0}
    [] p = "os"         -> MCOs
    [] p = "security"   -> MCSecurity
    [] p = "modules"    -> MCModules
    [] p = "fs"         -> MCFilesystems
    [] p = "usb"        -> MCUsb
    [] p = "pci"        -> MCPci
    [] p = "gpu"        -> MCGpu
    [] p = "printers"   -> {[libcups |-> l, printers |-> d] : l \in BOOLEAN, d \in Devices}
    [] p = "input"      -> MCInput
    [] p = "dmi"        -> {<<>>, <<Table(1, 1, FALSE)>>, <<Table(1, 1, TRUE), Table(2, 1, FALSE)>>,
                            <<Table(2, 2, TRUE)>>}
    [] p = "dmi_mem"    -> MCDmiMemory
    [] p = "monitors"   -> MCMonitors
    [] p = "firmware"   -> MCFirmware
    [] p = "dtree"      -> 0..2
    [] p = "battery"    -> MCBattery
    [] p = "sensors"    -> MCSensors
    [] p = "storage"    -> MCStorage
    [] p = "interfaces" -> {[readable |-> r, devices |-> d] : r \in BOOLEAN, d \in Devices}
    [] p = "dns"        -> {[resolvectl |-> c, resolv |-> r] : c \in Devices, r \in {<<>>, <<D(3, 1)>>}}
    [] p = "shares"     -> MCShares]

\* At first there is something of what the pages of benchmarks ask for, and something
\* with details for every page that has any.
MCFirst == [p \in DOMAIN MCMachine |->
  CASE p = "processors" -> CHOOSE h \in MCMachine[p] : h.cpuinfo = Hybrid
    [] p = "storage"    -> CHOOSE h \in MCMachine[p] : h.udisks2 # <<>>
    [] p = "summary"    -> CHOOSE h \in MCMachine[p] : h.disks = <<1, 2>>
    [] p = "gpu"        -> CHOOSE h \in MCMachine[p] : h.devices # <<>>
    [] p = "dmi_mem"    -> CHOOSE h \in MCMachine[p] : h.arrays # <<>> /\ h.sockets # <<>>
    [] p \in {"display", "users", "groups", "dmi", "monitors"} -> CHOOSE h \in MCMachine[p] : Len(h) = 2
    [] p = "os"         -> CHOOSE h \in MCMachine[p] : Len(h.languages.locales) = 2
    [] p = "modules"    -> CHOOSE h \in MCMachine[p] : h.json = "good" /\ h.modules # <<>>
    [] p = "fs"         -> CHOOSE h \in MCMachine[p] : h.mtab /\ Mounted(h) # <<>>
    [] p = "usb"        -> CHOOSE h \in MCMachine[p] : usb_get_device_list(FindIds(Started, "usb", h.ids).ids["usb"], h.entries) # <<>>
    [] p = "pci"        -> CHOOSE h \in MCMachine[p] : Len(h.devices) > 1
    [] p = "printers"   -> CHOOSE h \in MCMachine[p] : h.libcups /\ Len(h.printers) = 2
    [] p = "input"      -> CHOOSE h \in MCMachine[p] : h.readable /\ h.blocks # <<>>
    [] p = "firmware"   -> CHOOSE h \in MCMachine[p] : h.bus /\ Len(h.devices) = 3
    [] p = "dtree"      -> 1
    [] p = "sensors"    -> CHOOSE h \in MCMachine[p] : h.libsensors = <<>> /\ h.hwmon # <<>>
    [] p = "interfaces" -> CHOOSE h \in MCMachine[p] : h.readable /\ Len(h.devices) = 2
    [] OTHER            -> CHOOSE h \in MCMachine[p] : TRUE]

\* All results, only this machine's, an even and an odd number, more than there are
MCSizes == {-1, 0, 2, 3, 7}

\* Each page by itself, and those that share something
MCParts == {{p} : p \in DOMAIN MCMachine} \union
           {{"sensors", "memory"}, {"os", "boots"}, {"os", "locales"}, {"gpu", "display"}, {"gpu", "pci"},
            {"fft", "storage"}, {"fft", "summary"}, {"fft", "sensors"},
            {"summary", "printers"}, {"users", "groups"}}

\* Any two pages with details in the table
MCDetailed == {"locales", "modules", "memory", "fs", "users", "groups", "processors", "gpu", "pci", "usb", "printers", "input",
               "storage", "sensors", "dmi", "dmi_mem", "monitors", "firmware", "dtree", "interfaces"}
MCStill == {{p, q} : p, q \in MCDetailed}
=============================================================================
