---------------------------- MODULE SensorsScan ----------------------------
(***************************************************************************)
(* The scan of the sensors (modules/devices/sensors.c; see ComputerScan    *)
(* for g and h).  Every reading gets the next number of the scan, and the  *)
(* number is part of its key: a reading that fails or is left out moves    *)
(* the keys of all that follow.                                            *)
(*                                                                         *)
(* h has a field for each source: the entries that it has, in their order. *)
(* A reading is the source it is listed under, its name and its value.     *)
(***************************************************************************)
EXTENDS MoreInfo

SensorTexts == {"sensors", "sensor_icons", "lginterval"}

From(parent, id, v) == [parent |-> parent, id |-> id, v |-> v]
Of(parent, entries) == [i \in DOMAIN entries |-> From(parent, entries[i].id, entries[i].v)]
Read(entries)       == SelectSeq(entries, LAMBDA e : e.readable)
-----------------------------------------------------------------------------
(* What the kernel's hardware monitors say, and the configuration of       *)
(* lm-sensors, by chip and item, which is read on the first run only.      *)

Kinds     == <<"fan", "temp", "in", "curr", "power", "vid">>   \* in the order of hwmon_sensors
Place(kind) == CHOOSE k \in DOMAIN Kinds : Kinds[k] = kind
NotInConf == [label |-> Missing, formula |-> Missing]

read_sensor_labels(g, h) ==
  IF "hwmon" \in g.once THEN g
  ELSE [g EXCEPT !.conf = [c \in {chip.name : chip \in Range(h.hwmon)} |-> Lookup(h.conf, c, Empty)]]

InConf(g, chip, item) == Lookup(Lookup(g.conf, chip.name, Empty), item, NotInConf)

\* The name in the configuration, the one that the chip has for it, or the item's own
NameOf(g, chip, s) == CASE InConf(g, chip, s.item).label # Missing -> InConf(g, chip, s.item).label
                        [] s.label # Missing                       -> s.label
                        [] OTHER                                   -> s.item

\* One chip: its readable items kind by kind, in the order of their numbers.
HwmonChip(g, chip) ==
  LET before(s, t) == Place(s.kind) < Place(t.kind) \/ (s.kind = t.kind /\ s.id < t.id)
      reading(s)   == From(chip.name, NameOf(g, chip, s), <<s.v, InConf(g, chip, s.item).formula>>)
      shown        == SelectSeq(Read(chip.items), LAMBDA s : NameOf(g, chip, s) # "ignore")
  IN [i \in DOMAIN shown |-> reading(SortSeq(shown, before)[i])]

\* After the first run the 1-Wire bus, which is slow, is not read.
read_sensors_hwmon(g, h) ==
  LET chips == SelectSeq(h.hwmon, LAMBDA c : ~c.slow \/ "hwmon" \notin g.once)
  IN FlattenSeq([i \in DOMAIN chips |-> HwmonChip(g, chips[i])])
-----------------------------------------------------------------------------
(* The other sources                                                       *)
read_sensors_acpi(h)        == Of("ACPI Thermal Zone", Read(h.acpi))
read_sensors_sys_thermal(h) == Of("thermal", Read(h.thermal))
read_sensors_omnibook(h)    == Of("omnibook", h.omnibook)
read_sensors_udisks2(h)     == Of("udisks2", h.udisks2)

\* The current frequency of the processors, or of old kernels the one in /proc/cpuinfo
read_sensors_cpufreq(h) ==
  IF h.cpufreq # <<>> THEN Of("cpufreq", h.cpufreq) ELSE Of("core", h.cpuinfo)

\* The files of the fans first, then those of the other types
WindfarmTypes == <<"fan", "temp", "power", "curr", "in">>
PlaceOf(type) == CHOOSE t \in DOMAIN WindfarmTypes : WindfarmTypes[t] = type
read_sensors_windfarm(h) ==
  Of("windfarm", SortSeq(Read(h.windfarm), LAMBDA a, b : PlaceOf(a.type) < PlaceOf(b.type)))

\* A line of the file that the service leaves; its head says ID, and a line is listed
\* once for every unit that is found in its fifth column.
Units == <<"C", "RPM", "A", "V", "W">>
add_ipmi_sensors(line) ==
  LET units == IF line.short \/ line.head THEN <<>> ELSE SelectSeq(Units, LAMBDA u : u \in line.units)
  IN [i \in DOMAIN units |-> From("ipmi", line.id, <<line.v, units[i]>>)]
read_sensors_ipmi(h) == FlattenSeq([i \in DOMAIN h.ipmi |-> add_ipmi_sensors(h.ipmi[i])])

\* The features of a type it knows that can be read
read_sensors_libsensors(h) ==
  Of("libsensors", SelectSeq(Read(h.libsensors), LAMBDA f : f.type \in Range(Kinds)))
-----------------------------------------------------------------------------
\* One reading, the n-th of the scan: the line that it is in the list, the icons, the
\* intervals and the table.
add_sensor(n, r) == Line("DEV:" \o r.parent, <<n, r.id>>, r.v)

WithReadings(g, readings) ==
  LET lines == [n \in DOMAIN readings |-> add_sensor(n, readings[n])]
  IN [g EXCEPT !.text = [@ EXCEPT !["sensors"] = Heap(lines), !["sensor_icons"] = Heap(lines),
                                  !["lginterval"] = Heap(lines)],
               !.info = AddLines(@, lines)]

\* What the kernel says is read when libsensors reads nothing.
KernelReadings(g, h) ==
  read_sensors_hwmon(g, h) \o read_sensors_acpi(h) \o read_sensors_sys_thermal(h) \o read_sensors_omnibook(h)
OtherReadings(h) ==
  read_sensors_ipmi(h) \o read_sensors_cpufreq(h) \o read_sensors_windfarm(h) \o read_sensors_udisks2(h)

\* (The readings are bound, not a LET, so that ENABLED evaluates them once.)
ScannedWith(g, first, h) ==
  CHOOSE g1 \in {WithReadings(g, readings) : readings \in {first \o OtherReadings(h)}} : TRUE
scan_sensors_do(g, h) ==
  IF read_sensors_libsensors(h) # <<>> THEN ScannedWith(g, read_sensors_libsensors(h), h)
  ELSE LET labelled == read_sensor_labels(g, h)
       IN [ScannedWith(labelled, KernelReadings(labelled, h), h) EXCEPT !.once = @ \union {"hwmon"}]
=============================================================================
