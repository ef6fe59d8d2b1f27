---------------------------- MODULE DevicesScan ----------------------------
(***************************************************************************)
(* The scans of the module "Devices", but for sensors and storage (see     *)
(* ComputerScan for g and h).                                              *)
(***************************************************************************)
EXTENDS BusLists, ProcessorPage

DeviceTexts == {"usb_list", "usb_icons", "pci_list", "gpu_list", "gpu_summary", "gpuname",
                "printer_list", "printer_icons", "input_list", "input_icons",
                "dmi_info", "memory_devices_info", "monitors_info",
                "firmware_info", "dtree_info", "battery_list", "sremaining", "_resources"}
               \union ProcessorTexts

\* The details of a family go when its list was ever made.
ForgetIf(g, list, family) ==
  IF IsSet(g.text[list]) THEN [g EXCEPT !.info = Without(@, family)] ELSE g
-----------------------------------------------------------------------------
(* USB, PCI, GPU                                                           *)

\* With no device there are no icons at all.
usb_dev(d) == [id |-> <<d.bus, d.dev>>, v |-> d]
UsbPage(g, list) ==
  LET rows  == [i \in DOMAIN list |-> usb_dev(list[i])]
      icons == [i \in DOMAIN list |-> Line("DEV:USB", rows[i].id, get_usbdev_icon(list[i]))]
  IN [ForgetIf(g, "usb_list", "DEV:USB") EXCEPT
       !.text = [@ EXCEPT
          !["usb_list"]  = Heap(IF list = <<>> THEN <<Note("no USB devices")>> ELSE Listed("DEV:USB", rows)),
          !["usb_icons"] = IF list = <<>> THEN Null ELSE Heap(icons)],
       !.info = AddAll(@, "DEV:USB", rows)]
UsbFound(g, entries) == UsbPage(g, usb_get_device_list(g.ids["usb"], entries))
scan_usb(g, h) == UsbFound(FindIds(g, "usb", h.ids), h.entries)

\* In the order of the addresses; the icons follow in the same text.
pci_dev(s) == [id |-> s.d.id, v |-> <<s.d.v, s.names>>]
PciPage(g, list) ==
  LET rows  == [i \in DOMAIN list |-> pci_dev(list[i])]
      icons == [i \in DOMAIN list |-> Line(Plain, list[i].d.id, find_icon_for_class(list[i].d.class))]
  IN [g EXCEPT !.text["pci_list"] = Heap(IF list = <<>> THEN <<Note("no PCI devices")>>
                                         ELSE Listed("DEV:PCI", rows) \o icons),
               !.info = AddAll(@, "DEV:PCI", rows)]
PciFound(found) == PciPage(found.g, SortSeq(found.list, LAMBDA a, b : a.d.id < b.d.id))
scan_pci_do(g, h) == PciFound(pci_get_device_list(ForgetIf(g, "pci_list", "DEV:PCI"), h, 0, 65535))

\* A row, its details and its part of the summary, and the name of the last GPU.
\* The key of a GPU of the device tree has no prefix.
AddGpu(g, family, id, v, nice_name, gpuname) ==
  [g EXCEPT !.text = [@ EXCEPT
               !["gpu_list"]    = Extend(@, <<Line(family, id, <<v, gpuname>>)>>),
               !["gpu_summary"] = Extend(@, <<Line(Plain, id, nice_name)>>),
               !["gpuname"]     = Heap(<<gpuname>>)],
            !.info = AddLines(@, <<Line(family, id, <<v, gpuname>>)>>)]

\* The name by which a GPU is known is that of the renderer of the display, which
\* may be the processor; of a virtual machine it is the machine's.
gpu_pci_dev(g, h, gpu) ==
  LET renderer  == g.text["display"].lines
      gpuname   == CASE h.virtual         -> <<"machine", 0>>
                     [] renderer = <<>> -> <<"card", gpu.nice_name>>
                     [] h.software       -> <<"software", processor_name(CpusOf(g))>>
                     [] OTHER            -> <<"renderer", renderer>>
  IN AddGpu(g, "DEV:GPU", gpu.id, gpu.v, gpu.nice_name, gpuname)
gpu_soc_dev(g, gpu) ==
  AddGpu(g, "DEV:dt-soc-gpu", 0, gpu.v, gpu.nice_name, <<"integrated", processor_name(CpusOf(g))>>)

GpuPage(found, h) ==
  IF found.cards \o found.soc = <<>>
  THEN [found.g EXCEPT !.text = [@ EXCEPT !["gpu_list"] = Heap(<<Note("no GPU")>>),
                                          !["gpuname"]  = Heap(<<<<"none", 0>>>>)]]
  ELSE FoldLeft(gpu_soc_dev, FoldLeft(LAMBDA g1, c : gpu_pci_dev(g1, h, c), found.g, found.cards), found.soc)
scan_gpu_do(g, h) ==
  GpuPage(gpu_get_device_list([ForgetIf(g, "gpu_list", "DEV:GPU") EXCEPT
            !.text = [@ EXCEPT !["gpu_list"] = Heap(<<>>), !["gpu_summary"] = Heap(<<>>)]], h), h)
-----------------------------------------------------------------------------
(* Printers and input devices                                              *)

\* libcups is looked for until it has been found.  Without it both texts are set
\* and the details stay; with it and no printer the icons stay freed.
scan_printers_do(g, h) ==
  LET cups     == h.libcups \/ "cups" \in g.once
      printers == Numbered(h.printers)
      listed   == cups /\ printers # <<>>
  IN [g EXCEPT !.once = IF cups THEN @ \union {"cups"} ELSE @,
               !.text = [@ EXCEPT
                 !["printer_list"]  = Heap(IF listed THEN Listed("DEV:PRN", printers)
                                           ELSE <<Note(IF cups THEN "no printers" ELSE "no CUPS")>>),
                 !["printer_icons"] = CASE ~cups  -> Heap(<<>>)
                                        [] listed -> Heap(Listed("DEV:PRN", printers))
                                        [] OTHER  -> Free(@)],
               !.info = IF cups THEN AddAll(Without(@, "DEV:PRN"), "DEV:PRN", printers) ELSE @]

\* One block of /proc/bus/input/devices.  A name that no row has used yet is kept
\* for the next block.  Left out are: a second pen, what is called UNKNOWN on I2C,
\* and an I2C device of a vendor whose kind is not known.
InputBlock(s, b) ==
  LET name    == IF s.name = "" THEN b.name ELSE s.name
      unknown == b.handlers = "none"         \* the handlers do not tell the kind
      pen     == unknown /\ name = "pen"
      i2c     == b.bus = "i2c"
      out     == \/ pen /\ s.pen
                 \/ unknown /\ name = "UNKNOWN" /\ i2c
                 \/ unknown /\ name = "plain" /\ i2c
      row     == [id |-> Len(s.rows) + 1, v |-> <<name, b.v>>]
  IN [s EXCEPT !.pen = @ \/ pen, !.name = IF out THEN name ELSE "",
               !.rows = IF out THEN @ ELSE Append(@, row)]

scan_input_devices(g, h) ==
  LET rows == FoldLeft(InputBlock, [name |-> "", pen |-> FALSE, rows |-> <<>>], h.blocks).rows
  IN IF ~h.readable THEN g
     ELSE [ForgetIf(g, "input_list", "DEV:INP") EXCEPT
             !.text = [@ EXCEPT !["input_list"]  = Heap(Listed("DEV:INP", rows)),
                                !["input_icons"] = Heap(Listed("DEV:INP", rows))],
             !.info = AddAll(@, "DEV:INP", rows)]
-----------------------------------------------------------------------------
(* Firmware tables: DMI, memory, monitors, updates, device tree            *)

\* A value is a line, and a detail when it is a good one; with none the page says
\* so.
dmi_get_info(g, h) ==
  LET good == SelectSeq(h, LAMBDA d : d.good)
  IN [ForgetIf(g, "dmi_info", "DEV:DMI") EXCEPT
        !.text["dmi_info"] = Heap(IF good = <<>> THEN <<Note("DMI is not available")>> ELSE Rows(h)),
        !.info = AddAll(@, "DEV:DMI", good)]

\* Filled once, whatever is asked: arrays, sockets, and the SPD data no socket
\* claimed; a total when only SPD data is there.
memory_devices_get_info(g, h) ==
  LET total   == IF h.arrays = <<>> /\ h.spd # <<>> THEN <<[id |-> 0, v |-> Len(h.spd)]>> ELSE <<>>
      tagged  == h.arrays \o h.sockets \o total \o SelectSeq(h.spd, LAMBDA s : ~s.claimed)
  IN [g EXCEPT !.text["memory_devices_info"] =
                  Heap(IF tagged = <<>> THEN <<Note("not available")>> ELSE Listed(Locator, tagged)),
               !.info = AddAll(@, Locator, tagged)]
scan_dmi_mem(g, h) ==
  IF IsSet(g.text["memory_devices_info"]) THEN g ELSE memory_devices_get_info(g, h)

monitors_get_info(g, h) ==
  LET on     == SelectSeq(h, LAMBDA m : m.connected)
      tagged == [i \in DOMAIN on |-> [id |-> <<i, on[i].id>>, v |-> on[i].v]]
  IN [g EXCEPT !.text["monitors_info"] = Heap(IF on = <<>> THEN <<Note("empty")>> ELSE Listed("DEV:0-", tagged)),
               !.info = AddAll(@, "DEV:0-", tagged)]

\* Numbered in the order of the service, listed by name; the third part of a
\* "name,key,details" is cut at the first commas, so a comma in a name shifts them.
firmware_get_info(g, h) ==
  LET updatable == SelectSeq(h.devices, LAMBDA d : d.updatable)
      keyed     == [i \in DOMAIN updatable |->
                      LET d == updatable[i]
                      IN [id |-> d.id, v |-> d.v,
                          key |-> IF d.comma THEN <<FirmwareRest, d.rest>> ELSE <<"DEV:FW", i>>]]
      lines     == LET s == Sorted(keyed) IN [i \in DOMAIN s |-> <<s[i].key, s[i].v>>]
      cleared   == Without(g.info, "DEV:FW")
  IN IF ~h.bus THEN [g EXCEPT !.text["firmware_info"] = Heap(<<>>), !.info = cleared]
     ELSE [g EXCEPT !.text["firmware_info"] =
                       Heap(IF updatable = <<>> THEN <<Note("not available")>> ELSE lines),
                    !.info = AddLines(cleared, lines)]

\* The five parts of the tree always have the same keys.
scan_dtree(g, h) ==
  LET parts == IF h = 0 THEN <<>> ELSE [i \in 1..5 |-> [id |-> i, v |-> h]]
  IN [g EXCEPT !.text["dtree_info"] = Heap(Listed("DEV:DTREE", parts)), !.info = AddAll(@, "DEV:DTREE", parts)]
-----------------------------------------------------------------------------
(* Battery and resources                                                   *)

\* The APM estimate of the time left is made when the charge has dropped since
\* the last scan, and then stays on the page.
scan_battery_apm(g, h) ==
  IF h.apm = 0 THEN g   \* no /proc/apm, or not what is expected
  ELSE LET estimate == IF g.percentage > h.apm THEN Heap(<<>>) ELSE g.text["sremaining"]
       IN [g EXCEPT !.percentage = h.apm,
                    !.text = [@ EXCEPT
                      !["sremaining"] = estimate,
                      !["battery_list"] = Extend(@, <<Said("apm", h.apm)>>
                        \o IF IsSet(estimate) THEN <<Note("remaining")>> ELSE <<>>)]]

\* A supply of power in sysfs: its name may be that of an AC supply, which is taken to
\* be attached when it does not say; that of USB says its voltage as well.
AcSupply(s) ==
  LET voltages == IF s.type = "USB" THEN s.v ELSE 0
  IN IF "ac" \notin s.kinds THEN <<>>
     ELSE <<Line(Plain, s.id, <<"AC", s.status \in {Missing, "1"}, s.type, voltages>>)>>

\* ... or that of a battery.  Its current is derived from the power when it is not
\* there, and counted against the charge when it discharges.
Battery(s) ==
  IF "battery" \notin s.kinds THEN <<>> ELSE <<Line(Plain, s.id, <<"battery", s.status, s.v>>)>>

scan_battery_sysfs(g, h) ==
  [g EXCEPT !.text["battery_list"] =
     Extend(@, FlattenSeq([i \in DOMAIN h.supplies |-> AcSupply(h.supplies[i]) \o Battery(h.supplies[i])]))]
powerstate(h) ==
  IF \E s \in Range(h.supplies) : "battery" \in s.kinds /\ s.status = "Discharging" THEN "BAT" ELSE "AC"

\* In /proc/acpi/battery: both files can be opened and the battery is present.
scan_battery_acpi(g, h) ==
  LET present == SelectSeq(h.acpi, LAMBDA b : b.info /\ b.state /\ b.present)
  IN [g EXCEPT !.text["battery_list"] = Extend(@, Rows(present))]

\* What apcaccess prints after its first line, in the order of this table; a field it
\* does not print is listed with no value.
ups_fields ==
  <<"UPS Status", "STATUS", "TIMELEFT", "LINEV", "LOADPCT",
    "UPS Battery Information", "BATTV", "BCHARGE", "BATTDATE",
    "UPS Information", "APCMODEL", "FIRMWARE", "SERIALNO", "UPSMODE", "CABLE", "UPSNAME",
    "UPS Nominal Values", "NOMINV", "NOMBATTV", "NOMPOWER">>
scan_battery_apcupsd(g, h) ==
  IF h.ups = <<>> THEN g   \* no such program, or it prints nothing
  ELSE [g EXCEPT !.text["battery_list"] =
          Extend(@, [i \in DOMAIN ups_fields |-> Said(ups_fields[i], Lookup(h.ups[1], ups_fields[i], Missing))])]

\* The four sources in this order; then the state of the power is put first.
scan_battery_do(g, h) ==
  LET emptied == [g EXCEPT !.text["battery_list"] = Heap(<<>>)]
      filled  == scan_battery_apcupsd(scan_battery_apm(scan_battery_acpi(scan_battery_sysfs(emptied, h), h), h), h)
  IN [filled EXCEPT !.text["battery_list"] =
        Heap(<<Said("power state", powerstate(h))>>
             \o IF @.lines = <<>> THEN <<Note("no batteries")>> ELSE @.lines)]

\* Only ever read anew; the page reads it itself if need be.
scan_device_resources(g, h) == [g EXCEPT !.text["_resources"] = Heap(Rows(h))]
=============================================================================
