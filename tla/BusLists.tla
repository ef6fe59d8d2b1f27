------------------------------ MODULE BusLists ------------------------------
(***************************************************************************)
(* The devices on the buses, as hardinfo2/{usb,pci,gpu}_util.c list them:  *)
(* what sysfs has, in the order of its directory, named after the files    *)
(* usb.ids and pci.ids.  See ComputerScan for g and h; here also           *)
(*   g.ids    the file with the names of each bus, once it was found       *)
(*   g.lastd  the PCI device that was looked up last                       *)
(***************************************************************************)
EXTENDS MoreInfo

\* find_usb_ids_file(), find_pci_ids_file(): the file of the user comes before the
\* installed one, but one that was found is never looked for again.  It is taken
\* to stay.
NoFile == "none"
FindIds(g, bus, readable) ==
  CASE g.ids[bus] # NoFile     -> g
    [] "user" \in readable      -> [g EXCEPT !.ids[bus] = "user"]
    [] "installed" \in readable -> [g EXCEPT !.ids[bus] = "installed"]
    [] OTHER                    -> g

\* scan_ids_file(): no name without a file
NoName == <<>>
NameIn(file, ids) == IF file = NoFile THEN NoName ELSE <<file, ids>>
-----------------------------------------------------------------------------
(* USB                                                                     *)

usb_class_icons ==
  1 :> "audio" @@ 2 :> "modem" @@ 3 :> "inputdevices" @@ 6 :> "camera-photo" @@ 7 :> "printer" @@
  8 :> "media-removable" @@ 9 :> "usb" @@ 14 :> "camera-web"
usb_type_icons ==
  <<3, 1, 1>> :> "keyboard" @@ <<3, 1, 2>> :> "mouse" @@ <<224, 1, 1>> :> "bluetooth"

NoIcon == ""
get_class_icon(class) == Lookup(usb_class_icons, class, NoIcon)
get_usbif_icon(i) ==
  IF i.class = 2 /\ i.subclass = 6 THEN "network-interface"   \* whatever the protocol
  ELSE Lookup(usb_type_icons, <<i.class, i.subclass, i.protocol>>, get_class_icon(i.class))

\* The first interface that has an icon gives it, else the class of the device.
get_usbdev_icon(d) ==
  LET icons == SelectSeq([n \in DOMAIN d.if_list |-> get_usbif_icon(d.if_list[n])],
                         LAMBDA icon : icon # NoIcon)
  IN CASE icons # <<>>                       -> icons[1]
       [] get_class_icon(d.class) # NoIcon -> get_class_icon(d.class)
       [] OTHER                            -> "usb"

\* Of the interfaces the device says it has, those of the configuration in use.
usb_get_interfaces_sysfs(e) == SelectSeq(e.interfaces, LAMBDA i : i.exists)
usb_get_device(file, e) ==
  [bus |-> e.bus, dev |-> e.dev, v |-> e.v, class |-> e.class,
   vendor |-> NameIn(file, <<e.vendor>>), product |-> NameIn(file, <<e.vendor, e.product>>),
   class_str |-> NameIn(file, <<"C", e.class>>),
   if_list |-> usb_get_interfaces_sysfs(e)]

\* After all that come before it or are equal.
usbd_list_append_sorted(list, d) ==
  LET before(a, b) == a.bus < b.bus \/ (a.bus = b.bus /\ a.dev < b.dev)
      places == {n \in DOMAIN list : before(d, list[n])}
  IN InsertAt(list, IF places = {} THEN Len(list) + 1 ELSE Min(places), d)

\* The directories of interfaces also match the pattern of the names, but have no
\* number of a bus and of a device.  When sysfs has none, lsusb is run, and what it
\* lists is dropped: nolsusb is set.
usb_get_device_list(file, entries) ==
  LET devices == SelectSeq(entries, LAMBDA e : e.bus > 0 /\ e.dev > 0)
  IN FoldLeft(LAMBDA list, e : usbd_list_append_sorted(list, usb_get_device(file, e)), <<>>, devices)
-----------------------------------------------------------------------------
(* PCI                                                                     *)

\* The names of what has the same vendor, device and sub-vendor as the one before
\* are those of the one before, whatever its sub-device and class.
NoDevice == [vendor |-> 0, device |-> 0, svendor |-> 0, names |-> NoName]
SameDevice(a, b) == a.vendor = b.vendor /\ a.device = b.device /\ a.svendor = b.svendor

pci_names(file, d) ==
  [vendor  |-> NameIn(file, <<d.vendor>>),
   device  |-> NameIn(file, <<d.vendor, d.device>>),
   sdevice |-> NameIn(file, <<d.vendor, d.device, d.svendor, d.sdevice>>),
   svendor |-> NameIn(file, <<d.svendor>>),
   class   |-> NameIn(file, <<"C", d.class>>)]

pci_lookup_ids(g, d) ==
  IF g.ids["pci"] = NoFile \/ SameDevice(g.lastd, d) THEN g
  ELSE [g EXCEPT !.lastd = [vendor |-> d.vendor, device |-> d.device, svendor |-> d.svendor,
                            names |-> pci_names(g.ids["pci"], d)]]

\* The devices with a class of a range, in the order of the directory, with their
\* names; and the globals, which the lookups change.
pci_get_device_list(g, h, min, max) ==
  LET one(s, d) ==
        LET g1 == pci_lookup_ids(s.g, d)
            names == IF g1.ids["pci"] = NoFile THEN pci_names(NoFile, d) ELSE g1.lastd.names
        IN [g |-> g1, list |-> Append(s.list, [d |-> d, names |-> names])]
  IN FoldLeft(one, [g |-> FindIds(g, "pci", h.ids), list |-> <<>>],
              SelectSeq(h.devices, LAMBDA d : d.class \in min..max))

\* The icon of a class is that of all of it or that of its base.
class2icon ==
  258 :> "media-floppy" @@ 512 :> "network-interface" @@ 3075 :> "usb" @@ 3200 :> "usb" @@
  1024 :> "gpu" @@ 1026 :> "modem" @@ 1027 :> "audio" @@ 2053 :> "media-sd" @@ 3345 :> "bluetooth" @@
  1795 :> "modem" @@ 2304 :> "keyboard" @@ 2306 :> "mouse" @@ 2308 :> "joystick" @@
  1 :> "hdd" @@ 2 :> "network" @@ 3 :> "monitor" @@ 4 :> "audio" @@ 5 :> "memory" @@
  7 :> "network-connections" @@ 9 :> "inputdevices" @@ 11 :> "processor" @@ 13 :> "wireless" @@
  16 :> "cryptohash"
find_icon_for_class(class) ==
  IF class > 255 /\ class \in DOMAIN class2icon THEN class2icon[class]
  ELSE Lookup(class2icon, class \div 256, "pci")
-----------------------------------------------------------------------------
(* GPU                                                                     *)

\* The card of the direct rendering manager, or a number of our own.
CardId(cards, i) ==
  IF cards[i].d.card # 0 THEN <<"card", cards[i].d.card>>
  ELSE <<"pci-dc", Cardinality({j \in 1..(i - 1) : cards[j].d.card = 0})>>

\* The range of the clocks above zero, -1 when there is none.
amdgpu_parse_dpmclk(clocks) ==
  LET good == {c \in Range(clocks) : c > 0}
  IN IF good = {} THEN [min |-> -1, max |-> -1] ELSE [min |-> Min(good), max |-> Max(good)]

\* What i915 says, then what amdgpu says if it says anything; no driver without
\* its directory.
GpuClocks(d) ==
  LET core   == amdgpu_parse_dpmclk(d.sclk)
      memory == amdgpu_parse_dpmclk(d.mclk)
      above(new, old) == IF new > 0 THEN new ELSE old
  IN IF ~d.drm THEN [min |-> 0, max |-> 0, memory |-> <<0, 0>>]
     ELSE [min |-> above(core.min, d.intel[1]), max |-> above(core.max, d.intel[2]),
           memory |-> <<above(memory.min, 0), above(memory.max, 0)>>]
Shown(min, max) == CASE max <= 0                 -> NoName
                     [] min > 0 /\ min # max -> <<min, max>>
                     [] OTHER                    -> <<max>>

make_nice_name(nvidia, vendor, device) ==
  IF nvidia # 0 THEN <<"NVIDIA", nvidia>> ELSE <<"names", vendor, device>>

\* The first node called gpu, from the root and before its children; the first name
\* we know in what it is compatible with tells the maker.
dt_compat_searches == <<"brcm,bcm2837-vc4", "brcm,bcm2836-vc4", "brcm,bcm2835-vc4", "arm,mali-450", "arm,mali">>
dt_soc_gpu(nodes) ==
  LET gpus  == SelectSeq(nodes, LAMBDA n : n.gpu)
      known == SelectSeq(dt_compat_searches, LAMBDA name : name \in gpus[1].compatible)
  IN IF gpus = <<>> \/ gpus[1].compatible = {} THEN <<>>
     ELSE LET device == IF known = <<>> THEN NoName ELSE <<known[1]>>
          IN <<[nice_name |-> make_nice_name(0, device, device),
                v |-> <<gpus[1].v, device, Shown(gpus[1].opp[1], gpus[1].opp[2])>>]>>

\* The display controllers of the PCI bus; only without one the device tree.
Gpu(id, d, names, clocks) ==
  [id |-> id, names |-> names,
   nice_name |-> make_nice_name(d.nvidia, names.vendor, names.device),
   v |-> <<d.v, names, Shown(clocks.min, clocks.max), Shown(clocks.memory[1], clocks.memory[2])>>]
GpusOf(pci, nodes) ==
  [g |-> pci.g, soc |-> IF pci.list = <<>> THEN dt_soc_gpu(nodes) ELSE <<>>,
   cards |-> [i \in DOMAIN pci.list |->
                Gpu(CardId(pci.list, i), pci.list[i].d, pci.list[i].names, GpuClocks(pci.list[i].d))]]
gpu_get_device_list(g, h) == GpusOf(pci_get_device_list(g, h, 768, 1023), h.nodes)
=============================================================================
