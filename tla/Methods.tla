------------------------------ MODULE Methods ------------------------------
(***************************************************************************)
(* The methods by which one module asks another (hi_exported_methods() of  *)
(* "Computer" and "Devices"), for what a benchmark result says of the      *)
(* machine it was measured on.  Each scans the page it needs if that was   *)
(* never done; here g is what the globals are after that.                  *)
(*                                                                         *)
(* m is what the machine itself is:                                        *)
(*   m.ids     what the firmware says of board and system, by id           *)
(*   m.chassis its type of chassis, -1 for none                            *)
(*   m.model   the model in the device tree, if there is one               *)
(*   m.home    the disk of the home directory that df or lsblk name, 0 when  *)
(*             lsblk knows none behind a mapped one, empty when df names none *)
(*   m.disks   the disks that lsblk lists                                  *)
(***************************************************************************)
EXTENDS ComputerScan, StorageScan, DevicesScan

\* Values that a manufacturer forgot to fill in, or that mean nothing
Placeholders == {"Default String", "To be filled by O.E.M.", "0000"}
dmi_get_str(m, id) ==
  IF id \in DOMAIN m.ids /\ m.ids[id] \notin Placeholders \union {""} THEN <<m.ids[id]>> ELSE <<>>

\* Values of a virtual machine
Emulated  == 9   \* a drive whose line has QEMU or VirtIO in it
WslKernel == 2   \* a kernel whose name has WSL2 in it
get_os_kernel(g) == g.text["os"].lines[1][2]

\* Vendor, name and version as far as they are known; of the system only what the
\* board does not say already, in parentheses; without both something else.
Different(system, board) == IF system = board THEN <<>> ELSE system
BoardPart(m) == dmi_get_str(m, "baseboard-manufacturer") \o dmi_get_str(m, "baseboard-product-name")
                \o dmi_get_str(m, "baseboard-version")
ProductPart(m) ==
  Different(dmi_get_str(m, "system-manufacturer"), dmi_get_str(m, "baseboard-manufacturer"))
  \o Different(dmi_get_str(m, "system-product-name"), dmi_get_str(m, "baseboard-product-name"))
  \o Different(dmi_get_str(m, "system-version"), dmi_get_str(m, "baseboard-version"))
get_motherboard(g, m) ==
  CASE BoardPart(m) # <<>> /\ ProductPart(m) # <<>> -> BoardPart(m) \o <<"(">> \o ProductPart(m) \o <<")">>
    [] BoardPart(m) \o ProductPart(m) # <<>>        -> BoardPart(m) \o ProductPart(m)
    [] get_os_kernel(g) = WslKernel                 -> <<"WSL2">>
    [] OTHER                                        -> <<"(Unknown)">>

\* The first that applies: signs of a virtual machine, the chassis, signs of others
Mentions(board, name) == \E i \in DOMAIN board : board[i] = name
DrivesEmulated(g) ==
  \E i \in DOMAIN g.text["storage_list"].lines : g.text["storage_list"].lines[i][2][2] = Emulated
Virtual(g, m) ==
  CASE m.xen                                          -> "Virtual (Xen)"
    [] Mentions(get_motherboard(g, m), "VirtualBox")  -> "Virtual (VirtualBox)"
    [] Mentions(get_motherboard(g, m), "VMware")      -> "Virtual (VMware)"
    [] DrivesEmulated(g)                              -> "Virtual (QEMU)"
    [] get_os_kernel(g) = WslKernel                   -> "Virtual (WSL2)"
    [] OTHER                                          -> ""

ChassisTypes == 0..36
dmi_chassis_type_str(m) ==
  CASE m.chassis \in ChassisTypes \ {0} -> "Chassis"   \* by its number; 1 is called as 2
    [] m.chassis = 0                    -> "Invalid chassis type (0)"
    [] OTHER                            -> ""
Physical(m) ==
  CASE dmi_chassis_type_str(m) # ""          -> <<dmi_chassis_type_str(m), Max({2, m.chassis})>>
    [] m.model # <<>>                        -> <<"Single-board computer", 0>>
    [] m.pmu \/ m.acpi \/ "Battery" \in m.supplies -> <<"Laptop", 0>>
    [] OTHER                                 -> <<"Unknown physical machine type", 0>>
computer_get_machinetype(g, m) ==
  IF Virtual(g, m) # "" THEN <<Virtual(g, m), 0>> ELSE Physical(m)

\* The disk of the home directory: df tells, or lsblk for a mapped one; else the only
\* disk there is; none when lsblk has nothing for a mapped one.  Its model is that of
\* the first row that has its name.
NoDisk == 0
HomePath(m) == CASE m.home # <<>>     -> m.home
                 [] Len(m.disks) = 1 -> m.disks
                 [] OTHER            -> <<>>
RowsOf(g, disk) == SelectSeq(g.text["storage_list"].lines, LAMBDA line : line[2][1] = disk)
get_storage_home_models(g, m) ==
  CASE HomePath(m) \in {<<>>, <<NoDisk>>} -> <<"NoHomePath">>
    [] RowsOf(g, HomePath(m)[1]) = <<>>    -> <<"HomePathNotFound">>
    [] OTHER                               -> <<"model", RowsOf(g, HomePath(m)[1])[1][2][2]>>

\* The others give what a page has.
MemTotal == 1   \* the field of /proc/meminfo
get_memory_total(g)   == Lookup(g.info, <<Memory, MemTotal>>, 0)
get_ogl_renderer(g)   == g.text["display"].lines
get_gpuname(g)        == g.text["gpuname"].lines[1]
get_processor_name(g) == processor_name(CpusOf(g))
get_processor_desc(g) == processor_describe(g, CpusOf(g))
get_processor_frequency_desc(g) == processor_frequency_desc(CpusOf(g))

\* Read anew each time, unlike the page of the memory devices: what the sockets of the
\* arrays hold, else the SPD data
memory_devices_get_system_memory(h) ==
  IF h.arrays # <<>> THEN <<h.sockets, <<>>>> ELSE <<<<>>, h.spd>>
=============================================================================
