---------------------------- MODULE StorageScan ----------------------------
(***************************************************************************)
(* The scan of the storage devices (modules/devices/storage.c): from       *)
(* udisks2, or when that knows none from /proc/ide and /proc/scsi (see     *)
(* ComputerScan for g and h).                                              *)
(***************************************************************************)
EXTENDS MoreInfo

StorageTexts == {"storage_list", "storage_icons"}

\* A drive is listed under its number; the icons are only ever appended to.
WithDrives(g, family, drives) ==
  LET numbered == Numbered(drives)
  IN [g EXCEPT !.text = [@ EXCEPT
        !["storage_list"]  = IF drives = <<>> THEN @ ELSE Extend(@, Listed(family, numbered)),
        !["storage_icons"] = IF drives = <<>> THEN @ ELSE Extend(@, Listed(family, numbered))],
        !.info = AddAll(@, family, numbered)]

Forget(g, family) == [g EXCEPT !.info = Without(@, family)]

\* The boot partitions of an eMMC card are not drives; the rest is sorted.
Real(drives) == Sorted(SelectSeq(drives, LAMBDA d : ~d.boot))

scan_udisks2_devices(g, h) == WithDrives(Forget(g, "DEV:UDISKS"), "DEV:UDISKS", Real(h.udisks2))
scan_ide_devices(g, h)     == WithDrives(Forget(g, "DEV:IDE"), "DEV:IDE", h.ide)
scan_scsi_devices(g, h)    == WithDrives(Forget(g, "DEV:SCSI"), "DEV:SCSI", h.scsi)

scan_storage(g, h) ==
  LET emptied == [g EXCEPT !.text["storage_list"] = Heap(<<>>)]
  IN IF Real(h.udisks2) # <<>>
     THEN scan_udisks2_devices(emptied, h)
     ELSE scan_scsi_devices(scan_ide_devices(Forget(emptied, "DEV:UDISKS"), h), h)
=============================================================================
