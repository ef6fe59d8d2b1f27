---------------------------- MODULE MCSyncEntries ----------------------------
(***************************************************************************)
(* The entries of the small instances: two optional blobs, the two entries *)
(* of benchmark.json in the order of modules/benchmark.c:971-972, and the  *)
(* version entry.                                                          *)
(***************************************************************************)
Entry(f, o, u) == [file |-> f, optional |-> o, upload |-> u]

MCEntries == << Entry("releaseyear.json", TRUE, FALSE),
                Entry("pci.ids", TRUE, FALSE),
                Entry("benchmark.json", FALSE, FALSE),
                Entry("benchmark.json", FALSE, TRUE),
                Entry("version", FALSE, FALSE) >>

\* main() does not remove releaseyear.json (hardinfo2/hardinfo.c:83-93)
MCCleaned == {"pci.ids", "benchmark.json", "version"}
=============================================================================
