------------------------------ MODULE SyncData ------------------------------
(***************************************************************************)
(* The data both kinds of synchronisation work on: the list of SyncEntry   *)
(* records the modules register, and what a blob file can contain.         *)
(*                                                                         *)
(* A file's content is one integer: the version of the server's data it    *)
(* holds (a natural number), or one of three markers below zero.           *)
(***************************************************************************)
EXTENDS Integers, Sequences, FiniteSetsExt

CONSTANTS
  Entries,      \* the registered SyncEntry records, in list order
  VersionFile   \* "blobs-update-version.json"

Absent == -1    \* no such file in the user's configuration directory
Broken == -2    \* an empty, truncated or error-page file: no version in it
Reply  == -3    \* the server's answer to a POST

E == 1..Len(Entries)
N == Len(Entries)
Files == {Entries[e].file : e \in E}

File(e)     == Entries[e].file
Optional(e) == Entries[e].optional
Upload(e)   == Entries[e].upload

\* vendor_init() registers the version entry after every other one and it is
\* the only entry of its file (hardinfo2/vendor.c:198).  benchmark.json is the only
\* file uploaded: its download is not optional and is registered before the upload
\* (modules/benchmark.c:948-972), and devices.so, loaded first (hardinfo2/util.c:908),
\* registers entries before both.  No file is downloaded by two entries.
ASSUME EntriesAssumption ==
  /\ N \in Nat \ {0, 1}
  /\ \A e \in E : Optional(e) \in BOOLEAN /\ Upload(e) \in BOOLEAN
  /\ ~Optional(N) /\ ~Upload(N)
  /\ \A e \in E : File(e) = VersionFile <=> e = N
  /\ \A d, u \in E : Upload(u) /\ ~Upload(d) /\ File(d) = File(u) => d < u
  /\ \A u \in E : Upload(u) =>
       File(1) # File(u) /\ \E d \in E : ~Upload(d) /\ ~Optional(d) /\ File(d) = File(u)
  /\ \A d, e \in E : File(d) = File(e) /\ ~Upload(d) /\ ~Upload(e) => d = e

Contents == {Absent, Broken, Reply} \cup Nat

IsVersion(c) == c >= 0

\* sscanf(buf, "{\"update-version\":\"%u\",", &v): v keeps its value when the
\* text does not match.
Parse(c, v) == IF IsVersion(c) THEN c ELSE v

\* our_blobs_update_version as both entry points read it: the user's file if
\* it can be opened, whatever it holds, and the packaged one otherwise.
ReadOur(userVersion, packaged, v) ==
  IF userVersion = Absent THEN Parse(packaged, v) ELSE Parse(userVersion, v)

\* What the scanners load: the user's copy when there is one.
Effective(content, packaged) == IF content = Absent THEN packaged ELSE content
=============================================================================
