------------------------------ MODULE MoreInfo ------------------------------
(***************************************************************************)
(* What the pages of the modules are made of (hardinfo2/util.c): texts     *)
(* kept in global variables, and one table for the whole program with the  *)
(* details of the devices, by key.                                         *)
(*                                                                         *)
(* A text is a sequence of lines <<key, value>>.  A key is a family (the   *)
(* text that it begins with in the table, the module's part included) and  *)
(* what tells the devices of a family apart; a line with no key is Plain   *)
(* or a Message.                                                           *)
(***************************************************************************)
EXTENDS Integers, Sequences, FiniteSets, SequencesExt

\* After the module's part most keys begin with a word of the program.  Some begin
\* with what the machine says - the name of a locale, of a line of /proc/meminfo, of a
\* memory socket, what follows the comma in a firmware's name - for which these stand.
Locale       == "COMP:en_"
Memory       == "DEV:Mem"
Locator      == "DEV:DIMM"
FirmwareRest == "DEV:rest"

Null    == [at |-> "null",  lines |-> <<>>]
Freed   == [at |-> "freed", lines |-> <<>>]
Heap(lines) == [at |-> "heap", lines |-> lines]

Plain    == "plain"
Line(family, id, value) == <<<<family, id>>, value>>
Message  == "message"
Said(what, value) == Line(Message, what, value)
Note(what) == Said(what, 0)
Keyed(line) == line[1][1] \notin {Plain, Message}

\* A file, a member or a program's answer that is not there
Missing == "missing"

IsSet(text) == text.at # "null"

\* g_free() of a variable that is not given a new value at once
Free(text) == IF IsSet(text) THEN Freed ELSE Null

\* h_strdup_cprintf(): a new text when there is none; of freed memory nothing
\* can be said, and it stays so.
Extend(text, lines) == CASE text.at = "null"  -> Heap(lines)
                         [] text.at = "heap"  -> Heap(text.lines \o lines)
                         [] text.at = "freed" -> Freed
-----------------------------------------------------------------------------
(* The table                                                               *)
Empty == [k \in {} |-> 0]

\* moreinfo_add_with_prefix(), for the key and the value of each line in turn: a
\* new value replaces an old one.
KeysOf(lines) == {lines[i][1] : i \in DOMAIN lines}
ValueOf(lines, key) == lines[Max({i \in DOMAIN lines : lines[i][1] = key})][2]
AddLinesKeepsOld(info, lines) ==   \* mutant: the old details stay
  [k \in DOMAIN info \union KeysOf(lines) |->
     IF k \in DOMAIN info THEN info[k] ELSE ValueOf(lines, k)]
AddLines(info, lines) ==
  [k \in DOMAIN info \union KeysOf(lines) |->
     IF k \in KeysOf(lines) THEN ValueOf(lines, k) ELSE info[k]]

\* moreinfo_del_with_prefix(): of every page, whatever begins with the prefix
Begins(text, prefix) == Len(prefix) <= Len(text) /\ SubSeq(text, 1, Len(prefix)) = prefix
WithoutModule(info, prefix) ==   \* mutant: the first letters of a prefix are compared
  [k \in {key \in DOMAIN info : ~Begins(key[1], SubSeq(prefix, 1, 3))} |-> info[k]]
Without(info, prefix) ==
  [k \in {key \in DOMAIN info : ~Begins(key[1], prefix)} |-> info[k]]

\* moreinfo_lookup_with_prefix()
Lookup(info, key, none) == IF key \in DOMAIN info THEN info[key] ELSE none

\* The lines of a sequence of devices, each with its id and version, and their
\* details
Listed(family, devices) ==
  [i \in DOMAIN devices |-> Line(family, devices[i].id, devices[i].v)]
AddAll(info, family, devices) == AddLines(info, Listed(family, devices))

\* Lines with no details, devices in the order of their ids, and devices under
\* their number in a list.
Rows(devices)   == Listed(Plain, devices)
Sorted(devices) == SortSeq(devices, LAMBDA a, b : a.id < b.id)
Numbered(devices) ==
  [i \in DOMAIN devices |-> [id |-> i, v |-> <<devices[i].id, devices[i].v>>]]
=============================================================================
