---------------------------- MODULE ComputerScan ----------------------------
(***************************************************************************)
(* The scans of the module "Computer": what each leaves in the program's   *)
(* globals g when the machine is h.                                        *)
(*   g.text   the texts, by variable                                       *)
(*   g.info   the table of MoreInfo                                        *)
(*   g.once   static variables that have been set for good                 *)
(* A device is a record with an id, unique in its family, and a version v  *)
(* that stands for everything its line and its details show.               *)
(***************************************************************************)
EXTENDS OsInfo

ComputerTexts == {"os", "boots", "languages", "module_list", "icons", "parser",
                  "meminfo", "lginterval", "fs_list", "display", "_env", "users",
                  "groups", "dev_list", "security"}

\* The boot lines that `last` prints.
scan_boots_real(g, h) ==
  [g EXCEPT !.text["boots"] = Heap(IF h.last THEN Rows(h.boots) ELSE <<>>)]

\* Locales have no prefix of their own: their details are only replaced.
scan_languages(g, h) ==
  [g EXCEPT !.text["languages"] = IF h.found THEN Heap(Listed(Locale, h.locales)) ELSE Null,
            !.info = IF h.found THEN AddAll(@, Locale, h.locales) ELSE @]

\* A new record: with the languages, which computer_get_os() reads as well, and no
\* boots.
scan_os(g, h) ==
  scan_languages([g EXCEPT !.text = [@ EXCEPT !["os"] = Heap(computer_get_os(h)),
                                              !["boots"] = Null, !["languages"] = Null]], h.languages)

\* The parser owns the icons: the object is found again only in a file that can
\* be parsed.
scan_modules_do(g, h) ==
  LET parsed == h.json # "gone"
      icons  == CASE h.json = "good" -> Heap(<<>>)
                  [] OTHER -> IF g.text["parser"].at # "null" THEN Free(g.text["icons"])
                                                              ELSE g.text["icons"]
      listed == h.lsmod /\ h.modules # <<>>
  IN [g EXCEPT !.text = [@ EXCEPT
        !["parser"] = IF parsed THEN Heap(<<>>) ELSE Free(@),
        !["icons"]  = icons,
        !["module_list"] = IF listed THEN Heap(Listed("COMP:MOD", Sorted(h.modules))) ELSE Null],
        !.info = LET cleared == Without(@, "COMP:MOD")
                 IN IF listed THEN AddAll(cleared, "COMP:MOD", h.modules) ELSE cleared]

\* /proc/meminfo: details are only replaced.  lginterval is the one of the sensors.
scan_memory_doNoInterval(g, h) ==   \* mutant: no intervals for the fields
  [g EXCEPT !.text["meminfo"] = Heap(Listed(Memory, Sorted(h))), !.info = AddAll(@, Memory, h)]
scan_memory_do(g, h) ==
  [g EXCEPT !.text = [@ EXCEPT !["meminfo"] = Heap(Listed(Memory, Sorted(h))),
                               !["lginterval"] = Heap(Listed(Memory, Sorted(h)))],
            !.info = AddAll(@, Memory, h)]

\* File systems of size 0 are skipped and the others numbered.
Mounted(h) == SelectSeq(Sorted(h.mounts), LAMBDA m : m.size > 0)
scan_filesystemsDeletesLast(g, h) ==   \* mutant: the details are deleted last
  [g EXCEPT !.text["fs_list"] = Heap(IF h.mtab THEN Listed("COMP:FS", Numbered(Mounted(h))) ELSE <<>>),
            !.info = Without(AddAll(@, "COMP:FS", Numbered(Mounted(h))), "COMP:FS")]
scan_filesystems(g, h) ==
  [g EXCEPT !.text["fs_list"] = Heap(IF h.mtab THEN Listed("COMP:FS", Numbered(Mounted(h))) ELSE <<>>),
            !.info = LET cleared == Without(@, "COMP:FS")
                     IN IF h.mtab THEN AddAll(cleared, "COMP:FS", Numbered(Mounted(h))) ELSE cleared]

scan_display(g, h) == [g EXCEPT !.text["display"] = Heap(Rows(h))]

\* The old text is freed and then given to h_strdup_cprintf().
scan_env_var(g, h) ==
  [g EXCEPT !.text["_env"] = Extend(Free(@), Rows(Sorted(h)))]

\* With no account to read all stays as it is.
scan_users_do(g, h) ==
  IF h = <<>> THEN g
  ELSE [g EXCEPT !.text["users"] = Heap(Listed("COMP:USER", Sorted(h))),
                 !.info = AddAll(IF IsSet(g.text["users"]) THEN Without(@, "COMP:USER") ELSE @, "COMP:USER", h)]

scan_groups_do(g, h) ==
  IF h = <<>> THEN g
  ELSE [g EXCEPT !.text["groups"] = Heap(Listed("COMP:GROUP", Sorted(h))),
                 !.info = AddAll(@, "COMP:GROUP", h)]

scan_dev(g, h) == [g EXCEPT !.text["dev_list"] = Heap(Rows(h))]

\* Nothing is scanned for it: the page is made anew whenever it is asked for.
SecurityPage(g, h) == [g EXCEPT !.text["security"] = Heap(callback_security(h))]
=============================================================================
