------------------------------ MODULE MCReport ------------------------------
(* Four modules, one without entries, one entry hidden and one left out;   *)
(* the window, and reports of every format and topic.                      *)
EXTENDS Report

Row(key, flagged, wants, details) ==
  [key |-> key, flagged |-> flagged, wants |-> wants, details |-> details]
Plain(key) == Row(key, FALSE, FALSE, <<>>)
Group(name, rows) == [name |-> name, param |-> FALSE, rows |-> rows]
Param == [name |-> "$ShellParam$", param |-> TRUE, rows |-> <<Plain("ViewType")>>]
Details == <<Group("Device", <<Plain("Vendor")>>), Group("Link", <<Plain("Speed")>>)>>

Entry(name, flags) == [name |-> name, flags |-> flags]
MCFiles == <<"devices", "computer", "network", "benchmark">>
MCWeight == [m \in Range(MCFiles) |->
  CASE m = "devices" -> 85 [] m = "computer" -> 80 [] m = "network" -> 160 [] OTHER -> 240]
MCModuleEntries == [m \in Range(MCFiles) |->
  CASE m = "computer" -> <<Entry("Boots", {"boot"}), Entry("Off", {"#"})>>
    [] m = "network"  -> <<Entry("Hidden2", {"hide"})>>
    [] m = "devices"  -> <<Entry("Hidden", {"hide"}), Entry("USB", {}), Entry("PCI", {})>>
    [] OTHER          -> <<Entry("CPU test", {"benchmark"})>>]

MCTable == [e \in {"Boots", "CPU test", "Hidden", "Hidden2", "Off", "USB", "PCI"} |->
  CASE e = "USB" -> <<Group("USB", <<Row("a", TRUE, TRUE, Details), Plain("b")>>),
                      Group("Host", <<Row("c", TRUE, FALSE, <<Group("Host", <<Plain("Speed")>>)>>)>>)>>
    [] e = "PCI" -> <<Group("Host", <<Row("d", TRUE, TRUE, <<>>)>>), Param>>
    [] e = "Boots" -> <<Group("Results", <<Plain("e"), Plain("Hostname")>>)>>
    [] OTHER     -> <<Group("Results", <<Plain("e")>>)>>]
Plainly == [create_report |-> FALSE, report_format |-> "", topic |-> NoTopic, cached |-> FALSE,
            skip_benchmarks |-> FALSE, run_benchmark |-> FALSE, force_all_details |-> FALSE]
MCCommandLines ==
  {Plainly, [Plainly EXCEPT !.run_benchmark = TRUE], [Plainly EXCEPT !.skip_benchmarks = TRUE]}
    \union {[Plainly EXCEPT !.create_report = TRUE, !.report_format = f, !.force_all_details = w] :
              f \in {"html", "shell", "xml"}, w \in BOOLEAN}
    \union {[Plainly EXCEPT !.topic = t, !.cached = c, !.force_all_details = w] :
              t \in {"Comp", "usb", "Host", "Link", "*e", "getlist"}, c \in BOOLEAN, w \in BOOLEAN}

\* "Comp" and "usb" in another case; "Host" begins three names, and a key of eight
\* letters, which is written with four blanks before it.
Written(kind, name) == [kind |-> kind, name |-> name]
MCSearches == {"*e"}
MCFound ==
  {<<"Comp", 0, Written("module", "computer")>>,
   <<"usb", 0, Written("entry", "USB")>>, <<"usb", 1, Written("group", "USB")>>,
   <<"Host", 1, Written("group", "Host")>>, <<"Host", 4, Written("block", "Host")>>,
   <<"Host", 4, Written("row", "Hostname")>>, <<"Link", 4, Written("block", "Link")>>}
    \union {<<"*e", Anywhere, Written(k, n)>> : k \in {"module", "entry", "row"},
                                                n \in {"devices", "computer", "network", "e", "Hostname"}}
MCBroken == {{}, {"computer"}}
=============================================================================
