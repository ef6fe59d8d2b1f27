----------------------------- MODULE ReportText -----------------------------
(***************************************************************************)
(* What the report generator (shell/report.c) writes: HTML, text, or the   *)
(* pages as they are ("shell").  A report is a sequence of what is written *)
(* one after the other; a text report has one such thing per line.  Empty  *)
(* lines, how many cells a row has, icons and wording are left out.        *)
(***************************************************************************)
EXTENDS Integers, Sequences, SequencesExt

CONSTANTS
  Table,    \* Table[e]: the groups of page e, each with its rows
  Found,    \* the text of a line at some place begins, in whatever case, with a topic:
            \* <<topic, 0, line>>, <<topic, 1, line>>, <<topic, 4, line>>; or a search
            \* finds its text anywhere in the line: <<topic, Anywhere, line>>
  Searches  \* the topics that begin with *

IsSequence(s) == s \in Seq(Range(s))
Grouped(groups) ==
  IsSequence(groups) /\ \A group \in Range(groups) :
    /\ group.name \in STRING /\ group.param \in BOOLEAN
    /\ IsSequence(group.rows) /\ \A row \in Range(group.rows) : row.key \in STRING

\* Rows that lead to others are in a page, never in the details of a row.
ASSUME TableAssumption ==
  \A e \in DOMAIN Table :
    /\ Grouped(Table[e])
    /\ \A group \in Range(Table[e]) : \A row \in Range(group.rows) :
         row.flagged \in BOOLEAN /\ row.wants \in BOOLEAN /\ Grouped(row.details)

Made(kind, name) == [kind |-> kind, name |-> name]
Close == Made("</table>", "")

\* A report that is being written.  all: every key wants its details, which the
\* command line says once for the program.
report_context_new(format, all) ==
  [format |-> format, all |-> all, output |-> <<>>, first_table |-> TRUE,
   first_sub_table |-> TRUE, in_details |-> FALSE]

Put(ctx, written) == [ctx EXCEPT !.output = @ \o written]
Html(ctx) == ctx.format = "html"

report_title(ctx, module) ==
  IF Html(ctx)
  THEN [Put(ctx, (IF ctx.first_table THEN <<>> ELSE <<Close>>) \o <<Made("h1", module)>>)
          EXCEPT !.first_table = FALSE]
  ELSE Put(ctx, <<Made("module", module), Made("stars", "")>>)

report_subtitleNoClose(ctx, entry) ==   \* mutant: every table counts as the first
  IF Html(ctx) THEN Put(ctx, <<Made("<table>", ""), Made("stitle", entry)>>)
  ELSE Put(ctx, <<Made("entry", entry), Made("dashes", "")>>)
report_subtitle(ctx, entry) ==
  IF Html(ctx)
  THEN [Put(ctx, (IF ctx.first_sub_table THEN <<>> ELSE <<Close>>)
                 \o <<Made("<table>", ""), Made("stitle", entry)>>)
          EXCEPT !.first_sub_table = FALSE]
  ELSE Put(ctx, <<Made("entry", entry), Made("dashes", "")>>)

\* A report holds at each place what f makes of the element there.
Each(seq, f(_)) == FlattenSeq([i \in DOMAIN seq |-> f(seq[i])])

report_subsubtitle(ctx, group) ==
  <<Made(IF Html(ctx) THEN "sstitle" ELSE IF ctx.in_details THEN "block" ELSE "group", group)>>
report_key_value(ctx, key) ==
  <<Made(IF Html(ctx) THEN "tr" ELSE IF ctx.in_details THEN "detail" ELSE "row", key)>>

\* The groups of a page or of the details of a row: a title each, and what is told
\* of each row.  Those whose name begins with $ say how to show the page.
InGroups(ctx, groups, told(_)) ==
  Each(groups, LAMBDA group :
    IF group.param THEN <<>> ELSE report_subsubtitle(ctx, group.name) \o Each(group.rows, told))

\* The details of a row are a table in a row of their own.
report_details(ctx, row) ==
  LET inside == [ctx EXCEPT !.in_details = TRUE]
  IN report_key_value(ctx, row.key)
     \o (IF Html(ctx) THEN <<Made("<table>", "details")>> ELSE <<>>)
     \o InGroups(inside, row.details, LAMBDA r : report_key_value(inside, r.key))
     \o (IF Html(ctx) THEN <<Close>> ELSE <<>>)

WantsDetails(ctx, row) == row.flagged /\ (row.wants \/ ctx.all) /\ row.details # <<>>

\* "shell": the text of the page, and under a key the text of its details
ShellGroups(groups, told(_)) ==
  Each(groups, LAMBDA group : <<Made("[group]", group.name)>> \o Each(group.rows, told))
report_table_shell_dump(ctx, groups) ==
  LET key(row) == <<Made("row", row.key)>>
  IN ShellGroups(groups, LAMBDA row :
       key(row) \o IF (row.wants \/ ctx.all) /\ row.details # <<>>
                   THEN ShellGroups(row.details, key) ELSE <<>>)

report_table(ctx, entry) ==
  Put(ctx, IF ctx.format = "shell" THEN report_table_shell_dump(ctx, Table[entry])
           ELSE InGroups(ctx, Table[entry],
                         LAMBDA row : IF WantsDetails(ctx, row) THEN report_details(ctx, row)
                                      ELSE report_key_value(ctx, row.key)))

report_header(ctx) == IF Html(ctx) THEN Put(ctx, <<Made("head", "")>>) ELSE ctx
report_footer(ctx) == IF Html(ctx) THEN Put(ctx, <<Close, Made("style", "")>>) ELSE ctx
-----------------------------------------------------------------------------
(* Reading a text report (hardinfo2/hardinfo.c): what a topic asked for on  *)
(* the command line prints of it.                                          *)

Dash(line)  == line.kind \in {"group", "dashes"}          \* it begins with -
Heading(line) == line.kind \in {"module", "entry"}

\* active: 0, nothing is printed; 1, a module; 2, an entry; 3, a group; 4, a block of
\* details; -1, nothing is printed any more.  What is printed when the line after
\* this one ends a module or an entry, what begins with this line, and what goes on
\* after it.
TopicEnded(active, next) ==
  CASE active = 1 /\ next.kind = "stars" -> -1
    [] active = 2 /\ next.kind \in {"dashes", "stars"} -> -1
    [] active > 2 /\ next.kind \in {"dashes", "stars"} -> 0
    [] OTHER -> active
TopicBegins(topic, active, line, next) ==
  LET found(at) == <<topic, at, line>> \in Found
  IN IF active # 0 THEN 0
     ELSE IF found(4) THEN 4
     ELSE IF found(1) THEN 3
     ELSE IF found(0) /\ Dash(next) THEN 2
     ELSE IF found(0) /\ next.kind = "stars" THEN 1 ELSE 0
TopicGoesOn(active, next) ==
  CASE active = 4 /\ next.kind \in {"block", "dashes"} -> 0
    [] active >= 3 /\ Dash(next) -> 0
    [] OTHER -> active
TopicHeader(s, line) == IF Heading(line) THEN <<line>> ELSE s.header

TopicLineNoStop(topic, s, line, next) ==   \* mutant: the next heading is not seen
  LET begins == TopicBegins(topic, s.active, line, next)
      active == IF begins # 0 THEN begins ELSE s.active
  IN [active |-> active, header |-> TopicHeader(s, line),
      out |-> s.out \o (IF begins \in {3, 4} THEN TopicHeader(s, line) ELSE <<>>)
                    \o (IF active > 0 THEN <<line>> ELSE <<>>)]
TopicLine(topic, s, line, next) ==
  LET ended  == TopicEnded(s.active, next)
      begins == TopicBegins(topic, ended, line, next)
      active == IF begins # 0 THEN begins ELSE ended
  IN [active |-> TopicGoesOn(active, next), header |-> TopicHeader(s, line),
      out |-> s.out \o (IF begins \in {3, 4} THEN TopicHeader(s, line) ELSE <<>>)
                    \o (IF active > 0 THEN <<line>> ELSE <<>>)]

Topic(topic, lines) ==
  LET next(i) == IF i < Len(lines) THEN lines[i + 1] ELSE Made("end", "")
      at[i \in 0..Len(lines)] ==
        IF i = 0 THEN [active |-> 0, header |-> <<>>, out |-> <<>>]
        ELSE TopicLine(topic, at[i - 1], lines[i], next(i))
  IN at[Len(lines)].out

\* A search prints each line that holds its text, and has no sections.
Anywhere == 5
TextSearch(topic, lines) == SelectSeq(lines, LAMBDA l : <<topic, Anywhere, l>> \in Found)

\* The topic "getlist" prints the names of all that can be a topic.
GetList(lines) == SelectSeq(lines, LAMBDA l : Heading(l) \/ l.kind \in {"group", "block"})
=============================================================================
