--------------------------- MODULE BenchScanProofs ---------------------------
(***************************************************************************)
(* Theorems about BenchScan for every number of benchmarks.  The types and *)
(* the results hold whatever the work in hand is; what Stop does to an     *)
(* upload, and that it is forgotten, follow from the shape of the agenda.  *)
(***************************************************************************)
EXTENDS BenchScan, SequenceTheorems, TLAPS

\* The parts of the state each group of actions leaves alone.
runVars == <<result, scanned, dialog, last, tried>>

LEMMA ConstantFacts ==
  /\ \A b \in Benchmarks : b # None /\ b \in Entries /\ b \in Nat
  /\ Values = {-1, 0, 1} /\ -1 \in Values /\ NoChild \in Children
  /\ \A how \in {"never", "answered", "stopped", "unread"}, v \in Values :
       Ending(how, v) \in Endings /\ Ending(how, v).how = how /\ Ending(how, v).value = v
BY NAssumption DEF Benchmarks, None, Entries, Values, NoChild, Children, Lines, Garbage,
                   Ending, Endings

\* The dialog stays the one of the agenda's head while neither changes, and a step of
\* the agenda is taken while no dialog is open.
LEMMA DialogKept ==
  ASSUME DialogOfHead, agenda' = agenda, dialog' = dialog
  PROVE  DialogOfHead'
BY DEF DialogOfHead, Head1, Idle

LEMMA NoDialog == ASSUME dialog' = None PROVE DialogOfHead'
BY DEF DialogOfHead

\* The types of the state: no watch is left behind when its dialog is gone, and a
\* dialog is open for the scan at the head of the agenda.
THEOREM TypeCorrect == Spec => []TypeOK
<1>1. Init => TypeOK
  <2> SUFFICES ASSUME Init PROVE TypeOK
    OBVIOUS
  <2>1. DialogOfHead
    BY DEF Init, DialogOfHead
  <2>2. result \in [Benchmarks -> Values] /\ scanned \in [Benchmarks -> BOOLEAN]
        /\ last \in [Benchmarks -> Endings]
    BY ConstantFacts DEF Init
  <2> QED BY <2>1, <2>2, ConstantFacts DEF Init, TypeOK
<1>2. TypeOK /\ [Next]_vars => TypeOK'
  <2> SUFFICES ASSUME TypeOK, [Next]_vars PROVE TypeOK'
    OBVIOUS
  <2>1. CASE User
    <3>1. dialog = None
      BY <2>1 DEF User, Refresh, Upload, Report, Select, Begin, Idle, TypeOK, DialogOfHead
    <3>2. UNCHANGED <<result, scanned, aborting, dialogVars, last>> /\ tried' = {}
      BY <2>1 DEF User, Refresh, Upload, Report, Select, Begin
    <3>3. tree' \in Entries \union {None} /\ selected' \in Entries \union {None}
      <4>1. CASE Refresh \/ Upload \/ Report
        BY <4>1 DEF Refresh, Upload, Report, shellVars, TypeOK
      <4>2. ASSUME NEW e \in Entries \union {None}, Select(e)
            PROVE  tree' \in Entries \union {None} /\ selected' \in Entries \union {None}
        BY <4>2 DEF Select, TypeOK
      <4> QED BY <2>1, <4>1, <4>2 DEF User
    <3> QED BY <3>1, <3>2, <3>3, NoDialog DEF dialogVars, TypeOK
  <2>3. CASE ScanReturns
    <3>1. dialog = None
      BY <2>3 DEF ScanReturns, ScanHead, Ready
    <3>2. UNCHANGED <<result, scanned, aborting, shellVars, dialogVars, last, tried>>
      BY <2>3 DEF ScanReturns
    <3> QED BY <3>1, <3>2, NoDialog DEF dialogVars, shellVars, TypeOK
  <2>4. CASE ScanRuns
    <3>1. PICK b \in Benchmarks, reload \in BOOLEAN : ScanRuns!(b, reload)
      BY <2>4 DEF ScanRuns
    <3>2. DialogOfHead'
      <4>1. ~Idle /\ Head1.step \in {"scan", "uploadScan"} /\ Head1.b = b
        BY <3>1 DEF ScanHead, Ready
      <4>2. dialog' = b /\ agenda' = agenda
        BY <3>1
      <4> QED BY <4>1, <4>2 DEF DialogOfHead, Head1, Idle
    <3>3. child' \in Children
      BY <3>1, ConstantFacts DEF Children, NoChild
    <3>4. result' \in [Benchmarks -> Values] /\ scanned' \in [Benchmarks -> BOOLEAN]
      BY <3>1, ConstantFacts DEF TypeOK, AtStart
    <3>5. tried' \subseteq Benchmarks
      BY <3>1 DEF TypeOK
    <3>6. UNCHANGED <<aborting, tree, selected, last>> /\ dialog' = b /\ answer' = -1
          /\ response' = "" /\ watch' = TRUE
      BY <3>1 DEF shellVars
    <3> QED BY <3>2, <3>3, <3>4, <3>5, <3>6, ConstantFacts DEF TypeOK
  <2>5. CASE ScanCannotRun
    <3>1. PICK b \in Benchmarks, reload \in BOOLEAN : ScanCannotRun!(b, reload)
      BY <2>5 DEF ScanCannotRun
    <3>2. dialog' = None /\ UNCHANGED <<aborting, tree, selected, dialogVars>>
      BY <3>1 DEF ScanHead, Ready, dialogVars, shellVars
    <3>3. result' \in [Benchmarks -> Values] /\ scanned' \in [Benchmarks -> BOOLEAN]
          /\ last' \in [Benchmarks -> Endings]
      BY <3>1, ConstantFacts DEF TypeOK, AtStart
    <3>4. tried' \subseteq Benchmarks
      BY <3>1 DEF TypeOK
    <3> QED BY <3>2, <3>3, <3>4, NoDialog DEF TypeOK, dialogVars
  <2>6. CASE DialogReturns
    <3>1. result' \in [Benchmarks -> Values] /\ scanned' \in [Benchmarks -> BOOLEAN]
      BY <2>6 DEF DialogReturns, TypeOK
    <3>2. last' \in [Benchmarks -> Endings]
      <4>1. \E e \in Endings : last' = [last EXCEPT ![dialog] = e]
        <5>1. CASE response = "NONE"
          BY <2>6, <5>1, ConstantFacts DEF DialogReturns, TypeOK
        <5>2. CASE response = "ACCEPT"
          BY <2>6, <5>2, ConstantFacts DEF DialogReturns
        <5>3. CASE response \notin {"NONE", "ACCEPT"}
          BY <2>6, <5>3, ConstantFacts DEF DialogReturns
        <5> QED BY <5>1, <5>2, <5>3
      <4> QED BY <4>1 DEF TypeOK
    <3>3. aborting' \in BOOLEAN
      BY <2>6 DEF DialogReturns, TypeOK
    <3>4. watch' = FALSE
      BY <2>6 DEF DialogReturns, WatchAfter, TypeOK
    <3>5. UNCHANGED <<tree, selected, tried>> /\ dialog' = None /\ child' = NoChild
          /\ answer' = -1 /\ response' = ""
      BY <2>6 DEF DialogReturns, shellVars
    <3> QED BY <3>1, <3>2, <3>3, <3>4, <3>5, NoDialog, ConstantFacts DEF TypeOK
  <2>7. CASE Build \/ ClearAbort \/ Reselect
    <3>1. dialog' = None /\ UNCHANGED <<result, scanned, dialogVars, last, tried, tree>>
      BY <2>7 DEF Build, ClearAbort, Reselect, Ready, dialogVars, shellVars
    <3>2. aborting' \in BOOLEAN
      BY <2>7 DEF Build, ClearAbort, Reselect, TypeOK
    <3>3. selected' \in Entries \union {None}
      <4>1. selected' = selected \/ selected' = tree
        BY <2>7 DEF Build, ClearAbort, Reselect, shellVars
      <4> QED BY <4>1 DEF TypeOK
    <3> QED BY <3>1, <3>2, <3>3, NoDialog DEF dialogVars, TypeOK
  <2>8. CASE Child
    <3>1. child' \in Children
      <4>1. CASE ChildDiesSilently
        BY <4>1 DEF ChildDiesSilently, Children, TypeOK
      <4>2. ASSUME NEW v \in Lines, ChildPrints(v) PROVE child' \in Children
        BY <4>2 DEF ChildPrints, Children
      <4> QED BY <2>8, <4>1, <4>2 DEF Child
    <3>2. UNCHANGED <<result, scanned, aborting, tree, selected, agenda, dialog, answer,
                      response, watch, last, tried>>
      BY <2>8 DEF Child, ChildPrints, ChildDiesSilently, shellVars
    <3> QED BY <3>1, <3>2, DialogKept DEF TypeOK
  <2>9. CASE Handler
    <3>1. answer' \in Values /\ response' \in {"", "NONE", "ACCEPT", "100"}
      BY <2>9, ConstantFacts DEF Handler, ResponseToGarbage, Children, Lines, Garbage, TypeOK
    <3>2. watch' = FALSE /\ UNCHANGED <<result, scanned, aborting, tree, selected, agenda,
                                       dialog, child, last, tried>>
      BY <2>9 DEF Handler, shellVars
    <3> QED BY <3>1, <3>2, DialogKept DEF TypeOK
  <2>10. CASE StopClick
    BY <2>10, DialogKept DEF StopClick, shellVars, TypeOK
  <2>11. CASE UNCHANGED vars
    BY <2>11, DialogKept DEF vars, dialogVars, shellVars, TypeOK
  <2> QED BY <2>1, <2>3, <2>4, <2>5, <2>6, <2>7, <2>8, <2>9, <2>10, <2>11 DEF Next, Program
<1> QED BY <1>1, <1>2, PTL DEF Spec

\* While a benchmark's dialog is open its old result is gone already; that is why a
\* run that is stopped cannot leave it behind.
EmptyWhileRunning == dialog # None => result[dialog] = -1

\* Every result is the one the benchmark's last run gave.
THEOREM ResultIsOfLastRunHolds == Spec => []ResultIsOfLastRun
<1> DEFINE IInv == EmptyWhileRunning /\ ResultIsOfLastRun
<1>1. Init => IInv
  <2> SUFFICES ASSUME Init PROVE IInv
    OBVIOUS
  <2>1. \A b \in Benchmarks : last[b].how = "never" /\ result[b] = -1
    BY ConstantFacts DEF Init
  <2> QED BY <2>1 DEF Init, EmptyWhileRunning, ResultIsOfLastRun
<1>2. TypeOK /\ IInv /\ [Next]_vars => IInv'
  <2> SUFFICES ASSUME TypeOK, IInv, [Next]_vars PROVE IInv'
    OBVIOUS
  <2>1. CASE UNCHANGED runVars
    BY <2>1 DEF runVars, EmptyWhileRunning, ResultIsOfLastRun
  <2>2. CASE User
    <3>1. UNCHANGED <<result, dialog, last>>
      BY <2>2 DEF User, Refresh, Upload, Report, Select, Begin, dialogVars
    <3> QED BY <3>1 DEF EmptyWhileRunning, ResultIsOfLastRun
  <2>3. CASE ScanRuns
    <3>1. PICK b \in Benchmarks, reload \in BOOLEAN : ScanRuns!(b, reload)
      BY <2>3 DEF ScanRuns
    <3>2. dialog = None
      BY <3>1 DEF ScanHead, Ready
    <3>3. result'[b] = -1 /\ dialog' = b /\ last' = last
          /\ \A c \in Benchmarks \ {b} : result'[c] = result[c]
      BY <3>1 DEF TypeOK, AtStart
    <3> QED BY <3>2, <3>3, ConstantFacts DEF EmptyWhileRunning, ResultIsOfLastRun
  <2>4. CASE ScanCannotRun
    <3>1. PICK b \in Benchmarks, reload \in BOOLEAN : ScanCannotRun!(b, reload)
      BY <2>4 DEF ScanCannotRun
    <3>2. dialog = None /\ dialog' = None
      BY <3>1 DEF ScanHead, Ready, dialogVars
    <3>3. result'[b] = -1 /\ last'[b] = Ending("unread", -1)
          /\ \A c \in Benchmarks \ {b} : result'[c] = result[c] /\ last'[c] = last[c]
      BY <3>1 DEF TypeOK, AtStart
    <3> QED BY <3>2, <3>3, ConstantFacts DEF EmptyWhileRunning, ResultIsOfLastRun
  <2>5. CASE DialogReturns
    <3>1. dialog \in Benchmarks /\ dialog' = None /\ result[dialog] = -1
      BY <2>5 DEF DialogReturns, TypeOK, EmptyWhileRunning
    <3>2. result'[dialog] = IF last'[dialog].how = "answered" THEN last'[dialog].value ELSE -1
      BY <2>5, <3>1, ConstantFacts, ZenonT(60) DEF DialogReturns, TypeOK
    <3>3. \A c \in Benchmarks \ {dialog} : result'[c] = result[c] /\ last'[c] = last[c]
      BY <2>5, <3>1 DEF DialogReturns, TypeOK
    <3> QED BY <3>1, <3>2, <3>3 DEF EmptyWhileRunning, ResultIsOfLastRun
  <2>6. CASE ScanReturns \/ Build \/ ClearAbort \/ Reselect \/ Child \/ Handler \/ StopClick
    BY <2>1, <2>6 DEF ScanReturns, Build, ClearAbort, Reselect, Child, ChildPrints,
                      ChildDiesSilently, Handler, StopClick, dialogVars, runVars
  <2>7. CASE UNCHANGED vars
    BY <2>1, <2>7 DEF vars, dialogVars, runVars
  <2> QED BY <2>2, <2>3, <2>4, <2>5, <2>6, <2>7 DEF Next, Program
<1>3. IInv => ResultIsOfLastRun
  OBVIOUS
<1> QED BY <1>1, <1>2, <1>3, TypeCorrect, PTL DEF Spec
-----------------------------------------------------------------------------
\* The agenda.  Scans of an upload and the step that puts its results together stand
\* before all others, and work that follows the selection of an entry ends with a step
\* that clears the abort flag.

Steps ==
  {Scan(b, FALSE) : b \in Benchmarks} \union {Scan(b, TRUE) : b \in Benchmarks}
    \union {UploadScan(b) : b \in Benchmarks} \union {Callback(b) : b \in Benchmarks}
    \union {ResetAbort, ModuleSelected, BuildResults}

Clears(step) == step.step \in {"reset", "callback"}

UploadFirst(a) ==
  \A i, j \in 1..Len(a) :
    i < j /\ a[j].step \in {"uploadScan", "build"} => a[i].step = "uploadScan"

AgendaInv ==
  /\ agenda \in Seq(Steps)
  /\ UploadFirst(agenda)
  /\ \A i \in 1..Len(agenda) : agenda[i].step = "select" => selected # None
  /\ ~Idle /\ selected # None => Clears(agenda[Len(agenda)])

\* The steps, by name.
LEMMA StepFacts ==
  /\ \A b \in Benchmarks : Scan(b, FALSE) \in Steps /\ Scan(b, FALSE).step = "scan"
  /\ \A b \in Benchmarks : Scan(b, TRUE) \in Steps /\ Scan(b, TRUE).step = "scan"
  /\ \A b \in Benchmarks : UploadScan(b) \in Steps /\ UploadScan(b).step = "uploadScan"
  /\ \A b \in Benchmarks : Callback(b) \in Steps /\ Callback(b).step = "callback"
  /\ ResetAbort \in Steps /\ ResetAbort.step = "reset"
  /\ ModuleSelected \in Steps /\ ModuleSelected.step = "select"
  /\ BuildResults \in Steps /\ BuildResults.step = "build"
<1>1. \A b \in Benchmarks : Scan(b, FALSE) \in Steps /\ Scan(b, TRUE) \in Steps
  BY DEF Steps
<1>2. \A b \in Benchmarks : UploadScan(b) \in Steps /\ Callback(b) \in Steps
  BY DEF Steps
<1>3. ResetAbort \in Steps /\ ModuleSelected \in Steps /\ BuildResults \in Steps
  BY DEF Steps
<1>4. \A b : Scan(b, FALSE).step = "scan" /\ Scan(b, TRUE).step = "scan"
  BY DEF Scan
<1>5. \A b : UploadScan(b).step = "uploadScan" /\ Callback(b).step = "callback"
  BY DEF UploadScan, Callback
<1>6. ResetAbort.step = "reset" /\ ModuleSelected.step = "select" /\ BuildResults.step = "build"
  BY DEF ResetAbort, ModuleSelected, BuildResults
<1> QED BY <1>1, <1>2, <1>3, <1>4, <1>5, <1>6

\* A concatenation ends as its second part does.
LEMMA CatIs ==
  ASSUME NEW S, NEW a \in Seq(S), NEW b \in Seq(S), b # <<>>
  PROVE  a \o b \in Seq(S) /\ a \o b # <<>> /\ (a \o b)[Len(a \o b)] = b[Len(b)]
<1>1. Len(a) \in Nat /\ Len(b) \in Nat \ {0}
  BY EmptySeq
<1>2. /\ a \o b \in Seq(S) /\ Len(a \o b) = Len(a) + Len(b)
      /\ (a \o b)[Len(a) + Len(b)] = b[Len(a) + Len(b) - Len(a)]
  BY <1>1, ConcatProperties
<1>3. a \o b # <<>> /\ Len(a) + Len(b) - Len(a) = Len(b)
  BY <1>1, <1>2, EmptySeq
<1> QED BY <1>2, <1>3

\* A function on 1..n is a sequence of length n.
LEMMA FunctionIsSeq ==
  ASSUME NEW S, NEW n \in Nat, NEW f \in [1..n -> S]
  PROVE  f \in Seq(S) /\ Len(f) = n
OBVIOUS

\* To show an entry takes a scan and a callback, or nothing.
LEMMA ShowInfoIs ==
  ASSUME NEW e
  PROVE  /\ ShowInfo(e) \in Seq(Steps)
         /\ \A i \in 1..Len(ShowInfo(e)) : ShowInfo(e)[i].step \in {"scan", "callback"}
         /\ ShowInfo(e) # <<>> => Clears(ShowInfo(e)[Len(ShowInfo(e))])
<1>1. CASE e \in Benchmarks
  <2> DEFINE x == Scan(e, FALSE)
             y == Callback(e)
  <2>1. x \in Steps /\ y \in Steps /\ x.step = "scan" /\ y.step = "callback"
    BY <1>1, StepFacts
  <2>2. ShowInfo(e) = <<x, y>>
    BY <1>1 DEF ShowInfo
  <2> HIDE DEF x, y
  <2> QED BY <2>1, <2>2 DEF Clears
<1>2. CASE e \notin Benchmarks
  BY <1>2 DEF ShowInfo
<1> QED BY <1>1, <1>2

\* shell_do_reload() does nothing before an entry has been selected, and clears the flag
\* last.
LEMMA DoReloadIs ==
  ASSUME NEW r \in BOOLEAN
  PROVE  /\ DoReload(r) \in Seq(Steps)
         /\ \A i \in 1..Len(DoReload(r)) : DoReload(r)[i].step \in {"reset", "scan", "select"}
         /\ selected = None => DoReload(r) = <<>>
         /\ selected # None => DoReload(r) # <<>> /\ Clears(DoReload(r)[Len(DoReload(r))])
<1> DEFINE S == {t \in Steps : t.step \in {"reset", "scan", "select"}}
           z == Scan(selected, TRUE)
           m == IF r /\ selected \in Benchmarks THEN <<z>> ELSE <<>>
           e == <<ModuleSelected, ResetAbort>>
<1>1. ResetAbort \in S /\ ModuleSelected \in S
  BY StepFacts
<1>2. selected \in Benchmarks => z \in S
  BY StepFacts
<1>3. S \subseteq Steps /\ \A t \in S : t.step \in {"reset", "scan", "select"}
  OBVIOUS
<1>4. DoReload(r) = IF selected = None THEN <<>> ELSE <<ResetAbort>> \o m \o e
  BY DEF DoReload
<1> HIDE DEF S, z
<1>5. m \in Seq(S) /\ <<ResetAbort>> \in Seq(S) /\ e \in Seq(S) /\ e # <<>> /\ e[Len(e)] = ResetAbort
  BY <1>1, <1>2
<1>6. Clears(ResetAbort)
  BY StepFacts DEF Clears
<1> HIDE DEF m, e
<1>7. <<ResetAbort>> \o m \in Seq(S)
  BY <1>5, ConcatProperties
<1>8. CASE selected = None
  BY <1>4, <1>8
<1>9. CASE selected # None
  <2>1. DoReload(r) \in Seq(S) /\ DoReload(r) # <<>> /\ DoReload(r)[Len(DoReload(r))] = ResetAbort
    BY <1>4, <1>5, <1>7, <1>9, CatIs
  <2>2. DoReload(r) \in Seq(Steps)
    BY <1>3, <2>1, SeqMonotonic
  <2>3. \A i \in 1..Len(DoReload(r)) : DoReload(r)[i] \in S
    BY <2>1
  <2> QED BY <1>3, <1>6, <1>9, <2>1, <2>2, <2>3
<1> QED BY <1>8, <1>9

\* The report shows every benchmark.
LEMMA ReportAgendaIs ==
  /\ ReportAgenda \in Seq(Steps)
  /\ \A i \in 1..Len(ReportAgenda) : ReportAgenda[i].step \in {"scan", "callback"}
  /\ ReportAgenda # <<>> /\ Clears(ReportAgenda[Len(ReportAgenda)])
<1>1. ASSUME NEW i \in 1..(2 * N)
      PROVE  /\ ReportAgenda[i] \in Steps /\ ReportAgenda[i].step \in {"scan", "callback"}
             /\ i % 2 = 0 => ReportAgenda[i].step = "callback"
  <2>1. N \in Nat /\ i \in Nat
    BY NAssumption
  <2>2. CASE i % 2 = 1
    <3>1. (i + 1) \div 2 \in Benchmarks
      BY <2>1, <2>2 DEF Benchmarks
    <3>2. ReportAgenda[i] = Scan((i + 1) \div 2, FALSE)
      BY <2>2 DEF ReportAgenda
    <3>3. ~(i % 2 = 0)
      BY <2>1, <2>2
    <3>4. ReportAgenda[i] \in Steps /\ ReportAgenda[i].step = "scan"
      BY <3>1, <3>2, StepFacts
    <3> QED BY <3>3, <3>4
  <2>3. CASE i % 2 = 0
    <3>1. i \div 2 \in Benchmarks
      BY <2>1, <2>3 DEF Benchmarks
    <3>2. ReportAgenda[i] = Callback(i \div 2)
      <4>1. ~(i % 2 = 1)
        BY <2>1, <2>3
      <4> QED BY <4>1 DEF ReportAgenda
    <3> QED BY <2>3, <3>1, <3>2, StepFacts
  <2> QED BY <2>1, <2>2, <2>3
<1>2. 2 * N \in Nat /\ 2 * N \in 1..(2 * N) /\ (2 * N) % 2 = 0
  BY NAssumption
<1>3. ReportAgenda \in [1..(2 * N) -> Steps]
  BY <1>1 DEF ReportAgenda
<1>4. ReportAgenda \in Seq(Steps) /\ Len(ReportAgenda) = 2 * N
  BY <1>2, <1>3, FunctionIsSeq
<1> QED BY <1>1, <1>2, <1>4 DEF Clears

\* The upload scans every benchmark, puts the results together, and shows the page.
LEMMA UploadAgendaIs ==
  /\ UploadAgenda \in Seq(Steps)
  /\ Len(UploadAgenda) = N + 1 + Len(DoReload(FALSE)) /\ N \in 1..Len(UploadAgenda)
  /\ \A i \in 1..N : UploadAgenda[i] = UploadScan(i)
  /\ UploadAgenda[N + 1] = BuildResults
  /\ \A i \in 1..Len(UploadAgenda) : i > N + 1 => UploadAgenda[i] = DoReload(FALSE)[i - (N + 1)]
<1> DEFINE s == [b \in Benchmarks |-> UploadScan(b)]
           d == DoReload(FALSE)
<1>1. s \in [1..N -> Steps] /\ N \in Nat
  BY StepFacts, NAssumption DEF Benchmarks
<1>2. s \in Seq(Steps) /\ Len(s) = N
  BY <1>1, FunctionIsSeq
<1>3. <<BuildResults>> \in Seq(Steps) /\ Len(<<BuildResults>>) = 1 /\ d \in Seq(Steps)
  <2>1. d \in Seq(Steps)
    BY DoReloadIs, Zenon
  <2>2. BuildResults \in Steps
    BY StepFacts
  <2>3. <<BuildResults>> \in Seq(Steps) /\ Len(<<BuildResults>>) = 1
    BY <2>2
  <2> QED BY <2>1, <2>3
<1>4. \A i \in 1..N : s[i] = UploadScan(i)
  BY DEF Benchmarks
<1> HIDE DEF s, d
<1> DEFINE p == s \o <<BuildResults>>
<1>5. p \in Seq(Steps) /\ Len(p) = N + 1 /\ p[N + 1] = BuildResults /\ \A i \in 1..N : p[i] = s[i]
  BY <1>1, <1>2, <1>3, ConcatProperties
<1>6. UploadAgenda = p \o d
  BY DEF UploadAgenda, s, d
<1> HIDE DEF p
<1>7. /\ p \o d \in Seq(Steps) /\ Len(p \o d) = N + 1 + Len(d)
      /\ \A i \in 1..(N + 1 + Len(d)) : (p \o d)[i] = IF i <= N + 1 THEN p[i] ELSE d[i - (N + 1)]
  <2>1. /\ p \o d \in Seq(Steps) /\ Len(p \o d) = Len(p) + Len(d)
        /\ \A i \in 1..(Len(p) + Len(d)) : (p \o d)[i] = IF i <= Len(p) THEN p[i] ELSE d[i - Len(p)]
    BY <1>3, <1>5, ConcatProperties
  <2> QED BY <1>5, <2>1
<1>8. Len(d) \in Nat
  BY <1>3
<1>9. \A i \in 1..N : i \in 1..(N + 1 + Len(d)) /\ i <= N + 1
  BY <1>1, <1>8
<1>10. N + 1 \in 1..(N + 1 + Len(d))
  BY <1>1, <1>8
<1>11. \A i \in 1..(N + 1 + Len(d)) : i > N + 1 => (p \o d)[i] = d[i - (N + 1)]
  BY <1>1, <1>7, <1>8
<1>12. (p \o d)[N + 1] = BuildResults /\ \A i \in 1..N : (p \o d)[i] = UploadScan(i)
  BY <1>1, <1>4, <1>5, <1>7, <1>9, <1>10
<1>13. N \in 1..(N + 1 + Len(d))
  BY <1>8, NAssumption
<1> QED BY <1>6, <1>7, <1>11, <1>12, <1>13 DEF d

\* An agenda of a page is one of no upload.
LEMMA PageAgenda ==
  ASSUME NEW a \in Seq(Steps), \A i \in 1..Len(a) : a[i].step \notin {"uploadScan", "build"}
  PROVE  UploadFirst(a)
BY DEF UploadFirst

\* What is left when the first step of the agenda has been taken.
LEMMA PopIs ==
  ASSUME AgendaInv, ~Idle
  PROVE  /\ Tail(agenda) \in Seq(Steps) /\ Len(agenda) \in Nat \ {0} /\ Head1 = agenda[1]
         /\ Len(Tail(agenda)) = Len(agenda) - 1
         /\ \A i \in 1..(Len(agenda) - 1) : Tail(agenda)[i] = agenda[i + 1]
BY HeadTailProperties, EmptySeq DEF AgendaInv, Idle, Head1

LEMMA PopKeepsAgenda ==
  ASSUME AgendaInv, ~Idle, agenda' = Tail(agenda), selected' = selected
  PROVE  AgendaInv'
<1> DEFINE n == Len(agenda)
<1>1. /\ Tail(agenda) \in Seq(Steps) /\ n \in Nat \ {0} /\ Len(agenda') = n - 1
      /\ \A i \in 1..(n - 1) : agenda'[i] = agenda[i + 1]
  BY PopIs
<1> HIDE DEF n
<1>2. UploadFirst(agenda')
  <2> SUFFICES ASSUME NEW i \in 1..(n - 1), NEW j \in 1..(n - 1), i < j,
                      agenda'[j].step \in {"uploadScan", "build"}
               PROVE  agenda'[i].step = "uploadScan"
    BY <1>1 DEF UploadFirst
  <2>1. i + 1 \in 1..n /\ j + 1 \in 1..n /\ i + 1 < j + 1
    BY <1>1
  <2> QED BY <1>1, <2>1 DEF AgendaInv, UploadFirst, n
<1>3. ASSUME NEW i \in 1..Len(agenda'), agenda'[i].step = "select" PROVE selected' # None
  <2>1. i \in 1..(n - 1) /\ i + 1 \in 1..n
    BY <1>1
  <2> QED BY <1>1, <1>3, <2>1 DEF AgendaInv, n
<1>4. ASSUME agenda' # <<>>, selected # None PROVE Clears(agenda'[Len(agenda')])
  <2>1. n - 1 \in Nat \ {0}
    BY <1>1, <1>4, EmptySeq
  <2>2. agenda'[n - 1] = agenda[n]
    BY <1>1, <2>1
  <2> QED BY <1>1, <1>4, <2>2 DEF AgendaInv, n
<1> QED BY <1>1, <1>2, <1>3, <1>4 DEF AgendaInv, Idle

\* The user's work begins with an agenda of that shape.
LEMMA BeginKeepsAgenda ==
  ASSUME User, AgendaInv
  PROVE  AgendaInv'
<1>1. CASE Refresh
  <2>1. selected' = selected /\ selected # None
    BY <1>1 DEF Refresh, shellVars
  <2>2. agenda' = DoReload(TRUE)
    BY <1>1 DEF Refresh, Begin
  <2>3. /\ DoReload(TRUE) \in Seq(Steps)
        /\ \A i \in 1..Len(DoReload(TRUE)) : DoReload(TRUE)[i].step \in {"reset", "scan", "select"}
        /\ Clears(DoReload(TRUE)[Len(DoReload(TRUE))])
    BY <2>1, DoReloadIs, Zenon
  <2>4. UploadFirst(agenda')
    BY <2>2, <2>3, PageAgenda
  <2> QED BY <2>1, <2>2, <2>3, <2>4 DEF AgendaInv, Idle
<1>2. CASE Report
  <2>1. agenda' = ReportAgenda
    BY <1>2 DEF Report, Begin
  <2>2. UploadFirst(ReportAgenda)
    BY ReportAgendaIs, PageAgenda
  <2> QED BY <2>1, <2>2, ReportAgendaIs DEF AgendaInv, Idle
<1>3. ASSUME NEW e, Select(e) PROVE AgendaInv'
  <2>1. agenda' = ShowInfo(e)
    BY <1>3 DEF Select, Begin
  <2>2. UploadFirst(ShowInfo(e))
    BY ShowInfoIs, PageAgenda
  <2>3. \A i \in 1..Len(ShowInfo(e)) : ShowInfo(e)[i].step # "select"
    BY ShowInfoIs
  <2>4. ShowInfo(e) \in Seq(Steps)
        /\ (ShowInfo(e) # <<>> => Clears(ShowInfo(e)[Len(ShowInfo(e))]))
    BY ShowInfoIs
  <2> QED BY <2>1, <2>2, <2>3, <2>4 DEF AgendaInv, Idle
<1>4. CASE Upload
  <2> DEFINE d == DoReload(FALSE)
             u == UploadAgenda
  <2>1. agenda' = u /\ selected' = selected
    BY <1>4 DEF Upload, Begin, shellVars
  <2>2. /\ d \in Seq(Steps)
        /\ \A i \in 1..Len(d) : d[i].step \in {"reset", "scan", "select"}
        /\ selected = None => d = <<>>
        /\ selected # None => d # <<>> /\ Clears(d[Len(d)])
    BY DoReloadIs, Zenon
  <2>3. /\ u \in Seq(Steps) /\ Len(u) = N + 1 + Len(d)
        /\ \A i \in 1..N : u[i] = UploadScan(i)
        /\ u[N + 1] = BuildResults
        /\ \A i \in 1..Len(u) : i > N + 1 => u[i] = d[i - (N + 1)]
    BY UploadAgendaIs
  <2> HIDE DEF d, u
  <2>4. N \in Nat \ {0} /\ Len(d) \in Nat
    BY <2>2, NAssumption, EmptySeq
  <2>5. \A i \in 1..N : u[i].step = "uploadScan"
    BY <2>3, StepFacts DEF Benchmarks
  <2>6. u[N + 1].step = "build"
    BY <2>3, StepFacts
  <2>7. ASSUME NEW i \in 1..Len(u), i > N + 1
        PROVE  i - (N + 1) \in 1..Len(d) /\ u[i].step \in {"reset", "scan", "select"}
    <3>1. i - (N + 1) \in 1..Len(d)
      BY <2>3, <2>4, <2>7
    <3> QED BY <2>2, <2>3, <2>7, <3>1
  <2>8. UploadFirst(u)
    <3> SUFFICES ASSUME NEW i \in 1..Len(u), NEW j \in 1..Len(u), i < j,
                        u[j].step \in {"uploadScan", "build"}
                 PROVE  u[i].step = "uploadScan"
      BY DEF UploadFirst
    <3>1. j <= N + 1
      BY <2>4, <2>7
    <3>2. i \in 1..N
      BY <2>4, <3>1
    <3> QED BY <2>5, <3>2
  <2>9. ASSUME NEW i \in 1..Len(u), u[i].step = "select" PROVE selected # None
    <3>1. i \in 1..N \/ i = N + 1 \/ i > N + 1
      BY <2>4
    <3>2. i > N + 1
      BY <2>5, <2>6, <2>9, <3>1
    <3>3. Len(d) # 0
      BY <2>4, <2>7, <3>2
    <3> QED BY <2>2, <3>3, EmptySeq
  <2>10. ASSUME selected # None PROVE Clears(u[Len(u)])
    <3>1. Len(d) \in Nat \ {0}
      BY <2>2, <2>10, EmptySeq
    <3>2. Len(u) \in 1..Len(u) /\ Len(u) > N + 1 /\ Len(u) - (N + 1) = Len(d)
      BY <2>3, <2>4, <3>1
    <3> QED BY <2>2, <2>3, <2>10, <3>2
  <2> QED BY <2>1, <2>3, <2>8, <2>9, <2>10 DEF AgendaInv, Idle
<1> QED BY <1>1, <1>2, <1>3, <1>4 DEF User

\* The selected row, shown again, takes the place of the step that asks for it.
LEMMA ReselectKeepsAgenda ==
  ASSUME Reselect, AgendaInv
  PROVE  /\ AgendaInv' /\ agenda' # <<>>
         /\ \A i \in 1..Len(agenda') : agenda'[i].step \notin {"uploadScan", "build"}
<1>1. ~Idle /\ Head1.step = "select"
  BY DEF Reselect, Ready
<1> DEFINE t == Tail(agenda)
           n == Len(agenda)
           x == IF aborting THEN <<>> ELSE ShowInfo(tree)
<1>2. /\ t \in Seq(Steps) /\ n \in Nat \ {0} /\ Len(t) = n - 1 /\ Head1 = agenda[1]
      /\ \A i \in 1..(n - 1) : t[i] = agenda[i + 1]
  BY <1>1, PopIs
<1>3. agenda' = x \o t
  BY DEF Reselect
<1>4. selected # None
  <2>1. 1 \in 1..Len(agenda)
    BY <1>2
  <2> QED BY <1>1, <1>2, <2>1 DEF AgendaInv
<1>5. selected' # None
  BY <1>4 DEF Reselect
<1>6. Clears(agenda[n])
  BY <1>1, <1>4 DEF AgendaInv
<1>7. n > 1
  <2>1. n # 1
    BY <1>1, <1>2, <1>6 DEF Clears
  <2> QED BY <1>2, <2>1
<1>8. \A i \in 1..(n - 1) : t[i].step \notin {"uploadScan", "build"}
  <2> SUFFICES ASSUME NEW i \in 1..(n - 1), t[i].step \in {"uploadScan", "build"} PROVE FALSE
    OBVIOUS
  <2>1. 1 \in 1..n /\ i + 1 \in 1..n /\ 1 < i + 1
    BY <1>2
  <2>2. agenda[1].step = "uploadScan"
    BY <1>2, <2>1 DEF AgendaInv, UploadFirst
  <2> QED BY <1>1, <1>2, <2>2
<1> DEFINE S == {s \in Steps : s.step \notin {"uploadScan", "build"}}
<1>9. S \subseteq Steps /\ \A s \in S : s.step \notin {"uploadScan", "build"}
  OBVIOUS
<1>10. x \in Seq(S)
  <2>1. CASE aborting
    BY <2>1, EmptySeq
  <2>2. CASE ~aborting
    <3>1. x \in Seq(Steps) /\ \A i \in 1..Len(x) : x[i] \in S
      <4>1. x = ShowInfo(tree)
        BY <2>2
      <4>2. /\ x \in Seq(Steps)
            /\ \A i \in 1..Len(x) : x[i].step \in {"scan", "callback"}
        BY <4>1, ShowInfoIs
      <4>3. \A i \in 1..Len(x) : x[i] \in Steps
        BY <4>2
      <4> QED BY <4>2, <4>3
    <3> HIDE DEF S, x
    <3> QED BY <3>1
  <2> QED BY <2>1, <2>2
<1>11. t \in Seq(S)
  <2>1. \A i \in 1..Len(t) : t[i] \in S
    BY <1>2, <1>8
  <2> HIDE DEF S, t
  <2> QED BY <1>2, <2>1
<1>12. t # <<>> /\ t[Len(t)] = agenda[n]
  <2>1. n - 1 \in 1..(n - 1) /\ n - 1 # 0 /\ (n - 1) + 1 = n
    BY <1>2, <1>7
  <2> QED BY <1>2, <2>1, EmptySeq
<1> HIDE DEF S, t, x, n
<1>13. agenda' \in Seq(S) /\ agenda' # <<>> /\ agenda'[Len(agenda')] = agenda[n]
  BY <1>3, <1>10, <1>11, <1>12, CatIs
<1>14. agenda' \in Seq(Steps)
  BY <1>9, <1>13, SeqMonotonic
<1>15. \A i \in 1..Len(agenda') : agenda'[i].step \notin {"uploadScan", "build"}
  BY <1>9, <1>13, ElementOfSeq
<1>16. UploadFirst(agenda')
  BY <1>14, <1>15, PageAgenda
<1> QED BY <1>5, <1>6, <1>13, <1>14, <1>15, <1>16 DEF AgendaInv, Idle

\* The agenda keeps its shape: steps are taken from its front, and what a selection puts
\* there is no part of an upload.
LEMMA AgendaCorrect == Spec => []AgendaInv
<1>1. Init => AgendaInv
  <2> SUFFICES ASSUME Init PROVE AgendaInv
    OBVIOUS
  <2>1. agenda = <<>> /\ agenda \in Seq(Steps)
    BY EmptySeq DEF Init
  <2>2. \A i \in 1..Len(agenda) : FALSE
    BY <2>1
  <2>3. UploadFirst(agenda)
    BY <2>2 DEF UploadFirst
  <2> QED BY <2>1, <2>2, <2>3 DEF AgendaInv, Idle
<1>2. TypeOK /\ AgendaInv /\ [Next]_vars => AgendaInv'
  <2> SUFFICES ASSUME TypeOK, AgendaInv, [Next]_vars PROVE AgendaInv'
    OBVIOUS
  <2>1. CASE User
    BY <2>1, BeginKeepsAgenda
  <2>2. CASE Reselect
    BY <2>2, ReselectKeepsAgenda
  <2>3. CASE ScanReturns \/ ScanCannotRun \/ ClearAbort \/ Build
    <3>1. ~Idle /\ agenda' = Tail(agenda) /\ selected' = selected
      BY <2>3 DEF ScanReturns, ScanCannotRun, ClearAbort, Build, ScanHead, Ready, shellVars
    <3> QED BY <3>1, PopKeepsAgenda
  <2>4. CASE DialogReturns
    <3>1. ~Idle /\ agenda' = Tail(agenda) /\ selected' = selected
      BY <2>4 DEF DialogReturns, TypeOK, DialogOfHead, shellVars
    <3> QED BY <3>1, PopKeepsAgenda
  <2>5. CASE UNCHANGED <<agenda, selected>>
    BY <2>5 DEF AgendaInv, UploadFirst, Idle
  <2>6. CASE ScanRuns \/ Child \/ Handler \/ StopClick \/ UNCHANGED vars
    BY <2>5, <2>6 DEF ScanRuns, Child, ChildPrints, ChildDiesSilently, Handler, StopClick, vars,
                      shellVars
  <2> QED BY <2>1, <2>2, <2>3, <2>4, <2>6 DEF Next, Program
<1> QED BY <1>1, <1>2, TypeCorrect, PTL DEF Spec

\* Work that is done leaves the flag clear: whatever was stopped on the way, the next
\* scan runs.
THEOREM AbortIsForgotten == Spec => AbortForgotten
<1>1. TypeOK /\ AgendaInv /\ [Next]_vars =>
        [~Idle /\ Idle' /\ selected # None => ~aborting']_vars
  <2> SUFFICES ASSUME TypeOK, AgendaInv, Next, ~Idle, Idle', selected # None PROVE ~aborting'
    OBVIOUS
  <2>1. Clears(agenda[Len(agenda)]) /\ agenda' = <<>>
    BY DEF AgendaInv, Idle
  <2>2. CASE agenda' = Tail(agenda) /\ Head1.step \notin {"reset", "callback"}
    <3>1. Len(agenda) = 1
      <4>1. Len(agenda) \in Nat \ {0} /\ Len(agenda') = Len(agenda) - 1
        BY <2>2, PopIs
      <4>2. Len(agenda') = 0
        BY <2>1
      <4> QED BY <4>1, <4>2
    <3> QED BY <2>1, <2>2, <3>1, PopIs DEF Clears
  <2>3. CASE ScanReturns \/ ScanCannotRun \/ Build
    BY <2>2, <2>3 DEF ScanReturns, ScanCannotRun, Build, ScanHead, Ready
  <2>4. CASE DialogReturns
    BY <2>2, <2>4 DEF DialogReturns, TypeOK, DialogOfHead
  <2>5. CASE ClearAbort
    BY <2>5 DEF ClearAbort
  <2>6. CASE Reselect
    BY <2>1, <2>6, ReselectKeepsAgenda
  <2>7. CASE User
    BY <2>7 DEF User, Refresh, Upload, Report, Select, Begin
  <2>8. CASE ScanRuns \/ Child \/ Handler \/ StopClick
    BY <2>8 DEF ScanRuns, Child, ChildPrints, ChildDiesSilently, Handler, StopClick, Idle
  <2> QED BY <2>3, <2>4, <2>5, <2>6, <2>7, <2>8 DEF Next, Program
<1> QED BY <1>1, TypeCorrect, AgendaCorrect, PTL DEF Spec, AbortForgotten
-----------------------------------------------------------------------------
\* What an upload has done: the benchmark whose dialog is open was tried; a benchmark that
\* was stopped leaves the flag set while scans of the upload stand first; and until the
\* results are put together every benchmark was stopped, has a result, was tried or is
\* still to be scanned.
UploadStopped(b) == last[b].how = "stopped"
Accounted(b)     == aborting \/ result[b] > 0 \/ b \in tried

StoppedInv ==
  ~Idle /\ Head1.step = "uploadScan" =>
    \A b \in tried \ {dialog} : UploadStopped(b) => aborting /\ dialog = None

AccountInv ==
  \A k \in 1..Len(agenda) : agenda[k].step = "build" =>
    \A b \in Benchmarks : Accounted(b) \/ \E i \in 1..Len(agenda) : agenda[i] = UploadScan(b)

TriedInv == (dialog # None => dialog \in tried) /\ StoppedInv /\ AccountInv

\* Nothing of an upload is left: there is nothing to account for.
LEMMA NoUpload ==
  ASSUME agenda' \in Seq(Steps),
         \A i \in 1..Len(agenda') : agenda'[i].step \notin {"uploadScan", "build"}
  PROVE  StoppedInv' /\ AccountInv'
<1>1. ASSUME agenda' # <<>> PROVE Head(agenda').step # "uploadScan"
  <2>1. Len(agenda') \in Nat \ {0} /\ Head(agenda') = agenda'[1]
    BY <1>1, EmptySeq, HeadTailProperties
  <2> QED BY <2>1
<1> QED BY <1>1 DEF StoppedInv, AccountInv, Idle, Head1

\* A step taken from the front of the agenda: only a scan of the upload has anything left of
\* the upload behind it.
LEMMA PopKeepsTried ==
  ASSUME AgendaInv, TriedInv, ~Idle, agenda' = Tail(agenda), dialog' = None,
         Head1.step = "uploadScan" =>
           /\ \A b \in tried' : UploadStopped(b)' => aborting'
           /\ \A b \in Benchmarks : Accounted(b) \/ Head1 = UploadScan(b) => Accounted(b)'
  PROVE  TriedInv'
<1> DEFINE n == Len(agenda)
<1>1. /\ Tail(agenda) \in Seq(Steps) /\ n \in Nat \ {0} /\ Len(agenda') = n - 1
      /\ \A i \in 1..(n - 1) : agenda'[i] = agenda[i + 1]
      /\ Head1 = agenda[1]
  BY PopIs
<1>2. CASE Head1.step # "uploadScan"
  <2>1. \A i \in 1..Len(agenda') : agenda'[i].step \notin {"uploadScan", "build"}
    <3> SUFFICES ASSUME NEW i \in 1..(n - 1), agenda'[i].step \in {"uploadScan", "build"}
                 PROVE  FALSE
      BY <1>1
    <3>1. 1 \in 1..n /\ i + 1 \in 1..n /\ 1 < i + 1
      BY <1>1
    <3> QED BY <1>1, <1>2, <3>1 DEF AgendaInv, UploadFirst
  <2> QED BY <1>1, <2>1, NoUpload DEF TriedInv
<1>3. CASE Head1.step = "uploadScan"
  <2>1. StoppedInv'
    BY <1>3 DEF StoppedInv
  <2>2. ASSUME NEW k \in 1..(n - 1), agenda'[k].step = "build", NEW b \in Benchmarks
        PROVE  Accounted(b)' \/ \E i \in 1..(n - 1) : agenda'[i] = UploadScan(b)
    <3>1. k + 1 \in 1..n /\ agenda[k + 1].step = "build"
      BY <1>1, <2>2
    <3>2. Accounted(b) \/ \E i \in 1..n : agenda[i] = UploadScan(b)
      BY <3>1 DEF TriedInv, AccountInv
    <3>3. CASE Accounted(b)
      BY <1>3, <3>3
    <3>4. ASSUME NEW i \in 1..n, agenda[i] = UploadScan(b), i # 1
          PROVE  \E j \in 1..(n - 1) : agenda'[j] = UploadScan(b)
      <4>1. i - 1 \in 1..(n - 1) /\ (i - 1) + 1 = i
        BY <1>1, <3>4
      <4> QED BY <1>1, <3>4, <4>1
    <3>5. CASE agenda[1] = UploadScan(b)
      BY <1>1, <1>3, <3>5
    <3> QED BY <3>2, <3>3, <3>4, <3>5
  <2>3. AccountInv'
    BY <1>1, <2>2 DEF AccountInv
  <2> QED BY <2>1, <2>3 DEF TriedInv
<1> QED BY <1>2, <1>3

\* A scan of a benchmark in the agenda is a scan of no other.
LEMMA UploadScanOf == \A b : UploadScan(b).step = "uploadScan" /\ UploadScan(b).b = b
BY DEF UploadScan

\* A stopped benchmark in an upload, other than the one that is running.
LEMMA StoppedIs ==
  ASSUME TriedInv, ~Idle, Head1.step = "uploadScan",
         NEW b \in tried, b # dialog, last[b].how = "stopped"
  PROVE  aborting /\ dialog = None
BY DEF TriedInv, StoppedInv, UploadStopped

LEMMA TriedCorrect == Spec => []TriedInv
<1>1. Init => TriedInv
  <2> SUFFICES ASSUME Init PROVE TriedInv
    OBVIOUS
  <2>1. agenda = <<>>
    BY DEF Init
  <2>2. \A k \in 1..Len(agenda) : FALSE
    BY <2>1
  <2> QED BY <2>1, <2>2 DEF Init, TriedInv, StoppedInv, AccountInv, Idle
<1>2. TypeOK /\ AgendaInv /\ TriedInv /\ [Next]_vars => TriedInv'
  <2> SUFFICES ASSUME TypeOK, AgendaInv, TriedInv, [Next]_vars PROVE TriedInv'
    OBVIOUS
  <2>1. CASE User
    <3>1. dialog' = None /\ tried' = {}
      BY <2>1 DEF User, Refresh, Upload, Report, Select, Begin, Idle, TypeOK, DialogOfHead,
                  dialogVars
    <3>2. StoppedInv'
      BY <3>1 DEF StoppedInv
    <3>3. CASE Upload
      <4>1. agenda' = UploadAgenda
        BY <3>3 DEF Upload, Begin
      <4>2. ASSUME NEW b \in Benchmarks
            PROVE  \E i \in 1..Len(agenda') : agenda'[i] = UploadScan(b)
        <5>1. b \in 1..N
          BY DEF Benchmarks
        <5>2. b \in 1..Len(UploadAgenda)
          <6>1. N \in 1..Len(UploadAgenda)
            BY UploadAgendaIs
          <6> QED BY <5>1, <6>1
        <5> QED BY <4>1, <5>1, <5>2, UploadAgendaIs
      <4>3. AccountInv'
        BY <4>2 DEF AccountInv
      <4> QED BY <3>1, <3>2, <4>3 DEF TriedInv
    <3>4. CASE Refresh \/ Report \/ \E e \in Entries \union {None} : Select(e)
      <4>1. AgendaInv'
        BY <2>1, BeginKeepsAgenda
      <4>2. CASE Refresh
        <5>1. agenda' = DoReload(TRUE)
          BY <4>2 DEF Refresh, Begin
        <5>2. \A i \in 1..Len(DoReload(TRUE)) : DoReload(TRUE)[i].step \in {"reset", "scan", "select"}
          BY DoReloadIs, Zenon
        <5>3. \A i \in 1..Len(agenda') : agenda'[i].step \notin {"uploadScan", "build"}
          BY <5>1, <5>2
        <5> QED BY <4>1, <5>3, <3>1, NoUpload DEF TriedInv, AgendaInv
      <4>3. CASE Report
        <5>1. agenda' = ReportAgenda
          BY <4>3 DEF Report, Begin
        <5>2. \A i \in 1..Len(agenda') : agenda'[i].step \notin {"uploadScan", "build"}
          BY <5>1, ReportAgendaIs
        <5> QED BY <4>1, <5>2, <3>1, NoUpload DEF TriedInv, AgendaInv
      <4>4. ASSUME NEW e, Select(e) PROVE TriedInv'
        <5>1. agenda' = ShowInfo(e)
          BY <4>4 DEF Select, Begin
        <5>2. \A i \in 1..Len(agenda') : agenda'[i].step \notin {"uploadScan", "build"}
          BY <5>1, ShowInfoIs
        <5> QED BY <4>1, <5>2, <3>1, NoUpload DEF TriedInv, AgendaInv
      <4> QED BY <3>4, <4>2, <4>3, <4>4
    <3> QED BY <2>1, <3>3, <3>4 DEF User
  <2>2. CASE ScanReturns
    <3>1. PICK b \in Benchmarks, reload \in BOOLEAN : ScanReturns!(b, reload)
      BY <2>2 DEF ScanReturns
    <3>2. ~Idle /\ agenda' = Tail(agenda) /\ dialog = None /\ Head1.b = b
      BY <3>1 DEF ScanHead, Ready
    <3>3. UNCHANGED <<result, aborting, dialog, last, tried>>
      BY <3>1 DEF dialogVars
    <3>4. Accounted(b)
      <4>1. aborting \/ ~(result[b] <= 0)
        BY <3>1 DEF ScanAllowed, NeedsRun
      <4>2. result[b] \in {-1, 0, 1}
        BY DEF TypeOK, Values
      <4>3. result[b] <= 0 \/ result[b] > 0
        BY <4>2
      <4> QED BY <4>1, <4>3 DEF Accounted
    <3>5. \A c \in Benchmarks : Accounted(c) \/ Head1 = UploadScan(c) => Accounted(c)'
      BY <3>2, <3>3, <3>4, UploadScanOf DEF Accounted
    <3>6. Head1.step = "uploadScan" => \A c \in tried' : UploadStopped(c)' => aborting'
      <4> SUFFICES ASSUME Head1.step = "uploadScan", NEW c \in tried, last[c].how = "stopped"
                   PROVE  aborting
        BY <3>3 DEF UploadStopped
      <4>1. c # dialog
        BY <3>2, ConstantFacts, ZenonT(60) DEF TypeOK
      <4> QED BY <3>2, <4>1, StoppedIs
    <3> QED BY <3>2, <3>3, <3>5, <3>6, PopKeepsTried
  <2>3. CASE ScanRuns
    <3>1. PICK b \in Benchmarks, reload \in BOOLEAN : ScanRuns!(b, reload)
      BY <2>3 DEF ScanRuns
    <3>2. dialog = None /\ ~aborting
      BY <3>1 DEF ScanHead, Ready, ScanAllowed
    <3>3. dialog' = b /\ tried' = tried \union {b} /\ UNCHANGED <<aborting, agenda, last>>
          /\ \A c \in Benchmarks \ {b} : result'[c] = result[c]
      BY <3>1 DEF TypeOK
    <3>4. StoppedInv'
      <4> SUFFICES ASSUME ~Idle, Head1.step = "uploadScan", NEW c \in tried \ {b},
                          last[c].how = "stopped"
                   PROVE  FALSE
        BY <3>3 DEF StoppedInv, UploadStopped, Idle, Head1
      <4>1. c # dialog
        BY <3>2, ConstantFacts, ZenonT(60) DEF TypeOK
      <4> QED BY <3>2, <4>1, StoppedIs
    <3>5. \A c \in Benchmarks : Accounted(c) => Accounted(c)'
      BY <3>3 DEF Accounted
    <3>6. AccountInv'
      BY <3>3, <3>5 DEF TriedInv, AccountInv
    <3> QED BY <3>3, <3>4, <3>6 DEF TriedInv
  <2>4. CASE ScanCannotRun
    <3>1. PICK b \in Benchmarks, reload \in BOOLEAN : ScanCannotRun!(b, reload)
      BY <2>4 DEF ScanCannotRun
    <3>2. ~Idle /\ agenda' = Tail(agenda) /\ dialog = None /\ dialog' = None /\ Head1.b = b
      BY <3>1 DEF ScanHead, Ready, dialogVars
    <3>3. /\ tried' = tried \union {b} /\ aborting' = aborting
          /\ last'[b].how = "unread"
          /\ \A c \in Benchmarks \ {b} : result'[c] = result[c] /\ last'[c] = last[c]
      BY <3>1, ConstantFacts, ZenonT(60) DEF TypeOK
    <3>4. \A c \in Benchmarks : Accounted(c) \/ Head1 = UploadScan(c) => Accounted(c)'
      BY <3>2, <3>3, UploadScanOf DEF Accounted
    <3>5. Head1.step = "uploadScan" => \A c \in tried' : UploadStopped(c)' => aborting'
      <4> SUFFICES ASSUME Head1.step = "uploadScan", NEW c \in tried', last'[c].how = "stopped"
                   PROVE  aborting
        BY <3>3 DEF UploadStopped
      <4>1. c # b /\ c \in tried /\ c \in Benchmarks
        BY <3>3 DEF TypeOK
      <4>2. last[c].how = "stopped" /\ c # dialog
        BY <3>2, <3>3, <4>1, ConstantFacts
      <4> QED BY <3>2, <4>1, <4>2, StoppedIs
    <3> QED BY <3>2, <3>4, <3>5, PopKeepsTried
  <2>5. CASE DialogReturns
    <3>1. dialog \in Benchmarks /\ dialog \in tried /\ dialog' = None /\ agenda' = Tail(agenda)
          /\ ~Idle /\ Head1.b = dialog /\ tried' = tried
      BY <2>5 DEF DialogReturns, TriedInv, TypeOK, DialogOfHead
    <3>2. /\ aborting => aborting'
          /\ last'[dialog].how = "stopped" => aborting'
          /\ \A c \in Benchmarks \ {dialog} : result'[c] = result[c] /\ last'[c] = last[c]
      <4>1. (aborting => aborting') /\ (response # "NONE" => aborting')
        BY <2>5 DEF DialogReturns
      <4>2. PICK e : last' = [last EXCEPT ![dialog] = e] /\ (response = "NONE" => e.how = "answered")
        <5>1. CASE response = "NONE"
          <6>1. last' = [last EXCEPT ![dialog] = Ending("answered", answer)]
            BY <2>5, <5>1 DEF DialogReturns
          <6>2. Ending("answered", answer).how = "answered"
            BY DEF Ending
          <6> QED BY <6>1, <6>2, Zenon
        <5>2. CASE response # "NONE"
          BY <2>5, <5>2 DEF DialogReturns
        <5> QED BY <5>1, <5>2
      <4>3. \A c \in Benchmarks \ {dialog} : result'[c] = result[c]
        BY <2>5 DEF DialogReturns, TypeOK
      <4>4. last'[dialog] = e /\ \A c \in Benchmarks \ {dialog} : last'[c] = last[c]
        BY <3>1, <4>2 DEF TypeOK
      <4> QED BY <4>1, <4>2, <4>3, <4>4
    <3>3. \A c \in Benchmarks : Accounted(c) \/ Head1 = UploadScan(c) => Accounted(c)'
      BY <3>1, <3>2, UploadScanOf DEF Accounted
    <3>4. Head1.step = "uploadScan" => \A c \in tried' : UploadStopped(c)' => aborting'
      BY <3>1, <3>2 DEF TriedInv, StoppedInv, UploadStopped, TypeOK
    <3> QED BY <3>1, <3>3, <3>4, PopKeepsTried
  <2>6. CASE ClearAbort \/ Build
    <3>1. ~Idle /\ agenda' = Tail(agenda) /\ dialog' = None /\ Head1.step # "uploadScan"
      BY <2>6 DEF ClearAbort, Build, Ready, dialogVars
    <3> QED BY <3>1, PopKeepsTried
  <2>7. CASE Reselect
    <3>1. AgendaInv' /\ \A i \in 1..Len(agenda') : agenda'[i].step \notin {"uploadScan", "build"}
      BY <2>7, ReselectKeepsAgenda
    <3>2. dialog' = None
      BY <2>7 DEF Reselect, Ready, dialogVars
    <3> QED BY <3>1, <3>2, NoUpload DEF TriedInv, AgendaInv
  <2>8. CASE Child \/ Handler \/ StopClick \/ UNCHANGED vars
    <3>1. UNCHANGED <<result, aborting, agenda, dialog, last, tried>>
      BY <2>8 DEF Child, ChildPrints, ChildDiesSilently, Handler, StopClick, vars, dialogVars
    <3> QED BY <3>1 DEF TriedInv, StoppedInv, AccountInv, Accounted, UploadStopped, Idle, Head1
  <2> QED BY <2>1, <2>2, <2>3, <2>4, <2>5, <2>6, <2>7, <2>8 DEF Next, Program
<1> QED BY <1>1, <1>2, TypeCorrect, AgendaCorrect, PTL DEF Spec

\* Once a benchmark of an upload was stopped the upload starts no other: a flag cleared by a
\* callback of another page does not let one through.
THEOREM StopEndsUploadHolds == Spec => []StopEndsUpload
<1>1. TriedInv => StopEndsUpload
  BY DEF TriedInv, StoppedInv, UploadStopped, StopEndsUpload
<1> QED BY <1>1, TriedCorrect, PTL

\* An upload that was not stopped has run every benchmark without a result when it puts the
\* results together.
THEOREM UploadTriesAllHolds == Spec => []UploadTriesAll
<1>1. TypeOK /\ AgendaInv /\ TriedInv => UploadTriesAll
  <2> SUFFICES ASSUME TypeOK, AgendaInv, TriedInv, Ready("build"), ~aborting,
                      NEW b \in Benchmarks, result[b] <= 0
               PROVE  b \in tried
    BY DEF UploadTriesAll
  <2>1. ~Idle /\ Head1 = agenda[1] /\ agenda[1].step = "build" /\ 1 \in 1..Len(agenda)
    BY PopIs DEF Ready
  <2>2. \A i \in 1..Len(agenda) : agenda[i].step # "uploadScan"
    <3> SUFFICES ASSUME NEW i \in 1..Len(agenda), agenda[i].step = "uploadScan" PROVE FALSE
      OBVIOUS
    <3>1. i # 1 /\ 1 < i
      BY <2>1
    <3> QED BY <2>1, <3>1 DEF AgendaInv, UploadFirst
  <2>3. Accounted(b)
    BY <2>1, <2>2, UploadScanOf DEF TriedInv, AccountInv
  <2>4. result[b] \in {-1, 0, 1}
    BY DEF TypeOK, Values
  <2> QED BY <2>3, <2>4 DEF Accounted
<1> QED BY <1>1, TypeCorrect, AgendaCorrect, TriedCorrect, PTL
=============================================================================
