--------------------------- MODULE ShellPageProofs ---------------------------
(* What holds of the main window for every number of entries and timers.    *)
EXTENDS ShellPage, SequenceTheorems, FunctionTheorems, FiniteSetTheorems, TLAPS

-----------------------------------------------------------------------------
(* The data of field timers *)

LEMMA TimerDataInit == Init => TimerDataAllocated
  BY DEF Init, TimerDataAllocated

\* One step per action that touches the timers; the others leave them alone.
LEMMA TimerDataStep == TimerDataAllocated /\ [Next]_vars => TimerDataAllocated'
<1> SUFFICES ASSUME TimerDataAllocated, [Next]_vars PROVE TimerDataAllocated'
  OBVIOUS
<1> USE DEF TimerDataAllocated
<1>1. ASSUME NEW t \in Timers, FieldEnds(t) PROVE TimerDataAllocated'
  BY <1>1 DEF FieldEnds, RecordsDropped
<1>2. ASSUME NEW t \in Timers, FieldUnknown(t) PROVE TimerDataAllocated'
  <2>1. CASE t \in list
    BY <1>2, <2>1 DEF FieldUnknown
  <2>2. CASE t \notin list
    BY <1>2, <2>2 DEF FieldUnknown
  <2> QED BY <2>1, <2>2
<1>3. CASE ShowInfo
  BY <1>3 DEF ShowInfo, Cleared
<1>4. CASE UNCHANGED fields
  BY <1>4 DEF fields
<1>5. CASE UNCHANGED vars
  BY <1>5, <1>4 DEF vars, timers
<1>6. CASE Handler
  <2>1. CASE ShowInfo
    BY <1>3, <2>1
  <2>2. CASE ~ShowInfo
    BY <1>4, <1>6, <2>2
    DEF Handler, EventsEnd, ViewSetEnabled, WindowUpdated, SelectReturns, SelectBegins, ShowEntry,
        ShowModule, ScanReturns, ScanOpens, SelectEnds, ReloadBegins, ReloadSelects, ReloadEnds,
        timers
  <2> QED BY <2>1, <2>2
<1>7. CASE Timer
  <2>1. ASSUME NEW t \in Timers, FieldShown(t) PROVE TimerDataAllocated'
    BY <1>4, <2>1 DEF FieldShown, timers
  <2>2. ASSUME NEW e \in Entries, ReloadTimerFires(e) \/ ReloadTimerEnds(e) \/ RescanTimerFires(e)
        PROVE TimerDataAllocated'
    BY <1>4, <2>2 DEF ReloadTimerFires, ReloadTimerEnds, RescanTimerFires
  <2> QED BY <1>7, <1>1, <1>2, <2>1, <2>2 DEF Timer
<1>8. CASE User
  BY <1>4, <1>8 DEF User, Click, Refresh, StyleChange, Close, DialogReturns, timers
<1> QED BY <1>5, <1>6, <1>7, <1>8 DEF Next, Exited

\* No field timer fires, and none is recorded, whose data was freed (shell.c:1776-1850, 2400-2417).
THEOREM TimerDataAllocatedHolds == Spec => []TimerDataAllocated
BY TimerDataInit, TimerDataStep, PTL DEF Spec

-----------------------------------------------------------------------------
(* Closing the window *)

\* A request waits only while an update runs, which is why the step that ends the
\* update is the one that must look at it.
AskedWhileUpdating == closing => updating \/ quit

LEMMA AskedInit == Init => AskedWhileUpdating
  BY DEF Init, AskedWhileUpdating

\* What a step does to the window: nothing, a closing request, or the end of
\* shell_view_set_enabled().
LEMMA WindowSteps ==
  ASSUME Next
  PROVE  \/ UNCHANGED <<updating, closing, quit>>
         \/ Close
         \/ WindowUpdated
<1>1. CASE Handler
  BY <1>1 DEF Handler, EventsEnd, ViewSetEnabled, SelectReturns, SelectBegins, ShowEntry,
        ShowModule, ScanReturns, ScanOpens, ShowInfo, SelectEnds, ReloadBegins, ReloadSelects, ReloadEnds,
        window
<1>2. CASE Timer
  BY <1>2 DEF Timer, FieldShown, FieldEnds, FieldUnknown, ReloadTimerFires, ReloadTimerEnds, RescanTimerFires, window
<1>3. CASE User
  BY <1>3 DEF User, Click, Refresh, StyleChange, DialogReturns, window
<1>4. CASE Exited
  BY <1>4 DEF Exited, vars, window
<1> QED BY <1>1, <1>2, <1>3, <1>4 DEF Next

LEMMA AskedStep == AskedWhileUpdating /\ [Next]_vars => AskedWhileUpdating'
<1> SUFFICES ASSUME AskedWhileUpdating, [Next]_vars PROVE AskedWhileUpdating'
  OBVIOUS
<1>1. CASE UNCHANGED <<updating, closing, quit>>
  BY <1>1 DEF AskedWhileUpdating
<1>2. CASE Close
  BY <1>2 DEF Close, CloseNow, AskedWhileUpdating
<1>3. CASE WindowUpdated
  BY <1>3 DEF WindowUpdated, QuitAfter, AskedWhileUpdating
<1>4. CASE UNCHANGED vars
  BY <1>1, <1>4 DEF vars, window
<1> QED BY <1>1, <1>2, <1>3, <1>4, WindowSteps

LEMMA CloseInit == Init => Closing!Init
  BY DEF Init, Closing!Init

LEMMA CloseStep ==
  AskedWhileUpdating /\ [Next]_vars => [Closing!Next]_(<<IF quit THEN "gone" ELSE IF updating THEN "busy" ELSE "open", closing>>)
<1> SUFFICES ASSUME AskedWhileUpdating, [Next]_vars
             PROVE  [Closing!Next]_(<<IF quit THEN "gone" ELSE IF updating THEN "busy" ELSE "open", closing>>)
  OBVIOUS
<1> USE DEF Closing!Next, Closing!Begin, Closing!Finish, Closing!Ask, Closing!Close
<1>1. CASE UNCHANGED <<updating, closing, quit>>
  BY <1>1
<1>2. CASE Close
  BY <1>2 DEF Close, CloseNow, Waiting, At, AtRest
<1>3. CASE WindowUpdated
  <2>1. CASE Head1.on
    BY <1>3, <2>1 DEF WindowUpdated, QuitAfter, At, AskedWhileUpdating
  <2>2. CASE ~Head1.on
    BY <1>3, <2>2 DEF WindowUpdated, QuitAfter, At
  <2> QED BY <2>1, <2>2
<1>4. CASE UNCHANGED vars
  BY <1>1, <1>4 DEF vars, window
<1> QED BY <1>1, <1>2, <1>3, <1>4, WindowSteps

\* The window implements CloseRequest: whatever the user, the timers and the desktop do in
\* between, a window with a close request waiting is gone when its update ends
\* (shell.c:691-692, 744-750).
THEOREM CloseRefinesHolds == Spec => CloseRefines
<1>1. Init /\ AskedWhileUpdating => Closing!Init
  BY CloseInit
<1> QED BY AskedInit, AskedStep, CloseInit, CloseStep, PTL DEF Spec, CloseRefines, Closing!Spec
-----------------------------------------------------------------------------
(* The agenda: what the handlers at work have left to do *)

Dos == {"events", "view", "window", "select", "show", "scan", "dialog", "fill", "module", "end",
        "reload", "reloaded", "enable"}
Steps == {s \in [do : Dos, e : Entries \union {None}, on : BOOLEAN, n : Int] :
            /\ s.do = "show" => s.e \in Entries
            /\ s.do = "fill" => s.e \in Entries /\ s = Fill(s.e, s.on)
            /\ s.do = "module" => s.e = None
            /\ s.do = "end" => s = EndSelect(s.e)}

Els(a) == {a[i] : i \in DOMAIN a}

\* What a step leaves to a later one: a step that disables the window leaves it to be
\* enabled, one that belongs to a module_selected() leaves that its end.
Enables(s)  == s.do \in {"select", "reload", "reloaded"} \/ (s.do = "view" /\ s.on)
Disables(s) == s.do = "scan" \/ (s.do \in {"view", "window"} /\ ~s.on)
Belongs(s)  == s.do \in {"show", "module"} \/ (s.do = "fill" /\ ~s.on)
Enablers    == {s \in Steps : Enables(s)}
Left(s) == (IF Disables(s) THEN {Enablers} ELSE {})
             \union (IF Belongs(s) THEN {{EndSelect(s.e)}} ELSE {})

\* What the steps of a leave is done by later ones, or by those of S that come after.
Kept(a, S) == \A i \in DOMAIN a : \A p \in Left(a[i]) :
                \/ \E j \in DOMAIN a : i < j /\ a[j] \in p
                \/ \E s \in S : s \in p
Followed(a) == Kept(a, {})

\* One module_selected() at most is at work.
OneEnd(a) == \A i, j \in DOMAIN a : a[i].do = "end" /\ a[j].do = "end" => i = j

\* Steps that begin as soon as they are on the agenda, before any event is handled.
Urgent(s) == s.do = "select" \/ (s.do = "fill" /\ s.on)
Calm(a)   == \A s \in Els(a) : ~Urgent(s)

Shape(a) ==
  a \in Seq(Steps) /\ Followed(a) /\ OneEnd(a) /\ (a # <<>> => Calm(Tail(a)))

LEMMA ElsAre ==
  ASSUME NEW a
  PROVE  (\A i \in DOMAIN a : a[i] \in Els(a)) /\ (\A v \in Els(a) : \E i \in DOMAIN a : v = a[i])
BY DEF Els

\* The elements and the order of a concatenation
LEMMA CatIs ==
  ASSUME NEW S, NEW x \in Seq(S), NEW y \in Seq(S)
  PROVE  /\ x \o y \in Seq(S) /\ Els(x \o y) = Els(x) \union Els(y)
         /\ Len(x) \in Nat /\ Len(y) \in Nat
         /\ DOMAIN x = 1..Len(x) /\ DOMAIN y = 1..Len(y) /\ DOMAIN (x \o y) = 1..(Len(x) + Len(y))
         /\ \A i \in 1..Len(x) : (x \o y)[i] = x[i]
         /\ \A i \in 1..Len(y) : (x \o y)[Len(x) + i] = y[i]
<1> DEFINE z == x \o y
<1>1. /\ Len(x) \in Nat /\ Len(y) \in Nat /\ DOMAIN x = 1..Len(x) /\ DOMAIN y = 1..Len(y)
      /\ z \in Seq(S) /\ Len(z) = Len(x) + Len(y) /\ DOMAIN z = 1..(Len(x) + Len(y))
      /\ \A i \in 1..(Len(x) + Len(y)) : z[i] = IF i <= Len(x) THEN x[i] ELSE y[i - Len(x)]
  BY ConcatProperties, LenProperties
<1> HIDE DEF z
<1>2. \A i \in 1..Len(x) : i \in 1..(Len(x) + Len(y)) /\ z[i] = x[i]
  BY <1>1
<1>3. ASSUME NEW i \in 1..Len(y) PROVE Len(x) + i \in 1..(Len(x) + Len(y)) /\ z[Len(x) + i] = y[i]
  <2>1. Len(x) + i \in 1..(Len(x) + Len(y)) /\ ~(Len(x) + i <= Len(x)) /\ (Len(x) + i) - Len(x) = i
    BY <1>1
  <2> QED BY <1>1, <2>1
<1>4. ASSUME NEW i \in 1..(Len(x) + Len(y)), ~(i <= Len(x)) PROVE i - Len(x) \in 1..Len(y)
  BY <1>1, <1>4
<1>5. Els(z) = Els(x) \union Els(y)
  <2>1. ASSUME NEW i \in 1..(Len(x) + Len(y)) PROVE z[i] \in Els(x) \union Els(y)
    <3>1. CASE i <= Len(x)
      BY <1>1, <3>1, ElsAre
    <3>2. CASE ~(i <= Len(x))
      BY <1>1, <1>4, <3>2, ElsAre
    <3> QED BY <3>1, <3>2
  <2>2. \A i \in 1..Len(x) : x[i] \in Els(z)
    BY <1>1, <1>2, ElsAre
  <2>3. \A i \in 1..Len(y) : y[i] \in Els(z)
    BY <1>1, <1>3, ElsAre
  <2>4. Els(z) \subseteq Els(x) \union Els(y)
    BY <1>1, <2>1, ElsAre
  <2>5. Els(x) \subseteq Els(z) /\ Els(y) \subseteq Els(z)
    BY <1>1, <2>2, <2>3, ElsAre
  <2> QED BY <2>4, <2>5
<1> QED BY <1>1, <1>2, <1>3, <1>5 DEF z

\* What follows in a concatenation
LEMMA FollowedCat ==
  ASSUME NEW x \in Seq(Steps), NEW y \in Seq(Steps), Followed(y), Kept(x, Els(y))
  PROVE  Followed(x \o y)
<1>1. /\ Len(x) \in Nat /\ Len(y) \in Nat
      /\ DOMAIN x = 1..Len(x) /\ DOMAIN y = 1..Len(y) /\ DOMAIN (x \o y) = 1..(Len(x) + Len(y))
      /\ \A i \in 1..Len(x) : (x \o y)[i] = x[i]
      /\ \A i \in 1..Len(y) : (x \o y)[Len(x) + i] = y[i]
  BY CatIs
<1> SUFFICES ASSUME NEW i \in 1..(Len(x) + Len(y)), NEW p \in Left((x \o y)[i])
             PROVE  \E j \in 1..(Len(x) + Len(y)) : i < j /\ (x \o y)[j] \in p
  BY <1>1 DEF Followed, Kept
<1>2. CASE i <= Len(x)
  <2>1. i \in 1..Len(x) /\ p \in Left(x[i])
    BY <1>1, <1>2
  <2>2. CASE \E j \in 1..Len(x) : i < j /\ x[j] \in p
    <3>1. PICK j \in 1..Len(x) : i < j /\ x[j] \in p
      BY <2>2
    <3>2. j \in 1..(Len(x) + Len(y))
      BY <1>1
    <3> QED BY <1>1, <3>1, <3>2
  <2>3. CASE \E s \in Els(y) : s \in p
    <3>1. PICK k \in 1..Len(y) : y[k] \in p
      BY <1>1, <2>3 DEF Els
    <3>2. Len(x) + k \in 1..(Len(x) + Len(y)) /\ i < Len(x) + k
      BY <1>1, <2>1
    <3> QED BY <1>1, <3>1, <3>2
  <2> QED BY <1>1, <2>1, <2>2, <2>3 DEF Kept
<1>3. CASE i > Len(x)
  <2>1. i - Len(x) \in 1..Len(y) /\ Len(x) + (i - Len(x)) = i
    BY <1>1, <1>3
  <2>2. p \in Left(y[i - Len(x)])
    BY <1>1, <2>1
  <2>3. PICK j \in 1..Len(y) : i - Len(x) < j /\ y[j] \in p
    BY <1>1, <2>1, <2>2 DEF Followed, Kept
  <2>4. Len(x) + j \in 1..(Len(x) + Len(y)) /\ i < Len(x) + j
    BY <1>1, <2>3
  <2> QED BY <1>1, <2>3, <2>4
<1> QED BY <1>1, <1>2, <1>3

\* At most one of the parts may end a module_selected().
LEMMA OneEndCat ==
  ASSUME NEW x \in Seq(Steps), NEW y \in Seq(Steps), OneEnd(x), OneEnd(y),
         (\A s \in Els(x) : s.do # "end") \/ (\A s \in Els(y) : s.do # "end")
  PROVE  OneEnd(x \o y)
<1>1. /\ Len(x) \in Nat /\ Len(y) \in Nat
      /\ DOMAIN x = 1..Len(x) /\ DOMAIN y = 1..Len(y) /\ DOMAIN (x \o y) = 1..(Len(x) + Len(y))
      /\ \A i \in 1..Len(x) : (x \o y)[i] = x[i]
      /\ \A i \in 1..Len(y) : (x \o y)[Len(x) + i] = y[i]
  BY CatIs
<1> SUFFICES ASSUME NEW i \in 1..(Len(x) + Len(y)), NEW j \in 1..(Len(x) + Len(y)),
                    (x \o y)[i].do = "end", (x \o y)[j].do = "end"
             PROVE  i = j
  BY <1>1 DEF OneEnd
<1>2. \A k \in 1..(Len(x) + Len(y)) :
        \/ k \in 1..Len(x) /\ (x \o y)[k] = x[k]
        \/ k - Len(x) \in 1..Len(y) /\ (x \o y)[k] = y[k - Len(x)]
  <2> SUFFICES ASSUME NEW k \in 1..(Len(x) + Len(y)), k \notin 1..Len(x)
               PROVE  k - Len(x) \in 1..Len(y) /\ (x \o y)[k] = y[k - Len(x)]
    BY <1>1
  <2>1. k - Len(x) \in 1..Len(y) /\ Len(x) + (k - Len(x)) = k
    BY <1>1
  <2> QED BY <1>1, <2>1
<1>3. CASE i \in 1..Len(x) /\ (x \o y)[i] = x[i] /\ j \in 1..Len(x) /\ (x \o y)[j] = x[j]
  BY <1>1, <1>3 DEF OneEnd
<1>4. CASE /\ i - Len(x) \in 1..Len(y) /\ (x \o y)[i] = y[i - Len(x)]
           /\ j - Len(x) \in 1..Len(y) /\ (x \o y)[j] = y[j - Len(x)]
  <2>1. i - Len(x) = j - Len(x)
    BY <1>1, <1>4 DEF OneEnd
  <2> QED BY <1>1, <2>1
<1>5. CASE /\ i \in 1..Len(x) /\ (x \o y)[i] = x[i]
           /\ j - Len(x) \in 1..Len(y) /\ (x \o y)[j] = y[j - Len(x)]
  BY <1>1, <1>5 DEF Els
<1>6. CASE /\ j \in 1..Len(x) /\ (x \o y)[j] = x[j]
           /\ i - Len(x) \in 1..Len(y) /\ (x \o y)[i] = y[i - Len(x)]
  BY <1>1, <1>6 DEF Els
<1> QED BY <1>2, <1>3, <1>4, <1>5, <1>6

\* An agenda without its first step
LEMMA TailShape ==
  ASSUME NEW a, Shape(a), a # <<>>
  PROVE  /\ Tail(a) \in Seq(Steps) /\ Head(a) \in Steps /\ Els(a) = {Head(a)} \union Els(Tail(a))
         /\ Followed(Tail(a)) /\ OneEnd(Tail(a)) /\ Calm(Tail(a))
         /\ \A p \in Left(Head(a)) : \E s \in Els(Tail(a)) : s \in p
         /\ Head(a).do = "end" => \A s \in Els(Tail(a)) : s.do # "end"
<1> DEFINE n == Len(a)
           t == Tail(a)
<1>1. /\ n \in Nat \ {0} /\ DOMAIN a = 1..n /\ t \in Seq(Steps) /\ DOMAIN t = 1..(n - 1)
      /\ Head(a) = a[1] /\ Head(a) \in Steps
      /\ \A i \in 1..(n - 1) : t[i] = a[i + 1]
  BY HeadTailProperties, EmptySeq, LenProperties DEF Shape
<1> HIDE DEF n, t
<1>2. /\ 1 \in 1..n
      /\ \A i \in 1..(n - 1) : i + 1 \in 1..n /\ i + 1 # 1
      /\ \A i \in 1..n : i # 1 => i - 1 \in 1..(n - 1) /\ (i - 1) + 1 = i
  BY <1>1
<1>3. Els(a) = {Head(a)} \union Els(t)
  <2>1. ASSUME NEW i \in 1..n PROVE a[i] = Head(a) \/ a[i] \in Els(t)
    <3>1. CASE i = 1
      BY <1>1, <3>1
    <3>2. CASE i # 1
      <4>1. i - 1 \in DOMAIN t /\ t[i - 1] = a[i]
        BY <1>1, <1>2, <3>2
      <4> QED BY <4>1, ElsAre
    <3> QED BY <3>1, <3>2
  <2>2. \A i \in 1..(n - 1) : t[i] \in Els(a)
    BY <1>1, <1>2, ElsAre
  <2>3. Els(a) \subseteq {Head(a)} \union Els(t)
    BY <1>1, <2>1, ElsAre
  <2>4. Els(t) \subseteq Els(a) /\ Head(a) \in Els(a)
    BY <1>1, <1>2, <2>2, ElsAre
  <2> QED BY <2>3, <2>4
<1>4. ASSUME NEW i \in 1..n, NEW p \in Left(a[i])
      PROVE  \E j \in 1..(n - 1) : i < j + 1 /\ t[j] \in p
  <2>1. PICK j \in 1..n : i < j /\ a[j] \in p
    BY <1>1, <1>4 DEF Shape, Followed, Kept
  <2>2. j # 1 /\ j - 1 \in 1..(n - 1) /\ (j - 1) + 1 = j
    BY <1>1, <2>1
  <2> QED BY <1>1, <2>1, <2>2
<1>5. Followed(t)
  <2> SUFFICES ASSUME NEW i \in 1..(n - 1), NEW p \in Left(t[i])
               PROVE  \E j \in 1..(n - 1) : i < j /\ t[j] \in p
    BY <1>1 DEF Followed, Kept
  <2>1. i + 1 \in 1..n /\ p \in Left(a[i + 1])
    BY <1>1, <1>2
  <2>2. PICK j \in 1..(n - 1) : i + 1 < j + 1 /\ t[j] \in p
    BY <1>4, <2>1
  <2> QED BY <1>1, <2>2
<1>6. ASSUME NEW i \in 1..n, NEW j \in 1..n, a[i].do = "end", a[j].do = "end" PROVE i = j
  BY <1>1, <1>6 DEF Shape, OneEnd
<1>7. OneEnd(t)
  <2> SUFFICES ASSUME NEW i \in 1..(n - 1), NEW j \in 1..(n - 1), t[i].do = "end", t[j].do = "end"
               PROVE  i = j
    BY <1>1 DEF OneEnd
  <2>1. i + 1 = j + 1
    BY <1>1, <1>2, <1>6
  <2> QED BY <1>1, <2>1
<1>8. Calm(t)
  BY DEF Shape, t
<1>9. \A p \in Left(Head(a)) : \E s \in Els(t) : s \in p
  BY <1>1, <1>2, <1>4 DEF Els
<1>10. Head(a).do = "end" => \A s \in Els(t) : s.do # "end"
  BY <1>1, <1>2, <1>6 DEF Els
<1> QED BY <1>1, <1>3, <1>5, <1>7, <1>8, <1>9, <1>10 DEF t

\* Steps put before the rest of an agenda
LEMMA CatShape ==
  ASSUME NEW x \in Seq(Steps), NEW y \in Seq(Steps), Followed(y), OneEnd(y), Calm(y),
         x # <<>> => Calm(Tail(x)), Kept(x, Els(y)), OneEnd(x), (\A s \in Els(x) : s.do # "end") \/ (\A s \in Els(y) : s.do # "end")
  PROVE  Shape(x \o y) /\ Els(x \o y) = Els(x) \union Els(y)
<1>1. x \o y \in Seq(Steps) /\ Els(x \o y) = Els(x) \union Els(y)
  BY CatIs
<1>2. Followed(x \o y) /\ OneEnd(x \o y)
  BY FollowedCat, OneEndCat
<1>3. ASSUME x \o y # <<>> PROVE Calm(Tail(x \o y))
  <2>1. CASE x = <<>>
    <3>1. x \o y = y /\ y # <<>>
      BY <1>3, <2>1
    <3>2. \A i \in DOMAIN Tail(y) : Tail(y)[i] \in Els(y)
      BY <3>1, HeadTailProperties, LenProperties DEF Els
    <3> QED BY <3>1, <3>2 DEF Calm, Els
  <2>2. CASE x # <<>>
    <3>1. Tail(x \o y) = Tail(x) \o y /\ Tail(x) \in Seq(Steps)
      BY <2>2
    <3>2. Els(Tail(x \o y)) = Els(Tail(x)) \union Els(y)
      <4> DEFINE t == Tail(x)
      <4>1. t \in Seq(Steps) /\ Tail(x \o y) = t \o y
        BY <3>1
      <4> HIDE DEF t
      <4>2. Els(t \o y) = Els(t) \union Els(y)
        BY <4>1, CatIs
      <4> QED BY <4>1, <4>2 DEF t
    <3> QED BY <2>2, <3>2 DEF Calm
  <2> QED BY <2>1, <2>2
<1> QED BY <1>1, <1>2, <1>3 DEF Shape

\* The steps, by name
LEMMA StepFacts ==
  /\ None \notin Entries
  /\ \A n \in Int : Events(n) \in Steps /\ Events(n).do = "events"
  /\ /\ View(TRUE) \in Steps /\ View(TRUE).do = "view" /\ View(TRUE).on = TRUE
     /\ View(FALSE) \in Steps /\ View(FALSE).do = "view" /\ View(FALSE).on = FALSE
  /\ /\ Window(TRUE) \in Steps /\ Window(TRUE).do = "window" /\ Window(TRUE).on = TRUE
     /\ Window(FALSE) \in Steps /\ Window(FALSE).do = "window" /\ Window(FALSE).on = FALSE
  /\ /\ Select \in Steps /\ Select.do = "select"
     /\ AfterScan \in Steps /\ AfterScan.do = "reloaded"
     /\ ModulePage \in Steps /\ ModulePage.do = "module" /\ ModulePage.e = None
  /\ /\ Reload(TRUE) \in Steps /\ Reload(TRUE).do = "reload"
     /\ Reload(FALSE) \in Steps /\ Reload(FALSE).do = "reload"
  /\ /\ EndReload(TRUE) \in Steps /\ EndReload(TRUE).do = "enable"
     /\ EndReload(FALSE) \in Steps /\ EndReload(FALSE).do = "enable"
<1>1. None \notin Entries
  BY ShellAssumption DEF None
<1> USE DEF Steps, Dos, Step
<1>2. \A n \in Int : Events(n) \in Steps /\ Events(n).do = "events"
  BY DEF Events
<1>3. /\ View(TRUE) \in Steps /\ View(TRUE).do = "view" /\ View(TRUE).on = TRUE
      /\ View(FALSE) \in Steps /\ View(FALSE).do = "view" /\ View(FALSE).on = FALSE
  BY DEF View
<1>4. /\ Window(TRUE) \in Steps /\ Window(TRUE).do = "window" /\ Window(TRUE).on = TRUE
      /\ Window(FALSE) \in Steps /\ Window(FALSE).do = "window" /\ Window(FALSE).on = FALSE
  BY DEF Window
<1>5. /\ Select \in Steps /\ Select.do = "select"
      /\ AfterScan \in Steps /\ AfterScan.do = "reloaded"
      /\ ModulePage \in Steps /\ ModulePage.do = "module" /\ ModulePage.e = None
  BY DEF Select, AfterScan, ModulePage
<1>6. /\ Reload(TRUE) \in Steps /\ Reload(TRUE).do = "reload"
      /\ Reload(FALSE) \in Steps /\ Reload(FALSE).do = "reload"
  BY DEF Reload
<1>7. /\ EndReload(TRUE) \in Steps /\ EndReload(TRUE).do = "enable"
      /\ EndReload(FALSE) \in Steps /\ EndReload(FALSE).do = "enable"
  BY DEF EndReload
<1> QED BY <1>1, <1>2, <1>3, <1>4, <1>5, <1>6, <1>7

LEMMA EntryStepFacts ==
  /\ \A e \in Entries : Show(e) \in Steps /\ Show(e).do = "show" /\ Show(e).e = e
  /\ \A e \in Entries : /\ Fill(e, TRUE) \in Steps /\ Fill(e, TRUE).do = "fill"
                        /\ Fill(e, TRUE).e = e /\ Fill(e, TRUE).on = TRUE
                        /\ Fill(e, FALSE) \in Steps /\ Fill(e, FALSE).do = "fill"
                        /\ Fill(e, FALSE).e = e /\ Fill(e, FALSE).on = FALSE
  /\ \A e \in Entries \union {None} : /\ Scan(e, TRUE) \in Steps /\ Scan(e, TRUE).do = "scan"
                                       /\ Scan(e, FALSE) \in Steps /\ Scan(e, FALSE).do = "scan"
  /\ \A e \in Entries \union {None} : Dialog(e) \in Steps /\ Dialog(e).do = "dialog"
  /\ \A e \in Entries \union {None} :
       EndSelect(e) \in Steps /\ EndSelect(e).do = "end" /\ EndSelect(e).e = e
<1>1. None \notin Entries
  BY ShellAssumption DEF None
<1> USE DEF Steps, Dos, Step
<1>2. \A e \in Entries : Show(e) \in Steps /\ Show(e).do = "show" /\ Show(e).e = e
  BY DEF Show
<1>3. \A e \in Entries : /\ Fill(e, TRUE) \in Steps /\ Fill(e, TRUE).do = "fill"
                         /\ Fill(e, TRUE).e = e /\ Fill(e, TRUE).on = TRUE
                         /\ Fill(e, FALSE) \in Steps /\ Fill(e, FALSE).do = "fill"
                         /\ Fill(e, FALSE).e = e /\ Fill(e, FALSE).on = FALSE
  BY DEF Fill
<1>4. \A e \in Entries \union {None} : /\ Scan(e, TRUE) \in Steps /\ Scan(e, TRUE).do = "scan"
                                        /\ Scan(e, FALSE) \in Steps /\ Scan(e, FALSE).do = "scan"
  BY DEF Scan
<1>5. \A e \in Entries \union {None} : Dialog(e) \in Steps /\ Dialog(e).do = "dialog"
  BY DEF Dialog
<1>6. \A e \in Entries \union {None} :
         EndSelect(e) \in Steps /\ EndSelect(e).do = "end" /\ EndSelect(e).e = e
  BY DEF EndSelect
<1> QED BY <1>2, <1>3, <1>4, <1>5, <1>6

LEMMA LeftIs ==
  /\ \A s : ~Disables(s) /\ ~Belongs(s) => Left(s) = {}
  /\ \A s : ~Disables(s) => \A p \in Left(s) : Belongs(s) /\ p = {EndSelect(s.e)}
  /\ \A s : ~Belongs(s) => \A p \in Left(s) : Disables(s) /\ p = Enablers
  /\ \A s : Disables(s) => Enablers \in Left(s)
  /\ \A s : Belongs(s) => {EndSelect(s.e)} \in Left(s)
BY DEF Left

\* No step, or one
LEMMA FewSteps ==
  /\ <<>> \in Seq(Steps) /\ Els(<<>>) = {} /\ Followed(<<>>) /\ OneEnd(<<>>)
  /\ \A s \in Steps : /\ <<s>> \in Seq(Steps) /\ Els(<<s>>) = {s} /\ OneEnd(<<s>>)
                      /\ Tail(<<s>>) = <<>> /\ Calm(<<>>)
                      /\ (Left(s) = {} => Followed(<<s>>))
<1>1. <<>> \in Seq(Steps) /\ DOMAIN <<>> = {}
  BY EmptySeq
<1>2. Els(<<>>) = {} /\ Followed(<<>>) /\ OneEnd(<<>>) /\ Calm(<<>>)
  BY <1>1 DEF Els, Followed, Kept, OneEnd, Calm
<1>3. ASSUME NEW s \in Steps
      PROVE  /\ <<s>> \in Seq(Steps) /\ Els(<<s>>) = {s} /\ OneEnd(<<s>>) /\ Tail(<<s>>) = <<>>
             /\ (Left(s) = {} => Followed(<<s>>))
  <2>1. <<s>> \in Seq(Steps) /\ DOMAIN <<s>> = {1} /\ <<s>>[1] = s /\ Tail(<<s>>) = <<>>
    OBVIOUS
  <2>2. Els(<<s>>) = {s} /\ OneEnd(<<s>>)
    BY <2>1 DEF Els, OneEnd
  <2>3. Left(s) = {} => Followed(<<s>>)
    BY <2>1 DEF Followed, Kept
  <2> QED BY <2>1, <2>2, <2>3
<1> QED BY <1>1, <1>2, <1>3

\* What is done by later steps is done by later steps and more.
LEMMA FollowedKept == \A a, S : Followed(a) => Kept(a, S)
BY DEF Followed, Kept

\* A handler begins: what was on the agenda stays, but for the count of the events.
LEMMA HandlingIs ==
  ASSUME Shape(agenda), Waiting, NEW x \in Seq(Steps), Handling(x),
         x # <<>> => Calm(Tail(x)), Followed(x), OneEnd(x), \A s \in Els(x) : s.do # "end"
  PROVE  /\ Shape(agenda') /\ Calm(agenda) /\ Els(x) \subseteq Els(agenda')
         /\ \A s \in Els(agenda') : s \in Els(x) \/ s \in Els(agenda) \/ s.do = "events"
         /\ \A s \in Els(agenda) : s \in Els(agenda') \/ s.do = "events"
<1>1. CASE At("events")
  <2> DEFINE h == [Head1 EXCEPT !.n = @ - 1]
             t == Tail(agenda)
             y == <<h>> \o t
  <2>1. agenda # <<>> /\ Head1.do = "events"
    BY <1>1 DEF At
  <2>2. /\ t \in Seq(Steps) /\ Head1 \in Steps /\ Els(agenda) = {Head1} \union Els(t)
        /\ Followed(t) /\ OneEnd(t) /\ Calm(t)
    BY <2>1, TailShape DEF Head1
  <2>3. h \in Steps /\ h.do = "events"
    <3>1. Head1 \in [do : Dos, e : Entries \union {None}, on : BOOLEAN, n : Int]
      BY <2>2 DEF Steps
    <3>2. h \in [do : Dos, e : Entries \union {None}, on : BOOLEAN, n : Int] /\ h.do = Head1.do
      BY <3>1
    <3> HIDE DEF h
    <3> QED BY <2>1, <3>2 DEF Steps
  <2>4. Left(h) = {} /\ ~Urgent(h) /\ ~Urgent(Head1)
    BY <2>1, <2>3, LeftIs DEF Disables, Belongs, Urgent
  <2> HIDE DEF h, t
  <2>5. Shape(y) /\ Els(y) = {h} \union Els(t)
    <3>1. /\ <<h>> \in Seq(Steps) /\ Els(<<h>>) = {h} /\ OneEnd(<<h>>) /\ Followed(<<h>>)
          /\ Calm(Tail(<<h>>))
      BY <2>3, <2>4, FewSteps
    <3>2. \A s \in Els(<<h>>) : s.do # "end"
      BY <2>3, <3>1
    <3>3. Kept(<<h>>, Els(t))
      BY <3>1, FollowedKept
    <3> QED BY <2>2, <3>1, <3>2, <3>3, CatShape
  <2>6. agenda' = x \o y
    <3>1. agenda' = (x \o <<h>>) \o t
      BY <1>1 DEF Handling, h, t
    <3>2. <<h>> \in Seq(Steps)
      BY <2>3
    <3> QED BY <2>2, <3>1, <3>2, ConcatAssociative
  <2> HIDE DEF y
  <2>7. Calm(y) /\ y \in Seq(Steps) /\ Followed(y) /\ OneEnd(y)
    BY <2>2, <2>4, <2>5 DEF Calm, Shape
  <2>8. Shape(x \o y) /\ Els(x \o y) = Els(x) \union Els(y)
    BY <2>7, FollowedKept, CatShape
  <2>9. Calm(agenda)
    BY <2>2, <2>4 DEF Calm
  <2> QED BY <2>1, <2>2, <2>3, <2>5, <2>6, <2>8, <2>9
<1>2. CASE ~At("events")
  <2>1. agenda' = x \o agenda
    BY <1>2 DEF Handling
  <2>2. agenda = <<>> \/ (agenda # <<>> /\ Head1.do = "dialog")
    BY <1>2 DEF Waiting, AtRest, At
  <2>3. Calm(agenda)
    <3>1. CASE agenda = <<>>
      BY <3>1, FewSteps DEF Calm
    <3>2. CASE agenda # <<>> /\ Head1.do = "dialog"
      <4>1. Els(agenda) = {Head1} \union Els(Tail(agenda)) /\ Calm(Tail(agenda)) /\ ~Urgent(Head1)
        BY <3>2, TailShape DEF Urgent, Head1
      <4> QED BY <4>1 DEF Calm
    <3> QED BY <2>2, <3>1, <3>2
  <2>4. agenda \in Seq(Steps) /\ Followed(agenda) /\ OneEnd(agenda)
    BY DEF Shape
  <2>5. Shape(x \o agenda) /\ Els(x \o agenda) = Els(x) \union Els(agenda)
    BY <2>3, <2>4, FollowedKept, CatShape
  <2> QED BY <2>1, <2>3, <2>5
<1> QED BY <1>1, <1>2

\* A step of the handler at work: it is replaced by the steps it leads to.
LEMMA ThenIs ==
  ASSUME Shape(agenda), agenda # <<>>, NEW x \in Seq(Steps), Then(x),
         x # <<>> => Calm(Tail(x)), OneEnd(x),
         Kept(x, Els(Tail(agenda))),
         (\A s \in Els(x) : s.do # "end") \/ (\A s \in Els(Tail(agenda)) : s.do # "end")
  PROVE  Shape(agenda') /\ Els(agenda') = Els(x) \union Els(Tail(agenda))
<1> DEFINE t == Tail(agenda)
<1>1. t \in Seq(Steps) /\ Followed(t) /\ OneEnd(t) /\ Calm(t)
  BY TailShape
<1>2. agenda' = x \o t
  BY DEF Then
<1>3. Kept(x, Els(t))
  OBVIOUS
<1>4. (\A s \in Els(x) : s.do # "end") \/ (\A s \in Els(t) : s.do # "end")
  OBVIOUS
<1> HIDE DEF t
<1>5. Shape(x \o t) /\ Els(x \o t) = Els(x) \union Els(t)
  BY <1>1, <1>3, <1>4, CatShape
<1> QED BY <1>2, <1>5 DEF t

\* The plain case: a step that leads to none
LEMMA PopIs ==
  ASSUME Shape(agenda), agenda # <<>>, Then(<<>>)
  PROVE  Shape(agenda') /\ Els(agenda') = Els(Tail(agenda))
<1>1. <<>> \in Seq(Steps) /\ Els(<<>>) = {} /\ Followed(<<>>) /\ OneEnd(<<>>)
  BY FewSteps
<1>2. \A s \in Els(<<>>) : s.do # "end"
  BY <1>1
<1> DEFINE x == <<>>
<1>3. /\ x \in Seq(Steps) /\ Kept(x, Els(Tail(agenda))) /\ OneEnd(x) /\ Then(x)
      /\ (x # <<>> => Calm(Tail(x))) /\ (\A s \in Els(x) : s.do # "end") /\ Els(x) = {}
  BY <1>1, <1>2, FollowedKept
<1> HIDE DEF x
<1>4. Shape(agenda') /\ Els(agenda') = Els(x) \union Els(Tail(agenda))
  BY <1>3, ThenIs
<1> QED BY <1>3, <1>4

-----------------------------------------------------------------------------
(* The page, the flags and the window between the steps of the handlers *)

Row(e) == IF e = None THEN Module ELSE e
Selects(a) == \E s \in Els(a) : s.do = "select"
Marked(s)  == Belongs(s) \/ s.do = "end"

RowTypes ==
  /\ tree \in Entries \union {Module, NoRow} /\ current \in Entries \union {None}
  /\ selected \in Entries \union {None} /\ flag \in [Entries -> BOOLEAN] /\ working \in BOOLEAN

\* A module_selected() is at work when its end is on the agenda; a reload shows an entry
\* that is selected.
AgendaInv ==
  /\ Shape(agenda)
  /\ working <=> \E s \in Els(agenda) : s.do = "end"
  /\ \A s \in Els(agenda) : s.do = "fill" /\ s.on => flag[s.e]

\* The entry at work, or the one shown last, alone is selected.
FlagInv == \A e \in Entries : flag[e] =>
             IF working THEN EndSelect(e) \in Els(agenda) ELSE e = current

\* A window that takes no input, or that says it is updating, has a step left that changes it.
ViewInv ==
  (\A s \in Els(agenda) : ~Enables(s)) =>
    /\ skipped \/ sensitive
    /\ (\A s \in Els(agenda) : ~(s.do = "window" /\ s.on)) => skipped \/ ~updating

\* Unless another module_selected() is to begin, the one at work ends with the page of
\* the tree's row, and the last one has.
PageInv ==
  ~skipped /\ ~Selects(agenda) =>
    /\ \A e \in Entries \union {None} : EndSelect(e) \in Els(agenda) =>
         /\ tree = Row(e)
         /\ e # None /\ Show(e) \notin Els(agenda) => flag[e]
         /\ (\A s \in Els(agenda) : Belongs(s) => s.do = "show") => page = tree
    /\ ~working => /\ tree = Row(current) /\ page = tree
                   /\ current # None => flag[current]

PageIInv == RowTypes /\ AgendaInv /\ FlagInv /\ ViewInv /\ PageInv

LEMMA PageFollows == PageIInv => PageFollowsTree
<1> SUFFICES ASSUME PageIInv, AtRest, ~skipped
             PROVE  /\ page = tree /\ sensitive /\ ~updating
                    /\ tree \in Entries => \A e \in Entries : flag[e] = (e = tree)
  BY DEF PageFollowsTree
<1>1. Els(agenda) = {}
  BY FewSteps DEF AtRest
<1>2. sensitive /\ ~updating
  BY <1>1 DEF PageIInv, ViewInv
<1>3. ~working /\ tree = Row(current) /\ page = tree /\ (current # None => flag[current])
  BY <1>1 DEF PageIInv, AgendaInv, PageInv, Selects
<1>4. ASSUME tree \in Entries, NEW e \in Entries PROVE flag[e] = (e = tree)
  <2>1. current # None /\ tree = current
    BY <1>3, <1>4, ShellAssumption DEF Row, Module, None
  <2>2. flag[e] => e = current
    BY <1>3 DEF PageIInv, FlagInv
  <2>3. flag[e] \in BOOLEAN /\ flag[current]
    BY <1>3, <2>1 DEF PageIInv, RowTypes
  <2> QED BY <2>1, <2>2, <2>3
<1> QED BY <1>2, <1>3, <1>4

\* The end of the one module_selected() at work
LEMMA EndIsOne ==
  ASSUME NEW a, Shape(a), NEW s \in Els(a), NEW t \in Els(a), s.do = "end", t.do = "end"
  PROVE  s = t
BY DEF Shape, OneEnd, Els

\* A step that belongs to a module_selected() is followed by its end.
LEMMA EndFollows ==
  ASSUME NEW a, Shape(a), NEW s \in Els(a), Belongs(s)
  PROVE  EndSelect(s.e) \in Els(a)
<1>1. PICK i \in DOMAIN a : s = a[i]
  BY DEF Els
<1>2. {EndSelect(s.e)} \in Left(a[i])
  BY <1>1, LeftIs
<1>3. PICK j \in DOMAIN a : a[j] \in {EndSelect(s.e)}
  BY <1>2 DEF Shape, Followed, Kept
<1> QED BY <1>3 DEF Els

LEMMA PageInit == Init => PageIInv
<1> SUFFICES ASSUME Init PROVE PageIInv
  OBVIOUS
<1>1. agenda = <<Select>> /\ Select \in Steps /\ Select.do = "select"
  BY StepFacts, EntryStepFacts DEF Init
<1>2. Els(agenda) = {Select} /\ Shape(agenda)
  <2>1. Left(Select) = {}
    BY <1>1, LeftIs DEF Disables, Belongs
  <2> QED BY <1>1, <2>1, FewSteps DEF Shape
<1>3. RowTypes /\ ~working /\ \A e \in Entries : ~flag[e]
  BY DEF Init, RowTypes
<1>4. AgendaInv /\ FlagInv
  BY <1>1, <1>2, <1>3 DEF AgendaInv, FlagInv
<1>5. ViewInv /\ PageInv
  BY <1>1, <1>2 DEF ViewInv, PageInv, Enables, Selects
<1> QED BY <1>3, <1>4, <1>5 DEF PageIInv
-----------------------------------------------------------------------------
(* What keeps the invariant *)

\* A step that changes neither the rows nor the page and keeps what is left of
\* module_selected()
LEMMA RowsKept ==
  ASSUME AgendaInv, FlagInv, PageInv, Shape(agenda'),
         UNCHANGED <<row, page, skipped>>,
         \A s \in Els(agenda') : Marked(s) => s \in Els(agenda),
         \A s \in Els(agenda) : Marked(s) => s \in Els(agenda'),
         Selects(agenda) => Selects(agenda'),
         \A s \in Els(agenda') : s.do = "fill" /\ s.on => flag[s.e]
  PROVE  AgendaInv' /\ FlagInv' /\ PageInv'
<1> USE DEF row
<1>1. AgendaInv'
  BY DEF AgendaInv, Marked
<1>2. \A e \in Entries \union {None} : EndSelect(e) \in Els(agenda) <=> EndSelect(e) \in Els(agenda')
  BY StepFacts, EntryStepFacts DEF Marked
<1>3. FlagInv'
  BY <1>2 DEF FlagInv
<1>4. \A e \in Entries : Show(e) \in Els(agenda) <=> Show(e) \in Els(agenda')
  BY StepFacts, EntryStepFacts DEF Marked, Belongs
<1>5. PageInv'
  <2> SUFFICES ASSUME ~skipped, ~Selects(agenda')
               PROVE  /\ \A e \in Entries \union {None} : EndSelect(e) \in Els(agenda') =>
                           /\ tree = Row(e)
                           /\ e # None /\ Show(e) \notin Els(agenda') => flag[e]
                           /\ (\A s \in Els(agenda') : Belongs(s) => s.do = "show") => page = tree
                      /\ ~working => /\ tree = Row(current) /\ page = tree
                                     /\ current # None => flag[current]
    BY DEF PageInv
  <2>1. ~working => /\ tree = Row(current) /\ page = tree
                    /\ current # None => flag[current]
    BY DEF PageInv
  <2>2. ASSUME NEW e \in Entries \union {None}, EndSelect(e) \in Els(agenda')
        PROVE  /\ tree = Row(e)
               /\ e # None /\ Show(e) \notin Els(agenda') => flag[e]
               /\ (\A s \in Els(agenda') : Belongs(s) => s.do = "show") => page = tree
    <3>1. EndSelect(e) \in Els(agenda)
      BY <1>2, <2>2
    <3>2. tree = Row(e) /\ (e # None /\ Show(e) \notin Els(agenda) => flag[e])
      BY <3>1 DEF PageInv
    <3>3. e # None /\ Show(e) \notin Els(agenda') => flag[e]
      BY <1>4, <3>2
    <3>4. (\A s \in Els(agenda') : Belongs(s) => s.do = "show") => page = tree
      BY <3>1 DEF PageInv, Marked
    <3> QED BY <3>2, <3>3, <3>4
  <2> QED BY <2>1, <2>2
<1> QED BY <1>1, <1>3, <1>5

\* A step that changes neither the input nor the update, with a step left that will or with
\* all of them kept
LEMMA ViewKept ==
  ASSUME ViewInv, UNCHANGED <<sensitive, updating, skipped>>,
         \/ \E s \in Els(agenda') : Enables(s)
         \/ \A s \in Els(agenda) : Enables(s) \/ (s.do = "window" /\ s.on) => s \in Els(agenda')
  PROVE  ViewInv'
BY DEF ViewInv

\* A handler begins that neither selects nor shows another row.
LEMMA BeginsKept ==
  ASSUME PageIInv, Waiting, NEW x \in Seq(Steps), Handling(x),
         x # <<>> => Calm(Tail(x)), Followed(x), OneEnd(x),
         \A s \in Els(x) : ~Marked(s),
         \A s \in Els(x) : s.do = "fill" /\ s.on => flag[s.e],
         UNCHANGED <<row, page, skipped, sensitive, updating>>
  PROVE  PageIInv'
<1>1. /\ Shape(agenda') /\ Els(x) \subseteq Els(agenda')
      /\ \A s \in Els(agenda') : s \in Els(x) \/ s \in Els(agenda) \/ s.do = "events"
      /\ \A s \in Els(agenda) : s \in Els(agenda') \/ s.do = "events"
  BY HandlingIs DEF PageIInv, AgendaInv, Marked
<1>2. /\ \A s \in Els(agenda') : Marked(s) => s \in Els(agenda)
      /\ \A s \in Els(agenda) : Marked(s) => s \in Els(agenda')
      /\ Selects(agenda) => Selects(agenda')
      /\ \A s \in Els(agenda') : s.do = "fill" /\ s.on => flag[s.e]
  BY <1>1 DEF PageIInv, AgendaInv, Marked, Belongs, Selects
<1>3. AgendaInv' /\ FlagInv' /\ PageInv'
  BY <1>1, <1>2, RowsKept DEF PageIInv
<1>4. ViewInv'
  <2>1. \A s \in Els(agenda) : Enables(s) \/ (s.do = "window" /\ s.on) => s \in Els(agenda')
    BY <1>1 DEF Enables
  <2> QED BY <2>1, ViewKept DEF PageIInv
<1>5. RowTypes'
  BY DEF PageIInv, RowTypes, row
<1> QED BY <1>3, <1>4, <1>5 DEF PageIInv

\* A step of a handler that only leads to others, if the window is to be enabled after it or
\* was not to be enabled by it
LEMMA GoesOnKept ==
  ASSUME PageIInv, agenda # <<>>, ~Marked(Head1), NEW x \in Seq(Steps), Then(x),
         x # <<>> => Calm(Tail(x)), OneEnd(x), Kept(x, Els(Tail(agenda))),
         \A s \in Els(x) : ~Marked(s) /\ ~(s.do = "fill" /\ s.on),
         \/ \E s \in Els(x) \union Els(Tail(agenda)) : Enables(s)
         \/ ~Enables(Head1) /\ ~(Head1.do = "window" /\ Head1.on),
         Head1.do # "select" \/ \E s \in Els(x) : s.do = "select",
         UNCHANGED <<row, page, skipped, sensitive, updating>>
  PROVE  PageIInv'
<1>1. Els(agenda) = {Head1} \union Els(Tail(agenda))
  BY TailShape DEF PageIInv, AgendaInv, Head1
<1>2. Shape(agenda') /\ Els(agenda') = Els(x) \union Els(Tail(agenda))
  BY ThenIs DEF PageIInv, AgendaInv, Marked
<1>3. /\ \A s \in Els(agenda') : Marked(s) => s \in Els(agenda)
      /\ \A s \in Els(agenda) : Marked(s) => s \in Els(agenda')
      /\ Selects(agenda) => Selects(agenda')
      /\ \A s \in Els(agenda') : s.do = "fill" /\ s.on => flag[s.e]
  BY <1>1, <1>2 DEF PageIInv, AgendaInv, Selects
<1>4. AgendaInv' /\ FlagInv' /\ PageInv'
  BY <1>2, <1>3, RowsKept DEF PageIInv
<1>5. ViewInv'
  BY <1>1, <1>2, ViewKept DEF PageIInv
<1>6. RowTypes'
  BY DEF PageIInv, RowTypes, row
<1> QED BY <1>4, <1>5, <1>6 DEF PageIInv

-----------------------------------------------------------------------------
(* The steps that begin and end a module_selected() *)

\* The steps of a row of the tree
LEMMA RowSteps ==
  ASSUME NEW e \in Entries
  PROVE  /\ EntrySteps(e) \in Seq(Steps) /\ OneEnd(EntrySteps(e)) /\ Followed(EntrySteps(e))
         /\ EntrySteps(e) # <<>> /\ Calm(Tail(EntrySteps(e)))
         /\ {Show(e), Fill(e, FALSE), View(TRUE), EndSelect(e)} \subseteq Els(EntrySteps(e))
         /\ Els(EntrySteps(e)) \subseteq
              {View(FALSE), Show(e), Scan(e, FALSE), Fill(e, FALSE), View(TRUE), EndSelect(e)}
<1> DEFINE v == View(FALSE)
           h == Show(e)
           c == Scan(e, FALSE)
           f == Fill(e, FALSE)
           w == View(TRUE)
           d == EndSelect(e)
<1>1. /\ v \in Steps /\ h \in Steps /\ c \in Steps /\ f \in Steps /\ w \in Steps /\ d \in Steps
      /\ v.do = "view" /\ h.do = "show" /\ h.e = e /\ c.do = "scan"
      /\ f.do = "fill" /\ f.on = FALSE /\ f.e = e /\ w.do = "view" /\ w.on = TRUE
      /\ d.do = "end" /\ d = EndSelect(e)
  BY StepFacts, EntryStepFacts, ZenonT(60)
<1> DEFINE m == IF e \in Slow THEN <<c>> ELSE <<>>
           z == <<f, w, d>>
<1>2. EntrySteps(e) = (<<v, h>> \o m) \o z
  BY DEF EntrySteps
<1> HIDE DEF v, h, c, f, w, d
<1>3. w \in Enablers
  BY <1>1 DEF Enablers, Enables
<1>4. /\ \A p \in Left(v) \union Left(c) : p = Enablers
      /\ \A p \in Left(h) \union Left(f) : p = {d}
      /\ Left(w) = {} /\ Left(d) = {}
  BY <1>1, LeftIs DEF Disables, Belongs
<1>5. z \in Seq(Steps) /\ Els(z) = {f, w, d} /\ OneEnd(z) /\ Calm(z) /\ Followed(z)
  <2>1. z \in Seq(Steps) /\ DOMAIN z = 1..3 /\ z[1] = f /\ z[2] = w /\ z[3] = d
    BY <1>1
  <2> HIDE DEF z
  <2>2. Els(z) = {f, w, d} /\ OneEnd(z)
    BY <1>1, <2>1 DEF Els, OneEnd
  <2>3. Followed(z)
    BY <1>4, <2>1 DEF Followed, Kept
  <2> QED BY <1>1, <2>1, <2>2, <2>3 DEF Calm, Urgent
<1>6. m \in Seq(Steps) /\ Els(m) \subseteq {c} /\ OneEnd(m) /\ Kept(m, Els(z)) /\ (m # <<>> => Calm(Tail(m)))
  <2>1. CASE m = <<>>
    BY <2>1, FewSteps, FollowedKept
  <2>2. CASE m = <<c>>
    <3>1. DOMAIN m = {1} /\ m[1] = c
      BY <2>2
    <3>2. Kept(m, Els(z))
      BY <1>3, <1>4, <1>5, <3>1 DEF Kept
    <3> QED BY <1>1, <2>2, <3>2, FewSteps
  <2> QED BY <2>1, <2>2
<1> HIDE DEF m, z
<1>7. Shape(m \o z) /\ Els(m \o z) = Els(m) \union Els(z)
  <2>1. \A s \in Els(m) : s.do # "end"
    BY <1>1, <1>6
  <2> QED BY <1>5, <1>6, <2>1, CatShape
<1> DEFINE y == m \o z
           x == <<v, h>>
<1>8. x \in Seq(Steps) /\ Els(x) = {v, h} /\ OneEnd(x) /\ Kept(x, Els(y)) /\ (x # <<>> => Calm(Tail(x)))
  <2>1. x \in Seq(Steps) /\ DOMAIN x = 1..2 /\ x[1] = v /\ x[2] = h /\ Tail(x) = <<h>>
    BY <1>1
  <2> HIDE DEF x
  <2>2. Els(x) = {v, h} /\ OneEnd(x)
    BY <1>1, <2>1 DEF Els, OneEnd
  <2>3. w \in Els(y) /\ d \in Els(y)
    BY <1>5, <1>7
  <2>4. Kept(x, Els(y))
    BY <1>3, <1>4, <2>1, <2>3 DEF Kept
  <2>5. Els(<<h>>) = {h}
    BY <1>1, FewSteps
  <2> QED BY <1>1, <2>1, <2>2, <2>4, <2>5 DEF Calm, Urgent
<1>9. y \in Seq(Steps) /\ OneEnd(y) /\ Followed(y) /\ Calm(y)
  BY <1>1, <1>5, <1>6, <1>7 DEF Shape, Calm, Urgent
<1> HIDE DEF x, y
<1>10. Shape(x \o y) /\ Els(x \o y) = Els(x) \union Els(y)
  <2>1. \A s \in Els(x) : s.do # "end"
    BY <1>1, <1>8
  <2> QED BY <1>8, <1>9, <2>1, CatShape
<1>11. EntrySteps(e) = x \o y
  BY <1>2, <1>5, <1>6, <1>8, ConcatAssociative DEF x, y
<1>12. x \o y # <<>>
  BY <1>8, <1>10, FewSteps
<1>13. Els(y) = Els(m) \union {f, w, d}
  BY <1>5, <1>7 DEF y
<1> QED BY <1>6, <1>8, <1>10, <1>11, <1>12, <1>13 DEF Shape, v, h, c, f, w, d

LEMMA SummarySteps ==
  /\ ModuleSteps \in Seq(Steps) /\ OneEnd(ModuleSteps) /\ Followed(ModuleSteps)
  /\ ModuleSteps # <<>> /\ Calm(Tail(ModuleSteps))
  /\ Els(ModuleSteps) = {View(FALSE), ModulePage, Events(Budget), View(TRUE), EndSelect(None)}
<1> DEFINE v == View(FALSE)
           m == ModulePage
           q == Events(Budget)
           w == View(TRUE)
           d == EndSelect(None)
<1>1. /\ v \in Steps /\ m \in Steps /\ q \in Steps /\ w \in Steps /\ d \in Steps
      /\ v.do = "view" /\ m.do = "module" /\ m.e = None /\ q.do = "events"
      /\ w.do = "view" /\ w.on = TRUE /\ d.do = "end" /\ d = EndSelect(None)
  <2>1. Budget \in Int
    BY ShellAssumption
  <2>2. q \in Steps /\ q.do = "events"
    BY <2>1, StepFacts, EntryStepFacts
  <2>3. d \in Steps /\ d.do = "end"
    BY StepFacts, EntryStepFacts
  <2>4. /\ v \in Steps /\ m \in Steps /\ w \in Steps
        /\ v.do = "view" /\ m.do = "module" /\ m.e = None
        /\ w.do = "view" /\ w.on = TRUE
    BY StepFacts, EntryStepFacts
  <2> QED BY <2>2, <2>3, <2>4
<1> DEFINE a == <<v, m, q, w, w, d>>
<1>2. ModuleSteps = a
  BY DEF ModuleSteps
<1> HIDE DEF v, m, q, w, d
<1>3. w \in Enablers
  BY <1>1 DEF Enablers, Enables
<1>4. /\ \A p \in Left(v) : p = Enablers
      /\ \A p \in Left(m) : p = {d}
      /\ Left(q) = {} /\ Left(w) = {} /\ Left(d) = {}
  BY <1>1, LeftIs DEF Disables, Belongs
<1>5. /\ a \in Seq(Steps) /\ a # <<>> /\ DOMAIN a = 1..6
      /\ a[1] = v /\ a[2] = m /\ a[3] = q /\ a[4] = w /\ a[5] = w /\ a[6] = d
      /\ Tail(a) = <<m, q, w, w, d>>
  BY <1>1
<1>6. \A s \in Els(Tail(a)) : s \in {m, q, w, d}
  BY <1>5 DEF Els
<1> HIDE DEF a
<1>7. OneEnd(a)
  BY <1>1, <1>5 DEF OneEnd
<1>8. Followed(a)
  <2> SUFFICES ASSUME NEW i \in 1..6, NEW p \in Left(a[i]) PROVE \E j \in 1..6 : i < j /\ a[j] \in p
    BY <1>5 DEF Followed, Kept
  <2>1. (i = 1 /\ p = Enablers) \/ (i = 2 /\ p = {d})
    BY <1>4, <1>5
  <2> QED BY <1>3, <1>5, <2>1
<1>9. Calm(Tail(a))
  BY <1>1, <1>6 DEF Calm, Urgent
<1>10. {v, m, q, w, d} = Els(a)
  BY <1>5 DEF Els
<1> QED BY <1>2, <1>5, <1>7, <1>8, <1>9, <1>10 DEF v, m, q, w, d

LEMMA SelectReturnsKeeps == PageIInv /\ SelectReturns => PageIInv'
<1> SUFFICES ASSUME PageIInv, SelectReturns PROVE PageIInv'
  OBVIOUS
<1>1. agenda # <<>> /\ Head1.do = "select" /\ Then(<<>>)
  BY DEF SelectReturns, At
<1>2. Els(agenda) = {Head1} \union Els(Tail(agenda)) /\ Calm(Tail(agenda))
  BY <1>1, TailShape DEF PageIInv, AgendaInv, Head1
<1>3. Shape(agenda') /\ Els(agenda') = Els(Tail(agenda))
  BY <1>1, PopIs DEF PageIInv, AgendaInv
<1>4. flag' \in [Entries -> BOOLEAN] /\ \A e \in Entries : flag'[e] => flag[e]
  BY DEF SelectReturns, Unflagged, PageIInv, RowTypes
<1>5. AgendaInv'
  BY <1>1, <1>2, <1>3 DEF PageIInv, AgendaInv, Calm, Urgent, SelectReturns
<1>6. FlagInv'
  BY <1>1, <1>2, <1>3, <1>4, StepFacts, EntryStepFacts DEF PageIInv, FlagInv, SelectReturns
<1>7. ViewInv' /\ PageInv' /\ RowTypes'
  BY <1>4 DEF SelectReturns, ViewInv, PageInv, RowTypes, PageIInv
<1> QED BY <1>5, <1>6, <1>7 DEF PageIInv

LEMMA SelectBeginsKeeps == PageIInv /\ SelectBegins => PageIInv'
<1> SUFFICES ASSUME PageIInv, SelectBegins PROVE PageIInv'
  OBVIOUS
<1>1. agenda # <<>> /\ Head1.do = "select" /\ ~working /\ tree # NoRow
  BY DEF SelectBegins, At
<1>2. /\ Els(agenda) = {Head1} \union Els(Tail(agenda)) /\ Calm(Tail(agenda))
      /\ \A s \in Els(Tail(agenda)) : s.do # "end" /\ ~Belongs(s)
  <2>1. Els(agenda) = {Head1} \union Els(Tail(agenda)) /\ Calm(Tail(agenda))
        /\ Tail(agenda) \in Seq(Steps)
    BY <1>1, TailShape DEF PageIInv, AgendaInv, Head1
  <2>2. \A s \in Els(agenda) : s.do # "end"
    BY <1>1 DEF PageIInv, AgendaInv
  <2>3. \A s \in Els(Tail(agenda)) : s \in Steps /\ s.e \in Entries \union {None}
    BY <2>1 DEF Els, Steps
  <2>4. \A s \in Els(Tail(agenda)) : ~Belongs(s)
    BY <2>1, <2>2, <2>3, EndFollows, StepFacts, EntryStepFacts DEF PageIInv, AgendaInv
  <2> QED BY <2>1, <2>2, <2>4
<1>3. flag' = [e \in Entries |-> FALSE]
  <2>1. \A e \in Entries : flag[e] => e = current
    BY <1>1 DEF PageIInv, FlagInv
  <2>2. \A e \in Entries : (flag[e] /\ e # current) = FALSE
    BY <2>1
  <2> QED BY <2>2 DEF SelectBegins, Unflagged
<1> DEFINE x == IF tree \in Entries THEN EntrySteps(tree) ELSE ModuleSteps
           r == IF tree \in Entries THEN tree ELSE None
<1>4. Then(x)
  BY <1>3 DEF SelectBegins
<1>5. /\ x \in Seq(Steps) /\ OneEnd(x) /\ Followed(x) /\ x # <<>> /\ Calm(Tail(x))
      /\ EndSelect(r) \in Els(x) /\ View(TRUE) \in Els(x)
      /\ \A s \in Els(x) : s.do = "end" => s = EndSelect(r)
      /\ \A s \in Els(x) : ~(s.do = "fill" /\ s.on)
      /\ r # None => Show(r) \in Els(x)
      /\ \E s \in Els(x) : Belongs(s) /\ s.do # "show"
  <2>1. CASE tree \in Entries
    <3>1. ASSUME NEW s \in Els(x)
          PROVE  (s.do = "end" => s = EndSelect(r)) /\ ~(s.do = "fill" /\ s.on)
      <4>1. s \in {View(FALSE), Show(tree), Scan(tree, FALSE), Fill(tree, FALSE), View(TRUE),
                   EndSelect(tree)}
        BY <2>1, RowSteps
      <4>2. /\ View(FALSE).do = "view" /\ View(TRUE).do = "view" /\ Show(tree).do = "show"
            /\ Scan(tree, FALSE).do = "scan" /\ Fill(tree, FALSE).do = "fill"
            /\ Fill(tree, FALSE).on = FALSE
        BY <2>1, StepFacts, EntryStepFacts
      <4>3. EndSelect(tree).do = "end" /\ r = tree
        BY <2>1, StepFacts, EntryStepFacts
      <4> QED BY <4>1, <4>2, <4>3
    <3>2. Fill(tree, FALSE) \in Els(x) /\ Belongs(Fill(tree, FALSE)) /\ Fill(tree, FALSE).do # "show"
      BY <2>1, RowSteps, StepFacts, EntryStepFacts DEF Belongs
    <3> QED BY <2>1, <3>1, <3>2, RowSteps
  <2>2. CASE tree \notin Entries
    <3>1. ASSUME NEW s \in Els(x)
          PROVE  (s.do = "end" => s = EndSelect(r)) /\ ~(s.do = "fill" /\ s.on)
      <4>1. s \in {View(FALSE), ModulePage, Events(Budget), View(TRUE), EndSelect(None)}
        BY <2>2, SummarySteps
      <4>2. Events(Budget).do = "events"
        BY StepFacts, EntryStepFacts, ShellAssumption
      <4>3. s = EndSelect(None) \/ s.do \in {"view", "module", "events"}
        BY <4>1, <4>2, StepFacts, EntryStepFacts
      <4>4. EndSelect(None).do = "end" /\ r = None
        BY <2>2, StepFacts, EntryStepFacts
      <4> QED BY <4>3, <4>4
    <3>2. ModulePage \in Els(x) /\ Belongs(ModulePage) /\ ModulePage.do # "show"
      BY <2>2, SummarySteps, StepFacts, EntryStepFacts DEF Belongs
    <3> QED BY <2>2, <3>1, <3>2, SummarySteps
  <2> QED BY <2>1, <2>2
<1>6. tree = Row(r) /\ r \in Entries \union {None}
  BY <1>1, StepFacts, EntryStepFacts DEF PageIInv, RowTypes, Row
<1> HIDE DEF x, r
<1>7. Shape(agenda') /\ Els(agenda') = Els(x) \union Els(Tail(agenda))
  BY <1>1, <1>2, <1>4, <1>5, FollowedKept, ThenIs DEF PageIInv, AgendaInv
<1>8. AgendaInv'
  <2>1. working' /\ \E s \in Els(agenda') : s.do = "end"
    BY <1>5, <1>6, <1>7, StepFacts, EntryStepFacts DEF SelectBegins
  <2>2. \A s \in Els(agenda') : ~(s.do = "fill" /\ s.on)
    BY <1>2, <1>5, <1>7 DEF Calm, Urgent
  <2> QED BY <1>7, <2>1, <2>2 DEF AgendaInv
<1>9. FlagInv' /\ ViewInv'
  <2>1. Enables(View(TRUE)) /\ View(TRUE) \in Els(agenda')
    BY <1>5, <1>7, StepFacts, EntryStepFacts DEF Enables
  <2> QED BY <1>3, <2>1 DEF FlagInv, ViewInv
<1>10. RowTypes'
  BY <1>3 DEF SelectBegins, PageIInv, RowTypes
<1>11. PageInv'
  <2>1. working' /\ tree' = tree
    BY DEF SelectBegins
  <2>2. \A e \in Entries \union {None} : EndSelect(e) \in Els(agenda') => e = r
    <3> SUFFICES ASSUME NEW e \in Entries \union {None}, EndSelect(e) \in Els(agenda') PROVE e = r
      OBVIOUS
    <3>1. EndSelect(e).do = "end" /\ EndSelect(e).e = e /\ EndSelect(r).e = r
      BY <1>6, StepFacts, EntryStepFacts
    <3>2. EndSelect(e) = EndSelect(r)
      BY <1>2, <1>5, <1>7, <3>1
    <3> QED BY <3>1, <3>2
  <2>3. /\ tree = Row(r) /\ (r # None => Show(r) \in Els(agenda'))
        /\ \E s \in Els(agenda') : Belongs(s) /\ s.do # "show"
    BY <1>5, <1>6, <1>7
  <2> QED BY <2>1, <2>2, <2>3 DEF PageInv
<1> QED BY <1>8, <1>9, <1>10, <1>11 DEF PageIInv

LEMMA ShowEntryKeeps == PageIInv /\ ShowEntry => PageIInv'
<1> SUFFICES ASSUME PageIInv, ShowEntry PROVE PageIInv'
  OBVIOUS
<1> DEFINE e == Head1.e
<1>1. agenda # <<>> /\ Head1.do = "show" /\ Then(<<>>)
  BY DEF ShowEntry, At
<1>2. Els(agenda) = {Head1} \union Els(Tail(agenda)) /\ Head1 \in Steps
  BY <1>1, TailShape DEF PageIInv, AgendaInv, Head1
<1>3. Shape(agenda') /\ Els(agenda') = Els(Tail(agenda))
  BY <1>1, PopIs DEF PageIInv, AgendaInv
<1>4. e \in Entries /\ EndSelect(e) \in Els(agenda) /\ EndSelect(e).do = "end"
  <2>1. e \in Entries
    BY <1>1, <1>2 DEF Steps
  <2>2. EndSelect(e) \in Els(agenda)
    BY <1>1, <1>2, EndFollows DEF PageIInv, AgendaInv, Belongs
  <2> QED BY <2>1, <2>2, EntryStepFacts
<1>5. EndSelect(e) \in Els(agenda') /\ working
  BY <1>1, <1>2, <1>3, <1>4 DEF PageIInv, AgendaInv
<1> HIDE DEF e
<1>6. /\ flag' \in [Entries -> BOOLEAN] /\ flag'[e] /\ \A f \in Entries : f # e => flag'[f] = flag[f]
      /\ RowTypes'
  BY <1>4 DEF ShowEntry, PageIInv, RowTypes, e
<1>7. AgendaInv'
  <2>1. \A s \in Els(agenda') : s.do = "fill" /\ s.on => flag[s.e] /\ s.e \in Entries
    <3>1. Tail(agenda) \in Seq(Steps)
      BY <1>1, TailShape DEF PageIInv, AgendaInv
    <3>2. \A s \in Els(agenda') : s \in Steps
      BY <1>3, <3>1 DEF Els
    <3> QED BY <1>2, <1>3, <3>2 DEF PageIInv, AgendaInv, Steps
  <2> QED BY <1>3, <1>4, <1>5, <1>6, <2>1 DEF AgendaInv, ShowEntry
<1>8. FlagInv'
  <2>1. \A f \in Entries : EndSelect(f) \in Els(agenda) => EndSelect(f) \in Els(agenda')
    BY <1>1, <1>2, <1>3, EntryStepFacts
  <2>2. \A f \in Entries : flag[f] => EndSelect(f) \in Els(agenda)
    BY <1>5 DEF PageIInv, FlagInv
  <2>3. \A f \in Entries : flag'[f] => EndSelect(f) \in Els(agenda')
    BY <1>5, <1>6, <2>1, <2>2
  <2> QED BY <1>5, <2>3 DEF FlagInv, ShowEntry
<1>9. ViewInv'
  <2>1. \A s \in Els(agenda) : Enables(s) \/ (s.do = "window" /\ s.on) => s \in Els(agenda')
    BY <1>1, <1>2, <1>3 DEF Enables
  <2> QED BY <2>1, ViewKept DEF PageIInv, ShowEntry, window
<1>10. PageInv'
  <2> SUFFICES ASSUME ~skipped, ~Selects(agenda'), NEW f \in Entries \union {None},
                      EndSelect(f) \in Els(agenda')
               PROVE  /\ tree = Row(f)
                      /\ f # None /\ Show(f) \notin Els(agenda') => flag'[f]
                      /\ (\A s \in Els(agenda') : Belongs(s) => s.do = "show") => page = tree
    BY <1>5 DEF PageInv, ShowEntry, shown
  <2>1. f = e
    BY <1>2, <1>3, <1>4, EndIsOne, EntryStepFacts DEF PageIInv, AgendaInv
  <2>2. ~Selects(agenda)
    BY <1>1, <1>2, <1>3 DEF Selects
  <2>3. (\A s \in Els(agenda') : Belongs(s) => s.do = "show")
          => (\A s \in Els(agenda) : Belongs(s) => s.do = "show")
    BY <1>1, <1>2, <1>3
  <2> QED BY <1>4, <1>6, <2>1, <2>2, <2>3 DEF PageIInv, PageInv
<1> QED BY <1>6, <1>7, <1>8, <1>9, <1>10 DEF PageIInv

\* The page of the row at work, or of the entry of a reload
LEMMA PageShownKeeps ==
  ASSUME PageIInv, agenda # <<>>, Then(<<>>), Head1.do \in {"module", "fill"}, page' = Row(Head1.e),
         UNCHANGED <<row, skipped, sensitive, updating>>
  PROVE  PageIInv'
<1> DEFINE e == Head1.e
<1>1. Els(agenda) = {Head1} \union Els(Tail(agenda)) /\ Head1 \in Steps
  BY TailShape DEF PageIInv, AgendaInv, Head1
<1>2. Shape(agenda') /\ Els(agenda') = Els(Tail(agenda))
  BY PopIs DEF PageIInv, AgendaInv
<1>3. e \in Entries \union {None} /\ EndSelect(e).do = "end" /\ EndSelect(e).e = e
  BY <1>1, EntryStepFacts DEF Steps
<1>4. \/ EndSelect(e) \in Els(agenda)
      \/ ~working /\ e = current
  <2>1. CASE Belongs(Head1)
    BY <1>1, <2>1, EndFollows DEF PageIInv, AgendaInv
  <2>2. CASE ~Belongs(Head1)
    <3>1. Head1.do = "fill" /\ Head1.on /\ e \in Entries
      BY <1>1, <2>2 DEF Belongs, Steps
    <3>2. flag[e]
      BY <1>1, <3>1 DEF PageIInv, AgendaInv
    <3> QED BY <3>1, <3>2 DEF PageIInv, FlagInv
  <2> QED BY <2>1, <2>2
<1> HIDE DEF e
<1>5. /\ \A s \in Els(agenda') : s \in Els(agenda)
      /\ \A s \in Els(agenda) : s.do \notin {"module", "fill"} => s \in Els(agenda')
      /\ Selects(agenda) => Selects(agenda')
  BY <1>1, <1>2 DEF Selects
<1>6. RowTypes' /\ AgendaInv'
  BY <1>2, <1>5 DEF PageIInv, RowTypes, AgendaInv, row
<1>7. FlagInv'
  BY <1>5, EntryStepFacts DEF PageIInv, FlagInv, row
<1>8. ViewInv'
  <2>1. \A s \in Els(agenda) : Enables(s) \/ (s.do = "window" /\ s.on) => s \in Els(agenda')
    BY <1>5 DEF Enables
  <2> QED BY <2>1, ViewKept DEF PageIInv
<1>9. PageInv'
  <2> SUFFICES ASSUME ~skipped, ~Selects(agenda)
               PROVE  /\ \A f \in Entries \union {None} : EndSelect(f) \in Els(agenda') =>
                           /\ tree = Row(f)
                           /\ f # None /\ Show(f) \notin Els(agenda') => flag[f]
                           /\ page' = tree
                      /\ ~working => /\ tree = Row(current) /\ page' = tree
                                     /\ current # None => flag[current]
    BY <1>5 DEF PageInv, row
  <2>1. ASSUME NEW f \in Entries \union {None}, EndSelect(f) \in Els(agenda')
        PROVE  /\ tree = Row(f)
               /\ f # None /\ Show(f) \notin Els(agenda') => flag[f]
               /\ page' = tree
    <3>1. EndSelect(f) \in Els(agenda) /\ EndSelect(f).do = "end" /\ EndSelect(f).e = f
      BY <1>5, <2>1, EntryStepFacts
    <3>2. tree = Row(f) /\ (f # None /\ Show(f) \notin Els(agenda) => flag[f])
      BY <3>1 DEF PageIInv, PageInv
    <3>3. f # None => (Show(f) \notin Els(agenda') => Show(f) \notin Els(agenda))
      BY <1>5, EntryStepFacts
    <3>4. working
      BY <3>1 DEF PageIInv, AgendaInv
    <3>5. f = e
      BY <1>3, <1>4, <3>1, <3>4, EndIsOne DEF PageIInv, AgendaInv
    <3> QED BY <3>2, <3>3, <3>5 DEF e
  <2>2. ASSUME ~working
        PROVE  /\ tree = Row(current) /\ page' = tree
               /\ current # None => flag[current]
    <3>1. tree = Row(current) /\ (current # None => flag[current])
      BY <2>2 DEF PageIInv, PageInv
    <3>2. e = current
      BY <1>3, <1>4, <2>2 DEF PageIInv, AgendaInv
    <3> QED BY <3>1, <3>2 DEF e
  <2> QED BY <2>1, <2>2
<1> QED BY <1>6, <1>7, <1>8, <1>9 DEF PageIInv

LEMMA SelectEndsKeeps == PageIInv /\ SelectEnds => PageIInv'
<1> SUFFICES ASSUME PageIInv, SelectEnds PROVE PageIInv'
  OBVIOUS
<1> DEFINE e == Head1.e
<1>1. agenda # <<>> /\ Head1.do = "end" /\ Then(<<>>) /\ current' = e /\ ~working'
  BY DEF SelectEnds, At
<1>2. /\ Els(agenda) = {Head1} \union Els(Tail(agenda)) /\ Head1 \in Steps
      /\ \A s \in Els(Tail(agenda)) : s.do # "end"
  BY <1>1, TailShape DEF PageIInv, AgendaInv, Head1
<1>3. Shape(agenda') /\ Els(agenda') = Els(Tail(agenda))
  BY <1>1, PopIs DEF PageIInv, AgendaInv
<1>4. e \in Entries \union {None} /\ Head1 = EndSelect(e) /\ working
  BY <1>1, <1>2 DEF Steps, PageIInv, AgendaInv
<1>5. \A f \in Entries \union {None} : EndSelect(f) \in Els(agenda) => f = e
  BY <1>1, <1>2, <1>4, EndIsOne, EntryStepFacts DEF PageIInv, AgendaInv
<1>6. \A s \in Els(agenda') : ~Belongs(s)
  <2>1. \A s \in Els(agenda') : Belongs(s) => s.e \in Entries \union {None}
    <3>1. Tail(agenda) \in Seq(Steps)
      BY <1>1, TailShape DEF PageIInv, AgendaInv
    <3>2. \A s \in Els(agenda') : s \in Steps
      BY <1>3, <3>1 DEF Els
    <3> QED BY <3>2 DEF Steps
  <2> QED BY <1>2, <1>3, <2>1, EndFollows, EntryStepFacts
<1> HIDE DEF e
<1>7. RowTypes' /\ AgendaInv'
  BY <1>1, <1>2, <1>3, <1>4 DEF PageIInv, RowTypes, AgendaInv, SelectEnds
<1>8. FlagInv'
  BY <1>1, <1>4, <1>5 DEF PageIInv, FlagInv, SelectEnds
<1>9. ViewInv'
  <2>1. \A s \in Els(agenda) : Enables(s) \/ (s.do = "window" /\ s.on) => s \in Els(agenda')
    BY <1>1, <1>2, <1>3 DEF Enables
  <2> QED BY <2>1, ViewKept DEF PageIInv, SelectEnds, window
<1>10. PageInv'
  <2>1. \A f \in Entries \union {None} : EndSelect(f) \notin Els(agenda')
    BY <1>2, <1>3, EntryStepFacts
  <2>2. ASSUME ~skipped, ~Selects(agenda')
        PROVE  tree = Row(e) /\ page = tree /\ (e # None => flag[e])
    <3>1. ~Selects(agenda)
      BY <1>1, <1>2, <1>3, <2>2 DEF Selects
    <3>2. \A s \in Els(agenda) : ~Belongs(s)
      BY <1>1, <1>2, <1>3, <1>6 DEF Belongs
    <3>3. e # None => Show(e) \notin Els(agenda)
      BY <1>4, <3>2, EntryStepFacts DEF Belongs
    <3>4. EndSelect(e) \in Els(agenda)
      BY <1>2, <1>4
    <3> QED BY <1>4, <2>2, <3>1, <3>2, <3>3, <3>4 DEF PageIInv, PageInv
  <2> QED BY <1>1, <2>1, <2>2 DEF PageInv, SelectEnds, shown
<1> QED BY <1>7, <1>8, <1>9, <1>10 DEF PageIInv

-----------------------------------------------------------------------------
(* The other steps *)

\* Events whose handlers leave no step behind
LEMMA EventKeeps ==
  ASSUME PageIInv, Waiting, Handling(<<>>), UNCHANGED <<row, page, skipped, sensitive, updating>>
  PROVE  PageIInv'
<1> DEFINE x == <<>>
<1>1. /\ x \in Seq(Steps) /\ Handling(x) /\ (x # <<>> => Calm(Tail(x))) /\ Followed(x) /\ OneEnd(x)
      /\ Els(x) = {}
  BY FewSteps
<1> HIDE DEF x
<1> QED BY <1>1, BeginsKept

\* Steps that leave none behind, and that nothing follows
LEMMA StepKeeps ==
  ASSUME PageIInv, agenda # <<>>, Then(<<>>),
         Head1.do \in {"events", "scan", "dialog", "enable"},
         UNCHANGED <<row, page, skipped, sensitive, updating>>
  PROVE  PageIInv'
<1> DEFINE x == <<>>
<1>1. /\ x \in Seq(Steps) /\ Then(x) /\ (x # <<>> => Calm(Tail(x))) /\ OneEnd(x)
      /\ Kept(x, Els(Tail(agenda))) /\ Els(x) = {}
  BY FewSteps, FollowedKept
<1>2. ~Marked(Head1) /\ ~Enables(Head1) /\ Head1.do \notin {"window", "select"}
  BY DEF Marked, Belongs, Enables
<1> HIDE DEF x
<1> QED BY <1>1, <1>2, GoesOnKept

\* A reload by the user or for a theme
LEMMA ReloadSteps ==
  ASSUME NEW reload \in BOOLEAN, NEW style \in BOOLEAN
  PROVE  /\ DoReload(reload, style) \in Seq(Steps) /\ DoReload(reload, style) # <<>>
         /\ Followed(DoReload(reload, style)) /\ OneEnd(DoReload(reload, style))
         /\ Calm(Tail(DoReload(reload, style)))
         /\ \A s \in Els(DoReload(reload, style)) : ~Marked(s) /\ s.do # "fill"
<1> DEFINE v == View(FALSE)
           r == Reload(reload)
           d == EndReload(style)
           a == <<v, r, d>>
<1>1. /\ v \in Steps /\ r \in Steps /\ d \in Steps
      /\ v.do = "view" /\ r.do = "reload" /\ d.do = "enable"
  <2>1. v \in Steps /\ v.do = "view"
    BY StepFacts
  <2>2. r \in Steps /\ r.do = "reload"
    <3>1. CASE reload = TRUE
      BY <3>1, StepFacts
    <3>2. CASE reload = FALSE
      BY <3>2, StepFacts
    <3> QED BY <3>1, <3>2
  <2>3. d \in Steps /\ d.do = "enable"
    <3>1. CASE style = TRUE
      BY <3>1, StepFacts
    <3>2. CASE style = FALSE
      BY <3>2, StepFacts
    <3> QED BY <3>1, <3>2
  <2> QED BY <2>1, <2>2, <2>3
<1>2. a = DoReload(reload, style)
  BY DEF DoReload
<1> HIDE DEF v, r, d
<1>3. /\ a \in Seq(Steps) /\ a # <<>> /\ DOMAIN a = 1..3 /\ a[1] = v /\ a[2] = r /\ a[3] = d
      /\ Tail(a) = <<r, d>>
  BY <1>1
<1>4. \A s \in Els(Tail(a)) : s \in {r, d}
  BY <1>3 DEF Els
<1> HIDE DEF a
<1>5. r \in Enablers /\ (\A p \in Left(v) : p = Enablers) /\ Left(r) = {} /\ Left(d) = {}
  BY <1>1, LeftIs DEF Disables, Belongs, Enablers, Enables
<1>6. Followed(a)
  BY <1>3, <1>5 DEF Followed, Kept
<1>7. OneEnd(a) /\ Calm(Tail(a))
  BY <1>1, <1>3, <1>4 DEF OneEnd, Calm, Urgent
<1>8. \A s \in Els(a) : ~Marked(s) /\ s.do # "fill"
  BY <1>1, <1>3 DEF Els, Marked, Belongs
<1> QED BY <1>2, <1>3, <1>6, <1>7, <1>8

LEMMA UserKeeps == PageIInv /\ User => PageIInv'
<1> SUFFICES ASSUME PageIInv, User PROVE PageIInv'
  OBVIOUS
<1>1. ASSUME NEW r \in Entries \union {Module, NoRow}, Click(r) PROVE PageIInv'
  <2> DEFINE x == <<Select>>
  <2>1. Select \in Steps /\ Select.do = "select" /\ Left(Select) = {}
    BY StepFacts, LeftIs DEF Disables, Belongs
  <2>2. /\ x \in Seq(Steps) /\ x # <<>> /\ Calm(Tail(x)) /\ Followed(x) /\ OneEnd(x)
        /\ Els(x) = {Select}
    BY <2>1, FewSteps
  <2>3. Waiting /\ Handling(x)
    BY <1>1 DEF Click
  <2> HIDE DEF x
  <2>4. /\ Shape(agenda') /\ Els(x) \subseteq Els(agenda')
        /\ \A s \in Els(agenda') : s \in Els(x) \/ s \in Els(agenda) \/ s.do = "events"
        /\ \A s \in Els(agenda) : s \in Els(agenda') \/ s.do = "events"
    BY <2>1, <2>2, <2>3, HandlingIs DEF PageIInv, AgendaInv
  <2>5. RowTypes'
    BY <1>1 DEF Click, PageIInv, RowTypes
  <2>6. AgendaInv'
    BY <1>1, <2>1, <2>2, <2>4 DEF Click, PageIInv, AgendaInv
  <2>7. FlagInv'
    <3>1. \A e \in Entries : EndSelect(e) \in Els(agenda) => EndSelect(e) \in Els(agenda')
      BY <2>4, EntryStepFacts
    <3> QED BY <1>1, <3>1 DEF Click, PageIInv, FlagInv
  <2>8. ViewInv' /\ PageInv'
    BY <2>1, <2>2, <2>4 DEF ViewInv, PageInv, Selects, Enables
  <2> QED BY <2>5, <2>6, <2>7, <2>8 DEF PageIInv
<1>2. CASE Refresh
  <2>1. Waiting /\ Handling(DoReload(TRUE, FALSE)) /\ UNCHANGED <<row, page, skipped, sensitive, updating>>
    BY <1>2 DEF Refresh, shown
  <2> QED BY <2>1, ReloadSteps, BeginsKept
<1>3. CASE StyleChange
  <2>1. Waiting /\ Handling(DoReload(FALSE, TRUE)) /\ UNCHANGED <<row, page, skipped, sensitive, updating>>
    BY <1>3 DEF StyleChange, shown
  <2> QED BY <2>1, ReloadSteps, BeginsKept
<1>4. CASE Close
  BY <1>4, EventKeeps DEF Close, shown
<1>5. ASSUME NEW stopped \in BOOLEAN, DialogReturns(stopped) PROVE PageIInv'
  BY <1>5, StepKeeps DEF DialogReturns, At, shown, window
<1> QED BY <1>1, <1>2, <1>3, <1>4, <1>5 DEF User

LEMMA TimerKeeps == PageIInv /\ Timer => PageIInv'
<1> SUFFICES ASSUME PageIInv, Timer PROVE PageIInv'
  OBVIOUS
<1>1. ASSUME NEW t \in Timers, FieldShown(t) \/ FieldEnds(t) \/ FieldUnknown(t) PROVE PageIInv'
  BY <1>1, EventKeeps DEF FieldShown, FieldEnds, FieldUnknown, shown, window
<1>2. ASSUME NEW e \in Entries, ReloadTimerEnds(e) \/ RescanTimerFires(e) PROVE PageIInv'
  BY <1>2, EventKeeps DEF ReloadTimerEnds, RescanTimerFires, shown, window
<1>3. ASSUME NEW e \in Entries, ReloadTimerFires(e) PROVE PageIInv'
  <2> DEFINE f == Fill(e, TRUE)
             y == IF e \in Network THEN <<Events(Budget)>> ELSE <<>>
             x == <<f>> \o y
  <2>1. /\ Waiting /\ Handling(x) /\ flag[e] /\ UNCHANGED <<row, page, skipped, sensitive, updating>>
    BY <1>3 DEF ReloadTimerFires, shown, window
  <2>2. f \in Steps /\ f.do = "fill" /\ f.on = TRUE /\ f.e = e
    BY EntryStepFacts
  <2>3. Events(Budget) \in Steps /\ Events(Budget).do = "events"
    BY StepFacts, ShellAssumption
  <2>4. /\ y \in Seq(Steps) /\ Followed(y) /\ OneEnd(y)
        /\ \A s \in Els(y) : s.do = "events"
    <3>1. Left(Events(Budget)) = {}
      BY <2>3, LeftIs DEF Disables, Belongs
    <3>2. CASE e \in Network
      BY <2>3, <3>1, <3>2, FewSteps
    <3>3. CASE e \notin Network
      BY <3>3, FewSteps
    <3> QED BY <3>2, <3>3
  <2> HIDE DEF f, y
  <2>5. Left(f) = {} /\ <<f>> \in Seq(Steps) /\ OneEnd(<<f>>) /\ Els(<<f>>) = {f} /\ Tail(<<f>>) = <<>>
        /\ Calm(<<>>)
    BY <2>2, FewSteps, LeftIs DEF Disables, Belongs
  <2>6. Shape(x) /\ Els(x) = {f} \union Els(y)
    <3>1. Kept(<<f>>, Els(y)) /\ Calm(y)
      BY <2>2, <2>4, <2>5, FewSteps, FollowedKept DEF Calm, Urgent
    <3>2. \A s \in Els(<<f>>) : s.do # "end"
      BY <2>2, <2>5
    <3> QED BY <2>4, <2>5, <3>1, <3>2, CatShape
  <2> HIDE DEF x
  <2>7. /\ \A s \in Els(x) : ~Marked(s)
        /\ \A s \in Els(x) : s.do = "fill" /\ s.on => flag[s.e]
    BY <2>1, <2>2, <2>4, <2>6 DEF Marked, Belongs
  <2> QED BY <2>1, <2>6, <2>7, BeginsKept DEF Shape
<1> QED BY <1>1, <1>2, <1>3 DEF Timer

\* A step that disables the window is followed by one that leads to its being enabled.
LEMMA EnableFollows ==
  ASSUME PageIInv, agenda # <<>>, Disables(Head1)
  PROVE  \E s \in Els(Tail(agenda)) : s \in Enablers /\ Enables(s)
<1>1. Enablers \in Left(Head1)
  BY LeftIs
<1>2. \E s \in Els(Tail(agenda)) : s \in Enablers
  BY <1>1, TailShape DEF PageIInv, AgendaInv, Head1
<1> QED BY <1>2 DEF Enablers

LEMMA ViewSetEnabledKeeps == PageIInv /\ ViewSetEnabled => PageIInv'
<1> SUFFICES ASSUME PageIInv, ViewSetEnabled PROVE PageIInv'
  OBVIOUS
<1> DEFINE q == Events(Budget)
           w == Window(Head1.on)
           x == <<q, w>>
<1>1. agenda # <<>> /\ Head1.do = "view" /\ Then(x)
  BY DEF ViewSetEnabled, At
<1>2. /\ Els(agenda) = {Head1} \union Els(Tail(agenda)) /\ Head1 \in Steps
  BY <1>1, TailShape DEF PageIInv, AgendaInv, Head1
<1>3. Head1.on \in BOOLEAN
  BY <1>2 DEF Steps
<1>4. q \in Steps /\ q.do = "events"
  BY StepFacts, ShellAssumption
<1>5. w \in Steps /\ w.do = "window" /\ w.on = Head1.on
  <2>1. CASE Head1.on = TRUE
    BY <2>1, StepFacts
  <2>2. CASE Head1.on = FALSE
    BY <2>2, StepFacts
  <2> QED BY <1>3, <2>1, <2>2
<1> HIDE DEF q, w
<1>6. /\ x \in Seq(Steps) /\ x # <<>> /\ DOMAIN x = 1..2 /\ x[1] = q /\ x[2] = w /\ Tail(x) = <<w>>
  BY <1>4, <1>5
<1> HIDE DEF x
<1>7. Els(x) = {q, w} /\ OneEnd(x) /\ Calm(Tail(x))
  <2>1. Els(<<w>>) = {w}
    BY <1>5, FewSteps
  <2> QED BY <1>4, <1>5, <1>6, <2>1 DEF Els, OneEnd, Calm, Urgent
<1>8. Kept(x, Els(Tail(agenda)))
  <2>1. Left(q) = {}
    BY <1>4, LeftIs DEF Disables, Belongs
  <2>2. CASE Head1.on
    <3>1. Left(w) = {}
      BY <1>5, <2>2, LeftIs DEF Disables, Belongs
    <3> QED BY <1>6, <2>1, <3>1 DEF Kept
  <2>3. CASE ~Head1.on
    <3>1. \A p \in Left(w) : p = Enablers
      BY <1>5, LeftIs DEF Belongs
    <3>2. \E s \in Els(Tail(agenda)) : s \in Enablers
      BY <1>1, <2>3, EnableFollows DEF Disables
    <3> QED BY <1>6, <2>1, <3>1, <3>2 DEF Kept
  <2> QED BY <2>2, <2>3
<1>9. Shape(agenda') /\ Els(agenda') = {q, w} \union Els(Tail(agenda))
  BY <1>1, <1>4, <1>5, <1>6, <1>7, <1>8, ThenIs DEF PageIInv, AgendaInv
<1>10. AgendaInv' /\ FlagInv' /\ PageInv'
  <2>1. /\ \A s \in Els(agenda') : Marked(s) => s \in Els(agenda)
        /\ \A s \in Els(agenda) : Marked(s) => s \in Els(agenda')
        /\ Selects(agenda) => Selects(agenda')
        /\ \A s \in Els(agenda') : s.do = "fill" /\ s.on => flag[s.e]
    BY <1>1, <1>2, <1>4, <1>5, <1>9 DEF Marked, Belongs, Selects, PageIInv, AgendaInv
  <2> QED BY <1>9, <2>1, RowsKept DEF PageIInv, ViewSetEnabled, shown
<1>11. ViewInv'
  <2>1. CASE Head1.on
    <3>1. sensitive' /\ w \in Els(agenda') /\ w.do = "window" /\ w.on
      BY <1>5, <1>9, <2>1 DEF ViewSetEnabled
    <3> QED BY <3>1 DEF ViewInv
  <2>2. CASE ~Head1.on
    <3>1. \E s \in Els(agenda') : Enables(s)
      BY <1>1, <1>9, <2>2, EnableFollows DEF Disables
    <3> QED BY <3>1 DEF ViewInv
  <2> QED BY <2>1, <2>2
<1>12. RowTypes'
  BY DEF PageIInv, RowTypes, row, ViewSetEnabled
<1> QED BY <1>10, <1>11, <1>12 DEF PageIInv

LEMMA WindowUpdatedKeeps == PageIInv /\ WindowUpdated => PageIInv'
<1> SUFFICES ASSUME PageIInv, WindowUpdated PROVE PageIInv'
  OBVIOUS
<1>1. agenda # <<>> /\ Head1.do = "window" /\ Then(<<>>)
  BY DEF WindowUpdated, At
<1>2. Els(agenda) = {Head1} \union Els(Tail(agenda))
  BY <1>1, TailShape DEF PageIInv, AgendaInv, Head1
<1>3. Shape(agenda') /\ Els(agenda') = Els(Tail(agenda))
  BY <1>1, PopIs DEF PageIInv, AgendaInv
<1>4. AgendaInv' /\ FlagInv' /\ PageInv'
  <2>1. /\ \A s \in Els(agenda') : Marked(s) => s \in Els(agenda)
        /\ \A s \in Els(agenda) : Marked(s) => s \in Els(agenda')
        /\ Selects(agenda) => Selects(agenda')
        /\ \A s \in Els(agenda') : s.do = "fill" /\ s.on => flag[s.e]
    BY <1>1, <1>2, <1>3 DEF Marked, Belongs, Selects, PageIInv, AgendaInv
  <2> QED BY <1>3, <2>1, RowsKept DEF PageIInv, WindowUpdated, shown
<1>5. ViewInv'
  <2>1. CASE Head1.on
    <3>1. ~updating' /\ sensitive' = sensitive /\ skipped' = skipped
      BY <2>1 DEF WindowUpdated
    <3>2. \A s \in Els(agenda) : Enables(s) => s \in Els(agenda')
      BY <1>1, <1>2, <1>3 DEF Enables
    <3> QED BY <3>1, <3>2 DEF PageIInv, ViewInv
  <2>2. CASE ~Head1.on
    <3>1. \E s \in Els(agenda') : Enables(s)
      BY <1>1, <1>3, <2>2, EnableFollows DEF Disables
    <3> QED BY <3>1 DEF ViewInv
  <2> QED BY <2>1, <2>2
<1>6. RowTypes'
  BY DEF PageIInv, RowTypes, row, WindowUpdated
<1> QED BY <1>4, <1>5, <1>6 DEF PageIInv

LEMMA ScanOpensKeeps == PageIInv /\ ScanOpens => PageIInv'
<1> SUFFICES ASSUME PageIInv, ScanOpens PROVE PageIInv'
  OBVIOUS
<1> DEFINE d == Dialog(Head1.e)
           x == <<d>>
<1>1. agenda # <<>> /\ Head1.do = "scan" /\ Then(x)
  BY DEF ScanOpens, At
<1>2. Head1 \in Steps /\ Head1.e \in Entries \union {None}
  <2>1. Head1 \in Steps
    BY <1>1, TailShape DEF PageIInv, AgendaInv, Head1
  <2> QED BY <2>1 DEF Steps
<1>3. d \in Steps /\ d.do = "dialog"
  BY <1>2, EntryStepFacts
<1>4. \E s \in Els(Tail(agenda)) : s \in Enablers /\ Enables(s)
  BY <1>1, EnableFollows DEF Disables
<1> HIDE DEF d
<1>5. x \in Seq(Steps) /\ x # <<>> /\ DOMAIN x = 1..1 /\ x[1] = d /\ Tail(x) = <<>>
  BY <1>3
<1> HIDE DEF x
<1>6. Els(x) = {d} /\ OneEnd(x) /\ Calm(Tail(x))
  <2>1. Els(<<>>) = {}
    BY DEF Els
  <2> QED BY <1>3, <1>5, <2>1 DEF Els, OneEnd, Calm, Urgent
<1>7. Kept(x, Els(Tail(agenda)))
  <2>1. Left(d) = {}
    BY <1>3, LeftIs DEF Disables, Belongs
  <2> QED BY <1>4, <1>5, <2>1 DEF Kept
<1>8. ~Marked(Head1) /\ Head1.do # "select" /\ \A s \in Els(x) : ~Marked(s) /\ ~(s.do = "fill" /\ s.on)
  BY <1>1, <1>3, <1>6 DEF Marked, Belongs
<1>9. UNCHANGED <<row, page, skipped, sensitive, updating>>
  BY DEF ScanOpens, window, shown
<1> QED BY <1>1, <1>4, <1>5, <1>6, <1>7, <1>8, <1>9, GoesOnKept

\* One or two steps that select the row again, or only enable the window
LEMMA ReloadKeeps ==
  ASSUME PageIInv, agenda # <<>>, Head1.do \in {"reload", "reloaded"},
         NEW x \in Seq(Steps), Then(x), x # <<>> => Calm(Tail(x)), OneEnd(x), Followed(x),
         \A s \in Els(x) : ~Marked(s) /\ ~(s.do = "fill" /\ s.on),
         \E s \in Els(x) : Enables(s),
         UNCHANGED <<row, page, skipped, sensitive, updating>>
  PROVE  PageIInv'
<1>1. ~Marked(Head1) /\ Head1.do # "select" /\ Kept(x, Els(Tail(agenda)))
  BY FollowedKept DEF Marked, Belongs
<1> QED BY <1>1, GoesOnKept

LEMMA ReloadStepsKeep == PageIInv /\ (ReloadBegins \/ ReloadSelects) => PageIInv'
<1> SUFFICES ASSUME PageIInv, ReloadBegins \/ ReloadSelects PROVE PageIInv'
  OBVIOUS
<1>1. /\ agenda # <<>> /\ Head1.do \in {"reload", "reloaded"}
      /\ UNCHANGED <<row, page, skipped, sensitive, updating>>
  BY DEF ReloadBegins, ReloadSelects, At, window, shown
<1>2. ASSUME NEW s \in Steps, s \in {Select, View(TRUE)}, Then(<<s>>) PROVE PageIInv'
  <2> DEFINE x == <<s>>
  <2>1. s.do = "select" \/ (s.do = "view" /\ s.on)
    BY <1>2, StepFacts
  <2>2. Left(s) = {} /\ ~Marked(s) /\ ~(s.do = "fill" /\ s.on) /\ Enables(s)
    BY <2>1, LeftIs DEF Disables, Belongs, Marked, Enables
  <2>3. x \in Seq(Steps) /\ Els(x) = {s} /\ OneEnd(x) /\ Calm(Tail(x)) /\ Followed(x) /\ Then(x)
    BY <1>2, <2>2, FewSteps
  <2> HIDE DEF x
  <2> QED BY <1>1, <2>2, <2>3, ReloadKeeps
<1>3. ASSUME selected \in Slow, Then(<<Scan(selected, TRUE), AfterScan>>) PROVE PageIInv'
  <2> DEFINE c == Scan(selected, TRUE)
             r == AfterScan
             x == <<c, r>>
  <2>1. c \in Steps /\ c.do = "scan" /\ r \in Steps /\ r.do = "reloaded"
    BY StepFacts, EntryStepFacts DEF PageIInv, RowTypes
  <2>2. Then(x)
    BY <1>3
  <2> HIDE DEF c, r
  <2>3. x \in Seq(Steps) /\ DOMAIN x = 1..2 /\ x[1] = c /\ x[2] = r /\ Tail(x) = <<r>>
    BY <2>1
  <2> HIDE DEF x
  <2>4. Els(x) = {c, r} /\ OneEnd(x) /\ Calm(Tail(x))
    <3>1. Els(<<r>>) = {r}
      BY <2>1, FewSteps
    <3> QED BY <2>1, <2>3, <3>1 DEF Els, OneEnd, Calm, Urgent
  <2>5. Enables(r) /\ r \in Enablers /\ \A s \in Els(x) : ~Marked(s) /\ ~(s.do = "fill" /\ s.on)
    BY <2>1, <2>4 DEF Enables, Enablers, Marked, Belongs
  <2>6. Followed(x)
    <3>1. Left(r) = {} /\ \A p \in Left(c) : p = Enablers
      BY <2>1, LeftIs DEF Disables, Belongs
    <3> QED BY <2>3, <2>5, <3>1 DEF Followed, Kept
  <2> QED BY <1>1, <2>2, <2>3, <2>4, <2>5, <2>6, ReloadKeeps
<1>4. Select \in Steps /\ View(TRUE) \in Steps
  BY StepFacts
<1>5. \/ Then(<<Select>>) \/ Then(<<View(TRUE)>>)
      \/ (selected \in Slow /\ Then(<<Scan(selected, TRUE), AfterScan>>))
  BY DEF ReloadBegins, ReloadSelects, AfterScanSteps
<1> QED BY <1>2, <1>3, <1>4, <1>5

LEMMA HandlerKeeps == PageIInv /\ Handler => PageIInv'
<1> SUFFICES ASSUME PageIInv, Handler PROVE PageIInv'
  OBVIOUS
<1>1. ASSUME EventsEnd \/ ScanReturns \/ ReloadEnds PROVE PageIInv'
  <2>1. /\ agenda # <<>> /\ Head1.do \in {"events", "scan", "dialog", "enable"} /\ Then(<<>>)
        /\ UNCHANGED <<row, page, skipped, sensitive, updating>>
    BY <1>1 DEF EventsEnd, ScanReturns, ReloadEnds, At, window, shown
  <2> QED BY <2>1, StepKeeps
<1>2. ASSUME ShowModule PROVE PageIInv'
  <2>1. agenda # <<>> /\ Head1.do = "module" /\ Then(<<>>)
    BY <1>2 DEF ShowModule, At
  <2>2. Head1 \in Steps
    BY <2>1, TailShape DEF PageIInv, AgendaInv, Head1
  <2>3. page' = Row(Head1.e) /\ UNCHANGED <<row, skipped, sensitive, updating>>
    BY <1>2, <2>1, <2>2 DEF ShowModule, Row, Steps
  <2> QED BY <2>1, <2>3, PageShownKeeps
<1>3. ASSUME ShowInfo PROVE PageIInv'
  <2>1. agenda # <<>> /\ Head1.do = "fill" /\ Then(<<>>)
    BY <1>3 DEF ShowInfo, At
  <2>2. Head1 \in Steps
    BY <2>1, TailShape DEF PageIInv, AgendaInv, Head1
  <2>3. Head1.e \in Entries
    BY <2>1, <2>2 DEF Steps
  <2>4. page' = Row(Head1.e) /\ UNCHANGED <<row, skipped, sensitive, updating>>
    <3>1. page' = Head1.e /\ UNCHANGED <<row, window, skipped>>
      BY <1>3 DEF ShowInfo
    <3>2. Head1.e # None
      BY <2>3, StepFacts
    <3> QED BY <3>1, <3>2 DEF Row, window
  <2> QED BY <2>1, <2>4, PageShownKeeps
<1> QED BY <1>1, <1>2, <1>3, ViewSetEnabledKeeps, WindowUpdatedKeeps, SelectReturnsKeeps,
           SelectBeginsKeeps, ShowEntryKeeps, SelectEndsKeeps, ScanOpensKeeps, ReloadStepsKeep
        DEF Handler

LEMMA PageStep == PageIInv /\ [Next]_vars => PageIInv'
<1> SUFFICES ASSUME PageIInv, [Next]_vars PROVE PageIInv'
  OBVIOUS
<1>1. CASE UNCHANGED vars
  BY <1>1 DEF vars, row, window, shown, PageIInv, RowTypes, AgendaInv, FlagInv, ViewInv, PageInv,
              Selects
<1> QED BY <1>1, HandlerKeeps, TimerKeeps, UserKeeps DEF Next, Exited

\* Whatever the user, the timers and the desktop do, and however the handlers nest: once no
\* handler is at work the page is that of the tree's row, whose entry alone is selected, and
\* the window takes input, unless module_selected() returned early (shell.c:3010, 3020).
THEOREM PageFollowsTreeHolds == Spec => []PageFollowsTree
BY PageInit, PageStep, PageFollows, PTL DEF Spec

-----------------------------------------------------------------------------
(* Reload timers *)

Places(a, v) == {i \in DOMAIN a : a[i] = v}
Count(a, v)  == Cardinality(Places(a, v))

LEMMA CountType ==
  ASSUME NEW a \in Seq(Steps), NEW v
  PROVE  /\ IsFiniteSet(Places(a, v)) /\ Count(a, v) \in Nat
         /\ v \notin Els(a) => Count(a, v) = 0
<1>1. DOMAIN a = 1..Len(a) /\ Len(a) \in Nat
  BY LenProperties
<1>2. IsFiniteSet(1..Len(a)) /\ Places(a, v) \in SUBSET (1..Len(a))
  BY <1>1, FS_Interval DEF Places
<1>3. IsFiniteSet(Places(a, v)) /\ Count(a, v) \in Nat
  BY <1>2, FS_Subset, FS_CardinalityType DEF Count
<1>4. v \notin Els(a) => Places(a, v) = {}
  BY DEF Places, Els
<1> QED BY <1>3, <1>4, FS_EmptySet DEF Count

LEMMA CountCat ==
  ASSUME NEW x \in Seq(Steps), NEW y \in Seq(Steps), NEW v
  PROVE  Count(x \o y, v) = Count(x, v) + Count(y, v)
<1> DEFINE m == Len(x)
           z == x \o y
           X == Places(x, v)
           Y == Places(y, v)
           M == {m + j : j \in Y}
<1>1. /\ m \in Nat /\ Len(y) \in Nat
      /\ DOMAIN x = 1..m /\ DOMAIN y = 1..Len(y) /\ DOMAIN z = 1..(m + Len(y))
      /\ \A i \in 1..m : z[i] = x[i]
      /\ \A i \in 1..Len(y) : z[m + i] = y[i]
  BY CatIs
<1> HIDE DEF m, z
<1>2. X \subseteq 1..m /\ Y \subseteq 1..Len(y)
  BY <1>1 DEF Places
<1>3. IsFiniteSet(X) /\ IsFiniteSet(Y) /\ Cardinality(X) \in Nat /\ Cardinality(Y) \in Nat
  BY CountType DEF Count
<1>4. Places(z, v) = X \union M
  <2>1. ASSUME NEW i \in Places(z, v) PROVE i \in X \union M
    <3>1. i \in 1..(m + Len(y)) /\ z[i] = v
      BY <1>1 DEF Places
    <3>2. CASE i <= m
      <4>1. i \in 1..m
        BY <1>1, <3>1, <3>2
      <4> QED BY <1>1, <3>1, <4>1 DEF Places
    <3>3. CASE ~(i <= m)
      <4>1. i - m \in 1..Len(y) /\ m + (i - m) = i
        BY <1>1, <3>1, <3>3
      <4>2. i - m \in Y
        BY <1>1, <3>1, <4>1 DEF Places
      <4> QED BY <4>1, <4>2
    <3> QED BY <3>2, <3>3
  <2>2. ASSUME NEW i \in X PROVE i \in Places(z, v)
    <3>1. i \in 1..m /\ i \in 1..(m + Len(y)) /\ x[i] = v
      BY <1>1 DEF Places
    <3> QED BY <1>1, <3>1 DEF Places
  <2>3. ASSUME NEW j \in Y PROVE m + j \in Places(z, v)
    <3>1. j \in 1..Len(y) /\ m + j \in 1..(m + Len(y)) /\ y[j] = v
      BY <1>1 DEF Places
    <3> QED BY <1>1, <3>1 DEF Places
  <2> HIDE DEF X, Y
  <2> QED BY <2>1, <2>2, <2>3
<1> HIDE DEF X, Y
<1>5. IsFiniteSet(M) /\ Cardinality(M) = Cardinality(Y)
  <2> DEFINE f == [j \in Y |-> m + j]
  <2>1. f \in [Y -> M] /\ \A j \in Y : f[j] = m + j
    OBVIOUS
  <2>2. \A j, k \in Y : f[j] = f[k] => j = k
    BY <1>1, <1>2
  <2>3. \A i \in M : \E j \in Y : f[j] = i
    OBVIOUS
  <2> HIDE DEF f, M
  <2>4. f \in Bijection(Y, M)
    BY <2>1, <2>2, <2>3, Fun_IsBij
  <2>5. ExistsBijection(Y, M)
    BY <2>4, Fun_ExistsBij
  <2> QED BY <1>3, <2>5, FS_Bijection
<1>6. X \intersect M = {}
  <2>1. \A i \in X : i <= m
    BY <1>1, <1>2
  <2>2. \A j \in Y : ~(m + j <= m)
    BY <1>1, <1>2
  <2> QED BY <2>1, <2>2
<1> HIDE DEF M
<1>7. Cardinality(X \union M) = Cardinality(X) + Cardinality(M) - Cardinality(X \intersect M)
  BY <1>3, <1>5, FS_Union
<1>8. Cardinality(X \intersect M) = 0
  BY <1>6, FS_EmptySet
<1>9. Cardinality(Places(z, v)) = Cardinality(X) + Cardinality(Y)
  BY <1>3, <1>4, <1>5, <1>7, <1>8
<1> QED BY <1>9 DEF Count, X, Y, z

\* One step counts once.
LEMMA CountOne ==
  ASSUME NEW s \in Steps, NEW v
  PROVE  Count(<<s>>, v) = IF s = v THEN 1 ELSE 0
<1>1. DOMAIN <<s>> = {1} /\ <<s>>[1] = s
  OBVIOUS
<1>2. Places(<<s>>, v) = IF s = v THEN {1} ELSE {}
  BY <1>1 DEF Places
<1> QED BY <1>2, FS_EmptySet, FS_Singleton DEF Count

\* The agenda's own count
LEMMA CountTail ==
  ASSUME Shape(agenda), agenda # <<>>, NEW v
  PROVE  /\ Count(agenda, v) = Count(Tail(agenda), v) + (IF Head1 = v THEN 1 ELSE 0)
         /\ Count(Tail(agenda), v) \in Nat
<1> DEFINE t == Tail(agenda)
<1>1. t \in Seq(Steps) /\ Head1 \in Steps /\ <<Head1>> \in Seq(Steps)
  BY TailShape, FewSteps DEF Head1
<1>2. agenda = <<Head1>> \o t
  BY HeadTailProperties DEF Shape, Head1
<1> HIDE DEF t
<1>3. /\ Count(<<Head1>> \o t, v) = Count(<<Head1>>, v) + Count(t, v)
      /\ Count(<<Head1>>, v) = IF Head1 = v THEN 1 ELSE 0
      /\ Count(t, v) \in Nat
  BY <1>1, CountCat, CountOne, CountType
<1>4. Count(agenda, v) = Count(<<Head1>> \o t, v)
  BY <1>2, Zenon
<1> QED BY <1>3, <1>4 DEF t

LEMMA CountThen ==
  ASSUME Shape(agenda), agenda # <<>>, NEW x \in Seq(Steps), Then(x), NEW v, v \notin Els(x)
  PROVE  Count(agenda', v) = Count(agenda, v) - (IF Head1 = v THEN 1 ELSE 0)
<1>1. Tail(agenda) \in Seq(Steps)
  BY TailShape
<1>2. Count(x \o Tail(agenda), v) = Count(x, v) + Count(Tail(agenda), v) /\ Count(x, v) = 0
  BY <1>1, CountCat, CountType
<1> QED BY <1>2, CountTail DEF Then

LEMMA CountHandling ==
  ASSUME Shape(agenda), NEW x \in Seq(Steps), Handling(x), NEW v, v.do = "fill"
  PROVE  Count(agenda', v) = Count(agenda, v) + Count(x, v)
<1>1. CASE At("events")
  <2> DEFINE h == [Head1 EXCEPT !.n = @ - 1]
             t == Tail(agenda)
  <2>1. agenda # <<>> /\ Head1.do = "events"
    BY <1>1 DEF At
  <2>2. t \in Seq(Steps) /\ Head1 \in Steps
    BY <2>1, TailShape DEF Head1
  <2>3. h \in Steps /\ h.do = "events"
    <3>1. Head1 \in [do : Dos, e : Entries \union {None}, on : BOOLEAN, n : Int]
      BY <2>2 DEF Steps
    <3>2. h \in [do : Dos, e : Entries \union {None}, on : BOOLEAN, n : Int] /\ h.do = Head1.do
      BY <3>1
    <3> HIDE DEF h
    <3> QED BY <2>1, <3>2 DEF Steps
  <2>4. agenda' = (x \o <<h>>) \o t
    BY <1>1 DEF Handling
  <2>5. Count(agenda, v) = Count(t, v) /\ Count(t, v) \in Nat
    BY <2>1, CountTail
  <2> HIDE DEF h, t
  <2>6. x \o <<h>> \in Seq(Steps) /\ <<h>> \in Seq(Steps)
    BY <2>3
  <2>7. Count(x \o <<h>>, v) = Count(x, v) + Count(<<h>>, v) /\ Count(<<h>>, v) = 0
    BY <2>3, <2>6, CountCat, CountOne
  <2>8. Count((x \o <<h>>) \o t, v) = Count(x \o <<h>>, v) + Count(t, v)
    BY <2>2, <2>6, CountCat, ZenonT(60)
  <2>9. Count(x, v) \in Nat
    BY CountType
  <2> QED BY <2>4, <2>5, <2>7, <2>8, <2>9
<1>2. CASE ~At("events")
  <2>1. agenda' = x \o agenda /\ agenda \in Seq(Steps)
    BY <1>2 DEF Handling, Shape
  <2> QED BY <2>1, CountCat, CountType
<1> QED BY <1>1, <1>2

\* The timers of e that wait, with counters r, and those on the agenda a that have fired
ReloadsOf(r, a, e) == r[e] + Count(a, Fill(e, TRUE))
ReloadTypes  == reloads \in [Entries -> Nat]
ReloadIInv   == PageIInv /\ ReloadTypes

\* What a step of the agenda does that adds no reload to it
LEMMA ThenAddsNone ==
  ASSUME PageIInv, ReloadTypes, agenda # <<>>, NEW x \in Seq(Steps), Then(x),
         \A s \in Els(x) : s.do # "fill", reloads' = reloads, NEW e \in Entries
  PROVE  ReloadsOf(reloads', agenda', e) <= ReloadsOf(reloads, agenda, e)
<1> DEFINE v == Fill(e, TRUE)
<1>1. v.do = "fill"
  BY EntryStepFacts
<1> HIDE DEF v
<1>2. v \notin Els(x)
  BY <1>1
<1>3. Shape(agenda) /\ agenda \in Seq(Steps)
  BY DEF PageIInv, AgendaInv, Shape
<1>4. Count(agenda', v) = Count(agenda, v) - (IF Head1 = v THEN 1 ELSE 0)
  BY <1>2, <1>3, CountThen
<1>5. Count(agenda, v) \in Nat
  BY <1>3, CountType
<1>6. /\ ReloadsOf(reloads, agenda, e) = reloads[e] + Count(agenda, v)
      /\ ReloadsOf(reloads', agenda', e) = reloads'[e] + Count(agenda', v)
  BY DEF ReloadsOf, v
<1> QED BY <1>4, <1>5, <1>6 DEF ReloadTypes

\* What an event does that adds no reload
LEMMA EventAddsNone ==
  ASSUME PageIInv, ReloadTypes, NEW x \in Seq(Steps), Handling(x),
         \A s \in Els(x) : s.do # "fill", NEW e \in Entries,
         reloads' \in [Entries -> Nat], reloads'[e] <= reloads[e]
  PROVE  ReloadsOf(reloads', agenda', e) <= ReloadsOf(reloads, agenda, e)
<1> DEFINE v == Fill(e, TRUE)
<1>1. v.do = "fill"
  BY EntryStepFacts
<1> HIDE DEF v
<1>2. v \notin Els(x)
  BY <1>1
<1>3. Shape(agenda) /\ agenda \in Seq(Steps)
  BY DEF PageIInv, AgendaInv, Shape
<1>4. Count(agenda', v) = Count(agenda, v)
  BY <1>1, <1>2, <1>3, CountHandling, CountType
<1>5. Count(agenda, v) \in Nat
  BY <1>3, CountType
<1>6. /\ ReloadsOf(reloads, agenda, e) = reloads[e] + Count(agenda, v)
      /\ ReloadsOf(reloads', agenda', e) = reloads'[e] + Count(agenda', v)
  BY DEF ReloadsOf, v
<1> QED BY <1>4, <1>5, <1>6 DEF ReloadTypes

LEMMA UserAddsNone ==
  ASSUME ReloadIInv, User, NEW e \in Entries
  PROVE  ReloadsOf(reloads', agenda', e) <= ReloadsOf(reloads, agenda, e)
<1>1. reloads' = reloads
  BY DEF User, Click, Refresh, StyleChange, Close, DialogReturns, timers
<1>2. reloads' \in [Entries -> Nat] /\ reloads'[e] <= reloads[e] /\ ReloadTypes /\ PageIInv
  BY <1>1 DEF ReloadIInv, ReloadTypes
<1>3. ASSUME NEW x \in Seq(Steps), Handling(x), \A s \in Els(x) : s.do # "fill"
      PROVE  ReloadsOf(reloads', agenda', e) <= ReloadsOf(reloads, agenda, e)
  BY <1>2, <1>3, EventAddsNone
<1>4. CASE \E r \in Entries \union {Module, NoRow} : Click(r)
  <2>1. Select \in Steps /\ Select.do = "select"
    BY StepFacts
  <2>2. <<Select>> \in Seq(Steps) /\ Els(<<Select>>) = {Select}
    BY <2>1, FewSteps
  <2>3. Handling(<<Select>>)
    BY <1>4 DEF Click
  <2> DEFINE x == <<Select>>
  <2>4. x \in Seq(Steps) /\ Handling(x) /\ \A s \in Els(x) : s.do # "fill"
    BY <2>1, <2>2, <2>3
  <2> HIDE DEF x
  <2> QED BY <1>2, <1>3, <2>4
<1>5. CASE Refresh
  <2>1. Handling(DoReload(TRUE, FALSE))
    BY <1>5 DEF Refresh
  <2> QED BY <1>2, <1>3, <2>1, ReloadSteps
<1>6. CASE StyleChange
  <2>1. Handling(DoReload(FALSE, TRUE))
    BY <1>6 DEF StyleChange
  <2> QED BY <1>2, <1>3, <2>1, ReloadSteps
<1>7. CASE Close
  <2> DEFINE x == <<>>
  <2>1. x \in Seq(Steps) /\ Handling(x) /\ Els(x) = {}
    BY <1>7, FewSteps DEF Close
  <2> HIDE DEF x
  <2> QED BY <1>2, <1>3, <2>1
<1>8. CASE \E stopped \in BOOLEAN : DialogReturns(stopped)
  <2> DEFINE x == <<>>
  <2>1. x \in Seq(Steps) /\ agenda # <<>> /\ Then(x) /\ Els(x) = {}
    BY <1>8, FewSteps DEF DialogReturns, At
  <2> HIDE DEF x
  <2> QED BY <1>1, <1>2, <2>1, ThenAddsNone
<1> QED BY <1>4, <1>5, <1>6, <1>7, <1>8 DEF User

\* A timer that fires is one less, until the page it reloads takes its place.
LEMMA TimerAddsNone ==
  ASSUME ReloadIInv, Timer, NEW e \in Entries
  PROVE  ReloadsOf(reloads', agenda', e) <= ReloadsOf(reloads, agenda, e)
<1>1. ReloadTypes /\ PageIInv /\ reloads \in [Entries -> Nat]
  BY DEF ReloadIInv, ReloadTypes
<1>2. ASSUME Handling(<<>>), reloads' = reloads
      PROVE  ReloadsOf(reloads', agenda', e) <= ReloadsOf(reloads, agenda, e)
  <2> DEFINE x == <<>>
  <2>1. x \in Seq(Steps) /\ Handling(x) /\ Els(x) = {}
    BY <1>2, FewSteps
  <2> HIDE DEF x
  <2>2. reloads' \in [Entries -> Nat] /\ reloads'[e] <= reloads[e]
    BY <1>1, <1>2
  <2> QED BY <1>1, <2>1, <2>2, EventAddsNone DEF ReloadTypes
<1>3. ASSUME NEW f \in Entries, reloads[f] > 0, reloads' = [reloads EXCEPT ![f] = reloads[f] - 1]
      PROVE  reloads' \in [Entries -> Nat] /\ reloads'[f] = reloads[f] - 1
             /\ \A g \in Entries : g # f => reloads'[g] = reloads[g]
  BY <1>1, <1>3
<1>4. ASSUME NEW f \in Entries, ReloadTimerEnds(f)
      PROVE  ReloadsOf(reloads', agenda', e) <= ReloadsOf(reloads, agenda, e)
  <2> DEFINE x == <<>>
  <2>1. x \in Seq(Steps) /\ Handling(x) /\ Els(x) = {}
    BY <1>4, FewSteps DEF ReloadTimerEnds
  <2> HIDE DEF x
  <2>2. reloads' \in [Entries -> Nat] /\ reloads'[e] <= reloads[e]
    <3>1. reloads[f] > 0 /\ reloads' = [reloads EXCEPT ![f] = reloads[f] - 1]
      BY <1>4 DEF ReloadTimerEnds, AfterReloadTimer
    <3> QED BY <1>1, <1>3, <3>1
  <2> QED BY <1>1, <2>1, <2>2, EventAddsNone DEF ReloadTypes
<1>5. ASSUME NEW f \in Entries, ReloadTimerFires(f)
      PROVE  ReloadsOf(reloads', agenda', e) <= ReloadsOf(reloads, agenda, e)
  <2> DEFINE u == Fill(f, TRUE)
             v == Fill(e, TRUE)
             y == IF f \in Network THEN <<Events(Budget)>> ELSE <<>>
             x == <<u>> \o y
  <2>1. u \in Steps /\ u.e = f /\ v.do = "fill" /\ v.e = e
    BY EntryStepFacts
  <2>2. y \in Seq(Steps) /\ \A s \in Els(y) : s.do = "events"
    <3>1. Events(Budget) \in Steps /\ Events(Budget).do = "events"
      BY StepFacts, ShellAssumption
    <3> QED BY <3>1, FewSteps
  <2>3. Handling(x)
    BY <1>5 DEF ReloadTimerFires
  <2>4. /\ reloads' \in [Entries -> Nat] /\ reloads'[f] = reloads[f] - 1
        /\ \A g \in Entries : g # f => reloads'[g] = reloads[g]
    <3>1. reloads[f] > 0 /\ reloads' = [reloads EXCEPT ![f] = reloads[f] - 1]
      BY <1>5 DEF ReloadTimerFires, AfterReloadTimer
    <3> QED BY <1>3, <3>1
  <2>5. /\ ReloadsOf(reloads, agenda, e) = reloads[e] + Count(agenda, v)
      /\ ReloadsOf(reloads', agenda', e) = reloads'[e] + Count(agenda', v)
    BY DEF ReloadsOf
  <2>6. u = v => f = e
    BY <2>1
  <2> HIDE DEF u, v, y
  <2>7. <<u>> \in Seq(Steps)
    BY <2>1
  <2>8. Count(<<u>> \o y, v) = Count(<<u>>, v) + Count(y, v)
    BY <2>2, <2>7, CountCat
  <2>9. Count(y, v) = 0 /\ Count(<<u>>, v) = IF u = v THEN 1 ELSE 0
    <3>1. v \notin Els(y)
      BY <2>1, <2>2
    <3> QED BY <2>1, <2>2, <3>1, CountType, CountOne
  <2>10. Count(agenda', v) = Count(agenda, v) + Count(x, v)
    <3>1. Shape(agenda) /\ x \in Seq(Steps)
      BY <1>1, <2>2, <2>7 DEF PageIInv, AgendaInv
    <3> HIDE DEF x
    <3> QED BY <2>1, <2>3, <3>1, CountHandling
  <2>11. Count(agenda, v) \in Nat
    BY <1>1, CountType DEF PageIInv, AgendaInv, Shape
  <2> QED BY <1>1, <2>4, <2>5, <2>6, <2>8, <2>9, <2>10, <2>11 DEF ReloadTypes
<1>6. ASSUME \/ \E t \in Timers : FieldShown(t) \/ FieldEnds(t) \/ FieldUnknown(t)
             \/ \E f \in Entries : RescanTimerFires(f)
      PROVE  ReloadsOf(reloads', agenda', e) <= ReloadsOf(reloads, agenda, e)
  <2>1. Handling(<<>>) /\ reloads' = reloads
    BY <1>6 DEF FieldShown, FieldEnds, FieldUnknown, RescanTimerFires, timers
  <2> QED BY <1>2, <2>1
<1> QED BY <1>4, <1>5, <1>6 DEF Timer

\* Showing a page adds one timer of its entry; a reload that does it was one before.
LEMMA ShowInfoAdds ==
  ASSUME ReloadIInv, ShowInfo, NEW e \in Entries
  PROVE  ReloadsOf(reloads', agenda', e) <= ReloadsOf(reloads, agenda, e) \/ Head1 = Fill(e, FALSE)
<1> DEFINE f == Head1.e
           v == Fill(e, TRUE)
<1>1. /\ agenda # <<>> /\ Head1.do = "fill" /\ Then(<<>>)
      /\ reloads' = [reloads EXCEPT ![f] = IF f \in Reloads THEN @ + 1 ELSE @]
  BY DEF ShowInfo, At
<1>2. PageIInv /\ ReloadTypes /\ Shape(agenda) /\ agenda \in Seq(Steps)
  BY DEF ReloadIInv, PageIInv, AgendaInv, Shape
<1>3. Head1 \in Steps
  BY <1>1, <1>2, TailShape DEF Head1
<1>4. f \in Entries /\ Head1 = Fill(f, Head1.on) /\ Head1.on \in BOOLEAN
  BY <1>1, <1>3 DEF Steps
<1>5. Head1 = Fill(f, TRUE) \/ Head1 = Fill(f, FALSE)
  BY <1>4
<1>6. v.do = "fill"
  BY EntryStepFacts
<1> HIDE DEF v
<1>7. /\ ReloadsOf(reloads, agenda, e) = reloads[e] + Count(agenda, v)
      /\ ReloadsOf(reloads', agenda', e) = reloads'[e] + Count(agenda', v)
  BY DEF ReloadsOf, v
<1> DEFINE x == <<>>
<1>8. x \in Seq(Steps) /\ Then(x) /\ v \notin Els(x)
  BY <1>1, FewSteps
<1> HIDE DEF x, f
<1>9. reloads' \in [Entries -> Nat] /\ reloads'[f] <= reloads[f] + 1
      /\ \A g \in Entries : g # f => reloads'[g] = reloads[g]
  BY <1>1, <1>2, <1>4 DEF ReloadTypes
<1>10. Count(agenda', v) = Count(agenda, v) - (IF Head1 = v THEN 1 ELSE 0)
  <2> QED BY <1>1, <1>2, <1>8, CountThen
<1>11. Count(agenda, v) \in Nat
  BY <1>2, CountType
<1>12. CASE f = e /\ Head1 = Fill(f, TRUE)
  <2>1. Count(agenda', v) = Count(agenda, v) - 1
    BY <1>10, <1>12 DEF v
  <2>2. reloads[e] \in Nat /\ reloads'[e] \in Nat /\ reloads'[e] <= reloads[e] + 1
    BY <1>2, <1>9, <1>12 DEF ReloadTypes
  <2>3. ReloadsOf(reloads', agenda', e) <= ReloadsOf(reloads, agenda, e)
    BY <1>7, <1>11, <2>1, <2>2
  <2> QED BY <2>3
<1>13. CASE f = e /\ Head1 = Fill(f, FALSE)
  BY <1>13
<1>14. CASE f # e
  <2>1. reloads[e] \in Nat /\ reloads'[e] = reloads[e]
    BY <1>2, <1>9, <1>14 DEF ReloadTypes
  <2>2. Count(agenda', v) <= Count(agenda, v) /\ Count(agenda', v) \in Int
    BY <1>10, <1>11
  <2>3. ReloadsOf(reloads', agenda', e) <= ReloadsOf(reloads, agenda, e)
    BY <1>7, <1>11, <2>1, <2>2
  <2> QED BY <2>3
<1> QED BY <1>5, <1>12, <1>13, <1>14

LEMMA HandlerAddsNone ==
  ASSUME ReloadIInv, Handler, ~ShowInfo, NEW e \in Entries
  PROVE  ReloadsOf(reloads', agenda', e) <= ReloadsOf(reloads, agenda, e)
<1>1. reloads' = reloads
  BY DEF Handler, EventsEnd, ViewSetEnabled, WindowUpdated, SelectReturns, SelectBegins, ShowEntry,
         ShowModule, ScanReturns, ScanOpens, SelectEnds, ReloadBegins, ReloadSelects, ReloadEnds,
         timers
<1>2. PageIInv /\ ReloadTypes /\ Shape(agenda)
  BY <1>1 DEF ReloadIInv, ReloadTypes, PageIInv, AgendaInv
<1>3. agenda # <<>>
  BY DEF Handler, EventsEnd, ViewSetEnabled, WindowUpdated, SelectReturns, SelectBegins, ShowEntry,
         ShowModule, ScanReturns, ScanOpens, SelectEnds, ReloadBegins, ReloadSelects, ReloadEnds, At
<1>4. ASSUME NEW x \in Seq(Steps), Then(x), \A s \in Els(x) : s.do # "fill"
      PROVE  ReloadsOf(reloads', agenda', e) <= ReloadsOf(reloads, agenda, e)
  BY <1>1, <1>2, <1>3, <1>4, ThenAddsNone
<1>5. CASE Then(<<>>)
  <2> DEFINE x == <<>>
  <2>1. x \in Seq(Steps) /\ Then(x) /\ Els(x) = {}
    BY <1>5, FewSteps
  <2> HIDE DEF x
  <2> QED BY <1>2, <1>4, <2>1
<1>6. ASSUME NEW s \in Steps, s.do # "fill", Then(<<s>>) PROVE ReloadsOf(reloads', agenda', e) <= ReloadsOf(reloads, agenda, e)
  <2> DEFINE x == <<s>>
  <2>1. x \in Seq(Steps) /\ Then(x) /\ Els(x) = {s}
    BY <1>6, FewSteps
  <2> HIDE DEF x
  <2> QED BY <1>4, <1>6, <2>1
<1>7. ASSUME NEW s \in Steps, NEW t \in Steps, s.do # "fill", t.do # "fill", Then(<<s, t>>)
      PROVE  ReloadsOf(reloads', agenda', e) <= ReloadsOf(reloads, agenda, e)
  <2> DEFINE x == <<s, t>>
  <2>1. x \in Seq(Steps) /\ Then(x) /\ DOMAIN x = 1..2 /\ x[1] = s /\ x[2] = t
    BY <1>7
  <2> HIDE DEF x
  <2>2. \A r \in Els(x) : r.do # "fill"
    BY <1>7, <2>1 DEF Els
  <2> QED BY <1>4, <2>1, <2>2
<1>8. CASE ViewSetEnabled
  <2>1. Head1 \in Steps
    BY <1>2, <1>3, TailShape DEF Head1
  <2>2. Head1.on = TRUE \/ Head1.on = FALSE
    BY <2>1 DEF Steps
  <2>3. Events(Budget) \in Steps /\ Events(Budget).do = "events"
    BY StepFacts, ShellAssumption
  <2>4. Window(Head1.on) \in Steps /\ Window(Head1.on).do = "window"
    BY <2>2, StepFacts
  <2>5. Then(<<Events(Budget), Window(Head1.on)>>)
    BY <1>8 DEF ViewSetEnabled
  <2> QED BY <1>2, <1>7, <2>3, <2>4, <2>5
<1>9. CASE ScanOpens
  <2>1. Head1 \in Steps
    BY <1>2, <1>3, TailShape DEF Head1
  <2>2. Head1.e \in Entries \union {None}
    BY <2>1 DEF Steps
  <2>3. Dialog(Head1.e) \in Steps /\ Dialog(Head1.e).do = "dialog"
    BY <2>2, EntryStepFacts
  <2>4. Then(<<Dialog(Head1.e)>>)
    BY <1>9 DEF ScanOpens
  <2> QED BY <1>2, <1>6, <2>3, <2>4
<1>10. CASE ReloadBegins \/ ReloadSelects
  <2>1. \/ Then(<<Select>>) \/ Then(<<View(TRUE)>>) \/ Then(<<Scan(selected, TRUE), AfterScan>>)
    BY <1>10 DEF ReloadBegins, ReloadSelects, AfterScanSteps
  <2>2. /\ Select \in Steps /\ Select.do = "select" /\ View(TRUE) \in Steps /\ View(TRUE).do = "view"
        /\ AfterScan \in Steps /\ AfterScan.do = "reloaded"
    BY StepFacts
  <2>3. Scan(selected, TRUE) \in Steps /\ Scan(selected, TRUE).do = "scan"
    BY <1>2, EntryStepFacts DEF PageIInv, RowTypes
  <2>4. CASE Then(<<Select>>)
    BY <1>2, <1>6, <2>2, <2>4
  <2>5. CASE Then(<<View(TRUE)>>)
    BY <1>2, <1>6, <2>2, <2>5
  <2>6. CASE Then(<<Scan(selected, TRUE), AfterScan>>)
    BY <1>2, <1>7, <2>2, <2>3, <2>6
  <2> QED BY <2>1, <2>4, <2>5, <2>6
<1>11. CASE SelectBegins
  <2> DEFINE x == IF tree \in Entries /\ ~flag'[tree] THEN EntrySteps(tree) ELSE ModuleSteps
             v == Fill(e, TRUE)
  <2>1. Then(x)
    BY <1>11 DEF SelectBegins
  <2>2. v.do = "fill" /\ v.on = TRUE
    BY EntryStepFacts
  <2>3. x \in Seq(Steps) /\ \A s \in Els(x) : ~(s.do = "fill" /\ s.on)
    <3>1. CASE tree \in Entries /\ ~flag'[tree]
      <4>1. /\ View(FALSE).do = "view" /\ View(TRUE).do = "view" /\ Show(tree).do = "show"
            /\ Scan(tree, FALSE).do = "scan" /\ Fill(tree, FALSE).on = FALSE
            /\ EndSelect(tree).do = "end"
        BY <3>1, StepFacts, EntryStepFacts, ZenonT(60)
      <4>2. x = EntrySteps(tree)
        BY <3>1
      <4> QED BY <3>1, <4>1, <4>2, RowSteps
    <3>2. CASE ~(tree \in Entries /\ ~flag'[tree])
      <4>1. x = ModuleSteps /\ Events(Budget).do = "events"
        BY <3>2, StepFacts, ShellAssumption
      <4>2. /\ View(FALSE).do = "view" /\ View(TRUE).do = "view" /\ ModulePage.do = "module"
            /\ EndSelect(None).do = "end"
        BY StepFacts, EntryStepFacts
      <4> QED BY <4>1, <4>2, SummarySteps
    <3> QED BY <3>1, <3>2
  <2>4. /\ ReloadsOf(reloads, agenda, e) = reloads[e] + Count(agenda, v)
      /\ ReloadsOf(reloads', agenda', e) = reloads'[e] + Count(agenda', v)
    BY DEF ReloadsOf
  <2> HIDE DEF x, v
  <2>5. Count(agenda', v) = Count(agenda, v) - (IF Head1 = v THEN 1 ELSE 0)
    <3>1. v \notin Els(x)
      BY <2>2, <2>3
    <3> QED BY <1>2, <1>3, <2>1, <2>3, <3>1, CountThen
  <2>6. Count(agenda, v) \in Nat
    BY <1>2, CountType DEF Shape
  <2> QED BY <1>1, <1>2, <2>4, <2>5, <2>6 DEF ReloadTypes
<1>12. \/ Then(<<>>) \/ ViewSetEnabled \/ ScanOpens \/ ReloadBegins \/ ReloadSelects \/ SelectBegins
  BY DEF Handler, EventsEnd, WindowUpdated, SelectReturns, ShowEntry, ShowModule, ScanReturns,
         SelectEnds, ReloadEnds
<1> QED BY <1>2, <1>5, <1>8, <1>9, <1>10, <1>11, <1>12

\* The counters themselves
LEMMA ReloadTypeStep == ReloadIInv /\ [Next]_vars => ReloadTypes'
<1> SUFFICES ASSUME ReloadIInv, [Next]_vars PROVE ReloadTypes'
  OBVIOUS
<1>1. reloads \in [Entries -> Nat] /\ Shape(agenda)
  BY DEF ReloadIInv, ReloadTypes, PageIInv, AgendaInv
<1>2. CASE reloads' = reloads
  BY <1>1, <1>2 DEF ReloadTypes
<1>3. ASSUME NEW e \in Entries, ReloadTimerFires(e) \/ ReloadTimerEnds(e) PROVE ReloadTypes'
  <2>1. reloads[e] > 0 /\ reloads' = [reloads EXCEPT ![e] = reloads[e] - 1]
    BY <1>3 DEF ReloadTimerFires, ReloadTimerEnds, AfterReloadTimer
  <2> QED BY <1>1, <2>1 DEF ReloadTypes
<1>4. CASE ShowInfo
  <2> DEFINE f == Head1.e
  <2>1. reloads' = [reloads EXCEPT ![f] = IF f \in Reloads THEN @ + 1 ELSE @]
    BY <1>4 DEF ShowInfo
  <2> HIDE DEF f
  <2>2. CASE f \in Entries
    BY <1>1, <2>1, <2>2 DEF ReloadTypes
  <2>3. CASE f \notin Entries
    BY <1>1, <2>1, <2>3 DEF ReloadTypes
  <2> QED BY <2>2, <2>3
<1>5. CASE Handler
  BY <1>2, <1>4, <1>5
  DEF Handler, EventsEnd, ViewSetEnabled, WindowUpdated, SelectReturns, SelectBegins, ShowEntry,
      ShowModule, ScanReturns, ScanOpens, SelectEnds, ReloadBegins, ReloadSelects, ReloadEnds, timers
<1>6. CASE Timer
  BY <1>2, <1>3, <1>6 DEF Timer, FieldShown, FieldEnds, FieldUnknown, RescanTimerFires, timers
<1>7. CASE User
  BY <1>2, <1>7 DEF User, Click, Refresh, StyleChange, Close, DialogReturns, timers
<1>8. CASE UNCHANGED vars
  BY <1>2, <1>8 DEF vars, timers
<1> QED BY <1>5, <1>6, <1>7, <1>8 DEF Next, Exited

LEMMA ReloadInit == Init => ReloadIInv
  BY PageInit DEF Init, ReloadIInv, ReloadTypes

LEMMA ReloadInvStep == ReloadIInv /\ [Next]_vars => ReloadIInv'
  BY PageStep, ReloadTypeStep DEF ReloadIInv

LEMMA ChainsStep ==
  ReloadIInv /\ [Next]_vars =>
    [\A e \in Entries : Chains(e)' > Chains(e) => At("fill") /\ Head1 = Fill(e, FALSE)]_vars
<1> SUFFICES ASSUME ReloadIInv, [Next]_vars, vars' # vars, NEW e \in Entries
             PROVE  Chains(e)' > Chains(e) => At("fill") /\ Head1 = Fill(e, FALSE)
  OBVIOUS
<1>1. Handler \/ Timer \/ User
  BY DEF Next, Exited
<1>2. ReloadsOf(reloads', agenda', e) <= ReloadsOf(reloads, agenda, e) \/ (At("fill") /\ Head1 = Fill(e, FALSE))
  <2>1. CASE ShowInfo
    BY <2>1, ShowInfoAdds DEF ShowInfo
  <2> QED BY <1>1, <2>1, UserAddsNone, TimerAddsNone, HandlerAddsNone
<1>3. Chains(e) = ReloadsOf(reloads, agenda, e)
  BY DEF Chains, ReloadsOf, Count, Places
<1>4. Chains(e)' = ReloadsOf(reloads', agenda', e)
  BY DEF Chains, ReloadsOf, Count, Places
<1>5. ReloadsOf(reloads, agenda, e) \in Nat
  <2> DEFINE v == Fill(e, TRUE)
  <2>1. reloads[e] \in Nat /\ agenda \in Seq(Steps)
    BY DEF ReloadIInv, ReloadTypes, PageIInv, AgendaInv, Shape
  <2>2. Count(agenda, v) \in Nat
    BY <2>1, CountType
  <2>3. ReloadsOf(reloads, agenda, e) = reloads[e] + Count(agenda, v)
    BY DEF ReloadsOf
  <2> HIDE DEF v
  <2> QED BY <2>1, <2>2, <2>3
<1>6. ReloadsOf(reloads', agenda', e) \in Nat
  <2> DEFINE v == Fill(e, TRUE)
  <2>1. ReloadIInv'
    BY ReloadInvStep
  <2>2. reloads'[e] \in Nat /\ agenda' \in Seq(Steps)
    BY <2>1 DEF ReloadIInv, ReloadTypes, PageIInv, AgendaInv, Shape
  <2>3. Count(agenda', v) \in Nat
    BY <2>2, CountType
  <2>4. ReloadsOf(reloads', agenda', e) = reloads'[e] + Count(agenda', v)
    BY DEF ReloadsOf
  <2> HIDE DEF v
  <2> QED BY <2>2, <2>3, <2>4
<1>7. ReloadsOf(reloads', agenda', e) <= ReloadsOf(reloads, agenda, e)
        => ~(ReloadsOf(reloads', agenda', e) > ReloadsOf(reloads, agenda, e))
  BY <1>5, <1>6
<1> QED BY <1>2, <1>3, <1>4, <1>7

\* A timer that fires hands its place to the reload it begins, and the reload hands it to the
\* timer it starts: only the page of a row the user opened adds one (shell.c:1885-1936, 2092).
THEOREM OnlyShowingAddsReloadsHolds == Spec => OnlyShowingAddsReloads
BY ReloadInit, ReloadInvStep, ChainsStep, PTL DEF Spec, OnlyShowingAddsReloads
=============================================================================
