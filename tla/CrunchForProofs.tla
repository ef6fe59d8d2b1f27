--------------------------- MODULE CrunchForProofs ---------------------------
(***************************************************************************)
(* Theorems about CrunchFor for every number of cores and threads and any  *)
(* number of calls.                                                        *)
(***************************************************************************)
EXTENDS CrunchFor, WellFoundedInduction, TLAPS

\* Every non-empty set of naturals has a least element.
LEMMA LeastExists ==
  ASSUME NEW Set, Set \subseteq Nat, Set # {}
  PROVE  \E x \in Set : \A y \in Set : x <= y
<1> DEFINE R == OpToRel(<, Nat)
<1>1. IsWellFoundedOn(R, Nat)
  BY NatLessThanWellFounded, Zenon
<1>2. \A x, y \in Nat : x < y => <<x, y>> \in R
  BY DEF OpToRel
<1> HIDE DEF R
<1>3. PICK x \in Set : \A y \in Set : ~(<<y, x>> \in R)
  BY <1>1, WFMin, Zenon
<1>4. ASSUME NEW y \in Set PROVE x <= y
  <2>1. x \in Nat /\ y \in Nat
    OBVIOUS
  <2>2. ~(y < x)
    BY <2>1, <1>2, <1>3, Zenon
  <2> QED BY <2>1, <2>2
<1> QED BY <1>4

\* Threads exist from the moment they are launched, stop is set once all have been,
\* and the joined ones, the last of the list, are done.
CallerInv ==
  /\ \A t \in T : pc[t] = "absent" <=> t >= launched
  /\ caller # "launch" => launched = used
  /\ caller \in {"launch", "sleep"} => ~stop /\ joined = 0
  /\ caller \in {"join", "returned"} => stop
  /\ caller = "returned" => joined = used
  /\ \A t \in T : t >= used - joined => pc[t] = "done"

\* What a thread has counted, wherever it is: nothing is lost before stop is set,
\* and a call that returned in time is about to be counted in "check".
CountInv ==
  \A t \in T :
    /\ pc[t] = "absent" => count[t] = inTime[t]
    /\ pc[t] = "call" => count[t] = inTime[t]
    /\ pc[t] = "check" => count[t] = inTime[t] - 1 \/ (count[t] = inTime[t] /\ stop)
    /\ pc[t] \in {"test", "done"} =>
         count[t] = inTime[t] \/ (count[t] = inTime[t] - 1 /\ stop)

\* A thread's step leaves the other threads alone.
LEMMA ThreadSteps ==
  ASSUME TypeOK, NEW t \in T, Thread(t)
  PROVE  /\ T' = T /\ UNCHANGED <<callerVars, stop>>
         /\ pc' \in [T -> PCs] /\ count' \in [T -> Nat] /\ inTime' \in [T -> Nat]
         /\ begun' \in [T -> Nat]
         /\ \A s \in T : s # t => pc'[s] = pc[s] /\ count'[s] = count[s] /\ inTime'[s] = inTime[s]
         /\ pc[t] \notin {"absent", "done"} /\ pc'[t] # "absent"
<1>1. T' = T
  BY DEF Thread, Test, CallReturns, Check, callerVars, T
<1>2. CASE Test(t)
  BY <1>1, <1>2 DEF TypeOK, Test, StopSeen, PCs, callerVars
<1>3. CASE CallReturns(t)
  BY <1>1, <1>3 DEF TypeOK, CallReturns, PCs, callerVars
<1>4. CASE Check(t)
  <2>1. Counted(t) \in Nat
    BY DEF TypeOK, Counted
  <2> QED BY <1>1, <1>4, <2>1 DEF TypeOK, Check, PCs, callerVars
<1> QED BY <1>2, <1>3, <1>4 DEF Thread

\* The types of the state, for every instance.
THEOREM TypeCorrect == Spec => []TypeOK
<1>1. Init => TypeOK
  <2> SUFFICES ASSUME Init PROVE TypeOK
    OBVIOUS
  <2>1. used \in Nat \ {0}
    <3>1. \A n \in Requests : ThreadsUsed(n) \in Nat \ {0}
      BY CrunchAssumption DEF ThreadsUsed
    <3> QED BY <3>1 DEF Init
  <2>2. pc \in [T -> PCs]
    BY DEF Init, PCs
  <2>3. count \in [T -> Nat] /\ begun \in [T -> Nat] /\ inTime \in [T -> Nat]
    BY DEF Init
  <2>4. launched \in 0..used /\ joined \in 0..used
    BY <2>1 DEF Init
  <2> QED BY <2>1, <2>2, <2>3, <2>4 DEF Init, TypeOK
<1>2. TypeOK /\ [Next]_vars => TypeOK'
  <2> SUFFICES ASSUME TypeOK, [Next]_vars PROVE TypeOK'
    OBVIOUS
  <2>1. CASE Launch
    BY <2>1 DEF Launch, TypeOK, T, PCs
  <2>2. CASE Sleep \/ SetStop \/ Return
    BY <2>2 DEF Sleep, SetStop, Return, threadVars, TypeOK, T
  <2>3. CASE Join
    <3>1. used - 1 - joined \in T /\ T' = T
      BY <2>3 DEF Join, TypeOK, T
    <3>2. count[used - 1 - joined] \in Nat
      BY <3>1 DEF TypeOK
    <3>3. result' \in Nat /\ joined' \in 0..used
      BY <2>3, <3>2 DEF Join, TypeOK
    <3> QED BY <2>3, <3>1, <3>3 DEF Join, threadVars, TypeOK
  <2>4. ASSUME NEW t \in T, Thread(t) PROVE TypeOK'
    BY <2>4, ThreadSteps DEF TypeOK, callerVars, T
  <2>5. CASE UNCHANGED vars
    BY <2>5 DEF vars, callerVars, threadVars, TypeOK, T
  <2> QED BY <2>1, <2>2, <2>3, <2>4, <2>5 DEF Next, Caller
<1> QED BY <1>1, <1>2, PTL DEF Spec

\* The caller's invariant.
LEMMA CallerCorrect == Spec => []CallerInv
<1>1. Init => CallerInv
  BY CrunchAssumption DEF Init, CallerInv, T, ThreadsUsed
<1>2. TypeOK /\ CallerInv /\ [Next]_vars => CallerInv'
  <2> SUFFICES ASSUME TypeOK, CallerInv, [Next]_vars PROVE CallerInv'
    OBVIOUS
  <2>1. CASE Launch
    BY <2>1 DEF Launch, TypeOK, CallerInv, T
  <2>2. CASE Sleep \/ SetStop \/ Return
    BY <2>2, SMTT(30) DEF Sleep, SetStop, Return, threadVars, TypeOK, CallerInv, T
  <2>3. CASE Join
    <3>1. T' = T /\ UNCHANGED <<used, caller, launched, stop, pc>>
      BY <2>3 DEF Join, threadVars, T
    <3>2. joined' = joined + 1 /\ caller = "join" /\ joined < used
      BY <2>3 DEF Join
    <3>3. pc[used - 1 - joined] = "done"
      BY <2>3 DEF Join, Joinable
    <3>4. ASSUME NEW t \in T, t >= used - joined' PROVE pc[t] = "done"
      <4>1. t = used - 1 - joined \/ t >= used - joined
        BY <3>2, <3>4 DEF TypeOK, T
      <4> QED BY <3>3, <4>1 DEF CallerInv
    <3> QED BY <3>1, <3>2, <3>4 DEF CallerInv
  <2>4. ASSUME NEW t \in T, Thread(t) PROVE CallerInv'
    BY <2>4, ThreadSteps DEF CallerInv, callerVars
  <2>5. CASE UNCHANGED vars
    BY <2>5 DEF vars, callerVars, threadVars, CallerInv, T
  <2> QED BY <2>1, <2>2, <2>3, <2>4, <2>5 DEF Next, Caller
<1> QED BY <1>1, <1>2, TypeCorrect, PTL DEF Spec

\* When the caller returns and its frame is gone, no thread reads stop any more.
THEOREM StopOutlivesThreadsHolds == Spec => []StopOutlivesThreads
<1>1. TypeOK /\ CallerInv => StopOutlivesThreads
  BY DEF TypeOK, CallerInv, StopOutlivesThreads, T
<1> QED BY <1>1, TypeCorrect, CallerCorrect, PTL

\* A thread that stop interrupts loses at most the call it was about to count.
LEMMA CountCorrect == Spec => []CountInv
<1>1. Init => CountInv
  BY DEF Init, CountInv, T
<1>2. TypeOK /\ CallerInv /\ CountInv /\ [Next]_vars => CountInv'
  <2> SUFFICES ASSUME TypeOK, CallerInv, CountInv, [Next]_vars PROVE CountInv'
    OBVIOUS
  <2>1. CASE Launch
    <3>1. launched \in T /\ T' = T /\ UNCHANGED <<count, inTime, stop>>
      BY <2>1 DEF Launch, TypeOK, T
    <3>2. pc[launched] = "absent"
      BY <3>1 DEF CallerInv, TypeOK
    <3>3. \A t \in T : pc'[t] = IF t = launched THEN "test" ELSE pc[t]
      BY <2>1 DEF Launch, TypeOK
    <3> QED BY <3>1, <3>2, <3>3 DEF CountInv
  <2>2. CASE Sleep \/ SetStop \/ Join \/ Return
    BY <2>2 DEF Sleep, SetStop, Join, Return, threadVars, TypeOK, CountInv, T
  <2>3. ASSUME NEW t \in T, Thread(t) PROVE CountInv'
    <3>1. ASSUME NEW s \in T, s # t PROVE CountInv!(s)'
      BY <2>3, <3>1, ThreadSteps DEF CountInv, callerVars
    <3>2. CountInv!(t)'
      BY <2>3 DEF CountInv, Thread, Test, CallReturns, Check, Counted, StopSeen, TypeOK,
                  callerVars, PCs
    <3>3. T' = T
      BY <2>3, ThreadSteps
    <3> QED BY <3>1, <3>2, <3>3 DEF CountInv
  <2>4. CASE UNCHANGED vars
    BY <2>4 DEF vars, callerVars, threadVars, CountInv, T
  <2> QED BY <2>1, <2>2, <2>3, <2>4 DEF Next, Caller
<1> QED BY <1>1, <1>2, TypeCorrect, CallerCorrect, PTL DEF Spec

\* The threads' counts: each counts its calls that returned in time, less at most
\* the one that stop interrupted.
THEOREM CountsInTimeHolds == Spec => []CountsInTime
<1>1. TypeOK /\ CountInv => CountsInTime
  BY DEF TypeOK, CountInv, CountsInTime
<1> QED BY <1>1, TypeCorrect, CountCorrect, PTL
-----------------------------------------------------------------------------
(* The result.  It is the sum over the joined threads, the last ones, and   *)
(* those no longer change.                                                  *)

IsSums(s, f, n) == s = [k \in 0..n |-> IF k = 0 THEN 0 ELSE s[k - 1] + f[k - 1]]

\* The recursion of the partial sums has a solution: the least n without one would get
\* it from that of n - 1.
LEMMA SumsExist ==
  ASSUME NEW f, NEW n \in Nat
  PROVE  \E s : IsSums(s, f, n)
<1> DEFINE Bad == {m \in Nat : ~ \E s : IsSums(s, f, m)}
<1>1. ASSUME NEW m \in Bad, \A k \in Bad : m <= k PROVE FALSE
  <2>1. CASE m = 0
    <3> DEFINE s == [k \in 0..0 |-> 0]
    <3>1. IsSums(s, f, 0)
      BY DEF IsSums
    <3> HIDE DEF s
    <3> QED BY <2>1, <3>1
  <2>2. CASE m # 0
    <3>1. m \in Nat /\ m - 1 \in Nat /\ m - 1 \notin Bad
      BY <1>1, <2>2
    <3>2. PICK s : IsSums(s, f, m - 1)
      BY <3>1
    <3> DEFINE r == [k \in 0..m |-> IF k = m THEN s[m - 1] + f[m - 1] ELSE s[k]]
    <3>3. ASSUME NEW k \in 0..m PROVE r[k] = IF k = 0 THEN 0 ELSE r[k - 1] + f[k - 1]
      <4>1. CASE k = m
        BY <2>2, <3>1, <4>1
      <4>2. CASE k # m
        <5>1. k \in 0..(m - 1) /\ r[k] = s[k]
          BY <3>1, <4>2
        <5>2. k # 0 => k - 1 \in 0..(m - 1) /\ r[k - 1] = s[k - 1]
          BY <3>1, <5>1
        <5> QED BY <3>2, <5>1, <5>2 DEF IsSums
      <4> QED BY <4>1, <4>2
    <3>4. IsSums(r, f, m)
      BY <3>3 DEF IsSums
    <3> HIDE DEF r
    <3> QED BY <3>4
  <2> QED BY <2>1, <2>2
<1>2. Bad \subseteq Nat
  OBVIOUS
<1> HIDE DEF Bad
<1>3. Bad = {}
  BY <1>1, <1>2, LeastExists
<1> QED BY <1>3 DEF Bad

\* The partial sums of numbers are numbers, and each adds one term to the one before.
LEMMA SumsAre ==
  ASSUME NEW n \in Nat, NEW f \in [0..(n - 1) -> Nat]
  PROVE  /\ PartialSums(f, n)[0] = 0
         /\ \A k \in 0..n : PartialSums(f, n)[k] \in Nat
         /\ \A k \in 0..(n - 1) : PartialSums(f, n)[k + 1] = PartialSums(f, n)[k] + f[k]
<1>1. PartialSums(f, n) = CHOOSE s : IsSums(s, f, n)
  BY DEF PartialSums, IsSums
<1>2. IsSums(PartialSums(f, n), f, n)
  BY <1>1, SumsExist, Zenon
<1> DEFINE p == PartialSums(f, n)
           Bad == {k \in 0..n : p[k] \notin Nat}
<1> HIDE DEF p
<1>3. \A k \in 0..n : p[k] = IF k = 0 THEN 0 ELSE p[k - 1] + f[k - 1]
  BY <1>2 DEF IsSums, p
<1>4. ASSUME NEW m \in Bad, \A k \in Bad : m <= k PROVE FALSE
  <2>1. m # 0
    BY <1>3
  <2>2. m - 1 \in 0..(n - 1) /\ m - 1 \notin Bad
    BY <1>4, <2>1
  <2>3. p[m] = p[m - 1] + f[m - 1]
    BY <1>3, <2>1
  <2> QED BY <2>2, <2>3
<1>5. Bad \subseteq Nat
  OBVIOUS
<1>6. \A k \in 0..n : p[k] \in Nat
  <2>1. Bad = {}
    <3> HIDE DEF Bad
    <3> QED BY <1>4, <1>5, LeastExists
  <2> QED BY <2>1
<1>7. ASSUME NEW k \in 0..(n - 1) PROVE p[k + 1] = p[k] + f[k]
  <2>1. k + 1 \in 0..n /\ k + 1 # 0 /\ (k + 1) - 1 = k
    OBVIOUS
  <2> QED BY <1>3, <2>1
<1> QED BY <1>3, <1>6, <1>7 DEF p

\* One more in one term is one more in every sum that has it.
LEMMA SumsBump ==
  ASSUME NEW n \in Nat, NEW f \in [0..(n - 1) -> Nat], NEW t \in 0..(n - 1)
  PROVE  \A k \in 0..n : PartialSums([f EXCEPT ![t] = @ + 1], n)[k] =
                           PartialSums(f, n)[k] + (IF t < k THEN 1 ELSE 0)
<1> DEFINE h == [f EXCEPT ![t] = @ + 1]
           p == PartialSums(f, n)
           q == PartialSums(h, n)
           Bad == {k \in 0..n : q[k] # p[k] + (IF t < k THEN 1 ELSE 0)}
<1>1. h \in [0..(n - 1) -> Nat] /\ \A k \in 0..(n - 1) : h[k] = f[k] + (IF k = t THEN 1 ELSE 0)
  OBVIOUS
<1> HIDE DEF h
<1>2. p[0] = 0 /\ (\A k \in 0..n : p[k] \in Nat) /\ \A k \in 0..(n - 1) : p[k + 1] = p[k] + f[k]
  BY SumsAre
<1>3. q[0] = 0 /\ (\A k \in 0..n : q[k] \in Nat) /\ \A k \in 0..(n - 1) : q[k + 1] = q[k] + h[k]
  BY <1>1, SumsAre
<1> HIDE DEF p, q
<1>4. ASSUME NEW m \in Bad, \A k \in Bad : m <= k PROVE FALSE
  <2>1. m # 0
    BY <1>2, <1>3
  <2> DEFINE j == m - 1
  <2>2. j \in 0..(n - 1) /\ j \in 0..n /\ j \notin Bad /\ m = j + 1
    BY <1>4, <2>1
  <2>3. q[j] = p[j] + (IF t < j THEN 1 ELSE 0)
    BY <2>2
  <2>4. q[m] = q[j] + h[j] /\ p[m] = p[j] + f[j] /\ h[j] = f[j] + (IF j = t THEN 1 ELSE 0)
    BY <1>1, <1>2, <1>3, <2>2
  <2>5. p[j] \in Nat /\ f[j] \in Nat
    BY <1>2, <2>2
  <2> HIDE DEF j
  <2>6. q[m] = p[m] + (IF t < m THEN 1 ELSE 0)
    BY <2>2, <2>3, <2>4, <2>5
  <2> QED BY <2>6
<1>5. Bad \subseteq Nat
  OBVIOUS
<1>6. Bad = {}
  <2> HIDE DEF Bad
  <2> QED BY <1>4, <1>5, LeastExists
<1> QED BY <1>6 DEF h, p, q

ResultInv ==
  LET s == PartialSums(inTime, used)
  IN  result \in (s[used] - s[used - joined] - joined)..(s[used] - s[used - joined])

\* Joining adds a count that is final, and a call that returns in time is one of a thread
\* that has not been joined.
LEMMA ResultCorrect == Spec => []ResultInv
<1>1. Init => ResultInv
  <2> SUFFICES ASSUME Init PROVE ResultInv
    OBVIOUS
  <2>1. used \in Nat
    <3>1. \A n \in Requests : ThreadsUsed(n) \in Nat
      BY CrunchAssumption DEF ThreadsUsed
    <3> QED BY <3>1 DEF Init
  <2>2. inTime \in [0..(used - 1) -> Nat] /\ used - joined = used /\ joined = 0 /\ result = 0
    BY <2>1 DEF Init, T
  <2>3. PartialSums(inTime, used)[used] \in Nat
    BY <2>1, <2>2, SumsAre
  <2> QED BY <2>2, <2>3 DEF ResultInv
<1>2. TypeOK /\ CallerInv /\ CountInv /\ ResultInv /\ [Next]_vars => ResultInv'
  <2> SUFFICES ASSUME TypeOK, CallerInv, CountInv, ResultInv, [Next]_vars PROVE ResultInv'
    OBVIOUS
  <2> DEFINE s == PartialSums(inTime, used)
  <2>1. used \in Nat /\ joined \in 0..used /\ inTime \in [0..(used - 1) -> Nat] /\ result \in Nat
    BY DEF TypeOK, T
  <2>2. /\ \A k \in 0..used : s[k] \in Nat
        /\ \A k \in 0..(used - 1) : s[k + 1] = s[k] + inTime[k]
    BY <2>1, SumsAre
  <2>3. result \in (s[used] - s[used - joined] - joined)..(s[used] - s[used - joined])
    BY DEF ResultInv
  <2>4. CASE UNCHANGED <<used, joined, result, inTime>>
    BY <2>4 DEF ResultInv
  <2>5. CASE Join
    <3> DEFINE t == used - 1 - joined
    <3>1. t \in T /\ t \in 0..(used - 1) /\ used - joined = t + 1 /\ used - (joined + 1) = t
      BY <2>1, <2>5 DEF Join, T
    <3>2. /\ pc[t] = "done" /\ result' = result + count[t] /\ joined' = joined + 1
          /\ UNCHANGED <<used, inTime>>
      BY <2>5 DEF Join, Joinable, threadVars
    <3>3. count[t] \in {inTime[t], inTime[t] - 1} /\ inTime[t] \in Nat
      BY <3>1, <3>2 DEF CountInv, TypeOK
    <3>4. s[t + 1] = s[t] + inTime[t] /\ s[t] \in Nat /\ s[used] \in Nat
      BY <2>1, <2>2, <3>1
    <3> HIDE DEF s, t
    <3>5. result' \in (s[used] - s[t] - (joined + 1))..(s[used] - s[t])
      <4>1. result \in (s[used] - s[t + 1] - joined)..(s[used] - s[t + 1])
        BY <2>3, <3>1
      <4>2. ASSUME NEW c \in Int, NEW i \in Nat, c \in {i, i - 1}, NEW x \in Nat, NEW y \in Nat,
                   NEW r \in Int, r \in (x - (y + i) - joined)..(x - (y + i))
            PROVE  r + c \in (x - y - (joined + 1))..(x - y)
        BY <2>1, <4>2
      <4>3. result \in (s[used] - (s[t] + inTime[t]) - joined)..(s[used] - (s[t] + inTime[t]))
        BY <3>4, <4>1
      <4>4. count[t] \in Int /\ result \in Int
        BY <2>1, <3>3
      <4>5. result + count[t] \in (s[used] - s[t] - (joined + 1))..(s[used] - s[t])
        BY <3>3, <3>4, <4>2, <4>3, <4>4
      <4> QED BY <3>2, <4>5
    <3> QED BY <3>1, <3>2, <3>5 DEF ResultInv, s
  <2>6. ASSUME NEW t \in T, CallReturns(t), ~stop PROVE ResultInv'
    <3>1. t \in 0..(used - 1) /\ t < used - joined
      BY <2>1, <2>6 DEF CallReturns, CallerInv, T
    <3>2. inTime' = [inTime EXCEPT ![t] = @ + 1] /\ UNCHANGED <<used, joined, result>>
      BY <2>6 DEF CallReturns, callerVars
    <3>3. \A k \in 0..used : PartialSums(inTime', used)[k] = s[k] + (IF t < k THEN 1 ELSE 0)
      BY <2>1, <3>1, <3>2, SumsBump
    <3>4. /\ PartialSums(inTime', used)[used] = s[used] + 1
          /\ PartialSums(inTime', used)[used - joined] = s[used - joined] + 1
      BY <2>1, <3>1, <3>3
    <3>5. s[used] \in Nat /\ s[used - joined] \in Nat
      BY <2>1, <2>2
    <3> HIDE DEF s
    <3>6. result \in ((s[used] + 1) - (s[used - joined] + 1) - joined)..((s[used] + 1) - (s[used - joined] + 1))
      BY <2>1, <2>3, <3>5, SMTT(30)
    <3> QED BY <3>2, <3>4, <3>6 DEF ResultInv
  <2>7. ASSUME NEW t \in T, Thread(t), ~(CallReturns(t) /\ ~stop)
        PROVE  UNCHANGED <<used, joined, result, inTime>>
    <3>1. CASE CallReturns(t)
      BY <2>7, <3>1 DEF CallReturns, callerVars, TypeOK
    <3> QED BY <2>7, <3>1 DEF Thread, Test, Check, callerVars
  <2>8. CASE Launch \/ Sleep \/ SetStop \/ Return \/ UNCHANGED vars
    BY <2>4, <2>8 DEF Launch, Sleep, SetStop, Return, vars, callerVars, threadVars
  <2> QED BY <2>4, <2>5, <2>6, <2>7, <2>8 DEF Next, Caller
<1> QED BY <1>1, <1>2, TypeCorrect, CallerCorrect, CountCorrect, PTL DEF Spec

\* The result is the number of calls that returned in time, short of at most one per
\* thread, for every number of threads and in whatever order they end.
THEOREM ResultIsCallsInTimeHolds == Spec => []ResultIsCallsInTime
<1>1. TypeOK /\ CallerInv /\ ResultInv => ResultIsCallsInTime
  <2> SUFFICES ASSUME TypeOK, CallerInv, ResultInv, caller = "returned"
               PROVE  result \in (Total(inTime) - used)..Total(inTime)
    BY DEF ResultIsCallsInTime
  <2> DEFINE s == PartialSums(inTime, used)
  <2>1. used \in Nat /\ joined = used /\ inTime \in [0..(used - 1) -> Nat]
    BY DEF TypeOK, CallerInv, T
  <2>2. s[0] = 0 /\ s[used] \in Nat /\ used - joined = 0
    BY <2>1, SumsAre
  <2>3. result \in (s[used] - s[0] - used)..(s[used] - s[0])
    BY <2>1, <2>2 DEF ResultInv
  <2> HIDE DEF s
  <2>4. result \in (s[used] - used)..s[used]
    BY <2>1, <2>2, <2>3
  <2> QED BY <2>4 DEF Total, s
<1> QED BY <1>1, TypeCorrect, CallerCorrect, ResultCorrect, PTL
=============================================================================
