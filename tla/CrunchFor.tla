------------------------------ MODULE CrunchFor ------------------------------
(***************************************************************************)
(* benchmark_crunch_for() and its dispatcher (modules/benchmark.c): count  *)
(* how often a set of threads can call a benchmark's callback in a given   *)
(* time.  The caller launches the threads, sleeps, sets `stop`, which      *)
(* lives on its stack, and joins the threads, the last one first.          *)
(***************************************************************************)
EXTENDS Integers

CONSTANTS
  CpuCores, CpuThreads,  \* cpu_procs_cores_threads_nodes()
  Requests,              \* values of n_threads the benchmarks pass
  MaxCalls               \* bound on the calls one thread begins

ASSUME CrunchAssumption ==
  /\ CpuCores \in Nat \ {0} /\ CpuThreads \in Nat \ {0}
  /\ Requests \subseteq Int
  /\ MaxCalls \in Nat

VARIABLES
  used,      \* ret.threads_used
  caller,    \* "launch", "sleep", "join", "returned"
  launched,  \* number of threads launched
  joined,    \* number of threads joined
  stop,      \* the flag on the caller's stack
  pc,        \* pc[t]: "absent", "test", "call", "check" or "done"
  count,     \* count[t]: the dispatcher's count
  begun,     \* begun[t]: calls begun
  inTime,    \* inTime[t]: calls that returned before stop was set
  result     \* ret.result

callerVars == <<used, caller, launched, joined, result>>
threadVars == <<pc, count, begun, inTime>>
vars       == <<callerVars, stop, threadVars>>

T == 0..(used - 1)

\* n_threads: a number, all cores (negative), or all hardware threads (zero).
ThreadsUsed(n) == IF n > 0 THEN n ELSE IF n < 0 THEN CpuCores ELSE CpuThreads

\* while (!g_atomic_int_get(pbt->stop))
StopHoisted == FALSE   \* mutant: read once, before the loop
StopSeen == stop

\* "don't count if didn't finish in time"
CountedLate(t) == count[t] + 1   \* mutant: the check is missing
Counted(t) == IF stop THEN count[t] ELSE count[t] + 1

\* The thread of the list g_thread_join() is called on; it has to be done.
JoinableDetached(t) == TRUE   \* mutant: the thread is not waited for
Joinable(t) == pc[t] = "done"
-----------------------------------------------------------------------------
Init ==
  /\ used \in {ThreadsUsed(n) : n \in Requests}
  /\ caller = "launch" /\ launched = 0 /\ joined = 0 /\ result = 0
  /\ stop = FALSE
  /\ pc = [t \in T |-> "absent"]
  /\ count = [t \in T |-> 0] /\ begun = [t \in T |-> 0] /\ inTime = [t \in T |-> 0]

\* g_thread_new() for the next thread.
Launch ==
  /\ caller = "launch" /\ launched < used
  /\ pc' = [pc EXCEPT ![launched] = "test"]
  /\ launched' = launched + 1
  /\ UNCHANGED <<used, caller, joined, result, stop, count, begun, inTime>>

\* g_usleep() begins.
Sleep ==
  /\ caller = "launch" /\ launched = used
  /\ caller' = "sleep"
  /\ UNCHANGED <<used, launched, joined, result, stop, threadVars>>

\* The time is up: g_atomic_int_set(&stop, 1).
SetStop ==
  /\ caller = "sleep"
  /\ caller' = "join" /\ stop' = TRUE
  /\ UNCHANGED <<used, launched, joined, result, threadVars>>

\* g_thread_join() of the next thread of the list, which was built by prepending.
Join ==
  /\ caller = "join" /\ joined < used
  /\ LET t == used - 1 - joined IN
       /\ Joinable(t)
       /\ result' = result + count[t]
  /\ joined' = joined + 1
  /\ UNCHANGED <<used, caller, launched, stop, threadVars>>

\* benchmark_crunch_for() returns and its stack frame is gone.
Return ==
  /\ caller = "join" /\ joined = used
  /\ caller' = "returned"
  /\ UNCHANGED <<used, launched, joined, result, stop, threadVars>>

\* The loop condition reads stop: on to the callback, or out.
Test(t) ==
  /\ pc[t] = "test"
  /\ \/ /\ ~StopSeen /\ begun[t] < MaxCalls
        /\ pc' = [pc EXCEPT ![t] = "call"]
        /\ begun' = [begun EXCEPT ![t] = @ + 1]
     \/ /\ StopSeen
        /\ pc' = [pc EXCEPT ![t] = "done"]
        /\ UNCHANGED begun
  /\ UNCHANGED <<callerVars, stop, count, inTime>>

\* The callback returns.
CallReturns(t) ==
  /\ pc[t] = "call"
  /\ pc' = [pc EXCEPT ![t] = "check"]
  /\ inTime' = [inTime EXCEPT ![t] = IF stop THEN @ ELSE @ + 1]
  /\ UNCHANGED <<callerVars, stop, count, begun>>

\* The second read of stop decides whether the call counts.
Check(t) ==
  /\ pc[t] = "check"
  /\ pc' = [pc EXCEPT ![t] = "test"]
  /\ count' = [count EXCEPT ![t] = Counted(t)]
  /\ UNCHANGED <<callerVars, stop, begun, inTime>>

Caller    == Launch \/ Sleep \/ SetStop \/ Join \/ Return
Thread(t) == Test(t) \/ CallReturns(t) \/ Check(t)
Next      == Caller \/ \E t \in T : Thread(t)

\* Every thread is scheduled and every callback returns.
Slots == UNION {0..(ThreadsUsed(n) - 1) : n \in Requests}
Fairness == WF_vars(Caller) /\ \A t \in Slots : WF_vars(t \in T /\ Thread(t))

Spec     == Init /\ [][Next]_vars
FairSpec == Spec /\ Fairness
-----------------------------------------------------------------------------
PCs == {"absent", "test", "call", "check", "done"}

TypeOK ==
  /\ used \in Nat \ {0}
  /\ caller \in {"launch", "sleep", "join", "returned"}
  /\ launched \in 0..used /\ joined \in 0..used
  /\ stop \in BOOLEAN
  /\ pc \in [T -> PCs]
  /\ count \in [T -> Nat] /\ begun \in [T -> Nat] /\ inTime \in [T -> Nat]
  /\ result \in Nat

\* A thread counts no call that returned after the time was up, and of those that
\* returned in time it loses at most the one it was about to count when stop was
\* set (modules/benchmark.c:113-118).
CountsInTime ==
  \A t \in T : pc[t] \in {"test", "done"} =>
    count[t] \in {inTime[t], inTime[t] - 1} /\ (count[t] # inTime[t] => stop)

\* No thread reads stop once the frame it lives in is gone, nor is its count lost:
\* when benchmark_crunch_for() returns, all it launched are done and added up.
StopOutlivesThreads ==
  caller = "returned" => launched = used /\ \A t \in T : pc[t] = "done"

\* PartialSums(f, n)[k] is f[0] + ... + f[k - 1].
PartialSums(f, n) == LET s[k \in 0..n] == IF k = 0 THEN 0 ELSE s[k - 1] + f[k - 1] IN s
Total(f) == PartialSums(f, used)[used]

\* The result is the number of calls that returned in time, short of at most one
\* per thread, in whatever order the threads end.
ResultIsCallsInTime ==
  caller = "returned" => result \in (Total(inTime) - used)..Total(inTime)

\* The benchmark ends whenever the callbacks do.
Returns == <>(caller = "returned")
=============================================================================
