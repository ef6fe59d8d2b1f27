---------------------------- MODULE SyncCliProofs ----------------------------
(***************************************************************************)
(* Theorems about the synchronisation without a GUI, for every list of     *)
(* entries, every set of faults and any number of versions.                *)
(***************************************************************************)
EXTENDS SyncCli, WellFoundedInduction, TLAPS

\* The entries' fields are what the assumption says, and indices are naturals.
LEMMA EntryFacts ==
  /\ N \in Nat /\ N \in E /\ E = 1..N
  /\ \A e \in E : Optional(e) \in BOOLEAN /\ Upload(e) \in BOOLEAN /\ File(e) \in Files
  /\ VersionFile \in Files /\ File(N) = VersionFile /\ ~Upload(N) /\ ~Optional(N)
  /\ \A d, e \in E : File(d) = File(e) /\ ~Upload(d) /\ ~Upload(e) => d = e
  /\ \A u \in E : Upload(u) => \E d \in E : ~Upload(d) /\ File(d) = File(u)
<1>1. E = 1..N
  BY DEF E, N
<1>2. N \in Nat /\ N \in E
  BY <1>1, EntriesAssumption
<1>3. \A e \in E : File(e) \in Files
  BY DEF Files, File
<1> QED BY <1>1, <1>2, <1>3, EntriesAssumption

CliTypeOK ==
  /\ server \in Nat /\ packaged \in Nat /\ user \in [Files -> Contents]
  /\ pc \in {"down", "download", "report", "send"}
  /\ our \in Nat /\ srv \in Nat /\ skip \in BOOLEAN
  /\ todo \subseteq E /\ met \subseteq Faults

\* A first run without faults: the version file is fetched before anything else, so
\* that from then on the server's version is known; an entry still to come finds no
\* file of its own, and one that is done has data of that version or later.
FirstRunInv ==
  /\ pc = "download" => todo \subseteq Phase(FALSE)
  /\ pc = "report" => todo = {}
  /\ pc \in {"download", "report"} /\ met = {} /\ before.user = [f \in Files |-> Absent] =>
       IF N \in todo
       THEN todo = Phase(FALSE) /\ user = before.user
       ELSE /\ user[VersionFile] = srv /\ srv <= server
            /\ \A e \in todo : user[File(e)] = Absent
            /\ our < srv => \A e \in Phase(FALSE) \ todo : user[File(e)] >= srv
-----------------------------------------------------------------------------
(* Types                                                                    *)

\* Every non-empty set of naturals has a least element.
LEMMA LeastExists ==
  ASSUME NEW T, T \subseteq Nat, T # {}
  PROVE  \E x \in T : \A y \in T : x <= y
<1> DEFINE R == OpToRel(<, Nat)
<1>1. IsWellFoundedOn(R, Nat)
  BY NatLessThanWellFounded, Zenon
<1>2. \A x, y \in Nat : x < y => <<x, y>> \in R
  BY DEF OpToRel
<1> HIDE DEF R
<1>3. PICK x \in T : \A y \in T : ~(<<y, x>> \in R)
  BY <1>1, WFMin, Zenon
<1>4. ASSUME NEW y \in T PROVE x <= y
  <2>1. x \in Nat /\ y \in Nat
    OBVIOUS
  <2>2. ~(y < x)
    BY <2>1, <1>2, <1>3, Zenon
  <2> QED BY <2>1, <2>2
<1> QED BY <1>4

\* Every non-empty subset of 1..n has a greatest element.
LEMMA GreatestExists ==
  ASSUME NEW n \in Nat, NEW T, T \subseteq 1..n, T # {}
  PROVE  \E x \in T : \A y \in T : x >= y
<1> DEFINE U == {k \in Nat : n - k \in T}
<1>1. \A y \in T : y \in Int /\ n - y \in Nat /\ n - (n - y) = y
  OBVIOUS
<1>2. \A y \in T : n - y \in U
  BY <1>1
<1>3. U \subseteq Nat /\ U # {}
  BY <1>2
<1> HIDE DEF U
<1>4. PICK u \in U : \A v \in U : u <= v
  BY <1>3, LeastExists
<1>5. u \in Nat /\ n - u \in T
  BY <1>4 DEF U
<1>6. ASSUME NEW y \in T PROVE n - u >= y
  BY <1>1, <1>2, <1>4, <1>5
<1> QED BY <1>5, <1>6

\* Max(T) is in T and above every element of T.
LEMMA MaxIsGreatest ==
  ASSUME NEW n \in Nat, NEW T, T \subseteq 1..n, T # {}
  PROVE  Max(T) \in T /\ \A y \in T : Max(T) >= y
BY GreatestExists, Zenon DEF Max

\* The entry of the loop is one still to be handled, and the version entry if that is.
LEMMA CurrentIs ==
  ASSUME todo \subseteq E, todo # {}
  PROVE  Current \in todo /\ Current \in E /\ (N \in todo => Current = N)
<1>1. Current \in todo /\ \A e \in todo : Current >= e
  BY EntryFacts, MaxIsGreatest DEF Current
<1>2. Current \in 1..N
  BY <1>1, EntryFacts
<1>3. ASSUME N \in todo PROVE Current = N
  BY <1>1, <1>2, <1>3, EntryFacts
<1> QED BY <1>1, <1>2, <1>3, EntryFacts

\* A reply leaves the files as they are, or puts something into a file that was absent.
LEMMA WrittenIs ==
  ASSUME CliTypeOK, NEW e \in E, NEW c \in Contents
  PROVE  /\ Written(e, c) \in [Files -> Contents]
         /\ \A f \in Files : Written(e, c)[f] =
              IF f = File(e) /\ user[f] = Absent THEN c ELSE user[f]
BY EntryFacts DEF Written, Stored, CliTypeOK

\* A request leaves what WrittenIs says, and a number is read back.
LEMMA RequestIs ==
  ASSUME CliTypeOK, Request
  PROVE  /\ user' = user \/ \E c \in Contents : user' = Written(Current, c)
         /\ user' \in [Files -> Contents]
         /\ srv' \in Nat
         /\ met' \subseteq Faults
<1>1. Current \in E
  BY CurrentIs DEF Request, CliTypeOK
<1>2. PICK fault \in Faults \cup {"none"} : /\ user' \in Replies(Current, fault)
                                            /\ met' = met \cup ({fault} \ {"none"})
  BY DEF Request
<1>3. Broken \in Contents /\ Reply \in Contents /\ server \in Contents
  BY DEF Contents, CliTypeOK
<1>4. user' = user \/ \E c \in Contents : user' = Written(Current, c)
  BY <1>2, <1>3 DEF Replies
<1>5. user' \in [Files -> Contents]
  BY <1>1, <1>4, WrittenIs DEF CliTypeOK
<1>6. srv' \in Nat
  <2>1. user'[VersionFile] \in Contents
    BY <1>5, EntryFacts
  <2> QED BY <2>1 DEF Request, ReadBack, Parse, IsVersion, Contents, Absent, Broken, Reply, CliTypeOK
<1>7. met' \subseteq Faults
  BY <1>2 DEF CliTypeOK
<1> QED BY <1>4, <1>5, <1>6, <1>7

\* The version a program reads at its start is a number.
LEMMA ReadOurType ==
  ASSUME NEW c \in Contents, NEW p \in Nat, NEW v \in Nat
  PROVE  ReadOur(c, p, v) \in Nat
BY DEF ReadOur, Parse, IsVersion, Contents, Absent, Broken, Reply

\* What a program that starts finds.
LEMMA BeginIs ==
  ASSUME CliTypeOK, Start \/ StartUpgraded
  PROVE  /\ CliTypeOK' /\ pc = "down" /\ pc' = "download"
         /\ todo' = Phase(FALSE)' /\ before'.user = user'
         /\ \A f \in Files : user'[f] \in {user[f], Absent}
<1>1. WithoutFiles(Cleaned) \in [Files -> Contents]
  BY DEF WithoutFiles, Contents, CliTypeOK
<1>2. PICK p \in Nat, found \in {user, WithoutFiles(Cleaned)} : Begin(p, found)
  BY DEF Start, StartUpgraded, CliTypeOK
<1>3. found \in [Files -> Contents] /\ our' \in Nat
  BY <1>1, <1>2, ReadOurType, EntryFacts DEF Begin, CliTypeOK
<1>4. todo' \subseteq E
  BY <1>2 DEF Begin, Phase, Registered
<1>5. CliTypeOK'
  BY <1>2, <1>3, <1>4 DEF Begin, CliTypeOK
<1>6. \A f \in Files : found[f] \in {user[f], Absent}
  BY <1>2 DEF WithoutFiles
<1> QED BY <1>2, <1>5, <1>6 DEF Begin

\* The types of the variables.
THEOREM TypeCorrect == Spec => []CliTypeOK
<1>1. Init => CliTypeOK
  <2> SUFFICES ASSUME Init PROVE CliTypeOK
    OBVIOUS
  <2>1. server \in Nat /\ packaged \in Nat
    BY CliAssumption DEF Init
  <2>2. user \in [Files -> Contents]
    BY DEF Init, Contents
  <2> QED BY <2>1, <2>2 DEF Init, CliTypeOK
<1>2. CliTypeOK /\ [Next]_vars => CliTypeOK'
  <2> SUFFICES ASSUME CliTypeOK, [Next]_vars PROVE CliTypeOK'
    OBVIOUS
  <2> USE DEF files, glob, process
  <2>1. CASE Publish \/ UNCHANGED vars
    BY <2>1 DEF Publish, vars, CliTypeOK
  <2>2. CASE Start \/ StartUpgraded
    BY <2>2, BeginIs
  <2>3. CASE Skip \/ Report \/ Finish
    BY <2>3 DEF Skip, Report, Finish, CliTypeOK
  <2>4. CASE Request
    BY <2>4, RequestIs DEF Request, CliTypeOK
  <2>5. CASE SendResults
    <3>1. our' \in Nat
      BY <2>5, ReadOurType, EntryFacts DEF SendResults, CliTypeOK
    <3> QED BY <2>5, <3>1 DEF SendResults, Phase, Registered, CliTypeOK
  <2>6. CASE Kill
    <3>1. user' \in [Files -> Contents]
      BY <2>6, WrittenIs DEF Kill, Contents, CliTypeOK
    <3> QED BY <2>6, <3>1 DEF Kill, CliTypeOK
  <2> QED BY <2>1, <2>2, <2>3, <2>4, <2>5, <2>6 DEF Next
<1> QED BY <1>1, <1>2, PTL DEF Spec
-----------------------------------------------------------------------------
(* Good data survive                                                        *)

\* Whatever the requests meet and wherever the process is killed, a file that holds
\* data of some version holds data until a new program version removes it.
THEOREM GoodDataSurviveHolds == Spec => GoodDataSurvive
<1>1. ASSUME CliTypeOK, [Next]_vars, NEW f \in Files, IsVersion(user[f])
      PROVE  IsVersion(user'[f]) \/ (pc = "down" /\ user'[f] = Absent)
  <2> USE DEF files, glob, process
  <2>1. user[f] # Absent
    BY <1>1 DEF IsVersion, Absent
  <2>2. CASE Start \/ StartUpgraded
    BY <1>1, <2>2, BeginIs
  <2>3. CASE Request
    BY <1>1, <2>1, <2>3, RequestIs, CurrentIs, WrittenIs DEF Request, CliTypeOK
  <2>4. CASE Kill
    <3>1. user' = user \/ \E e \in todo : user' = Written(e, Broken)
      BY <2>4 DEF Kill
    <3>2. Broken \in Contents /\ todo \subseteq E
      BY <1>1 DEF Contents, CliTypeOK
    <3> QED BY <1>1, <2>1, <3>1, <3>2, WrittenIs
  <2>5. CASE Publish \/ Skip \/ Report \/ SendResults \/ Finish \/ UNCHANGED vars
    BY <1>1, <2>5 DEF Publish, Skip, Report, SendResults, Finish, vars
  <2> QED BY <1>1, <2>2, <2>3, <2>4, <2>5 DEF Next
<1>2. CliTypeOK /\ [Next]_vars =>
        [\A f \in Files : IsVersion(user[f]) =>
           IsVersion(user'[f]) \/ (pc = "down" /\ user'[f] = Absent)]_vars
  BY <1>1
<1> QED BY <1>2, TypeCorrect, PTL DEF Spec, GoodDataSurvive
-----------------------------------------------------------------------------
(* A first run is complete                                                  *)

\* A request of a first run that has met no fault stores the server's data, of the
\* version published at that moment, into its file, which was absent.
LEMMA FaultlessRequest ==
  ASSUME CliTypeOK, Request, met' = {}, ~Upload(Current), user[File(Current)] = Absent
  PROVE  /\ met = {}
         /\ user' = Written(Current, server)
         /\ \A f \in Files : user'[f] = IF f = File(Current) THEN server ELSE user[f]
<1>1. PICK fault \in Faults \cup {"none"} : /\ user' \in Replies(Current, fault)
                                            /\ met' = met \cup ({fault} \ {"none"})
  BY DEF Request
<1>2. fault = "none" /\ met = {}
  BY <1>1
<1>3. user' = Written(Current, server)
  BY <1>1, <1>2 DEF Replies
<1>4. Current \in E /\ server \in Contents
  BY CurrentIs DEF Request, CliTypeOK, Contents
<1> QED BY <1>2, <1>3, <1>4, WrittenIs

\* Every step keeps FirstRunInv, a server that moves on between two requests included.
LEMMA FirstRunInvHolds == Spec => []FirstRunInv
<1>1. Init => FirstRunInv
  BY DEF Init, FirstRunInv
<1>2. CliTypeOK /\ FirstRunInv /\ [Next]_vars => FirstRunInv'
  <2> SUFFICES ASSUME CliTypeOK, FirstRunInv, [Next]_vars PROVE FirstRunInv'
    OBVIOUS
  <2> USE DEF files, glob, process
  <2> DEFINE First == /\ pc \in {"download", "report"} /\ met = {}
                      /\ before.user = [f \in Files |-> Absent]
  <2>1. CASE Publish \/ UNCHANGED vars
    <3>1. UNCHANGED <<user, process>> /\ server' >= server /\ server' \in Nat
      BY <2>1 DEF Publish, vars, CliTypeOK
    <3>2. Phase(FALSE)' = Phase(FALSE)
      BY <3>1 DEF Phase, Registered
    <3>3. srv <= server => srv <= server'
      BY <3>1 DEF CliTypeOK
    <3> QED BY <3>1, <3>2, <3>3 DEF FirstRunInv
  <2>2. CASE Start \/ StartUpgraded
    <3>1. pc' = "download" /\ todo' = Phase(FALSE)' /\ before'.user = user'
      BY <2>2, BeginIs
    <3>2. N \in Phase(FALSE)'
      BY <3>1, EntryFacts, EntriesAssumption DEF Phase, Registered, BenchmarkFiles
    <3> QED BY <3>1, <3>2 DEF FirstRunInv
  <2>3. CASE Skip
    <3>1. pc \in {"download", "send"} /\ todo # {} /\ todo' = todo \ {Current} /\ ~Wanted(Current)
          /\ UNCHANGED <<files, pc, our, srv, skip, met, before>>
      BY <2>3 DEF Skip
    <3>2. Phase(FALSE)' = Phase(FALSE)
      BY <3>1 DEF Phase, Registered
    <3>3. Current # N /\ ~(our < srv)
      BY <3>1, EntryFacts DEF Wanted
    <3>4. Current \in todo /\ N \notin todo
      BY <3>1, <3>3, CurrentIs DEF CliTypeOK
    <3> QED BY <3>1, <3>2, <3>3, <3>4 DEF FirstRunInv
  <2>4. CASE Request
    <3>1. pc \in {"download", "send"} /\ todo # {} /\ todo' = todo \ {Current} /\ ReadBack(Current)
          /\ UNCHANGED <<server, packaged, pc, our, skip, before>>
      BY <2>4 DEF Request
    <3>2. Phase(FALSE)' = Phase(FALSE)
      BY <3>1 DEF Phase, Registered
    <3>3. Current \in todo /\ Current \in E /\ (N \in todo => Current = N)
      BY <3>1, CurrentIs DEF CliTypeOK
    <3>4. ASSUME pc' \in {"download", "report"}, met' = {}, before'.user = [f \in Files |-> Absent]
          PROVE  /\ N \notin todo'
                 /\ user'[VersionFile] = srv' /\ srv' <= server'
                 /\ \A e \in todo' : user'[File(e)] = Absent
                 /\ our' < srv' => \A e \in Phase(FALSE)' \ todo' : user'[File(e)] >= srv'
      <4>1. pc = "download" /\ todo \subseteq Phase(FALSE) /\ before.user = [f \in Files |-> Absent]
        BY <3>1, <3>4 DEF FirstRunInv
      <4>2. \A e \in todo : e \in E /\ ~Upload(e)
        BY <4>1 DEF Phase, Registered
      <4>3. met = {}
        <5>1. PICK fault : met' = met \cup ({fault} \ {"none"})
          BY <2>4 DEF Request
        <5> QED BY <3>4, <5>1
      <4>4. \A e \in todo : user[File(e)] = Absent
        BY <4>1, <4>2, <4>3, EntryFacts DEF FirstRunInv
      <4>5. \A f \in Files : user'[f] = IF f = File(Current) THEN server ELSE user[f]
        BY <2>4, <3>3, <3>4, <4>2, <4>4, FaultlessRequest
      <4>6. \A e \in E : ~Upload(e) /\ e # Current => File(e) # File(Current) /\ user'[File(e)] = user[File(e)]
        BY <3>3, <4>2, <4>5, EntryFacts
      <4>7. user'[File(Current)] = server /\ server \in Nat
        BY <3>3, <4>5, EntryFacts DEF CliTypeOK
      <4>8. N \notin todo' /\ \A e \in todo' : user'[File(e)] = Absent
        BY <3>1, <3>3, <4>2, <4>4, <4>6
      <4>9. CASE N \in todo
        <5>1. Current = N /\ todo = Phase(FALSE)
          BY <3>3, <4>1, <4>3, <4>9 DEF FirstRunInv
        <5>2. user'[VersionFile] = server /\ srv' = server
          BY <3>1, <4>7, <5>1, EntryFacts DEF ReadBack, Parse, IsVersion
        <5>3. Phase(FALSE)' \ todo' \subseteq {N}
          BY <3>1, <3>2, <5>1
        <5>4. user'[VersionFile] = srv' /\ srv' <= server'
          BY <3>1, <4>7, <5>2
        <5>5. ASSUME NEW e \in Phase(FALSE)' \ todo'
              PROVE  user'[File(e)] >= srv'
          <6>1. e = Current
            BY <5>1, <5>3
          <6>2. user'[File(e)] = server
            BY <4>7, <6>1
          <6> QED BY <4>7, <5>2, <6>2
        <5> QED BY <4>8, <5>4, <5>5
      <4>10. CASE N \notin todo
        <5>1. Current # N /\ srv' = srv
          BY <3>1, <3>3, <4>10 DEF ReadBack
        <5>2. user[VersionFile] = srv /\ srv <= server
          BY <4>1, <4>3, <4>10 DEF FirstRunInv
        <5>3. user'[VersionFile] = srv'
          BY <4>6, <5>1, <5>2, EntryFacts
        <5>4. ASSUME our' < srv', NEW e \in Phase(FALSE)' \ todo'
              PROVE  user'[File(e)] >= srv'
          <6>1. e \in E /\ ~Upload(e)
            BY <3>2 DEF Phase, Registered
          <6>2. CASE e = Current
            BY <4>7, <5>1, <5>2, <6>2
          <6>3. CASE e # Current
            <7>1. e \in Phase(FALSE) \ todo /\ our < srv
              BY <3>1, <3>2, <5>1, <5>4, <6>3
            <7>2. user[File(e)] >= srv
              BY <4>1, <4>3, <4>10, <7>1 DEF FirstRunInv
            <7> QED BY <4>6, <5>1, <6>1, <6>3, <7>2
          <6> QED BY <6>2, <6>3
        <5> QED BY <3>1, <4>8, <5>1, <5>2, <5>3, <5>4
      <4> QED BY <4>9, <4>10
    <3>5. pc' = "download" => todo' \subseteq Phase(FALSE)'
      BY <3>1, <3>2 DEF FirstRunInv
    <3>6. pc' # "report"
      BY <3>1
    <3> QED BY <3>4, <3>5, <3>6 DEF FirstRunInv
  <2>5. CASE Report
    <3>1. pc = "download" /\ todo = {} /\ pc' = "report"
          /\ UNCHANGED <<files, our, srv, skip, todo, met, before>>
      BY <2>5 DEF Report
    <3>2. Phase(FALSE)' = Phase(FALSE)
      BY <3>1 DEF Phase, Registered
    <3> QED BY <3>1, <3>2 DEF FirstRunInv
  <2>6. CASE SendResults \/ Finish \/ Kill
    BY <2>6 DEF SendResults, Finish, Kill, FirstRunInv
  <2> QED BY <2>1, <2>2, <2>3, <2>4, <2>5, <2>6 DEF Next
<1> QED BY <1>1, <1>2, TypeCorrect, PTL DEF Spec

\* A run that starts without files, meets no fault and finds the server ahead of the
\* packaged data has every registered file at the recorded version before the report
\* is generated, even when the server moves on between two requests.
THEOREM FirstRunIsCompleteHolds == Spec => []FirstRunIsComplete
<1>1. CliTypeOK /\ FirstRunInv => FirstRunIsComplete
  <2> SUFFICES ASSUME CliTypeOK, FirstRunInv, pc = "report", met = {}, our < srv,
                      before.user = [f \in Files |-> Absent], NEW e \in Registered(skip)
               PROVE  user[File(e)] >= user[VersionFile]
    BY DEF FirstRunIsComplete
  <2>1. PICK d \in Phase(FALSE) : File(d) = File(e)
    <3>1. e \in E
      BY DEF Registered
    <3>2. CASE ~Upload(e)
      BY <3>1, <3>2, EntryFacts DEF Phase
    <3>3. CASE Upload(e)
      <4>1. PICK d \in E : ~Upload(d) /\ File(d) = File(e)
        BY <3>1, <3>3, EntryFacts
      <4>2. d \in Registered(skip)
        BY <4>1 DEF Registered
      <4> QED BY <4>1, <4>2, EntryFacts DEF Phase
    <3> QED BY <3>2, <3>3
  <2>2. todo = {} /\ user[VersionFile] = srv /\ \A x \in Phase(FALSE) \ todo : user[File(x)] >= srv
    BY DEF FirstRunInv
  <2> QED BY <2>1, <2>2
<1> QED BY <1>1, TypeCorrect, FirstRunInvHolds, PTL
=============================================================================
