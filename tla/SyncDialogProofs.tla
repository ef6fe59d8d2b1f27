-------------------------- MODULE SyncDialogProofs --------------------------
(***************************************************************************)
(* Theorems about the Synchronize dialog, for every list of entries, every *)
(* set of faults and any number of versions.                               *)
(***************************************************************************)
EXTENDS SyncDialog, WellFoundedInduction, TLAPS

\* The entries' fields are what the assumption says, and indices are naturals.
LEMMA EntryFacts ==
  /\ N \in Nat /\ N >= 2 /\ E = 1..N /\ E \subseteq Nat
  /\ \A e \in E : Optional(e) \in BOOLEAN /\ Upload(e) \in BOOLEAN /\ File(e) \in Files
  /\ N \in E /\ ~Upload(N) /\ VersionFile \in Files
  /\ \A e \in E : File(e) = VersionFile <=> e = N
<1>1. E = 1..N
  BY DEF E, N
<1>2. N \in Nat /\ N >= 2 /\ E \subseteq Nat /\ N \in E
  BY <1>1, EntriesAssumption
<1>3. \A e \in E : File(e) \in Files
  BY DEF Files, File
<1>4. VersionFile \in Files /\ ~Upload(N) /\ \A e \in E : File(e) = VersionFile <=> e = N
  BY <1>2, <1>3, EntriesAssumption
<1> QED BY <1>1, <1>2, <1>3, <1>4, EntriesAssumption

\* Every non-empty set of naturals has a least element.
LEMMA LeastExists ==
  ASSUME NEW T, T \subseteq Nat, T # {}
  PROVE  \E x \in T : \A y \in T : x <= y
<1> DEFINE R == OpToRel(<, Nat)
<1>1. IsWellFoundedOn(R, Nat)
  BY NatLessThanWellFounded, Zenon
<1>2. \A x, y \in Nat : x < y => <<x, y>> \in R
  BY DEF OpToRel
<1> HIDE DEF R
<1>3. PICK x \in T : \A y \in T : ~(<<y, x>> \in R)
  BY <1>1, WFMin, Zenon
<1>4. ASSUME NEW y \in T PROVE x <= y
  <2>1. x \in Nat /\ y \in Nat
    OBVIOUS
  <2>2. ~(y < x)
    BY <2>1, <1>2, <1>3, Zenon
  <2> QED BY <2>1, <2>2
<1> QED BY <1>4

\* Every non-empty subset of 1..n has a greatest element.
LEMMA GreatestExists ==
  ASSUME NEW n \in Nat, NEW T, T \subseteq 1..n, T # {}
  PROVE  \E x \in T : \A y \in T : x >= y
<1> DEFINE U == {k \in Nat : n - k \in T}
<1>1. \A y \in T : y \in Int /\ n - y \in Nat /\ n - (n - y) = y
  OBVIOUS
<1>2. \A y \in T : n - y \in U
  BY <1>1
<1>3. U \subseteq Nat /\ U # {}
  BY <1>2
<1> HIDE DEF U
<1>4. PICK u \in U : \A v \in U : u <= v
  BY <1>3, LeastExists
<1>5. u \in Nat /\ n - u \in T
  BY <1>4 DEF U
<1>6. ASSUME NEW y \in T PROVE n - u >= y
  BY <1>1, <1>2, <1>4, <1>5
<1> QED BY <1>5, <1>6

\* Min(T) is in T and below every element of T.
LEMMA MinIsLeast ==
  ASSUME NEW T, T \subseteq Nat, T # {}
  PROVE  Min(T) \in T /\ \A y \in T : Min(T) <= y
BY LeastExists, Zenon DEF Min

\* Max(T) is in T and above every element of T.
LEMMA MaxIsGreatest ==
  ASSUME NEW n \in Nat, NEW T, T \subseteq 1..n, T # {}
  PROVE  Max(T) \in T /\ \A y \in T : Max(T) >= y
BY GreatestExists, Zenon DEF Max

\* The current action is one of those still to run.
LEMMA CurrentIsTodo ==
  ASSUME todo \subseteq E, todo # {}
  PROVE  Current \in todo /\ Current \in E /\ \A e \in todo : Current >= e
BY EntryFacts, MaxIsGreatest DEF Current

\* What a reply can leave in the files is a content of the files.
LEMMA StoredType ==
  ASSUME TypeOK, NEW e \in E, NEW c \in Contents
  PROVE  Stored(e, c) \in [Files -> Contents]
BY EntryFacts DEF Stored, TypeOK

\* A truncated reply leaves the old content or the broken one.
LEMMA TruncatedType ==
  ASSUME TypeOK, NEW e \in E
  PROVE  Truncated(e) \subseteq [Files -> Contents]
<1>1. Broken \in Contents
  BY DEF Contents
<1> QED BY <1>1, StoredType DEF Truncated, TypeOK

\* So does what comes of a whole body that is late.
LEMMA LateBodiesType ==
  ASSUME TypeOK, NEW e \in E
  PROVE  LateBodies(e) \subseteq [Files -> Contents]
<1>1. SUFFICES ASSUME NEW c \in {Reply, Broken} \cup 0..server
               PROVE  Stored(e, c) \in [Files -> Contents]
  BY DEF LateBodies
<1>2. c \in Contents
  BY <1>1 DEF Contents, TypeOK
<1> QED BY <1>2, StoredType

\* Reading the version file back keeps the server's version a number.
LEMMA ReadBackType ==
  ASSUME TypeOK, user' \in [Files -> Contents], NEW e \in E, ReadBack(e)
  PROVE  srv' \in Nat
BY EntryFacts DEF ReadBack, TypeOK, Parse, IsVersion, Contents, Absent, Broken, Reply

\* So does reading our version from the user's file or the packaged one.
LEMMA ReadOurType ==
  ASSUME TypeOK
  PROVE  ReadOur(user[VersionFile], packaged, our) \in Nat
BY EntryFacts DEF ReadOur, TypeOK, Parse, IsVersion, Contents, Absent, Broken, Reply

\* The set of rows the dialog processes is a set of entries.
LEMMA ListedType == Listed \subseteq Selected /\ Selected \subseteq E
BY DEF Listed, Selected

\* A request is outstanding only inside its own nested main loop, for an action
\* still to run.
WaitInv ==
  /\ busy \/ error => pc = "wait"
  /\ pc = "wait" => todo # {}

-----------------------------------------------------------------------------
(* Every action keeps the types.                                            *)

\* TypeOK holds in every reachable state.
THEOREM TypeCorrect == Spec => [](TypeOK /\ WaitInv)
<1> USE DEF Marks
<1>1. Init => TypeOK /\ WaitInv
  <2> SUFFICES ASSUME Init PROVE TypeOK /\ WaitInv
    OBVIOUS
  <2>1. server \in Nat /\ packaged \in Nat
    BY DialogAssumption DEF Init
  <2>2. user \in [Files -> Contents]
    BY DEF Init, Contents
  <2> QED BY <2>1, <2>2 DEF Init, TypeOK, WaitInv
<1>2. TypeOK /\ WaitInv /\ [Next]_vars => TypeOK' /\ WaitInv'
  <2> SUFFICES ASSUME TypeOK, WaitInv, [Next]_vars PROVE TypeOK' /\ WaitInv'
    OBVIOUS
  <2> USE DEF files, glob, rows, req, flags
  <2>1. CASE Publish
    BY <2>1 DEF Publish, TypeOK, WaitInv
  <2>2. CASE Launch \/ Stop
    <3>1. CASE Launch
      BY <3>1 DEF Launch, FreshProcess, TypeOK, WaitInv
    <3>2. CASE Stop
      BY <3>2 DEF Stop, FreshProcess, TypeOK, WaitInv
    <3> QED BY <2>2, <3>1, <3>2
  <2>3. CASE LaunchUpgraded
    <3>1. user' \in [Files -> Contents] /\ packaged' \in Nat
      BY <2>3 DEF LaunchUpgraded, WithoutFiles, TypeOK, Contents
    <3> QED BY <2>3, <3>1 DEF LaunchUpgraded, FreshProcess, TypeOK, WaitInv
  <2>4. CASE CrashInSplice
    <3>1. Current \in E /\ Broken \in Contents
      BY <2>4, CurrentIsTodo DEF CrashInSplice, TypeOK, WaitInv, Contents
    <3>2. user' \in [Files -> Contents]
      BY <2>4, <3>1, StoredType DEF CrashInSplice
    <3> QED BY <2>4, <3>2 DEF CrashInSplice, FreshProcess, TypeOK, WaitInv
  <2>5. CASE OpenDialog \/ Toggle \/ Dismiss \/ CancelClick \/ CloseClick
    <3>1. CASE OpenDialog
      BY <3>1 DEF OpenDialog, TypeOK, WaitInv
    <3>2. CASE Toggle
      BY <3>2 DEF Toggle, TypeOK, WaitInv
    <3>3. CASE Dismiss
      BY <3>3 DEF Dismiss, TypeOK, WaitInv
    <3>4. CASE CancelClick
      BY <3>4 DEF CancelClick, TypeOK, WaitInv
    <3>5. CASE CloseClick
      BY <3>5 DEF CloseClick, TypeOK, WaitInv
    <3> QED BY <2>5, <3>1, <3>2, <3>3, <3>4, <3>5
  <2>6. CASE StartSync
    BY <2>6, ReadOurType, ListedType DEF StartSync, TypeOK, WaitInv
  <2>7. CASE EnterLoop \/ LoopEnd \/ CloseReturns \/ Reload
    <3>1. CASE EnterLoop
      BY <3>1 DEF EnterLoop, TypeOK, WaitInv
    <3>2. CASE LoopEnd
      BY <3>2 DEF LoopEnd, TypeOK, WaitInv
    <3>3. CASE CloseReturns
      BY <3>3 DEF CloseReturns, TypeOK, WaitInv
    <3>4. CASE Reload
      BY <3>4 DEF Reload, TypeOK, WaitInv
    <3> QED BY <2>7, <3>1, <3>2, <3>3, <3>4
  <2>8. CASE LoopCanceled \/ LoopSkip \/ LoopSend
    <3>1. Current \in E
      BY <2>8, CurrentIsTodo DEF LoopCanceled, LoopSkip, LoopSend, TypeOK
    <3>2. CASE LoopCanceled
      BY <3>1, <3>2 DEF LoopCanceled, TypeOK, WaitInv
    <3>3. CASE LoopSkip
      BY <3>1, <3>3 DEF LoopSkip, TypeOK, WaitInv
    <3>4. CASE LoopSend
      BY <3>1, <3>4 DEF LoopSend, TypeOK, WaitInv
    <3> QED BY <2>8, <3>2, <3>3, <3>4
  <2>9. CASE RequestReturns
    <3>1. Current \in E
      BY <2>9, CurrentIsTodo DEF RequestReturns, TypeOK, WaitInv
    <3> QED BY <2>9, <3>1 DEF RequestReturns, Remaining, TypeOK, WaitInv
  <2>10. CASE ReplyOk
    <3>1. Current \in E
      BY <2>10, CurrentIsTodo DEF ReplyOk, TypeOK, WaitInv
    <3>2. PICK c \in Bodies(Current) \cup {Broken} : user' = Stored(Current, c)
      BY <2>10 DEF ReplyOk
    <3>3. c \in Contents
      BY DEF Bodies, Contents, TypeOK
    <3>4. user' \in [Files -> Contents]
      BY <3>1, <3>2, <3>3, StoredType
    <3>5. srv' \in Nat
      BY <2>10, <3>1, <3>4, ReadBackType DEF ReplyOk
    <3> QED BY <2>10, <3>4, <3>5 DEF ReplyOk, QuitLoop, TypeOK, WaitInv
  <2>11. CASE ReplyNetError
    BY <2>11 DEF ReplyNetError, QuitLoop, TypeOK, WaitInv
  <2>12. CASE ReplyPartial \/ ReplyDiskError
    <3>1. Current \in E
      BY <2>12, CurrentIsTodo DEF ReplyPartial, ReplyDiskError, TypeOK, WaitInv
    <3>2. user' \in [Files -> Contents]
      BY <2>12, <3>1, TruncatedType DEF ReplyPartial, ReplyDiskError, TypeOK
    <3>3. srv' \in Nat
      BY <2>12, <3>1, <3>2, ReadBackType DEF ReplyPartial, ReplyDiskError
    <3> QED BY <2>12, <3>2, <3>3 DEF ReplyPartial, ReplyDiskError, QuitLoop, TypeOK, WaitInv
  <2>13. CASE LateReply
    <3>1. PICK e \in late : /\ late' = late \ {e}
                            /\ user' \in {user} \cup Truncated(e) \cup LateBodies(e)
                            /\ ReadBack(e)
      BY <2>13 DEF LateReply
    <3>2. user' \in [Files -> Contents]
      BY <3>1, TruncatedType, LateBodiesType DEF TypeOK
    <3>3. srv' \in Nat
      BY <3>1, <3>2, ReadBackType DEF TypeOK
    <3> QED BY <2>13, <3>1, <3>2, <3>3 DEF LateReply, TypeOK, WaitInv
  <2>14. CASE UNCHANGED vars
    BY <2>14 DEF vars, TypeOK, WaitInv
  <2> QED BY <2>1, <2>2, <2>3, <2>4, <2>5, <2>6, <2>7, <2>8, <2>9, <2>10, <2>11,
             <2>12, <2>13, <2>14 DEF Next, User, Thread, Network
<1> QED BY <1>1, <1>2, PTL DEF Spec

-----------------------------------------------------------------------------
(* The dialog implements BlobCatalog.  What it takes: nothing on disk is    *)
(* newer than the server, nor, while a request is outstanding, than the     *)
(* server was when the request was sent.                                    *)

VersionInv ==
  /\ \A f \in Files : user[f] <= server
  /\ busy => sentAt <= server /\ \A f \in Files : user[f] <= sentAt

\* The invariants the refinement rests on.
IInv == TypeOK /\ WaitInv /\ VersionInv

\* A file that becomes truncated or broken stays below every version.
LEMMA BrokenKeepsVersions ==
  ASSUME TypeOK, NEW e \in E, NEW v \in Nat, \A f \in Files : user[f] <= v,
         user' \in {user, Stored(e, Broken)}
  PROVE  \A f \in Files : user'[f] <= v
BY EntryFacts DEF TypeOK, Stored, Broken

\* Truncated holds one of these two.
LEMMA TruncatedIs ==
  ASSUME NEW e
  PROVE  Truncated(e) \subseteq {user, Stored(e, Broken)}
BY DEF Truncated

\* With PromptAbort a late reply leaves the files alone or truncates its own.
LEMMA LateReplyIs ==
  ASSUME PromptAbort, TypeOK, LateReply
  PROVE  \E e \in E : user' \in {user, Stored(e, Broken)}
BY TruncatedIs DEF LateReply, LateBodies, TypeOK

\* The version invariant holds in every reachable state.
LEMMA VersionsBounded ==
  ASSUME PromptAbort PROVE Spec => []VersionInv
<1>1. Init => VersionInv
  <2> SUFFICES ASSUME Init PROVE VersionInv
    OBVIOUS
  <2>1. server \in Nat /\ ~busy /\ \A f \in Files : user[f] = -1
    BY DialogAssumption DEF Init, Absent
  <2> QED BY <2>1 DEF VersionInv
<1>2. TypeOK /\ WaitInv /\ VersionInv /\ [Next]_vars => VersionInv'
  <2> SUFFICES ASSUME TypeOK, WaitInv, VersionInv, [Next]_vars PROVE VersionInv'
    OBVIOUS
  <2> USE DEF files, req
  <2>1. CASE Publish
    <3>1. \A f \in Files : user[f] \in Int
      BY DEF TypeOK, Contents, Absent, Broken, Reply
    <3>2. server' = server + 1 /\ UNCHANGED <<user, busy, sentAt>>
      BY <2>1 DEF Publish
    <3> QED BY <3>1, <3>2 DEF VersionInv, TypeOK
  <2>2. CASE Launch \/ Stop
    BY <2>2 DEF Launch, Stop, FreshProcess, VersionInv
  <2>3. CASE LaunchUpgraded
    <3>1. ~busy' /\ server' = server
      BY <2>3 DEF LaunchUpgraded, FreshProcess
    <3>2. \A f \in Files : user'[f] = -1 \/ user'[f] = user[f]
      BY <2>3 DEF LaunchUpgraded, WithoutFiles, Absent
    <3> QED BY <3>1, <3>2 DEF VersionInv, TypeOK
  <2>4. CASE CrashInSplice
    <3>1. Current \in E
      BY <2>4, CurrentIsTodo DEF CrashInSplice, TypeOK, WaitInv
    <3>2. ~busy' /\ server' = server /\ user' = Stored(Current, Broken)
      BY <2>4 DEF CrashInSplice, FreshProcess
    <3>3. \A f \in Files : user'[f] <= server
      BY <3>1, <3>2, BrokenKeepsVersions DEF VersionInv, TypeOK
    <3> QED BY <3>2, <3>3 DEF VersionInv
  <2>5. CASE User \/ EnterLoop \/ LoopCanceled \/ LoopSkip \/ LoopEnd \/ CloseReturns \/ Reload
    BY <2>5 DEF User, OpenDialog, Toggle, Dismiss, StartSync, CancelClick, CloseClick,
                EnterLoop, LoopCanceled, LoopSkip, LoopEnd, CloseReturns, Reload, VersionInv
  <2>6. CASE LoopSend
    <3>1. server' = server /\ user' = user /\ sentAt' = server
      BY <2>6 DEF LoopSend
    <3> QED BY <3>1 DEF VersionInv, TypeOK
  <2>7. CASE RequestReturns
    BY <2>7 DEF RequestReturns, VersionInv
  <2>8. CASE ReplyOk
    <3>1. Current \in E
      BY <2>8, CurrentIsTodo DEF ReplyOk, TypeOK, WaitInv
    <3>2. PICK c \in Bodies(Current) \cup {Broken} : user' = Stored(Current, c)
      BY <2>8 DEF ReplyOk
    <3>3. c \in Int /\ c <= server
      BY <2>8 DEF Bodies, Broken, Reply, TypeOK, ReplyOk
    <3>4. \A f \in Files : user'[f] = c \/ user'[f] = user[f]
      BY <3>1, <3>2, EntryFacts DEF Stored, TypeOK
    <3>5. ~busy' /\ server' = server
      BY <2>8 DEF ReplyOk
    <3> QED BY <3>3, <3>4, <3>5 DEF VersionInv
  <2>9. CASE ReplyNetError \/ ReplyDiskError
    BY <2>9 DEF ReplyNetError, ReplyDiskError, VersionInv
  <2>10. CASE ReplyPartial
    <3>1. Current \in E
      BY <2>10, CurrentIsTodo DEF ReplyPartial, TypeOK, WaitInv
    <3>2. user' \in {user, Stored(Current, Broken)} /\ ~busy' /\ server' = server
      BY <2>10, TruncatedIs DEF ReplyPartial
    <3>3. \A f \in Files : user'[f] <= server
      BY <3>1, <3>2, BrokenKeepsVersions DEF VersionInv, TypeOK
    <3> QED BY <3>2, <3>3 DEF VersionInv
  <2>11. CASE LateReply
    <3>1. PICK e \in E : user' \in {user, Stored(e, Broken)}
      BY <2>11, PromptAbort, LateReplyIs
    <3>2. server' = server /\ UNCHANGED <<busy, sentAt>>
      BY <2>11 DEF LateReply
    <3>3. \A f \in Files : user'[f] <= server
      BY <3>1, BrokenKeepsVersions DEF VersionInv, TypeOK
    <3>4. busy => \A f \in Files : user'[f] <= sentAt
      BY <3>1, BrokenKeepsVersions DEF VersionInv, TypeOK
    <3> QED BY <3>2, <3>3, <3>4 DEF VersionInv
  <2>12. CASE UNCHANGED vars
    BY <2>12 DEF vars, VersionInv
  <2> QED BY <2>1, <2>2, <2>3, <2>4, <2>5, <2>6, <2>7, <2>8, <2>9, <2>10, <2>11, <2>12
          DEF Next, Thread, Network
<1> QED BY <1>1, <1>2, TypeCorrect, PTL DEF Spec

\* The instance's copies of SyncData's definitions are the dialog's own.
LEMMA CatalogData ==
  /\ Catalog!Files = Files
  /\ Catalog!Absent = Absent /\ Catalog!Broken = Broken /\ Catalog!Reply = Reply
  /\ Catalog!UploadFiles = {File(e) : e \in {x \in E : Upload(x)}}
BY DEF Catalog!Files, Files, Catalog!E, E, Catalog!Absent, Absent, Catalog!Broken, Broken,
       Catalog!Reply, Reply, Catalog!UploadFiles,
       Catalog!File, File, Catalog!Upload, Upload

\* A file that becomes truncated or broken is a step of the catalogue.
LEMMA BrokenIsAStore ==
  ASSUME TypeOK, NEW e \in E, user' \in {user, Stored(e, Broken)}, server' = server
  PROVE  [Catalog!Next]_Catalog!catalogVars
<1>1. CASE user' = user
  BY <1>1 DEF Catalog!catalogVars
<1>2. CASE user' = Stored(e, Broken)
  <2>1. Catalog!Store(File(e), Broken)
    BY <1>2, CatalogData DEF Catalog!Store, Catalog!IsVersion, Stored, Broken
  <2> QED BY <2>1, CatalogData, EntryFacts DEF Catalog!Next
<1> QED BY <1>1, <1>2

\* The dialog implements the catalogue: whatever the network, the user or a crash
\* does, a blob file never goes back to older data, and only a file something is
\* uploaded from ever holds an upload's answer.  It takes aborts that complete at
\* once: a whole body that is late could be older than what is stored.
THEOREM ImplementsCatalog ==
  ASSUME PromptAbort PROVE Spec => CatalogSpec
<1>1. Init => Catalog!Init
  BY DialogAssumption, CatalogData DEF Init, Catalog!Init
<1>2. IInv /\ [Next]_vars => [Catalog!Next]_Catalog!catalogVars
  <2> SUFFICES ASSUME IInv, [Next]_vars PROVE [Catalog!Next]_Catalog!catalogVars
    OBVIOUS
  <2> USE DEF files, IInv
  <2>1. CASE Publish
    BY <2>1 DEF Publish, Catalog!Next, Catalog!Publish
  <2>2. CASE UNCHANGED <<server, user>>
    BY <2>2 DEF Catalog!catalogVars
  <2>3. CASE LaunchUpgraded
    <3>1. Catalog!Wipe(Cleaned)
      BY <2>3, CatalogData DEF LaunchUpgraded, WithoutFiles, Catalog!Wipe
    <3> QED BY <3>1, CatalogData, DialogAssumption DEF Catalog!Next
  <2>4. CASE CrashInSplice
    <3>1. Current \in E
      BY <2>4, CurrentIsTodo DEF CrashInSplice, TypeOK, WaitInv
    <3> QED BY <2>4, <3>1, BrokenIsAStore DEF CrashInSplice
  <2>5. CASE ReplyOk
    <3>1. Current \in E /\ busy
      BY <2>5, CurrentIsTodo DEF ReplyOk, TypeOK, WaitInv
    <3>2. PICK c \in Bodies(Current) \cup {Broken} : user' = Stored(Current, c)
      BY <2>5 DEF ReplyOk
    <3>3. server' = server
      BY <2>5 DEF ReplyOk
    <3>4. CASE c = Broken
      BY <3>1, <3>2, <3>3, <3>4, BrokenIsAStore
    <3>5. CASE Upload(Current) /\ c = Reply
      <4>1. Catalog!Store(File(Current), Reply)
        BY <3>2, <3>3, <3>5, CatalogData DEF Catalog!Store, Catalog!IsVersion, Stored, Reply
      <4>2. File(Current) \in Catalog!UploadFiles
        BY <3>1, <3>5, CatalogData
      <4> QED BY <4>1, <4>2, CatalogData DEF Catalog!Next
    <3>6. CASE ~Upload(Current) /\ c \in sentAt..server
      <4>1. user[File(Current)] <= sentAt /\ sentAt \in Nat /\ server \in Nat
        BY <3>1, EntryFacts DEF VersionInv, TypeOK
      <4>2. user[File(Current)] \in Int
        BY <3>1, EntryFacts DEF TypeOK, Contents, Absent, Broken, Reply
      <4>3. c \in 0..server /\ user[File(Current)] <= c /\ c <= server
        BY <3>6, <4>1, <4>2
      <4>4. Catalog!Store(File(Current), c)
        BY <3>2, <3>3, <4>3, CatalogData DEF Catalog!Store, Stored
      <4> QED BY <3>1, <4>3, <4>4, CatalogData, EntryFacts DEF Catalog!Next
    <3> QED BY <3>2, <3>4, <3>5, <3>6 DEF Bodies
  <2>6. CASE ReplyPartial
    <3>1. Current \in E
      BY <2>6, CurrentIsTodo DEF ReplyPartial, TypeOK, WaitInv
    <3> QED BY <2>6, <3>1, BrokenIsAStore, TruncatedIs DEF ReplyPartial
  <2>7. CASE LateReply
    <3>1. PICK e \in E : user' \in {user, Stored(e, Broken)}
      BY <2>7, PromptAbort, LateReplyIs
    <3> QED BY <2>7, <3>1, BrokenIsAStore DEF LateReply
  <2>8. CASE Launch \/ Stop \/ User \/ Thread \/ ReplyNetError \/ ReplyDiskError
    <3>1. UNCHANGED <<server, user>>
      BY <2>8 DEF Launch, Stop, User, OpenDialog, Toggle, Dismiss, StartSync, CancelClick,
                  CloseClick, Thread, EnterLoop, LoopCanceled, LoopSkip, LoopSend, LoopEnd,
                  RequestReturns, CloseReturns, Reload, ReplyNetError, ReplyDiskError
    <3> QED BY <2>2, <3>1
  <2>9. CASE UNCHANGED vars
    BY <2>2, <2>9 DEF vars
  <2> QED BY <2>1, <2>3, <2>4, <2>5, <2>6, <2>7, <2>8, <2>9 DEF Next, Network
<1>3. Spec => []IInv
  BY TypeCorrect, VersionsBounded, PTL DEF IInv
<1> QED BY <1>1, <1>2, <1>3, PTL DEF Spec, CatalogSpec, Catalog!Spec
-----------------------------------------------------------------------------
(* The rows.  The actions still to run lie below all the others that were   *)
(* listed, and those others are done; nothing to run is marked but the      *)
(* action whose request is outstanding.                                     *)

RowInv ==
  /\ todo \subseteq Listed
  /\ pc \notin {"prelude", "loop", "wait"} => todo = {}
  /\ pc = "prelude" => todo = Listed
  /\ pc \in {"confirm", "prelude"} => \A e \in E : mark[e] = "none"
  /\ \A e \in todo : mark[e] # "none" => pc = "wait" /\ e = Current
  /\ \A a \in Listed \ todo, b \in todo : a > b /\ mark[a] = "done"

\* Taking the current action out of todo keeps the rest below it.
LEMMA RestIsBelow ==
  ASSUME todo \subseteq Listed, todo # {}
  PROVE  /\ Current \in todo /\ Current \in E
         /\ \A b \in todo \ {Current} : Current > b
<1>1. todo \subseteq E
  BY ListedType
<1>2. \A b \in todo : b \in Nat /\ Current \in Nat /\ Current >= b
  BY <1>1, CurrentIsTodo, EntryFacts
<1> QED BY <1>1, <1>2, CurrentIsTodo

\* The rows' invariant, and with it that nothing is requested after a failure,
\* whatever the faults and whoever quits the nested loops.
THEOREM RowsInOrder == Spec => [](RowInv /\ NothingAfterFailure)
<1> DEFINE Inv == RowInv /\ NothingAfterFailure
<1> USE DEF files, glob, rows, req, flags
<1>1. Init => Inv
  <2> SUFFICES ASSUME Init PROVE Inv
    OBVIOUS
  <2>1. \A e \in E : mark[e] = "none"
    BY DEF Init
  <2> QED BY <2>1, ListedType DEF Init, RowInv, NothingAfterFailure
<1>2. TypeOK /\ WaitInv /\ Inv /\ [Next]_vars => Inv'
  <2> SUFFICES ASSUME TypeOK, WaitInv, RowInv, NothingAfterFailure, [Next]_vars
               PROVE  RowInv' /\ NothingAfterFailure'
    OBVIOUS
  <2>1. CASE /\ UNCHANGED <<ticked, todo, mark>>
             /\ pc' = pc \/ (pc = "prelude" /\ pc' = "loop")
                         \/ (todo = {} /\ pc' \notin {"confirm", "prelude"})
    <3>1. Listed' = Listed /\ Current' = Current
      BY <2>1 DEF Listed, Selected, Current
    <3>2. \A e \in E : e \in todo /\ mark[e] # "none" => pc = "wait" /\ e = Current
      BY DEF RowInv
    <3>3. todo \subseteq E
      BY ListedType DEF RowInv
    <3> QED BY <2>1, <3>1, <3>2, <3>3 DEF RowInv, NothingAfterFailure
  <2>2. CASE FreshProcess /\ pc' \in {"down", "idle"}
    <3>1. \A e \in E : mark'[e] = "none"
      BY <2>2 DEF FreshProcess
    <3>2. todo' = {} /\ Listed' \subseteq E
      BY <2>2 DEF FreshProcess, Listed, Selected
    <3> QED BY <2>2, <3>1, <3>2 DEF RowInv, NothingAfterFailure
  <2>3. CASE OpenDialog
    <3>1. \A e \in E : mark'[e] = "none"
      BY <2>3 DEF OpenDialog
    <3>2. todo' = {} /\ Listed' \subseteq E /\ pc' # "prelude"
      BY <2>3 DEF OpenDialog, RowInv, Listed, Selected
    <3> QED BY <3>1, <3>2 DEF RowInv, NothingAfterFailure
  <2>4. CASE Toggle \/ Dismiss
    <3>1. \A e \in E : mark'[e] = "none"
      BY <2>4 DEF Toggle, Dismiss, RowInv
    <3>2. todo' = {} /\ Listed' \subseteq E /\ pc' # "prelude"
      BY <2>4 DEF Toggle, Dismiss, RowInv, Listed, Selected
    <3> QED BY <3>1, <3>2 DEF RowInv, NothingAfterFailure
  <2>5. CASE StartSync
    <3>1. \A e \in E : mark'[e] = "none"
      BY <2>5 DEF StartSync, RowInv
    <3>2. todo' = Listed' /\ Listed' \subseteq E /\ pc' = "prelude"
      BY <2>5 DEF StartSync, Listed, Selected
    <3> QED BY <3>1, <3>2 DEF RowInv, NothingAfterFailure
  <2>6. CASE LoopCanceled \/ LoopSkip \/ LoopSend \/ RequestReturns
    <3>1. Listed' = Listed /\ Listed \subseteq E /\ Listed \subseteq Nat
      BY <2>6, ListedType, EntryFacts, SMTT(30)
         DEF LoopCanceled, LoopSkip, LoopSend, RequestReturns, Listed, Selected
    <3>2. /\ Current \in todo /\ Current \in E /\ Current \in Listed
          /\ \A b \in todo \ {Current} : Current > b
      BY <2>6, RestIsBelow DEF LoopCanceled, LoopSkip, LoopSend, RequestReturns, RowInv, WaitInv
    <3>3. \A a \in Listed : a > Current => a \notin todo /\ mark[a] = "done"
      <4> SUFFICES ASSUME NEW a \in Listed, a > Current PROVE a \notin todo /\ mark[a] = "done"
        OBVIOUS
      <4>1. a \notin todo
        BY <3>1, <3>2
      <4> QED BY <3>2, <4>1 DEF RowInv
    <3>4. \A b \in Listed : b < Current => mark[b] = "none"
      <4> SUFFICES ASSUME NEW b \in Listed, b < Current PROVE mark[b] = "none"
        OBVIOUS
      <4>1. b \in todo
        BY <3>1, <3>2 DEF RowInv
      <4> QED BY <3>1, <3>2, <4>1 DEF RowInv
    <3>5. PICK m \in Marks : mark' = [mark EXCEPT ![Current] = m]
      BY <2>6 DEF LoopCanceled, LoopSkip, LoopSend, RequestReturns, Marks
    <3>6. /\ mark'[Current] = m
          /\ \A e \in E : e # Current => mark'[e] = mark[e]
      BY <3>2, <3>5 DEF TypeOK
    <3>7. NothingAfterFailure'
      <4> SUFFICES ASSUME NEW a \in Listed, NEW b \in Listed, a > b, mark'[b] # "none"
                   PROVE  mark'[a] = "done"
        BY <3>1 DEF NothingAfterFailure
      <4>1. a \in Nat /\ b \in Nat /\ Current \in Nat /\ a \in E /\ b \in E
        BY <3>1, <3>2
      <4>2. b >= Current
        BY <3>4, <3>6, <4>1
      <4> QED BY <3>3, <3>6, <4>1, <4>2
    <3>8. CASE LoopSend
      <4>1. /\ todo' = todo /\ pc' = "wait" /\ Current' = Current
        BY <3>8 DEF LoopSend, Current
      <4>2. \A e \in todo : mark'[e] # "none" => e = Current
        BY <3>1, <3>6, <3>8 DEF LoopSend, RowInv
      <4>3. \A a \in Listed \ todo, b \in todo : a > b /\ mark'[a] = "done"
        BY <3>1, <3>2, <3>6 DEF RowInv
      <4> QED BY <3>1, <3>7, <4>1, <4>2, <4>3 DEF RowInv
    <3>9. CASE todo' = {}
      <4>1. pc' = "loop"
        BY <2>6, <3>8, <3>9, <3>2 DEF LoopCanceled, LoopSkip, LoopSend, RequestReturns
      <4> QED BY <3>1, <3>7, <3>9, <4>1 DEF RowInv
    <3>10. CASE m = "done" /\ todo' = todo \ {Current} /\ pc' = "loop"
      <4>1. \A e \in todo' : mark'[e] = "none"
        BY <3>1, <3>2, <3>6, <3>10 DEF RowInv
      <4>2. ASSUME NEW a \in Listed \ todo', NEW b \in todo' PROVE a > b /\ mark'[a] = "done"
        BY <3>1, <3>2, <3>6, <3>10 DEF RowInv
      <4> QED BY <3>1, <3>7, <3>10, <4>1, <4>2 DEF RowInv
    <3>11. LoopCanceled => todo' = {}
      BY DEF LoopCanceled
    <3>12. LoopSkip => mark'[Current] = "done" /\ todo' = todo \ {Current} /\ pc' = "loop"
      BY <3>2 DEF LoopSkip, TypeOK
    <3>13. RequestReturns =>
             \/ todo' = {}
             \/ mark'[Current] = "done" /\ todo' = todo \ {Current} /\ pc' = "loop"
      BY <3>2 DEF RequestReturns, Remaining, TypeOK
    <3> QED BY <2>6, <3>6, <3>8, <3>9, <3>10, <3>11, <3>12, <3>13
  <2>7. CASE Publish \/ CancelClick \/ CloseClick \/ Network \/ LateReply
    BY <2>1, <2>7 DEF Publish, CancelClick, CloseClick, Network, ReplyOk, ReplyNetError,
                      ReplyPartial, ReplyDiskError, LateReply
  <2>8. CASE EnterLoop \/ LoopEnd \/ CloseReturns \/ Reload
    BY <2>1, <2>8 DEF EnterLoop, LoopEnd, CloseReturns, Reload, RowInv
  <2>9. CASE Launch \/ LaunchUpgraded \/ Stop \/ CrashInSplice
    BY <2>2, <2>9 DEF Launch, LaunchUpgraded, Stop, CrashInSplice
  <2>10. CASE UNCHANGED vars
    BY <2>1, <2>10 DEF vars
  <2> QED BY <2>3, <2>4, <2>5, <2>6, <2>7, <2>8, <2>9, <2>10 DEF Next, User, Thread
<1> QED BY <1>1, <1>2, TypeCorrect, PTL DEF Spec
-----------------------------------------------------------------------------
(* Freshness.  If an aborted request completes before the user's next step, *)
(* no request of an earlier sync can end a wait of the current one; then a  *)
(* row is only marked done after its own reply, and what it stored is at    *)
(* least as new as the version file, which the same sync stored first.      *)

FreshEnough(e) ==
  Upload(e) \/ user[File(e)] = Broken \/ user[File(e)] >= user[VersionFile]

FreshInv ==
  /\ late # {} => cancel /\ pc \in {"loop", "closing", "reload", "idle"}
  /\ pc = "closing" => cancel
  /\ pc = "wait" /\ quit => cancel \/ ~busy
  /\ pc = "wait" /\ ~busy /\ ~error /\ our < srv => FreshEnough(Current)
  /\ pc \in {"loop", "wait", "reload"} /\ ~cancel /\ our < srv =>
       \A e \in Listed \ todo : FreshEnough(e)

\* An entry above another one is not the upload of the other's file.
LEMMA ReplyLeavesDownloadsAlone ==
  ASSUME NEW d \in E, NEW u \in E, d > u, ~Upload(d), Upload(u)
  PROVE  File(d) # File(u)
BY EntryFacts, EntriesAssumption

\* A reply stored for the current action leaves the processed rows fresh.
LEMMA StoredKeepsFresh ==
  ASSUME TypeOK, WaitInv, RowInv, VersionInv, pc = "wait", busy,
         NEW c \in Bodies(Current) \cup {Broken}, user' = Stored(Current, c),
         Current' = Current
  PROVE  /\ FreshEnough(Current)'
         /\ \A e \in Listed \ todo : FreshEnough(e) => FreshEnough(e)'
<1>1. Current \in E /\ Current \in todo /\ todo # {}
  BY RestIsBelow DEF WaitInv, RowInv
<1>2. \A e \in Listed \ todo : e \in E /\ e > Current
  BY <1>1, ListedType DEF RowInv
<1>3. \A f \in Files : user'[f] = IF f = File(Current) THEN c ELSE user[f]
  BY <1>1, EntryFacts DEF Stored, TypeOK
<1>4. user[VersionFile] <= sentAt /\ user[VersionFile] \in Int /\ sentAt \in Nat
  BY EntryFacts DEF VersionInv, TypeOK, Contents, Absent, Broken, Reply
<1>5. c = Broken \/ (Upload(Current) /\ c = Reply) \/ (~Upload(Current) /\ c \in Int /\ c >= sentAt)
  BY DEF Bodies, TypeOK
<1>6. FreshEnough(Current)'
  <2>1. user'[File(Current)] = c
    BY <1>1, <1>3, EntryFacts
  <2>2. CASE Current = N
    <3>1. user'[VersionFile] = c
      BY <1>1, <2>1, <2>2, EntryFacts
    <3>2. c \in Int
      BY <1>5 DEF Broken, Reply
    <3> QED BY <2>1, <2>2, <3>1, <3>2 DEF FreshEnough
  <2>3. CASE Current # N
    <3>1. user'[VersionFile] = user[VersionFile]
      BY <1>1, <1>3, <2>3, EntryFacts
    <3> QED BY <1>4, <1>5, <2>1, <3>1 DEF FreshEnough
  <2> QED BY <2>2, <2>3
<1>7. ASSUME NEW e \in Listed \ todo, FreshEnough(e) PROVE FreshEnough(e)'
  <2>1. e \in E /\ e > Current /\ Current # N
    BY <1>1, <1>2, EntryFacts
  <2>2. user'[VersionFile] = user[VersionFile]
    BY <1>1, <1>3, <2>1, EntryFacts
  <2>3. user'[File(e)] = IF File(e) = File(Current) THEN c ELSE user[File(e)]
    BY <1>3, <2>1, EntryFacts
  <2>4. CASE File(e) # File(Current)
    BY <1>7, <2>2, <2>3, <2>4 DEF FreshEnough
  <2>5. CASE File(e) = File(Current) /\ ~Upload(e)
    <3>1. ~Upload(Current)
      BY <1>1, <2>1, <2>5, ReplyLeavesDownloadsAlone
    <3> QED BY <1>4, <1>5, <2>2, <2>3, <2>5, <3>1 DEF FreshEnough
  <2>6. CASE Upload(e)
    BY <2>6 DEF FreshEnough
  <2> QED BY <2>4, <2>5, <2>6
<1> QED BY <1>6, <1>7

\* A file that is broken, the version file apart, leaves every row fresh.
LEMMA BrokenKeepsFresh ==
  ASSUME TypeOK, WaitInv, RowInv, pc = "wait",
         user' \in {user, Stored(Current, Broken)}, Current # N
  PROVE  \A e \in Listed \ todo : FreshEnough(e) => FreshEnough(e)'
<1>1. Current \in E
  BY RestIsBelow DEF WaitInv, RowInv
<1>2. \A f \in Files : user'[f] = user[f] \/ (f = File(Current) /\ user'[f] = Broken)
  BY <1>1, EntryFacts DEF Stored, TypeOK
<1>3. user'[VersionFile] = user[VersionFile]
  BY <1>1, <1>2, EntryFacts
<1>4. \A e \in Listed \ todo : File(e) \in Files
  BY ListedType, EntryFacts
<1> QED BY <1>2, <1>3, <1>4 DEF FreshEnough

\* Every step of the dialog, the faults of the replies included, keeps FreshInv.
LEMMA FreshInvHolds ==
  ASSUME PromptAbort PROVE Spec => []FreshInv
<1> USE DEF files, glob, rows, req, flags
<1> DEFINE Known == TypeOK /\ WaitInv /\ RowInv /\ VersionInv
<1>1. Init => FreshInv
  BY DEF Init, FreshInv
<1>2. Known /\ FreshInv /\ [Next]_vars => FreshInv'
  <2> SUFFICES ASSUME TypeOK, WaitInv, RowInv, VersionInv, FreshInv, [Next]_vars
               PROVE  FreshInv'
    OBVIOUS
  <2>1. CASE Publish \/ UNCHANGED vars
    <3>1. /\ UNCHANGED <<user, pc, our, srv, ticked, todo, busy, error, cancel, quit, late>>
          /\ Listed' = Listed /\ Current' = Current
      BY <2>1 DEF Publish, vars, Listed, Selected, Current
    <3>2. \A e : FreshEnough(e)' <=> FreshEnough(e)
      BY <3>1 DEF FreshEnough
    <3> QED BY <3>1, <3>2 DEF FreshInv
  <2>2. CASE Launch \/ LaunchUpgraded \/ Stop \/ CrashInSplice
    <3>1. late' = {} /\ pc' \in {"down", "idle"}
      BY <2>2 DEF Launch, LaunchUpgraded, Stop, CrashInSplice, FreshProcess
    <3> QED BY <3>1 DEF FreshInv
  <2>3. CASE OpenDialog \/ StartSync
    <3>1. late' = {} /\ pc' \in {"confirm", "prelude"}
      BY <2>3, PromptAbort DEF OpenDialog, StartSync, UserMayAct
    <3> QED BY <3>1 DEF FreshInv
  <2>4. CASE Toggle \/ Dismiss
    <3>1. late' = late /\ cancel' = cancel /\ pc = "confirm" /\ pc' \in {"confirm", "idle"}
      BY <2>4 DEF Toggle, Dismiss
    <3> QED BY <3>1 DEF FreshInv
  <2>5. CASE EnterLoop
    <3>1. Listed' = Listed /\ Listed' \ todo' = {}
      BY <2>5 DEF EnterLoop, Listed, Selected, RowInv
    <3>2. late' = {} /\ pc' = "loop"
      BY <2>5 DEF EnterLoop, FreshInv
    <3> QED BY <3>1, <3>2 DEF FreshInv
  <2>6. CASE CancelClick
    <3>1. UNCHANGED <<user, pc, busy, error, our, srv>> /\ late' = {} /\ cancel'
      BY <2>6 DEF CancelClick, FreshInv
    <3>2. Current' = Current
      BY <2>6 DEF CancelClick, Current
    <3>3. FreshEnough(Current)' <=> FreshEnough(Current)
      BY <3>1, <3>2 DEF FreshEnough
    <3> QED BY <3>1, <3>3 DEF FreshInv
  <2>7. CASE LoopCanceled \/ CloseClick \/ CloseReturns \/ Reload \/ LateReply
    <3>1. CASE LoopCanceled \/ CloseClick \/ CloseReturns
      BY <3>1 DEF LoopCanceled, CloseClick, CloseReturns, FreshInv
    <3>2. CASE Reload
      BY <3>2 DEF Reload, FreshInv
    <3>3. CASE LateReply
      <4>1. cancel /\ cancel' = cancel /\ pc' = pc /\ pc \in {"closing", "reload", "idle"}
        BY <3>3 DEF LateReply, FreshInv
      <4> QED BY <4>1 DEF FreshInv
    <3> QED BY <2>7, <3>1, <3>2, <3>3
  <2>8. CASE LoopSkip
    <3>1. ~(our < srv) /\ ~cancel /\ pc' = "loop" /\ UNCHANGED <<our, srv, late>> /\ late = {}
      BY <2>8 DEF LoopSkip, Wanted, FreshInv
    <3> QED BY <3>1 DEF FreshInv
  <2>9. CASE LoopSend \/ LoopEnd
    <3>1. Listed' = Listed /\ UNCHANGED <<user, our, srv, todo, cancel, late>>
      BY <2>9 DEF LoopSend, LoopEnd, Listed, Selected
    <3>2. \A e : FreshEnough(e)' <=> FreshEnough(e)
      BY <3>1 DEF FreshEnough
    <3>3. CASE LoopSend
      <4>1. pc' = "wait" /\ busy' /\ ~quit' /\ pc = "loop" /\ ~cancel
        BY <3>3 DEF LoopSend
      <4> QED BY <3>1, <3>2, <4>1 DEF FreshInv
    <3>4. CASE LoopEnd
      <4>1. pc = "loop" /\ pc' = (IF cancel THEN "closing" ELSE "reload")
        BY <3>4 DEF LoopEnd
      <4> QED BY <3>1, <3>2, <4>1 DEF FreshInv
    <3> QED BY <2>9, <3>3, <3>4
  <2>10. CASE RequestReturns
    <3>1. /\ Listed' = Listed /\ UNCHANGED <<user, our, srv>> /\ pc = "wait" /\ pc' = "loop"
          /\ cancel' = (cancel \/ error)
      BY <2>10 DEF RequestReturns, Listed, Selected
    <3>2. \A e : FreshEnough(e)' <=> FreshEnough(e)
      BY <3>1 DEF FreshEnough
    <3>3. late' # {} => cancel'
      BY <2>10 DEF RequestReturns, FreshInv
    <3>4. ASSUME ~cancel', our < srv
          PROVE  \A e \in Listed \ todo' : FreshEnough(e)
      <4>1. ~busy /\ ~error /\ todo' = todo \ {Current}
        BY <2>10, <3>1, <3>4 DEF RequestReturns, Remaining, FreshInv, TypeOK
      <4>2. FreshEnough(Current)
        BY <3>1, <3>4, <4>1 DEF FreshInv
      <4>3. \A e \in Listed \ todo : FreshEnough(e)
        BY <3>1, <3>4 DEF FreshInv
      <4> QED BY <4>1, <4>2, <4>3
    <3> QED BY <3>1, <3>2, <3>3, <3>4 DEF FreshInv
  <2>11. CASE Network
    <3>1. /\ pc = "wait" /\ pc' = "wait" /\ busy /\ ~busy' /\ late' = {}
          /\ UNCHANGED <<our, cancel>>
      BY <2>11 DEF Network, ReplyOk, ReplyNetError, ReplyPartial, ReplyDiskError, FreshInv
    <3>2. Listed' = Listed /\ todo' = todo /\ Current' = Current
      BY <2>11 DEF Network, ReplyOk, ReplyNetError, ReplyPartial, ReplyDiskError,
                   Listed, Selected, Current
    <3>3. /\ Current \in E /\ todo # {}
          /\ \A e \in Listed \ todo : e \in E /\ e > Current
      BY <3>1, RestIsBelow, ListedType DEF WaitInv, RowInv
    <3>4. CASE ReplyOk
      <4>1. PICK c \in Bodies(Current) \cup {Broken} : user' = Stored(Current, c)
        BY <3>4 DEF ReplyOk
      <4>2. /\ FreshEnough(Current)'
            /\ \A e \in Listed \ todo : FreshEnough(e) => FreshEnough(e)'
        BY <3>1, <3>2, <4>1, StoredKeepsFresh
      <4>3. Current = N => Listed \ todo = {}
        BY <3>3, EntryFacts
      <4>4. Current # N => srv' = srv
        BY <3>4 DEF ReplyOk, ReadBack
      <4>5. \A e \in Listed \ todo : our < srv' /\ ~cancel => FreshEnough(e)'
        BY <3>1, <4>2, <4>3, <4>4 DEF FreshInv
      <4> QED BY <3>1, <3>2, <4>2, <4>5 DEF FreshInv
    <3>5. CASE ReplyNetError
      <4>1. error' /\ UNCHANGED <<user, srv>>
        BY <3>5 DEF ReplyNetError
      <4>2. \A e : FreshEnough(e)' <=> FreshEnough(e)
        BY <4>1 DEF FreshEnough
      <4> QED BY <3>1, <3>2, <4>1, <4>2 DEF FreshInv
    <3>6. CASE ReplyPartial \/ ReplyDiskError
      <4>1. error' /\ user' \in {user, Stored(Current, Broken)}
        BY <3>6, TruncatedIs DEF ReplyPartial, ReplyDiskError
      <4>2. Current = N => Listed \ todo = {}
        BY <3>3, EntryFacts
      <4>3. Current # N => srv' = srv
        BY <3>6 DEF ReplyPartial, ReplyDiskError, ReadBack
      <4>4. Current # N => \A e \in Listed \ todo : FreshEnough(e) => FreshEnough(e)'
        BY <3>1, <4>1, BrokenKeepsFresh
      <4>5. \A e \in Listed \ todo : our < srv' /\ ~cancel => FreshEnough(e)'
        BY <3>1, <4>2, <4>3, <4>4 DEF FreshInv
      <4> QED BY <3>1, <3>2, <4>1, <4>5 DEF FreshInv
    <3> QED BY <2>11, <3>4, <3>5, <3>6 DEF Network
  <2> QED BY <2>1, <2>2, <2>3, <2>4, <2>5, <2>6, <2>7, <2>8, <2>9, <2>10, <2>11
          DEF Next, User, Thread
<1>3. Spec => []Known
  BY TypeCorrect, RowsInOrder, VersionsBounded, PTL
<1> QED BY <1>1, <1>2, <1>3, PTL DEF Spec

\* A sync that runs through and found the server ahead has brought every file it
\* lists to the version it recorded, for every list of entries.
THEOREM CleanSyncIsFreshHolds ==
  ASSUME PromptAbort PROVE Spec => []CleanSyncIsFresh
<1>1. RowInv /\ FreshInv => CleanSyncIsFresh
  BY DEF RowInv, FreshInv, CleanSyncIsFresh, Clean, FreshEnough
<1> QED BY <1>1, RowsInOrder, FreshInvHolds, PTL
-----------------------------------------------------------------------------
(* The upload.  An answer is still to be replaced from the start of a sync  *)
(* on: the download of the same file is registered before the upload, so it *)
(* runs after it, and it is never the entry left out.                       *)

ToBeReplaced(f) == \E d \in todo : ~Upload(d) /\ ~Optional(d) /\ File(d) = f

ReplyInv ==
  /\ \A e \in E : ~Upload(e) => ticked[e]
  /\ \A f \in Files : user[f] = Reply => \E u \in E : Upload(u) /\ File(u) = f
  /\ pc = "wait" /\ ~busy /\ ~error /\ ~Upload(Current) => user[File(Current)] # Reply
  /\ pc \in {"loop", "wait", "reload"} /\ ~cancel =>
       \A f \in Files : user[f] = Reply => ToBeReplaced(f)

\* The download of a file that is uploaded is listed by every sync.
LEMMA DownloadIsListed ==
  ASSUME TypeOK, \A e \in E : ~Upload(e) => ticked[e], NEW u \in E, Upload(u)
  PROVE  \E d \in Listed : ~Upload(d) /\ ~Optional(d) /\ File(d) = File(u) /\ d < u
<1>1. PICK d \in E : ~Upload(d) /\ ~Optional(d) /\ File(d) = File(u) /\ d < u
  BY EntriesAssumption
<1>2. 1 \in E /\ File(1) # File(u)
  BY EntryFacts, EntriesAssumption
<1>3. ~Upload(1)
  BY <1>2, EntriesAssumption
<1>4. 1 \in Selected /\ d \in Selected /\ Selected \subseteq Nat
  BY <1>1, <1>2, <1>3, EntryFacts DEF Selected
<1>5. Min(Selected) \in Selected /\ Min(Selected) <= 1
  BY <1>4, MinIsLeast
<1>6. Min(Selected) = 1
  BY <1>5, EntryFacts DEF Selected
<1> QED BY <1>1, <1>2, <1>4, <1>6 DEF Listed

\* What a reply to e leaves in a file was there or is broken, or it is in e's own file
\* and an answer if and only if e uploads.
LEMMA NetworkIs ==
  ASSUME TypeOK, WaitInv, Network
  PROVE  /\ Current \in E
         /\ \A f \in Files : user'[f] = Reply => user[f] = Reply \/ (f = File(Current) /\ Upload(Current))
         /\ error' \/ Upload(Current) \/ user'[File(Current)] # Reply
<1>1. pc = "wait" /\ Current \in E
  BY CurrentIsTodo DEF Network, ReplyOk, ReplyNetError, ReplyPartial, ReplyDiskError, WaitInv, TypeOK
<1>2. CASE ReplyOk
  <2>1. PICK c \in Bodies(Current) \cup {Broken} : user' = Stored(Current, c)
    BY <1>2 DEF ReplyOk
  <2>2. ~Upload(Current) => c # Reply
    BY <2>1 DEF Bodies, TypeOK, Broken, Reply
  <2>3. \A f \in Files : user'[f] = IF f = File(Current) THEN c ELSE user[f]
    BY <1>1, <2>1, EntryFacts DEF Stored, TypeOK
  <2> QED BY <1>1, <2>2, <2>3, EntryFacts
<1>3. CASE ReplyNetError \/ ReplyPartial \/ ReplyDiskError
  <2>1. error' /\ user' \in {user, Stored(Current, Broken)}
    BY <1>3, TruncatedIs DEF ReplyNetError, ReplyPartial, ReplyDiskError, files
  <2>2. \A f \in Files : user'[f] \in {user[f], Broken}
    BY <1>1, <2>1, EntryFacts DEF Stored, TypeOK
  <2> QED BY <1>1, <2>1, <2>2 DEF Broken, Reply
<1> QED BY <1>2, <1>3 DEF Network

\* Every step of the dialog keeps ReplyInv: an answer appears only while its download is
\* to come, and the download that takes it out of the list has overwritten it.
LEMMA ReplyInvHolds ==
  ASSUME PromptAbort PROVE Spec => []ReplyInv
<1> USE DEF files, glob, rows, req, flags
<1> DEFINE Known == TypeOK /\ WaitInv /\ RowInv /\ FreshInv
<1>1. Init => ReplyInv
  <2> SUFFICES ASSUME Init PROVE ReplyInv
    OBVIOUS
  <2>1. \A f \in Files : user[f] = -1
    BY DEF Init, Absent
  <2> QED BY <2>1 DEF Init, ReplyInv, Reply
<1>2. Known /\ ReplyInv /\ [Next]_vars => ReplyInv'
  <2> SUFFICES ASSUME TypeOK, WaitInv, RowInv, FreshInv, ReplyInv, [Next]_vars
               PROVE  ReplyInv'
    OBVIOUS
  <2>1. CASE Publish \/ CancelClick \/ UNCHANGED vars
    <3>1. /\ UNCHANGED <<user, pc, ticked, todo, busy, error>> /\ (cancel => cancel')
          /\ Current' = Current
      BY <2>1 DEF Publish, CancelClick, vars, Current
    <3> QED BY <3>1 DEF ReplyInv, ToBeReplaced
  <2>2. CASE Launch \/ LaunchUpgraded \/ Stop \/ CrashInSplice
    <3>1. pc' \in {"down", "idle"} /\ \A e \in E : ticked'[e]
      BY <2>2 DEF Launch, LaunchUpgraded, Stop, CrashInSplice, FreshProcess
    <3>2. \A f \in Files : user'[f] \in {user[f], -1, -2}
      <4>1. CASE CrashInSplice
        <5>1. Current \in E /\ user' = Stored(Current, Broken)
          BY <4>1, CurrentIsTodo DEF CrashInSplice, WaitInv, TypeOK
        <5> QED BY <5>1 DEF Stored, Broken, TypeOK
      <4>2. CASE Launch \/ LaunchUpgraded \/ Stop
        BY <4>2 DEF Launch, LaunchUpgraded, Stop, WithoutFiles, Absent
      <4> QED BY <2>2, <4>1, <4>2
    <3> QED BY <3>1, <3>2 DEF ReplyInv, Reply
  <2>3. CASE OpenDialog \/ Toggle \/ Dismiss
    <3>1. user' = user /\ pc' \in {"confirm", "idle"}
      BY <2>3 DEF OpenDialog, Toggle, Dismiss
    <3>2. \A e \in E : ~Upload(e) => ticked'[e]
      BY <2>3 DEF OpenDialog, Toggle, Dismiss, ReplyInv, TypeOK
    <3> QED BY <3>1, <3>2 DEF ReplyInv
  <2>4. CASE StartSync \/ CloseClick \/ Reload
    <3>1. UNCHANGED <<user, ticked>> /\ pc' \in {"prelude", "closing", "idle"}
      BY <2>4 DEF StartSync, CloseClick, Reload
    <3> QED BY <3>1 DEF ReplyInv
  <2>5. CASE EnterLoop
    <3>1. UNCHANGED <<user, ticked, todo>> /\ pc' = "loop" /\ todo = Listed
      BY <2>5 DEF EnterLoop, RowInv
    <3>2. \A f \in Files : user[f] = Reply => ToBeReplaced(f)
      BY <3>1, DownloadIsListed DEF ReplyInv, ToBeReplaced
    <3> QED BY <3>1, <3>2 DEF ReplyInv, ToBeReplaced
  <2>6. CASE LoopCanceled \/ LoopEnd \/ CloseReturns
    <3>1. CASE LoopCanceled
      BY <3>1 DEF LoopCanceled, ReplyInv
    <3>2. CASE LoopEnd
      <4>1. UNCHANGED <<user, ticked, todo, cancel>> /\ pc = "loop" /\ pc' # "wait"
        BY <3>2 DEF LoopEnd
      <4> QED BY <4>1 DEF ReplyInv, ToBeReplaced
    <3>3. CASE CloseReturns
      BY <3>3 DEF CloseReturns, ReplyInv, FreshInv
    <3> QED BY <2>6, <3>1, <3>2, <3>3
  <2>7. CASE LoopSkip
    <3>1. /\ UNCHANGED <<user, ticked, cancel, pc>> /\ pc = "loop" /\ todo' = todo \ {Current}
          /\ ~cancel /\ Optional(Current)
      BY <2>7 DEF LoopSkip, Wanted
    <3> QED BY <3>1 DEF ReplyInv, ToBeReplaced
  <2>8. CASE LoopSend
    <3>1. UNCHANGED <<user, ticked, cancel, todo>> /\ pc = "loop" /\ busy'
      BY <2>8 DEF LoopSend
    <3> QED BY <3>1 DEF ReplyInv, ToBeReplaced
  <2>9. CASE RequestReturns
    <3>1. /\ UNCHANGED <<user, ticked>> /\ pc = "wait" /\ quit /\ pc' = "loop"
          /\ cancel' = (cancel \/ error)
          /\ todo' = Remaining(error)
      BY <2>9 DEF RequestReturns
    <3>2. ASSUME ~cancel', NEW f \in Files, user[f] = Reply
          PROVE  ToBeReplaced(f)'
      <4>1. ~cancel /\ ~error /\ ~busy /\ todo' = todo \ {Current}
        BY <3>1, <3>2 DEF FreshInv, Remaining, TypeOK
      <4>2. PICK d \in todo : ~Upload(d) /\ ~Optional(d) /\ File(d) = f
        BY <3>1, <3>2, <4>1 DEF ReplyInv, ToBeReplaced
      <4>3. d # Current
        BY <3>1, <3>2, <4>1, <4>2 DEF ReplyInv
      <4> QED BY <4>1, <4>2, <4>3 DEF ToBeReplaced
    <3> QED BY <3>1, <3>2 DEF ReplyInv
  <2>10. CASE Network
    <3>1. /\ pc = "wait" /\ UNCHANGED <<ticked, todo, cancel, pc>> /\ Current' = Current
          /\ busy /\ ~busy'
      BY <2>10 DEF Network, ReplyOk, ReplyNetError, ReplyPartial, ReplyDiskError, Current
    <3>2. ASSUME NEW f \in Files, user'[f] = Reply
          PROVE  \E u \in E : Upload(u) /\ File(u) = f
      BY <2>10, <3>2, NetworkIs DEF ReplyInv
    <3>3. ASSUME ~cancel, NEW f \in Files, user'[f] = Reply
          PROVE  ToBeReplaced(f)
      <4>1. CASE user[f] = Reply
        BY <3>1, <3>3, <4>1 DEF ReplyInv
      <4>2. CASE f = File(Current) /\ Upload(Current)
        <5>1. PICK d \in Listed : ~Upload(d) /\ ~Optional(d) /\ File(d) = f /\ d < Current
          BY <2>10, <4>2, NetworkIs, DownloadIsListed DEF ReplyInv
        <5>2. Current \in todo /\ Current \in Nat /\ d \in Nat
          BY <3>1, <5>1, RestIsBelow, ListedType, EntryFacts DEF RowInv, WaitInv
        <5>3. d \in todo
          BY <5>1, <5>2 DEF RowInv
        <5> QED BY <5>1, <5>3 DEF ToBeReplaced
      <4> QED BY <2>10, <3>3, <4>1, <4>2, NetworkIs
    <3>4. ~error' /\ ~Upload(Current) => user'[File(Current)] # Reply
      BY <2>10, NetworkIs
    <3> QED BY <3>1, <3>2, <3>3, <3>4 DEF ReplyInv, ToBeReplaced
  <2>11. CASE LateReply
    <3>1. /\ cancel /\ UNCHANGED <<ticked, todo, cancel, pc>> /\ pc # "wait"
      BY <2>11 DEF LateReply, FreshInv
    <3>2. PICK e \in E : user' \in {user, Stored(e, Broken)}
      BY <2>11, PromptAbort, LateReplyIs
    <3>3. \A f \in Files : user'[f] \in {user[f], -2}
      BY <3>2 DEF Stored, Broken, TypeOK
    <3> QED BY <3>1, <3>3 DEF ReplyInv, Reply
  <2> QED BY <2>1, <2>2, <2>3, <2>4, <2>5, <2>6, <2>7, <2>8, <2>9, <2>10, <2>11
          DEF Next, User, Thread
<1>3. Spec => []Known
  BY TypeCorrect, RowsInOrder, FreshInvHolds, PTL
<1> QED BY <1>1, <1>2, <1>3, PTL DEF Spec

\* A sync that runs through leaves no answer of the upload behind, not even that of an
\* earlier sync which failed in between: the download that replaces it runs later, is
\* never optional, and is never the entry the loop leaves out.
THEOREM UploadAnswerReplacedHolds ==
  ASSUME PromptAbort PROVE Spec => []UploadAnswerReplaced
<1>1. RowInv /\ ReplyInv => UploadAnswerReplaced
  BY DEF RowInv, ReplyInv, ToBeReplaced, UploadAnswerReplaced, Clean
<1> QED BY <1>1, RowsInOrder, ReplyInvHolds, PTL

\* A request that uploads is only ever started with its entry ticked, whoever ends the
\* waits of the requests before it.
THEOREM OptOutIsHonoured == Spec => OptOutHonoured
<1>1. TypeOK /\ RowInv /\ [Next]_vars =>
        [pc' = "wait" /\ pc # "wait" /\ Upload(Current) => ticked[Current]]_vars
  <2> SUFFICES ASSUME TypeOK, RowInv, Next, pc' = "wait", pc # "wait", Upload(Current)
               PROVE  ticked[Current]
    OBVIOUS
  <2>1. LoopSend
    BY DEF Next, Publish, Launch, LaunchUpgraded, Stop, CrashInSplice, User, OpenDialog, Toggle,
           Dismiss, StartSync, CancelClick, CloseClick, Thread, EnterLoop, LoopCanceled, LoopSkip,
           LoopEnd, RequestReturns, CloseReturns, Reload, Network, ReplyOk, ReplyNetError,
           ReplyPartial, ReplyDiskError, LateReply
  <2>2. Current \in Selected
    BY <2>1, RestIsBelow, ListedType DEF LoopSend, RowInv
  <2> QED BY <2>2, EntryFacts DEF Selected
<1> QED BY <1>1, TypeCorrect, RowsInOrder, PTL DEF Spec, OptOutHonoured
=============================================================================
