-------------------------- MODULE SyncStartupProofs --------------------------
(***************************************************************************)
(* Theorems about "Synchronize on startup", for every list of entries,     *)
(* every set of faults and any number of versions.                         *)
(***************************************************************************)
EXTENDS SyncStartup, WellFoundedInduction, TLAPS, FiniteSetTheorems, SequenceTheorems

\* The entries' fields are what the assumption says, and indices are naturals.
LEMMA EntryFacts ==
  /\ N \in Nat /\ N >= 2 /\ E = 1..N /\ E \subseteq Nat
  /\ \A e \in E : Optional(e) \in BOOLEAN /\ Upload(e) \in BOOLEAN /\ File(e) \in Files
  /\ VersionFile \in Files
  /\ \A d, e \in E : File(d) = File(e) /\ ~Upload(d) /\ ~Upload(e) => d = e
<1>1. E = 1..N
  BY DEF E, N
<1>2. N \in Nat /\ N >= 2 /\ E \subseteq Nat /\ N \in E
  BY <1>1, EntriesAssumption
<1>3. \A e \in E : File(e) \in Files
  BY DEF Files, File
<1> QED BY <1>1, <1>2, <1>3, EntriesAssumption

StartupTypeOK ==
  /\ server \in Nat /\ packaged \in Nat /\ user \in [Files -> Contents]
  /\ our \in Nat /\ srv \in Nat
  /\ pc \in {"down", "running", "quitting"}
  /\ queue \subseteq E /\ frames \in Seq(E) /\ freed \subseteq E
  /\ sentAt \in [E -> Nat \cup {Absent}]
  /\ turning \in {"run", "quit", "unwind"} /\ refs \in Int
  /\ dialog \in {"none", "open", "closed"}

\* Every callback that is still queued and every frame inside its request holds a
\* reference to the loop, besides that of g_main_loop_new(): as long as the dialog has
\* not taken the global, that many references are left.
ReferenceInv ==
  /\ pc = "down" => queue = {} /\ frames = <<>> /\ Flying = {}
  /\ pc # "down" /\ dialog = "none" => refs >= 1 + Cardinality(queue) + Len(frames)

\* Nothing on disk is newer than the server, nor the file of a request newer than the
\* server was when the request was sent.
VersionInv ==
  /\ \A f \in Files : user[f] <= server
  /\ \A e \in Flying : ~Upload(e) /\ sentAt[e] <= server /\ user[File(e)] <= sentAt[e]
-----------------------------------------------------------------------------
(* Types                                                                    *)

\* Every non-empty set of naturals has a least element.
LEMMA LeastExists ==
  ASSUME NEW T, T \subseteq Nat, T # {}
  PROVE  \E x \in T : \A y \in T : x <= y
<1> DEFINE R == OpToRel(<, Nat)
<1>1. IsWellFoundedOn(R, Nat)
  BY NatLessThanWellFounded, Zenon
<1>2. \A x, y \in Nat : x < y => <<x, y>> \in R
  BY DEF OpToRel
<1> HIDE DEF R
<1>3. PICK x \in T : \A y \in T : ~(<<y, x>> \in R)
  BY <1>1, WFMin, Zenon
<1>4. ASSUME NEW y \in T PROVE x <= y
  <2>1. x \in Nat /\ y \in Nat
    OBVIOUS
  <2>2. ~(y < x)
    BY <2>1, <1>2, <1>3, Zenon
  <2> QED BY <2>1, <2>2
<1> QED BY <1>4

\* Min(T) is in T and below every element of T.
LEMMA MinIsLeast ==
  ASSUME NEW T, T \subseteq Nat, T # {}
  PROVE  Min(T) \in T /\ \A y \in T : Min(T) <= y
BY LeastExists, Zenon DEF Min

\* The next entry of the queue is one of its entries.
LEMMA NextOfQueue ==
  ASSUME queue \subseteq E, queue # {}
  PROVE  Min(queue) \in queue /\ Min(queue) \in E
BY EntryFacts, MinIsLeast

\* What a reply can leave in the files is a content of the files.
LEMMA StoredType ==
  ASSUME StartupTypeOK, NEW e \in E, NEW c \in Contents
  PROVE  Stored(e, c) \in [Files -> Contents]
BY EntryFacts DEF Stored, StartupTypeOK

\* Truncated leaves the files as they are or one of them broken.
LEMMA TruncatedIs ==
  ASSUME NEW e
  PROVE  Truncated(e) \subseteq {user, Stored(e, Broken)}
BY DEF Truncated

\* A reply leaves the files as they are, one of them broken, or a body in it that the
\* server had after the request; and the version read back is a number.
LEMMA DeliveredIs ==
  ASSUME StartupTypeOK, NEW e \in E, Delivered(e)
  PROVE  /\ \/ user' = user
            \/ \E c \in Bodies(e) \cup {Broken} : user' = Stored(e, c)
         /\ user' \in [Files -> Contents]
         /\ srv' \in Nat
<1>1. user' = user \/ \E c \in Bodies(e) \cup {Broken} : user' = Stored(e, c)
  BY TruncatedIs DEF Delivered
<1>2. Bodies(e) \cup {Broken} \subseteq Contents
  <2>1. sentAt[e] \in {-1} \cup Nat /\ server \in Nat
    BY DEF StartupTypeOK, Absent
  <2> QED BY <2>1 DEF Bodies, Contents, Absent
<1>3. user' \in [Files -> Contents]
  BY <1>1, <1>2, StoredType DEF StartupTypeOK
<1>4. srv' \in Nat
  <2>1. srv' = srv \/ ReadBack(e)
    BY DEF Delivered
  <2>2. user'[VersionFile] \in Contents
    BY <1>3, EntryFacts
  <2> QED BY <2>1, <2>2 DEF ReadBack, Parse, IsVersion, Contents, Absent, Broken, Reply, StartupTypeOK
<1> QED BY <1>1, <1>3, <1>4

\* A program that starts reads a version number.
LEMMA BeginType ==
  ASSUME StartupTypeOK, NEW installed \in Nat, NEW found \in [Files -> Contents], Begin(installed, found)
  PROVE  StartupTypeOK'
<1>1. our' \in Nat /\ srv' \in Nat
  <2>1. found[VersionFile] \in Contents
    BY EntryFacts
  <2>2. our' = ReadOur(found[VersionFile], installed, 0) /\ srv' = 0
    BY DEF Begin
  <2> QED BY <2>1, <2>2 DEF ReadOur, Parse, IsVersion, Contents, Absent, Broken, Reply
<1>2. InitialRefs \in Int
  BY EntryFacts DEF InitialRefs
<1> QED BY <1>1, <1>2 DEF Begin, StartupTypeOK

\* The types of the variables: that of the stack of calls holds because a frame is
\* entered for an entry of the queue.
THEOREM TypeCorrect == Spec => []StartupTypeOK
<1>1. Init => StartupTypeOK
  <2> SUFFICES ASSUME Init PROVE StartupTypeOK
    OBVIOUS
  <2>1. server \in Nat /\ packaged \in Nat
    BY StartupAssumption DEF Init
  <2>2. user \in [Files -> Contents] /\ sentAt \in [E -> Nat \cup {Absent}]
    BY DEF Init, NoRequests, Contents
  <2> QED BY <2>1, <2>2 DEF Init, StartupTypeOK
<1>2. StartupTypeOK /\ [Next]_vars => StartupTypeOK'
  <2> SUFFICES ASSUME StartupTypeOK, [Next]_vars PROVE StartupTypeOK'
    OBVIOUS
  <2> USE DEF files, glob, stack
  <2>1. CASE Publish
    BY <2>1 DEF Publish, StartupTypeOK
  <2>2. CASE Start
    BY <2>2, BeginType DEF Start, StartupTypeOK
  <2>3. CASE StartUpgraded
    <3>1. PICK p \in (packaged + 1)..server : Begin(p, WithoutFiles(Cleaned))
      BY <2>3 DEF StartUpgraded
    <3>2. p \in Nat /\ WithoutFiles(Cleaned) \in [Files -> Contents]
      BY DEF WithoutFiles, Contents, StartupTypeOK
    <3> QED BY <3>1, <3>2, BeginType
  <2>4. CASE IdleSkip
    BY <2>4, NextOfQueue DEF IdleSkip, StartupTypeOK
  <2>5. CASE IdleSend
    BY <2>5, NextOfQueue DEF IdleSend, StartupTypeOK
  <2>6. CASE FrameReturns
    <3>1. Len(frames) \in 1..Len(frames) /\ frames[Len(frames)] \in E
      BY <2>6 DEF FrameReturns, StartupTypeOK
    <3>2. SubSeq(frames, 1, Len(frames) - 1) \in Seq(E)
      BY <3>1 DEF StartupTypeOK
    <3>3. frames' \in Seq(E) /\ freed' \subseteq E /\ refs' \in Int
      BY <2>6, <3>1, <3>2 DEF FrameReturns, StartupTypeOK
    <3> QED BY <2>6, <3>3 DEF FrameReturns, StartupTypeOK
  <2>7. CASE LiveReply \/ DeadReply
    <3>1. PICK e \in Flying : /\ Delivered(e) \/ UNCHANGED <<user, srv>>
                              /\ sentAt' = [sentAt EXCEPT ![e] = Absent]
      BY <2>7 DEF LiveReply, DeadReply
    <3>2. e \in E
      BY DEF Flying
    <3>3. user' \in [Files -> Contents] /\ srv' \in Nat
      BY <3>1, <3>2, DeliveredIs DEF StartupTypeOK
    <3> QED BY <2>7, <3>1, <3>3 DEF LiveReply, DeadReply, QuitLoop, StartupTypeOK
  <2>8. CASE DialogTakesLoop \/ DialogEnds \/ QuitClick
    BY <2>8 DEF DialogTakesLoop, DialogEnds, QuitClick, StartupTypeOK
  <2>9. CASE End \/ Stop \/ StopInSplice
    <3>1. user' \in [Files -> Contents]
      <4>1. CASE End \/ Stop
        BY <4>1 DEF End, Stop, StartupTypeOK
      <4>2. CASE StopInSplice
        <5>1. PICK e \in Flying : user' = Stored(e, Broken)
          BY <4>2 DEF StopInSplice
        <5>2. e \in E /\ Broken \in Contents
          BY DEF Flying, Contents
        <5> QED BY <5>1, <5>2, StoredType
      <4> QED BY <2>9, <4>1, <4>2
    <3>2. FreshProcess /\ pc' = "down" /\ UNCHANGED <<server, packaged>>
      BY <2>9 DEF End, Stop, StopInSplice
    <3> QED BY <3>1, <3>2 DEF FreshProcess, NoRequests, StartupTypeOK
  <2>10. CASE UNCHANGED vars
    BY <2>10 DEF vars, StartupTypeOK
  <2> QED BY <2>1, <2>2, <2>3, <2>4, <2>5, <2>6, <2>7, <2>8, <2>9, <2>10 DEF Next, Thread, Replies
<1> QED BY <1>1, <1>2, PTL DEF Spec
-----------------------------------------------------------------------------
(* The references of the loop                                               *)

\* To take an element out of the queue makes it one shorter; at first it is N long.
LEMMA QueueSize ==
  /\ Cardinality(E) = N
  /\ queue \subseteq E => /\ Cardinality(queue) \in Nat
                        /\ \A e \in queue : Cardinality(queue \ {e}) = Cardinality(queue) - 1
<1>1. IsFiniteSet(E) /\ Cardinality(E) = N
  BY EntryFacts, FS_Interval
<1>2. ASSUME queue \subseteq E PROVE IsFiniteSet(queue)
  BY <1>1, <1>2, FS_Subset
<1> QED BY <1>1, <1>2, FS_CardinalityType, FS_RemoveElement

\* The stack without its last frame is one shorter.
LEMMA ShorterByOne ==
  ASSUME NEW S, NEW s \in Seq(S), Len(s) # 0
  PROVE  Len(SubSeq(s, 1, Len(s) - 1)) = Len(s) - 1
<1>1. Len(s) - 1 \in Nat
  OBVIOUS
<1> DEFINE n == Len(s) - 1
<1>2. n \in Nat /\ n + 1 = Len(s)
  BY <1>1
<1>3. \A i \in 1..n : s[i] \in S
  BY <1>2
<1> QED BY <1>2, <1>3, SubSeqProperties

\* A process that ends leaves no reference, and no request, behind.
LEMMA FreshHolds ==
  ASSUME FreshProcess, pc' = "down"
  PROVE  ReferenceInv'
BY DEF FreshProcess, NoRequests, ReferenceInv, Flying

\* Whatever is queued or nested, its reference to the loop has not been dropped.
LEMMA ReferencesCounted == Spec => []ReferenceInv
<1>1. Init => ReferenceInv
  BY DEF Init, NoRequests, ReferenceInv, Flying
<1>2. StartupTypeOK /\ ReferenceInv /\ [Next]_vars => ReferenceInv'
  <2> SUFFICES ASSUME StartupTypeOK, ReferenceInv, [Next]_vars PROVE ReferenceInv'
    OBVIOUS
  <2> USE DEF files, glob, stack, ReferenceInv
  <2>1. CASE Publish \/ UNCHANGED vars
    BY <2>1 DEF Publish, vars, Flying
  <2>2. CASE Start \/ StartUpgraded
    <3>1. pc = "down" /\ pc' # "down" /\ queue' = E /\ refs' = InitialRefs /\ frames' = frames
      BY <2>2 DEF Start, StartUpgraded, Begin
    <3>2. Cardinality(queue') = N /\ Len(frames') = 0 /\ refs' = N + 1
      BY <3>1, QueueSize DEF InitialRefs
    <3> QED BY <3>1, <3>2, EntryFacts
  <2>3. CASE IdleSkip
    <3>1. PICK e \in queue : queue' = queue \ {e}
      BY <2>3, NextOfQueue DEF IdleSkip, StartupTypeOK
    <3>2. Cardinality(queue') = Cardinality(queue) - 1 /\ Cardinality(queue) \in Nat
      BY <3>1, QueueSize DEF StartupTypeOK
    <3>3. refs' = refs - 1 /\ UNCHANGED <<pc, frames, dialog>> /\ pc # "down"
      BY <2>3 DEF IdleSkip, Dispatching
    <3>4. refs \in Int /\ Len(frames) \in Nat
      BY DEF StartupTypeOK
    <3> QED BY <3>2, <3>3, <3>4
  <2>4. CASE IdleSend
    <3>1. PICK e \in queue : queue' = queue \ {e} /\ frames' = Append(frames, e)
      BY <2>4, NextOfQueue DEF IdleSend, StartupTypeOK
    <3>2. Cardinality(queue') = Cardinality(queue) - 1 /\ Cardinality(queue) \in Nat
      BY <3>1, QueueSize DEF StartupTypeOK
    <3>3. Len(frames') = Len(frames) + 1 /\ Len(frames) \in Nat /\ refs \in Int
      BY <3>1 DEF StartupTypeOK
    <3>4. UNCHANGED <<pc, refs, dialog>> /\ pc # "down"
      BY <2>4 DEF IdleSend, Dispatching
    <3> QED BY <3>2, <3>3, <3>4
  <2>5. CASE FrameReturns
    <3>1. Len(frames) \in Nat \ {0} /\ refs \in Int /\ Cardinality(queue) \in Nat
      BY <2>5, QueueSize DEF FrameReturns, StartupTypeOK
    <3>2. frames' = SubSeq(frames, 1, Len(frames) - 1)
      BY <2>5 DEF FrameReturns
    <3>3. Len(frames') = Len(frames) - 1
      BY <3>1, <3>2, ShorterByOne DEF StartupTypeOK
    <3>4. UNCHANGED <<pc, queue, dialog>> /\ pc # "down"
      BY <2>5 DEF FrameReturns
    <3>5. dialog = "none" => refs' = refs - 1
      BY <2>5 DEF FrameReturns
    <3> QED BY <3>1, <3>3, <3>4, <3>5
  <2>6. CASE Replies
    <3>1. pc # "down" /\ UNCHANGED <<pc, queue, frames, refs, dialog>>
      BY <2>6 DEF Replies, LiveReply, DeadReply
    <3> QED BY <3>1
  <2>7. CASE DialogTakesLoop \/ DialogEnds \/ QuitClick
    BY <2>7 DEF DialogTakesLoop, DialogEnds, QuitClick, Flying
  <2>8. CASE End \/ Stop \/ StopInSplice
    BY <2>8, FreshHolds DEF End, Stop, StopInSplice
  <2> QED BY <2>1, <2>2, <2>3, <2>4, <2>5, <2>6, <2>7, <2>8 DEF Next, Thread
<1> QED BY <1>1, <1>2, TypeCorrect, PTL DEF Spec

\* A reply never quits a loop that has been freed, however deep the requests nest and
\* however late the reply comes: while no dialog has taken the global, the reference of
\* g_main_loop_new() is left when all others have been dropped.
THEOREM LoopIsAlive == Spec => []LoopOutlivesReplies
<1>1. StartupTypeOK /\ ReferenceInv => LoopOutlivesReplies
  <2> SUFFICES ASSUME StartupTypeOK, ReferenceInv, Flying # {}, dialog = "none" PROVE refs > 0
    BY DEF LoopOutlivesReplies
  <2>1. Cardinality(queue) \in Nat /\ Len(frames) \in Nat /\ refs \in Int
    BY QueueSize DEF StartupTypeOK
  <2> QED BY <2>1 DEF ReferenceInv
<1> QED BY <1>1, TypeCorrect, ReferencesCounted, PTL

-----------------------------------------------------------------------------
(* The startup sync implements BlobCatalog.                                 *)

\* A file that becomes broken stays below every version, and others are as they were.
LEMMA StoredIs ==
  ASSUME StartupTypeOK, NEW e \in E, NEW c, user' = Stored(e, c)
  PROVE  \A f \in Files : user'[f] = IF f = File(e) THEN c ELSE user[f]
BY EntryFacts DEF StartupTypeOK, Stored

\* What a reply to e leaves in a file was there, is broken, or is in e's own and as new
\* as the server was when the request was sent.
LEMMA DeliveredBounds ==
  ASSUME StartupTypeOK, VersionInv, NEW e \in Flying, Delivered(e), server' = server
  PROVE  \A f \in Files : \/ user'[f] \in {user[f], Broken}
                          \/ f = File(e) /\ user'[f] \in sentAt[e]..server
<1>1. e \in E /\ ~Upload(e)
  BY DEF Flying, VersionInv
<1> SUFFICES ASSUME NEW f \in Files
             PROVE  \/ user'[f] \in {user[f], Broken}
                    \/ f = File(e) /\ user'[f] \in sentAt[e]..server
  OBVIOUS
<1>2. CASE user' = user
  BY <1>2
<1>3. CASE \E c \in Bodies(e) \cup {Broken} : user' = Stored(e, c)
  <2>1. PICK c \in Bodies(e) \cup {Broken} : user' = Stored(e, c)
    BY <1>3
  <2>2. user'[f] = IF f = File(e) THEN c ELSE user[f]
    BY <1>1, <2>1, StoredIs
  <2>3. c \in sentAt[e]..server \/ c = Broken
    BY <1>1, <2>1 DEF Bodies
  <2> QED BY <2>2, <2>3
<1> QED BY <1>1, <1>2, <1>3, DeliveredIs

\* No reply, however late, and no crash leaves data newer than the server's.
LEMMA VersionsBounded == Spec => []VersionInv
<1>1. Init => VersionInv
  <2> SUFFICES ASSUME Init PROVE VersionInv
    OBVIOUS
  <2>1. server \in Nat /\ (\A f \in Files : user[f] = -1) /\ Flying = {}
    BY StartupAssumption DEF Init, NoRequests, Flying, Absent
  <2> QED BY <2>1 DEF VersionInv
<1>2. StartupTypeOK /\ ReferenceInv /\ VersionInv /\ [Next]_vars => VersionInv'
  <2> SUFFICES ASSUME StartupTypeOK, ReferenceInv, VersionInv, [Next]_vars PROVE VersionInv'
    OBVIOUS
  <2> USE DEF files, glob, stack
  <2>1. server \in Nat /\ \A f \in Files : user[f] \in Int
    BY DEF StartupTypeOK, Contents, Absent, Broken, Reply
  <2>2. \A e \in Flying : e \in E /\ sentAt[e] \in Nat /\ File(e) \in Files
    BY EntryFacts DEF Flying, StartupTypeOK
  <2>3. CASE Publish
    <3>1. server' = server + 1 /\ UNCHANGED <<user, sentAt>> /\ Flying' = Flying
      BY <2>3 DEF Publish, Flying
    <3> QED BY <2>1, <2>2, <3>1 DEF VersionInv
  <2>4. CASE Start \/ StartUpgraded
    <3>1. server' = server /\ Flying = {} /\ Flying' = {}
      BY <2>4 DEF Start, StartUpgraded, Begin, Flying, ReferenceInv
    <3>2. \A f \in Files : user'[f] \in {-1, user[f]}
      BY <2>4 DEF Start, StartUpgraded, Begin, WithoutFiles, Absent
    <3> QED BY <2>1, <3>1, <3>2 DEF VersionInv
  <2>5. CASE IdleSkip \/ FrameReturns \/ DialogTakesLoop \/ DialogEnds \/ QuitClick \/ UNCHANGED vars
    <3>1. UNCHANGED <<server, user, sentAt>>
      BY <2>5 DEF IdleSkip, FrameReturns, DialogTakesLoop, DialogEnds, QuitClick, vars
    <3> QED BY <3>1 DEF VersionInv, Flying
  <2>6. CASE IdleSend
    <3>1. PICK e \in E : ~Upload(e) /\ sentAt' = [sentAt EXCEPT ![e] = server]
      BY <2>6, NextOfQueue DEF IdleSend, Sends, StartupTypeOK
    <3>2. UNCHANGED <<server, user>>
      BY <2>6 DEF IdleSend
    <3>3. \A d \in Flying' : (d \in Flying /\ sentAt'[d] = sentAt[d]) \/ (d = e /\ sentAt'[d] = server)
      BY <3>1 DEF Flying, StartupTypeOK
    <3> QED BY <2>1, <3>1, <3>2, <3>3, EntryFacts DEF VersionInv
  <2>7. CASE Replies
    <3>1. PICK e \in Flying : /\ Delivered(e) \/ UNCHANGED <<user, srv>>
                              /\ sentAt' = [sentAt EXCEPT ![e] = Absent]
      BY <2>7 DEF Replies, LiveReply, DeadReply
    <3>2. server' = server
      BY <2>7 DEF Replies, LiveReply, DeadReply
    <3>3. \A f \in Files : \/ user'[f] \in {user[f], Broken}
                           \/ f = File(e) /\ user'[f] \in sentAt[e]..server
      BY <3>1, <3>2, DeliveredBounds
    <3>4. \A d \in Flying' : d \in Flying /\ d # e /\ sentAt'[d] = sentAt[d]
      BY <3>1 DEF Flying, StartupTypeOK
    <3>5. ASSUME NEW d \in Flying'
          PROVE  user'[File(d)] \in {user[File(d)], -2}
      <4>1. d \in Flying /\ d # e
        BY <3>4
      <4>2. File(d) # File(e)
        BY <2>2, <4>1, EntryFacts DEF VersionInv
      <4>3. File(d) \in Files
        BY <2>2, <4>1
      <4> QED BY <3>3, <4>2, <4>3 DEF Broken
    <3>6. \A f \in Files : user'[f] <= server
      BY <2>1, <2>2, <3>3 DEF VersionInv, Broken
    <3> QED BY <2>2, <3>2, <3>4, <3>5, <3>6 DEF VersionInv
  <2>8. CASE End \/ Stop \/ StopInSplice
    <3>1. server' = server /\ Flying' = {}
      BY <2>8 DEF End, Stop, StopInSplice, FreshProcess, NoRequests, Flying
    <3>2. \A f \in Files : user'[f] \in {user[f], -2}
      BY <2>2, <2>8, StoredIs DEF End, Stop, StopInSplice, Broken
    <3> QED BY <2>1, <3>1, <3>2 DEF VersionInv
  <2> QED BY <2>3, <2>4, <2>5, <2>6, <2>7, <2>8 DEF Next, Thread
<1> QED BY <1>1, <1>2, TypeCorrect, ReferencesCounted, PTL DEF Spec

\* The instance's copies of SyncData's definitions are the module's own.
LEMMA CatalogData ==
  /\ Catalog!Files = Files
  /\ Catalog!Absent = Absent /\ Catalog!Broken = Broken
BY DEF Catalog!Files, Files, Catalog!E, E, Catalog!File, File, Catalog!Absent, Absent,
       Catalog!Broken, Broken

\* A file that becomes broken is a step of the catalogue, and so is a body of a version
\* that is not older than the file.
LEMMA StoreIsAStep ==
  ASSUME StartupTypeOK, NEW e \in E, NEW c \in Int, user' = Stored(e, c), server' = server,
         c = Broken \/ (c \in Nat /\ user[File(e)] <= c /\ c <= server)
  PROVE  Catalog!Next
<1>1. Catalog!Store(File(e), c)
  BY CatalogData DEF Catalog!Store, Catalog!IsVersion, Stored, Broken
<1>2. c \in {Catalog!Broken} \cup 0..server /\ File(e) \in Catalog!Files
  BY CatalogData, EntryFacts DEF StartupTypeOK
<1> QED BY <1>1, <1>2 DEF Catalog!Next

\* The startup sync implements the catalogue: several requests may be out at once, each
\* answered when it likes, by a live record or a freed one, and still no blob file ever
\* goes back to older data.
THEOREM ImplementsCatalog == Spec => CatalogSpec
<1>1. Init => Catalog!Init
  BY StartupAssumption, CatalogData DEF Init, Catalog!Init
<1>2. StartupTypeOK /\ ReferenceInv /\ VersionInv /\ [Next]_vars => [Catalog!Next]_Catalog!catalogVars
  <2> SUFFICES ASSUME StartupTypeOK, ReferenceInv, VersionInv, [Next]_vars
               PROVE  [Catalog!Next]_Catalog!catalogVars
    OBVIOUS
  <2> USE DEF files, glob, stack
  <2>1. CASE UNCHANGED <<server, user>>
    BY <2>1 DEF Catalog!catalogVars
  <2>2. CASE Publish
    BY <2>2 DEF Publish, Catalog!Next, Catalog!Publish
  <2>3. CASE StartUpgraded
    <3>1. Catalog!Wipe(Cleaned)
      BY <2>3, CatalogData DEF StartUpgraded, Begin, WithoutFiles, Catalog!Wipe
    <3> QED BY <3>1, CatalogData, StartupAssumption DEF Catalog!Next
  <2>4. CASE Replies
    <3>1. PICK e \in Flying : Delivered(e) \/ UNCHANGED <<user, srv>>
      BY <2>4 DEF Replies, LiveReply, DeadReply
    <3>2. server' = server /\ e \in E
      BY <2>4 DEF Replies, LiveReply, DeadReply, Flying
    <3>3. ASSUME Delivered(e), user' # user
          PROVE  Catalog!Next
      <4>1. PICK c \in Bodies(e) \cup {Broken} : user' = Stored(e, c)
        BY <3>2, <3>3, DeliveredIs
      <4>2. CASE c = Broken
        BY <3>2, <4>1, <4>2, StoreIsAStep DEF Broken
      <4>3. CASE c \in Bodies(e)
        <5>1. c \in sentAt[e]..server /\ sentAt[e] \in Nat /\ server \in Nat
          BY <4>3 DEF Bodies, VersionInv, Flying, StartupTypeOK
        <5>2. user[File(e)] <= sentAt[e] /\ user[File(e)] \in Int
          BY <3>2, EntryFacts DEF VersionInv, StartupTypeOK, Contents, Absent, Broken, Reply
        <5>3. c \in Nat /\ user[File(e)] <= c /\ c <= server
          BY <5>1, <5>2
        <5> QED BY <3>2, <4>1, <5>3, StoreIsAStep
      <4> QED BY <4>1, <4>2, <4>3
    <3> QED BY <3>1, <3>2, <3>3 DEF Catalog!catalogVars
  <2>5. CASE StopInSplice
    <3>1. PICK e \in Flying : user' = Stored(e, Broken)
      BY <2>5 DEF StopInSplice
    <3>2. server' = server /\ e \in E
      BY <2>5 DEF StopInSplice, Flying
    <3> QED BY <3>1, <3>2, StoreIsAStep DEF Broken
  <2>6. CASE Start \/ Thread \/ DialogTakesLoop \/ DialogEnds \/ QuitClick \/ Stop \/ UNCHANGED vars
    <3>1. UNCHANGED <<server, user>>
      BY <2>6 DEF Start, Begin, Thread, IdleSkip, IdleSend, FrameReturns, End, DialogTakesLoop,
                  DialogEnds, QuitClick, Stop, vars
    <3> QED BY <2>1, <3>1
  <2> QED BY <2>2, <2>3, <2>4, <2>5, <2>6 DEF Next
<1> QED BY <1>1, <1>2, TypeCorrect, ReferencesCounted, VersionsBounded, PTL
        DEF Spec, CatalogSpec, Catalog!Spec
=============================================================================
