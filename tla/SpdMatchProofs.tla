--------------------------- MODULE SpdMatchProofs ---------------------------
(***************************************************************************)
(* The matching is one-to-one, ends stable and ends without giving up, for *)
(* any number of sockets and modules and any names and sizes.              *)
(***************************************************************************)
EXTENDS SpdMatch, WellFoundedInduction, TLAPS

\* The sockets in the queue
Queued == {queue[i] : i \in DOMAIN queue}

Types ==
  /\ socket \in Seq(SocketKinds) /\ spd \in Seq(SpdKinds)
  /\ queue \in Seq(Sockets) /\ loops \in Nat
  /\ of \in [Sockets -> Modules \union {0}]
  /\ owner \in [Modules -> Sockets \union {0}]
  /\ score \in [Modules -> Nat]
  /\ phase \in {"match", "filled"}

\* No socket is in the queue twice.
OnceQueued == \A i, j \in DOMAIN queue : queue[i] = queue[j] => i = j

\* The two directions of the match agree, with the score; a socket in the queue has
\* no module.
OneToOne ==
  /\ \A s \in Sockets : of[s] # 0 => owner[of[s]] = s
  /\ \A e \in Modules : owner[e] # 0 => of[owner[e]] = e
  /\ \A s \in Queued : of[s] = 0

Scored == \A e \in Modules : score[e] = IF owner[e] = 0 THEN 0 ELSE Score(owner[e], e)

\* A socket that is done with finds no module that would take it for its own.
Content == \A s \in Sockets \ Queued, e \in Modules :
             socket[s].populated /\ Score(s, e) > Served(s) => score[e] >= Score(s, e)

Inv == Types /\ OnceQueued /\ OneToOne /\ (phase = "match" => Scored /\ Content)
-----------------------------------------------------------------------------
LEMMA NoSocketIsZero ==
  ASSUME Types
  PROVE  0 \notin Sockets /\ 0 \notin Modules
BY DEF Types, Sockets, Modules

LEMMA ScoreType ==
  ASSUME Types, NEW s \in Sockets, NEW e \in Modules
  PROVE  Score(s, e) \in 0..35
BY DEF Score

\* Every non-empty set of naturals has a least element.
LEMMA LeastExists ==
  ASSUME NEW T, T \subseteq Nat, T # {}
  PROVE  \E x \in T : \A y \in T : x <= y
<1> DEFINE R == OpToRel(<, Nat)
<1>1. IsWellFoundedOn(R, Nat)
  BY NatLessThanWellFounded, Zenon
<1>2. \A x, y \in Nat : x < y => <<x, y>> \in R
  BY DEF OpToRel
<1> HIDE DEF R
<1>3. PICK x \in T : \A y \in T : ~(<<y, x>> \in R)
  BY <1>1, WFMin, Zenon
<1>4. ASSUME NEW y \in T PROVE x <= y
  <2>1. x \in Nat /\ y \in Nat
    OBVIOUS
  <2>2. ~(y < x)
    BY <2>1, <1>2, <1>3, Zenon
  <2> QED BY <2>1, <2>2
<1> QED BY <1>4

\* Every non-empty subset of 1..n has a greatest element.
LEMMA GreatestExists ==
  ASSUME NEW n \in Nat, NEW T, T \subseteq 1..n, T # {}
  PROVE  \E x \in T : \A y \in T : x >= y
<1> DEFINE U == {k \in Nat : n - k \in T}
<1>1. \A y \in T : y \in Int /\ n - y \in Nat /\ n - (n - y) = y
  OBVIOUS
<1>2. \A y \in T : n - y \in U
  BY <1>1
<1>3. U \subseteq Nat /\ U # {}
  BY <1>2
<1> HIDE DEF U
<1>4. PICK u \in U : \A v \in U : u <= v
  BY <1>3, LeastExists
<1>5. u \in Nat /\ n - u \in T
  BY <1>4 DEF U
<1>6. ASSUME NEW y \in T PROVE n - u >= y
  BY <1>1, <1>2, <1>4, <1>5
<1> QED BY <1>5, <1>6

\* Min(T) is in T and below every element of T.
LEMMA MinIsLeast ==
  ASSUME NEW T, T \subseteq Nat, T # {}
  PROVE  Min(T) \in T /\ \A y \in T : Min(T) <= y
BY LeastExists, Zenon DEF Min

\* Max(T) is in T and above every element of T.
LEMMA MaxIsGreatest ==
  ASSUME NEW n \in Nat, NEW T, T \subseteq 1..n, T # {}
  PROVE  Max(T) \in T /\ \A y \in T : Max(T) >= y
BY GreatestExists, Zenon DEF Max

\* Best(s) is acceptable and no acceptable module fits better.
LEMMA BestIsBest ==
  ASSUME Types, NEW s \in Sockets, Acceptable(s) # {}
  PROVE  /\ Best(s) \in Acceptable(s)
         /\ \A e \in Acceptable(s) : Score(s, e) <= Score(s, Best(s))
<1> DEFINE Scores == {Score(s, e) : e \in Acceptable(s)}
           Firsts == {e \in Acceptable(s) : Score(s, e) = Max(Scores)}
<1>1. Scores \subseteq 1..35 /\ Scores # {}
  BY ScoreType DEF Acceptable
<1>2. Max(Scores) \in Scores /\ \A y \in Scores : Max(Scores) >= y
  <2> HIDE DEF Scores
  <2> QED BY <1>1, MaxIsGreatest
<1>3. Firsts # {} /\ Firsts \subseteq Nat
  <2>1. Acceptable(s) \subseteq Nat
    BY DEF Acceptable, Modules, Types
  <2>2. PICK e \in Acceptable(s) : Score(s, e) = Max(Scores)
    BY <1>2
  <2> QED BY <2>1, <2>2
<1>4. Min(Firsts) \in Firsts
  <2> HIDE DEF Firsts
  <2> QED BY <1>3, MinIsLeast
<1>5. Best(s) = Min(Firsts)
  BY DEF Best
<1>6. Best(s) \in Acceptable(s) /\ Score(s, Best(s)) = Max(Scores)
  BY <1>4, <1>5
<1>7. ASSUME NEW e \in Acceptable(s) PROVE Score(s, e) <= Max(Scores)
  <2>1. Score(s, e) \in Scores /\ Score(s, e) \in 1..35
    BY <1>1
  <2>2. Max(Scores) \in 1..35
    BY <1>1, <1>2
  <2> QED BY <2>1, <2>2, <1>2
<1> QED BY <1>6, <1>7
-----------------------------------------------------------------------------
Elements(q) == {q[i] : i \in DOMAIN q}
Injective(q) == \A i, j \in DOMAIN q : q[i] = q[j] => i = j

\* A queue without its head
LEMMA TailOfQueue ==
  ASSUME NEW S, NEW q \in Seq(S), q # <<>>, Injective(q)
  PROVE  /\ Tail(q) \in Seq(S) /\ Injective(Tail(q))
         /\ Head(q) \in S /\ Head(q) \in Elements(q)
         /\ Elements(Tail(q)) = Elements(q) \ {Head(q)}
<1>1. /\ Tail(q) \in Seq(S) /\ Len(q) \in Nat \ {0} /\ DOMAIN q = 1..Len(q)
      /\ Len(Tail(q)) = Len(q) - 1 /\ DOMAIN Tail(q) = 1..(Len(q) - 1)
      /\ Head(q) = q[1] /\ Head(q) \in S
      /\ \A i \in 1..(Len(q) - 1) : Tail(q)[i] = q[i + 1]
  OBVIOUS
<1>2. Injective(Tail(q))
  BY <1>1 DEF Injective
<1>3. Head(q) \in Elements(q)
  BY <1>1 DEF Elements
<1>4. ASSUME NEW x \in Elements(Tail(q)) PROVE x \in Elements(q) \ {Head(q)}
  <2>1. PICK i \in 1..(Len(q) - 1) : x = q[i + 1]
    BY <1>1, <1>4 DEF Elements
  <2>2. i + 1 \in DOMAIN q /\ 1 \in DOMAIN q /\ i + 1 # 1
    BY <1>1
  <2> QED BY <1>1, <2>1, <2>2 DEF Elements, Injective
<1>5. ASSUME NEW x \in Elements(q) \ {Head(q)} PROVE x \in Elements(Tail(q))
  <2>1. PICK i \in DOMAIN q : x = q[i]
    BY <1>5 DEF Elements
  <2>2. i # 1
    BY <1>1, <2>1, <1>5
  <2>3. i - 1 \in 1..(Len(q) - 1) /\ x = Tail(q)[i - 1]
    BY <1>1, <2>1, <2>2
  <2> QED BY <1>1, <2>3 DEF Elements
<1> QED BY <1>1, <1>2, <1>3, <1>4, <1>5

\* A queue with a new last element
LEMMA AppendToQueue ==
  ASSUME NEW S, NEW q \in Seq(S), NEW x \in S, Injective(q), x \notin Elements(q)
  PROVE  /\ Append(q, x) \in Seq(S) /\ Injective(Append(q, x))
         /\ Elements(Append(q, x)) = Elements(q) \union {x}
<1> DEFINE r == Append(q, x)
<1>1. /\ r \in Seq(S) /\ Len(q) \in Nat /\ DOMAIN q = 1..Len(q)
      /\ DOMAIN r = 1..(Len(q) + 1) /\ r[Len(q) + 1] = x
      /\ \A i \in 1..Len(q) : r[i] = q[i]
  OBVIOUS
<1> HIDE DEF r
<1>2. \A i \in DOMAIN q : q[i] # x
  BY DEF Elements
<1>3. Injective(r)
  <2> SUFFICES ASSUME NEW i \in DOMAIN r, NEW j \in DOMAIN r, r[i] = r[j] PROVE i = j
    BY DEF Injective
  <2>1. CASE i \in DOMAIN q /\ j \in DOMAIN q
    BY <2>1, <1>1 DEF Injective
  <2>2. CASE i \notin DOMAIN q \/ j \notin DOMAIN q
    BY <2>2, <1>1, <1>2
  <2> QED BY <2>1, <2>2
<1>4. Elements(r) = Elements(q) \union {x}
  BY <1>1 DEF Elements
<1> QED BY <1>1, <1>3, <1>4 DEF r

\* Removing the head of the queue
LEMMA Popped ==
  ASSUME Types, OnceQueued, queue # <<>>
  PROVE  /\ Tail(queue) \in Seq(Sockets) /\ Injective(Tail(queue))
         /\ Head(queue) \in Sockets /\ Head(queue) \in Queued
         /\ Elements(Tail(queue)) = Queued \ {Head(queue)}
<1>1. queue \in Seq(Sockets) /\ Injective(queue) /\ Queued = Elements(queue)
  BY DEF Types, OnceQueued, Injective, Queued, Elements
<1> QED BY <1>1, TailOfQueue
-----------------------------------------------------------------------------
(* The steps                                                               *)

LEMMA InitInv == Init => Inv
<1> SUFFICES ASSUME Init PROVE Inv
  OBVIOUS
<1>1. /\ socket \in Seq(SocketKinds) /\ spd \in Seq(SpdKinds)
      /\ Sockets = 1..Len(socket) /\ Len(socket) \in Nat /\ 0 \notin Sockets
  BY ListsAssumption DEF Init, Sockets
<1>2. queue \in Seq(Sockets) /\ DOMAIN queue = Sockets /\ \A i \in Sockets : queue[i] = i
  BY <1>1 DEF Init, Sockets
<1>3. Types
  BY <1>1, <1>2 DEF Types, Init, Modules, Sockets
<1>4. OnceQueued /\ Queued = Sockets
  BY <1>2 DEF OnceQueued, Queued
<1>5. OneToOne
  BY <1>1, <1>4 DEF OneToOne, Init, Modules, Sockets
<1>6. Scored /\ Content
  BY <1>4 DEF Scored, Content, Init, Modules
<1> QED BY <1>3, <1>4, <1>5, <1>6 DEF Inv

\* A socket that is left without a module
LEMMA LeaveInv ==
  ASSUME Inv, NEW s \in Sockets, Leave(s)
  PROVE  Inv'
<1>1. /\ Types /\ OnceQueued /\ OneToOne /\ Scored /\ Content
      /\ queue # <<>> /\ s = Head(queue) /\ queue' = Tail(queue)
      /\ ~socket[s].populated \/ Acceptable(s) = {}
      /\ loops \in Nat /\ loops > 0 /\ loops' = loops - 1
      /\ UNCHANGED <<socket, spd, of, owner, score, phase>> /\ phase = "match"
  BY DEF Inv, Leave, Pop, Types
<1>2. Sockets' = Sockets /\ Modules' = Modules
      /\ \A t \in Sockets, e \in Modules : Score(t, e)' = Score(t, e)
  BY <1>1 DEF Sockets, Modules, Score
<1>3. /\ queue' \in Seq(Sockets) /\ OnceQueued' /\ Queued' = Queued \ {s}
  BY <1>1, Popped DEF OnceQueued, Injective, Queued, Elements
<1>4. Types'
  BY <1>1, <1>2, <1>3 DEF Types
<1>5. OneToOne' /\ Scored'
  <2>1. OneToOne'
    BY <1>1, <1>2, <1>3 DEF OneToOne
  <2>2. Scored'
    BY <1>1, <1>2 DEF Scored, Types
  <2> QED BY <2>1, <2>2
<1>6. Content'
  <2> SUFFICES ASSUME NEW t \in Sockets \ (Queued \ {s}), NEW e \in Modules,
                      socket[t].populated, Score(t, e) > Served(t)
               PROVE  score[e] >= Score(t, e)
    BY <1>1, <1>2, <1>3 DEF Content, Served, Types
  <2>1. CASE t # s
    BY <2>1, <1>1 DEF Content
  <2>2. CASE t = s
    <3>1. of[s] = 0 /\ Served(s) = 0
      BY <1>1, Popped DEF OneToOne, Served
    <3>2. e \notin Acceptable(s) /\ Score(s, e) > 0
      BY <1>1, <2>2, <3>1
    <3>3. Score(s, e) \in 0..35 /\ score[e] \in Nat
      BY <1>1, ScoreType DEF Types
    <3> QED BY <2>2, <3>2, <3>3 DEF Acceptable
  <2> QED BY <2>1, <2>2
<1> QED BY <1>1, <1>3, <1>4, <1>5, <1>6 DEF Inv

\* A socket that gets its best module, free or not; the socket that had it, if any,
\* is in the queue again.
LEMMA TakeInv ==
  ASSUME Inv, NEW s \in Sockets, Claim(s) \/ Displace(s)
  PROVE  Inv'
<1> DEFINE b == Best(s)
           old == owner[b]
<1>1. /\ Types /\ OnceQueued /\ OneToOne /\ Scored /\ Content
      /\ queue # <<>> /\ s = Head(queue)
      /\ Acceptable(s) # {}
      /\ loops \in Nat /\ loops > 0 /\ loops' = loops - 1
      /\ owner' = [owner EXCEPT ![b] = s] /\ score' = [score EXCEPT ![b] = Score(s, b)]
      /\ UNCHANGED <<socket, spd, phase>> /\ phase = "match"
  BY DEF Inv, Claim, Displace, Pop, Take, Types
<1>2. Sockets' = Sockets /\ Modules' = Modules
      /\ \A t \in Sockets, e \in Modules : Score(t, e)' = Score(t, e)
  BY <1>1 DEF Sockets, Modules, Score
<1>3. /\ b \in Modules /\ Score(s, b) > 0 /\ Score(s, b) > score[b]
      /\ \A e \in Acceptable(s) : Score(s, e) <= Score(s, b)
      /\ \A t \in Sockets, e \in Modules : Score(t, e) \in 0..35 /\ score[e] \in Nat
  BY <1>1, BestIsBest, ScoreType DEF Acceptable, Types
<1>4. 0 \notin Sockets /\ 0 \notin Modules /\ s # 0 /\ b # 0
  BY <1>1, <1>3, NoSocketIsZero
<1>5. s \in Queued /\ of[s] = 0
  BY <1>1, Popped DEF OneToOne
<1>6. old # 0 => old \in Sockets /\ old # s /\ of[old] = b /\ old \notin Queued
  BY <1>1, <1>3, <1>4, <1>5 DEF OneToOne, Types
<1>7. /\ queue' \in Seq(Sockets) /\ OnceQueued'
      /\ Queued' = (Queued \ {s}) \union (IF old = 0 THEN {} ELSE {old})
  <2>1. /\ Tail(queue) \in Seq(Sockets) /\ Injective(Tail(queue))
        /\ Elements(Tail(queue)) = Queued \ {s}
    BY <1>1, Popped
  <2>2. CASE Claim(s)
    <3>1. queue' = Tail(queue) /\ old = 0
      BY <2>2 DEF Claim
    <3> QED BY <2>1, <3>1 DEF OnceQueued, Injective, Queued, Elements
  <2>3. CASE Displace(s)
    <3>1. queue' = Append(Tail(queue), old) /\ old # 0
      BY <2>3 DEF Displace
    <3>2. old \in Sockets /\ old \notin Elements(Tail(queue))
      BY <1>6, <2>1, <3>1
    <3>3. /\ Append(Tail(queue), old) \in Seq(Sockets) /\ Injective(Append(Tail(queue), old))
          /\ Elements(Append(Tail(queue), old)) = Elements(Tail(queue)) \union {old}
      <4>1. \A x \in Sockets : x \notin Elements(Tail(queue)) =>
              /\ Append(Tail(queue), x) \in Seq(Sockets) /\ Injective(Append(Tail(queue), x))
              /\ Elements(Append(Tail(queue), x)) = Elements(Tail(queue)) \union {x}
        <5> SUFFICES ASSUME NEW x \in Sockets, x \notin Elements(Tail(queue))
                     PROVE  /\ Append(Tail(queue), x) \in Seq(Sockets)
                            /\ Injective(Append(Tail(queue), x))
                            /\ Elements(Append(Tail(queue), x)) = Elements(Tail(queue)) \union {x}
          OBVIOUS
        <5> DEFINE q == Tail(queue)
        <5>1. q \in Seq(Sockets) /\ Injective(q) /\ x \notin Elements(q)
          BY <2>1
        <5> HIDE DEF q
        <5>2. /\ Append(q, x) \in Seq(Sockets) /\ Injective(Append(q, x))
              /\ Elements(Append(q, x)) = Elements(q) \union {x}
          BY <5>1, AppendToQueue
        <5> QED BY <5>2 DEF q
      <4> HIDE DEF old
      <4> QED BY <3>2, <4>1
    <3>4. queue' \in Seq(Sockets) /\ Injective(queue') /\ Elements(queue') = (Queued \ {s}) \union {old}
      BY <2>1, <3>1, <3>3
    <3> QED BY <3>1, <3>4 DEF OnceQueued, Injective, Queued, Elements
  <2> QED BY <2>2, <2>3
<1>8. /\ of' \in [Sockets -> Modules \union {0}] /\ of'[s] = b
      /\ old # 0 => of'[old] = 0
      /\ \A t \in Sockets : t # s /\ t # old => of'[t] = of[t]
  <2>1. CASE Claim(s)
    <3>1. of' = [of EXCEPT ![s] = b] /\ old = 0
      BY <2>1 DEF Claim
    <3> QED BY <3>1, <1>1, <1>3 DEF Types
  <2>2. CASE Displace(s)
    <3>1. of' = [of EXCEPT ![old] = 0, ![s] = b] /\ old # 0
      BY <2>2 DEF Displace
    <3>2. of \in [Sockets -> Modules \union {0}] /\ old \in Sockets /\ old # s
      BY <3>1, <1>1, <1>6 DEF Types
    <3> QED BY <3>1, <3>2, <1>3
  <2> QED BY <2>1, <2>2
<1> HIDE DEF b
<1>9. /\ owner'[b] = s /\ score'[b] = Score(s, b)
      /\ \A e \in Modules : e # b => owner'[e] = owner[e] /\ score'[e] = score[e]
  BY <1>1, <1>3 DEF Types
<1>10. Types'
  <2>1. owner' \in [Modules -> Sockets \union {0}] /\ score' \in [Modules -> Nat]
    <3>1. owner \in [Modules -> Sockets \union {0}] /\ score \in [Modules -> Nat]
      BY <1>1 DEF Types
    <3>3. s \in Sockets /\ b \in Modules /\ Score(s, b) \in 0..35
      BY <1>3
    <3>4. Score(s, b) \in Nat
      BY <3>3
    <3>2. owner' = [owner EXCEPT ![b] = s] /\ score' = [score EXCEPT ![b] = Score(s, b)]
      BY <1>1
    <3> HIDE DEF Score, Sockets, Modules
    <3> QED BY <3>1, <3>2, <3>3, <3>4
  <2>2. loops' \in Nat
    BY <1>1
  <2> QED BY <1>1, <1>2, <1>7, <1>8, <2>1, <2>2 DEF Types
<1>11. OneToOne'
  <2>1. ASSUME NEW t \in Sockets, of'[t] # 0 PROVE owner'[of'[t]] = t
    <3>1. CASE t = s
      BY <3>1, <1>8, <1>9
    <3>2. CASE t # s
      <4>1. t # old /\ of'[t] = of[t]
        BY <3>2, <2>1, <1>4, <1>6, <1>8
      <4>2. of[t] # b /\ of[t] \in Modules /\ owner[of[t]] = t
        BY <4>1, <2>1, <1>1 DEF OneToOne, Types
      <4> QED BY <4>1, <4>2, <1>9
    <3> QED BY <3>1, <3>2
  <2>2. ASSUME NEW e \in Modules, owner'[e] # 0 PROVE of'[owner'[e]] = e
    <3>1. CASE e = b
      BY <3>1, <1>8, <1>9
    <3>2. CASE e # b
      <4>1. owner'[e] = owner[e] /\ owner[e] \in Sockets /\ of[owner[e]] = e
        BY <3>2, <2>2, <1>1, <1>9 DEF OneToOne, Types
      <4>2. owner[e] # s /\ owner[e] # old
        BY <3>2, <4>1, <1>4, <1>5, <1>6, <1>3
      <4> QED BY <4>1, <4>2, <1>8
    <3> QED BY <3>1, <3>2
  <2>3. ASSUME NEW t \in Queued' PROVE of'[t] = 0
    <3>1. t \in Sockets /\ t # s
      <4>1. Queued \subseteq Sockets
        BY <1>1 DEF Queued, Types
      <4> QED BY <4>1, <2>3, <1>6, <1>7
    <3>2. CASE t = old
      BY <3>1, <3>2, <1>4, <1>8
    <3>3. CASE t # old
      <4>1. t \in Queued
        BY <3>3, <2>3, <1>7
      <4> QED BY <4>1, <3>1, <3>3, <1>1, <1>8 DEF OneToOne
    <3> QED BY <3>2, <3>3
  <2> QED BY <1>2, <2>1, <2>2, <2>3 DEF OneToOne
<1>12. Scored'
  BY <1>1, <1>2, <1>3, <1>4, <1>9 DEF Scored, Types
<1>13. \A e \in Modules : score'[e] \in Nat /\ score'[e] >= score[e]
  BY <1>3, <1>9
<1>14. Content'
  <2> SUFFICES ASSUME NEW t \in Sockets \ Queued', NEW e \in Modules,
                      socket[t].populated,
                      Score(t, e) > (IF of'[t] = 0 THEN 0 ELSE Score(t, of'[t]))
               PROVE  score'[e] >= Score(t, e)
    BY <1>1, <1>2, <1>8 DEF Content, Served
  <2>1. CASE t = s
    <3>1. Score(s, e) > Score(s, b)
      BY <2>1, <1>4, <1>8
    <3>2. e \notin Acceptable(s)
      BY <3>1, <1>3
    <3>3. score[e] >= Score(s, e)
      BY <3>1, <3>2, <1>3 DEF Acceptable
    <3> QED BY <2>1, <3>3, <1>13, <1>3
  <2>2. CASE t # s
    <3>1. t \notin Queued /\ t # old
      BY <2>2, <1>4, <1>7
    <3>2. Score(t, e) > Served(t)
      BY <2>2, <3>1, <1>8 DEF Served
    <3>3. score[e] >= Score(t, e)
      BY <3>1, <3>2, <1>1 DEF Content
    <3> QED BY <3>3, <1>13, <1>3
  <2> QED BY <2>1, <2>2
<1> QED BY <1>1, <1>7, <1>10, <1>11, <1>12, <1>14 DEF Inv

\* The sockets' names change, the match does not.
LEMMA FillInv ==
  ASSUME Inv, Fill
  PROVE  Inv'
<1>1. /\ Types /\ OnceQueued /\ OneToOne /\ phase' = "filled"
      /\ UNCHANGED <<spd, queue, loops, of, owner, score>>
      /\ socket' = [s \in Sockets |-> Filled(s)]
  BY DEF Inv, Fill
<1>2. \A s \in Sockets : Filled(s) \in SocketKinds
  <2> SUFFICES ASSUME NEW s \in Sockets PROVE Filled(s) \in SocketKinds
    OBVIOUS
  <2>1. socket[s] \in SocketKinds
    BY <1>1 DEF Types, Sockets
  <2>2. CASE of[s] = 0
    BY <2>1, <2>2 DEF Filled
  <2>3. CASE of[s] # 0
    <3>1. of[s] \in Modules /\ spd[of[s]] \in SpdKinds
      BY <1>1, <2>3 DEF Types, Modules
    <3>2. spd[of[s]].partno \in Nat /\ spd[of[s]].vendor \in Nat
      BY <3>1 DEF SpdKinds
    <3> QED BY <2>1, <2>3, <3>2 DEF Filled, SocketKinds
  <2> QED BY <2>2, <2>3
<1>3. socket' \in Seq(SocketKinds) /\ Sockets' = Sockets /\ Modules' = Modules
  <2>1. Sockets = 1..Len(socket) /\ Len(socket) \in Nat
    BY <1>1 DEF Types, Sockets
  <2>2. socket' \in Seq(SocketKinds) /\ DOMAIN socket' = Sockets
    BY <1>1, <1>2, <2>1
  <2> QED BY <1>1, <2>2 DEF Sockets, Modules
<1>4. Types' /\ OnceQueued' /\ OneToOne'
  BY <1>1, <1>3 DEF Types, OnceQueued, OneToOne, Queued
<1> QED BY <1>1, <1>4 DEF Inv

LEMMA NextInv == Inv /\ [Next]_vars => Inv'
<1> SUFFICES ASSUME Inv, [Next]_vars PROVE Inv'
  OBVIOUS
<1>1. CASE Fill
  BY <1>1, FillInv
<1>2. ASSUME NEW s \in Sockets, Leave(s) PROVE Inv'
  BY <1>2, LeaveInv
<1>3. ASSUME NEW s \in Sockets, Claim(s) \/ Displace(s) PROVE Inv'
  BY <1>3, TakeInv
<1>4. CASE UNCHANGED vars
  BY <1>4 DEF vars, Inv, Types, OnceQueued, OneToOne, Scored, Content, Queued, Served,
              Score, Sockets, Modules
<1> QED BY <1>1, <1>2, <1>3, <1>4 DEF Next
-----------------------------------------------------------------------------
(* The theorems                                                            *)

\* Every socket has at most one module and every module at most one socket, and they
\* agree on it.
THEOREM OneToOneHolds == Spec => []OneToOne
<1>1. Inv => OneToOne
  BY DEF Inv
<1> QED BY InitInv, NextInv, <1>1, PTL DEF Spec

\* The match is stable when the queue is empty, however many sockets and modules there
\* are (dmi_memory.c:500-535).
THEOREM StableMatchHolds == Spec => []StableMatch
<1>1. Inv => StableMatch
  <2> SUFFICES ASSUME Inv, phase = "match", queue = <<>>,
                      NEW s \in Sockets, NEW e \in Modules,
                      socket[s].populated, Score(s, e) > Served(s), Score(s, e) > score[e]
               PROVE  FALSE
    BY DEF StableMatch
  <2>1. s \notin Queued
    BY DEF Queued
  <2>2. score[e] >= Score(s, e)
    BY <2>1 DEF Inv, Content
  <2>3. score[e] \in Nat /\ Score(s, e) \in 0..35
    BY ScoreType DEF Inv, Types
  <2>4. \A x \in 0..35, y \in Nat : y >= x => ~(x > y)
    OBVIOUS
  <2> QED BY <2>2, <2>3, <2>4
<1> QED BY InitInv, NextInv, <1>1, PTL DEF Spec
-----------------------------------------------------------------------------
\* How often sockets are taken from the queue.  The queue is served in rounds: p[s] is the
\* round in which a socket of the queue is taken next, or in which another was taken last.
\* A socket that has to make way goes to the next round, and can there only get a module
\* that fits it less than the other fits the socket which took its place; as scores are
\* multiples of 5 up to 35 there are at most seven rounds.
Gain(s) == IF of[s] = 0 THEN 5 ELSE Score(s, of[s])

Rounds(p) ==
  /\ \A i, j \in DOMAIN queue :
       i < j => p[queue[i]] <= p[queue[j]] /\ p[queue[j]] <= p[queue[i]] + 1
  /\ \A s \in Sockets \ Queued : queue # <<>> => p[s] <= p[Head(queue)]
  /\ \A s \in Sockets : of[s] # 0 =>
       socket[s].populated /\ Score(s, of[s]) > 0 /\ 5 * p[s] + Score(s, of[s]) <= 40
  /\ \A s \in Queued : \A e \in Acceptable(s) : 5 * p[s] + Score(s, e) <= 40

\* Every time a socket is taken the sum of the weights grows by 10 or more, and no weight
\* is more than 40.
Weight(p) == [s \in Sockets |-> IF s \in Queued THEN 5 * (p[s] - 1) ELSE 5 * p[s] + Gain(s)]

\* W[i] is the sum of the first i values of g.
SumsOf(n, g, W) ==
  W \in [0..n -> Int] /\ W[0] = 0 /\ \A i \in 1..n : W[i] = W[i - 1] + g[i]

Counted(p, W) ==
  /\ Rounds(p) /\ SumsOf(Len(socket), Weight(p), W)
  /\ W[Len(socket)] >= 10 * (4 * Len(socket) - loops)

RoundInv == phase = "match" => \E p \in [Sockets -> 1..7] : \E W : Counted(p, W)

\* One value changes: all sums from there on change by as much.
LEMMA SumsBump ==
  ASSUME NEW n \in Nat, NEW g \in [1..n -> Int], NEW h \in [1..n -> Int], NEW W,
         SumsOf(n, g, W), NEW s \in 1..n, \A i \in 1..n : i # s => h[i] = g[i]
  PROVE  \E V : SumsOf(n, h, V) /\ V[n] = W[n] + h[s] - g[s]
<1> DEFINE V == [i \in 0..n |-> IF i >= s THEN W[i] + h[s] - g[s] ELSE W[i]]
<1>1. W \in [0..n -> Int] /\ W[0] = 0 /\ \A i \in 1..n : W[i] = W[i - 1] + g[i]
  BY DEF SumsOf
<1>2. V \in [0..n -> Int] /\ V[0] = 0
  <2>1. h[s] \in Int /\ g[s] \in Int /\ 0 \in 0..n /\ ~(0 >= s)
    OBVIOUS
  <2>2. ASSUME NEW i \in 0..n PROVE (IF i >= s THEN W[i] + h[s] - g[s] ELSE W[i]) \in Int
    <3>1. W[i] \in Int
      BY <1>1
    <3> QED BY <2>1, <3>1
  <2> QED BY <1>1, <2>1, <2>2
<1>3. ASSUME NEW i \in 1..n PROVE V[i] = V[i - 1] + h[i]
  <2>1. i \in 0..n /\ i - 1 \in 0..n /\ W[i] = W[i - 1] + g[i] /\ W[i - 1] \in Int
    BY <1>1
  <2>2. g[i] \in Int /\ h[i] \in Int /\ g[s] \in Int /\ h[s] \in Int
    OBVIOUS
  <2>3. CASE i = s
    BY <2>1, <2>2, <2>3
  <2>4. CASE i # s
    <3>1. h[i] = g[i]
      BY <2>4
    <3>2. CASE i > s
      BY <2>1, <2>2, <3>1, <3>2
    <3>3. CASE i < s
      BY <2>1, <2>2, <3>1, <3>3
    <3> QED BY <2>4, <3>2, <3>3
  <2> QED BY <2>3, <2>4
<1>4. V[n] = W[n] + h[s] - g[s]
  BY <1>1
<1> HIDE DEF V
<1> QED BY <1>2, <1>3, <1>4 DEF SumsOf

\* Values of at most 40, one of them of at most 30, make less than 40 each.
LEMMA SumsBelow ==
  ASSUME NEW n \in Nat, NEW g \in [1..n -> Int], NEW W, SumsOf(n, g, W),
         NEW s \in 1..n, g[s] <= 30, \A i \in 1..n : g[i] <= 40
  PROVE  W[n] < 40 * n
<1> DEFINE Bound(i) == 40 * i - (IF i >= s THEN 10 ELSE 0)
           Bad == {i \in 0..n : W[i] > Bound(i)}
<1>1. W \in [0..n -> Int] /\ W[0] = 0 /\ \A i \in 1..n : W[i] = W[i - 1] + g[i]
  BY DEF SumsOf
<1>2. Bad = {}
  <2> SUFFICES ASSUME Bad # {} PROVE FALSE
    OBVIOUS
  <2>1. Bad \subseteq Nat
    OBVIOUS
  <2>2. PICK i \in Bad : \A j \in Bad : i <= j
    <3> HIDE DEF Bad
    <3> QED BY <2>1, LeastExists
  <2>3. i \in 1..n /\ W[i] > Bound(i)
    BY <1>1, <2>2
  <2>4. i - 1 \in 0..n /\ i - 1 \notin Bad
    BY <2>2, <2>3
  <2>5. W[i - 1] <= Bound(i - 1) /\ W[i] = W[i - 1] + g[i] /\ W[i - 1] \in Int /\ g[i] \in Int
    BY <1>1, <2>3, <2>4, SMTT(30)
  <2>6. g[i] <= 40 /\ (i = s => g[i] <= 30)
    BY <2>3
  <2>7. i \in Int /\ s \in Int
    BY <2>3
  <2>8. Bound(i) >= Bound(i - 1) + (IF i = s THEN 30 ELSE 40)
    BY <2>7
  <2>9. Bound(i) \in Int /\ Bound(i - 1) \in Int /\ W[i] \in Int
    BY <1>1, <2>3, <2>7
  <2> HIDE DEF Bound, Bad
  <2> QED BY <2>3, <2>5, <2>6, <2>8, <2>9, SMTT(30)
<1>3. n \in 0..n /\ W[n] \in Int
  BY <1>1
<1> QED BY <1>2, <1>3, SMTT(30)

\* A better score is better by 5.
Levels == {0, 5, 10, 15, 20, 25, 30, 35}

LEMMA ScoreLevels == \A s \in Sockets, e \in Modules : Score(s, e) \in Levels
BY DEF Score, Levels

LEMMA LevelsApart == \A x, y \in Levels : x > y => x >= y + 5
BY DEF Levels

\* The sockets are numbered, and their weights are integers.
LEMMA WeightType ==
  ASSUME Types, NEW p \in [Sockets -> 1..7]
  PROVE  /\ Sockets = 1..Len(socket) /\ Len(socket) \in Nat
         /\ Weight(p) \in [1..Len(socket) -> Int]
<1>1. Sockets = 1..Len(socket) /\ Len(socket) \in Nat
  BY DEF Types, Sockets
<1>2. ASSUME NEW s \in Sockets
      PROVE  (IF s \in Queued THEN 5 * (p[s] - 1) ELSE 5 * p[s] + Gain(s)) \in Int
  <2>1. p[s] \in Int
    OBVIOUS
  <2>2. Gain(s) \in Int
    <3>1. of[s] # 0 => of[s] \in Modules
      BY DEF Types
    <3> QED BY <3>1, ScoreType DEF Gain
  <2> QED BY <2>1, <2>2
<1> QED BY <1>1, <1>2 DEF Weight

\* While a socket is in the queue no limit on the number of rounds has been reached.
LEMMA NotGivenUp ==
  ASSUME Inv, RoundInv, phase = "match"
  PROVE  GivesUpNever
<1> SUFFICES ASSUME loops = 0, queue # <<>> PROVE FALSE
  BY DEF GivesUpNever
<1>1. Types /\ OnceQueued /\ OneToOne
  BY DEF Inv
<1>2. PICK p \in [Sockets -> 1..7] : \E W : Counted(p, W)
  BY DEF RoundInv
<1>10. PICK W : Counted(p, W)
  BY <1>2
<1> DEFINE n == Len(socket)
           g == Weight(p)
           s == Head(queue)
<1>3. Sockets = 1..n /\ n \in Nat /\ g \in [1..n -> Int]
  BY <1>1, WeightType
<1>4. s \in Sockets /\ s \in Queued
  BY <1>1, Popped
<1>5. g[s] <= 30
  BY <1>4 DEF Weight
<1>6. ASSUME NEW i \in Sockets PROVE g[i] <= 40
  <2>1. p[i] \in 1..7
    OBVIOUS
  <2>2. CASE i \in Queued
    BY <2>1, <2>2 DEF Weight
  <2>3. CASE i \notin Queued
    <3>1. CASE of[i] = 0
      BY <2>1, <2>3, <3>1 DEF Weight, Gain
    <3>2. CASE of[i] # 0
      BY <1>10, <2>3, <3>2 DEF Weight, Gain, Counted, Rounds
    <3> QED BY <3>1, <3>2
  <2> QED BY <2>2, <2>3
<1>7. SumsOf(n, g, W) /\ W[n] >= 10 * (4 * n - loops)
  BY <1>10 DEF Counted
<1> HIDE DEF n, g, s
<1>8. W[n] < 40 * n
  BY <1>3, <1>4, <1>5, <1>6, <1>7, SumsBelow
<1>9. W[n] \in Int
  BY <1>3, <1>7 DEF SumsOf
<1> QED BY <1>3, <1>7, <1>8, <1>9

LEMMA RoundInit == Init => RoundInv
<1> SUFFICES ASSUME Init PROVE RoundInv
  OBVIOUS
<1> DEFINE n == Len(socket)
           p == [s \in Sockets |-> 1]
           W == [i \in 0..n |-> 0]
<1>1. Types /\ Sockets = 1..n /\ n \in Nat
  BY InitInv DEF Inv, Types, Sockets
<1>2. p \in [Sockets -> 1..7] /\ \A s \in Sockets : p[s] = 1
  OBVIOUS
<1>3. DOMAIN queue = Sockets /\ (\A i \in Sockets : queue[i] = i) /\ Queued = Sockets
  BY DEF Init, Queued, Sockets
<1>4. \A s \in Sockets : of[s] = 0
  BY DEF Init, Sockets
<1>5. Rounds(p)
  <2>1. \A s \in Queued : \A e \in Acceptable(s) : 5 * p[s] + Score(s, e) <= 40
    <3> SUFFICES ASSUME NEW s \in Sockets, NEW e \in Acceptable(s) PROVE 5 * p[s] + Score(s, e) <= 40
      BY <1>3
    <3>1. Score(s, e) \in 0..35 /\ p[s] = 1
      BY <1>1, <1>2, ScoreType DEF Acceptable
    <3> QED BY <3>1
  <2> QED BY <1>2, <1>3, <1>4, <2>1 DEF Rounds
<1>6. SumsOf(n, Weight(p), W)
  <2>1. \A i \in 1..n : Weight(p)[i] = 0
    BY <1>1, <1>2, <1>3 DEF Weight
  <2>2. W \in [0..n -> Int] /\ W[0] = 0 /\ \A i \in 1..n : W[i] = 0 /\ W[i - 1] = 0
    BY <1>1
  <2> HIDE DEF W
  <2> QED BY <2>1, <2>2 DEF SumsOf
<1>7. W[n] >= 10 * (4 * n - loops)
  BY <1>1 DEF Init
<1> HIDE DEF p, W
<1> QED BY <1>2, <1>5, <1>6, <1>7 DEF RoundInv, Counted

\* The queue behind its head
LEMMA QueueOrder ==
  ASSUME Types, queue # <<>>, NEW p \in [Sockets -> 1..7], Rounds(p)
  PROVE  /\ Len(queue) \in Nat \ {0} /\ DOMAIN Tail(queue) = 1..(Len(queue) - 1)
         /\ \A i \in DOMAIN Tail(queue) :
              /\ Tail(queue)[i] \in Sockets /\ Tail(queue)[i] \in Queued
              /\ p[Head(queue)] <= p[Tail(queue)[i]] /\ p[Tail(queue)[i]] <= p[Head(queue)] + 1
         /\ \A i, j \in DOMAIN Tail(queue) : i < j =>
              p[Tail(queue)[i]] <= p[Tail(queue)[j]] /\ p[Tail(queue)[j]] <= p[Tail(queue)[i]] + 1
<1>1. /\ Len(queue) \in Nat \ {0} /\ DOMAIN queue = 1..Len(queue)
      /\ DOMAIN Tail(queue) = 1..(Len(queue) - 1) /\ Head(queue) = queue[1]
      /\ \A i \in 1..(Len(queue) - 1) : Tail(queue)[i] = queue[i + 1]
      /\ \A i \in 1..Len(queue) : queue[i] \in Sockets
  BY DEF Types
<1>2. \A i \in 1..(Len(queue) - 1) : i + 1 \in 1..Len(queue) /\ 1 \in 1..Len(queue) /\ 1 < i + 1
  BY <1>1
<1>3. ASSUME NEW i \in DOMAIN Tail(queue)
      PROVE  /\ Tail(queue)[i] \in Sockets /\ Tail(queue)[i] \in Queued
             /\ p[Head(queue)] <= p[Tail(queue)[i]] /\ p[Tail(queue)[i]] <= p[Head(queue)] + 1
  BY <1>1, <1>2 DEF Rounds, Queued
<1>4. ASSUME NEW i \in DOMAIN Tail(queue), NEW j \in DOMAIN Tail(queue), i < j
      PROVE  p[Tail(queue)[i]] <= p[Tail(queue)[j]] /\ p[Tail(queue)[j]] <= p[Tail(queue)[i]] + 1
  <2>1. i + 1 < j + 1
    BY <1>1, <1>4
  <2> QED BY <1>1, <1>2, <1>4, <2>1 DEF Rounds
<1> QED BY <1>1, <1>3, <1>4

\* A socket that is taken from the queue and displaces no other: the rounds stay.
LEMMA PopRound ==
  ASSUME Inv, RoundInv, NEW s \in Sockets, Leave(s) \/ Claim(s)
  PROVE  RoundInv'
<1>1. /\ Types /\ OnceQueued /\ OneToOne
      /\ queue # <<>> /\ s = Head(queue) /\ queue' = Tail(queue) /\ phase = "match"
      /\ loops \in Nat /\ loops' = loops - 1
      /\ UNCHANGED <<socket, spd, phase>>
  BY DEF Inv, Leave, Claim, Pop, Types
<1>2. /\ Sockets' = Sockets /\ Modules' = Modules /\ Len(socket)' = Len(socket)
      /\ \A t \in Sockets, e \in Modules : Score(t, e)' = Score(t, e)
  BY <1>1 DEF Sockets, Modules, Score
<1>3. Queued' = Queued \ {s} /\ s \in Queued /\ of[s] = 0 /\ Queued \subseteq Sockets
  <2>1. Queued' = Queued \ {s} /\ s \in Queued
    BY <1>1, Popped DEF Queued, Elements
  <2>2. Queued \subseteq Sockets
    BY <1>1 DEF Queued, Types
  <2> QED BY <1>1, <2>1, <2>2 DEF OneToOne
<1>4. /\ \A t \in Sockets : t # s => of'[t] = of[t]
      /\ of'[s] = 0 \/ (of'[s] \in Acceptable(s) /\ socket[s].populated)
      /\ \A e \in Modules : score[e] \in Nat /\ score'[e] \in Nat /\ score'[e] >= score[e]
  <2>1. CASE Leave(s)
    <3>1. of' = of /\ score' = score
      BY <2>1 DEF Leave
    <3> QED BY <1>1, <1>3, <3>1 DEF Types
  <2>2. CASE Claim(s)
    <3> DEFINE b == Best(s)
    <3>1. of' = [of EXCEPT ![s] = b] /\ score' = [score EXCEPT ![b] = Score(s, b)]
          /\ socket[s].populated /\ b \in Acceptable(s)
      BY <1>1, <2>2, BestIsBest DEF Claim, Take
    <3>2. b \in Modules /\ Score(s, b) > score[b] /\ Score(s, b) \in 0..35
      BY <1>1, <3>1, ScoreType DEF Acceptable
    <3> HIDE DEF b
    <3>3. of \in [Sockets -> Modules \union {0}] /\ score \in [Modules -> Nat]
      BY <1>1 DEF Types
    <3>4. (\A t \in Sockets : t # s => of'[t] = of[t]) /\ of'[s] = b
      BY <3>1, <3>3
    <3>5. \A e \in Modules : score[e] \in Nat /\ score'[e] \in Nat /\ score'[e] >= score[e]
      <4> SUFFICES ASSUME NEW e \in Modules
                   PROVE  score[e] \in Nat /\ score'[e] \in Nat /\ score'[e] >= score[e]
        OBVIOUS
      <4>1. score[e] \in Nat /\ score[b] \in Nat /\ score'[e] = IF e = b THEN Score(s, b) ELSE score[e]
        BY <3>1, <3>2, <3>3
      <4> QED BY <3>2, <4>1
    <3> QED BY <3>1, <3>4, <3>5
  <2> QED BY <2>1, <2>2
<1>5. \A t \in Sockets, e \in Modules : e \in Acceptable(t)' => e \in Acceptable(t)
  <2> SUFFICES ASSUME NEW t \in Sockets, NEW e \in Modules, Score(t, e) > 0, Score(t, e) > score'[e]
               PROVE  Score(t, e) > score[e]
    BY <1>2 DEF Acceptable
  <2>1. Score(t, e) \in 0..35 /\ score[e] \in Nat /\ score'[e] \in Nat /\ score'[e] >= score[e]
    BY <1>1, <1>4, ScoreType
  <2> QED BY <2>1
<1>6. PICK p \in [Sockets -> 1..7] : \E W : Counted(p, W)
  BY <1>1 DEF RoundInv
<1>7. PICK W : Counted(p, W)
  BY <1>6
<1>8. Rounds(p)
  BY <1>7 DEF Counted
<1>9. Rounds(p)'
  <2>1. ASSUME NEW i \in DOMAIN queue', NEW j \in DOMAIN queue', i < j
        PROVE  p[queue'[i]] <= p[queue'[j]] /\ p[queue'[j]] <= p[queue'[i]] + 1
    BY <1>1, <1>8, <2>1, QueueOrder
  <2>2. ASSUME NEW t \in Sockets \ Queued', queue' # <<>> PROVE p[t] <= p[Head(queue')]
    <3>1. p[t] <= p[s]
      BY <1>1, <1>3, <1>8, <2>2 DEF Rounds
    <3>2. Head(queue') = queue'[1] /\ 1 \in DOMAIN queue'
      BY <1>1, <1>8, <2>2, QueueOrder, Popped
    <3>3. p[s] <= p[queue'[1]] /\ queue'[1] \in Sockets
      BY <1>1, <1>8, <3>2, QueueOrder
    <3>4. p[t] \in Nat /\ p[s] \in Nat /\ p[queue'[1]] \in Nat
      BY <3>3
    <3> QED BY <3>1, <3>2, <3>3, <3>4
  <2>3. ASSUME NEW t \in Sockets, of'[t] # 0
        PROVE  socket[t].populated /\ Score(t, of'[t]) > 0 /\ 5 * p[t] + Score(t, of'[t]) <= 40
    <3>1. CASE t = s
      BY <1>3, <1>4, <1>8, <2>3, <3>1 DEF Rounds, Acceptable
    <3>2. CASE t # s
      BY <1>4, <1>8, <2>3, <3>2 DEF Rounds
    <3> QED BY <3>1, <3>2
  <2>4. ASSUME NEW t \in Queued', NEW e \in Acceptable(t)' PROVE 5 * p[t] + Score(t, e) <= 40
    <3>1. t \in Queued /\ t \in Sockets /\ e \in Modules
      BY <1>2, <1>3, <2>4 DEF Acceptable
    <3> QED BY <1>5, <1>8, <2>4, <3>1 DEF Rounds
  <2>5. \A t \in Sockets : of'[t] # 0 => of'[t] \in Modules
    <3> SUFFICES ASSUME NEW t \in Sockets, of'[t] # 0 PROVE of'[t] \in Modules
      OBVIOUS
    <3> QED BY <1>1, <1>4 DEF Types, Acceptable
  <2>6. \A t \in Queued', e \in Modules : t \in Sockets
    BY <1>3
  <2>7. \A t \in Queued' : Acceptable(t)' \subseteq Modules
    BY <1>2 DEF Acceptable
  <2> QED BY <1>1, <1>2, <2>1, <2>2, <2>3, <2>4, <2>5, <2>6, <2>7 DEF Rounds
<1> DEFINE n == Len(socket)
           g == Weight(p)
           h == Weight(p)'
<1>10. Sockets = 1..n /\ n \in Nat /\ g \in [1..n -> Int]
  BY <1>1, WeightType
<1>11. /\ g[s] = 5 * (p[s] - 1)
       /\ h[s] = 5 * p[s] + (IF of'[s] = 0 THEN 5 ELSE Score(s, of'[s]))
       /\ \A t \in Sockets : t # s => h[t] = g[t]
  <2>1. \A t \in Sockets : h[t] = IF t \in Queued' THEN 5 * (p[t] - 1)
                                  ELSE 5 * p[t] + (IF of'[t] = 0 THEN 5 ELSE Score(t, of'[t]))
    BY <1>1, <1>2 DEF Weight, Gain, Score
  <2>2. \A t \in Sockets : g[t] = IF t \in Queued THEN 5 * (p[t] - 1)
                                  ELSE 5 * p[t] + (IF of[t] = 0 THEN 5 ELSE Score(t, of[t]))
    BY DEF Weight, Gain
  <2> HIDE DEF g, h
  <2> QED BY <2>1, <2>2, <1>3, <1>4
<1>12. h \in [1..n -> Int] /\ h[s] >= g[s] + 10
  <2>1. (IF of'[s] = 0 THEN 5 ELSE Score(s, of'[s])) \in 5..35
    <3>1. CASE of'[s] = 0
      BY <3>1
    <3>2. CASE of'[s] # 0
      <4>1. of'[s] \in Modules /\ Score(s, of'[s]) > 0
        BY <1>4, <3>2 DEF Acceptable
      <4>2. Score(s, of'[s]) \in Levels
        BY <4>1, ScoreLevels
      <4>3. \A x \in Levels : x > 0 => x \in 5..35
        BY DEF Levels
      <4> QED BY <3>2, <4>1, <4>2, <4>3
    <3> QED BY <3>1, <3>2
  <2>2. p[s] \in Int
    OBVIOUS
  <2>3. h[s] \in Int /\ h[s] >= g[s] + 10
    BY <1>11, <2>1, <2>2
  <2>4. \A t \in Sockets : h[t] \in Int
    BY <1>10, <1>11, <2>3
  <2>5. DOMAIN h = Sockets /\ h = [t \in Sockets |-> h[t]]
    BY <1>2 DEF Weight
  <2> HIDE DEF h, n
  <2> QED BY <1>10, <2>3, <2>4, <2>5
<1> HIDE DEF g, h, n
<1>13. PICK V : SumsOf(n, h, V) /\ V[n] = W[n] + h[s] - g[s]
  <2>1. SumsOf(n, g, W)
    BY <1>7 DEF Counted, g, n
  <2> QED BY <1>10, <1>11, <1>12, <2>1, SumsBump
<1>14. V[n] >= 10 * (4 * n - loops')
  <2>1. W[n] >= 10 * (4 * n - loops)
    BY <1>7 DEF Counted, n
  <2>2. W[n] \in Int /\ h[s] \in Int /\ g[s] \in Int
    <3>1. W \in [0..n -> Int] /\ n \in 0..n
      BY <1>7, <1>10 DEF Counted, SumsOf, n
    <3> QED BY <1>10, <1>12, <3>1
  <2> QED BY <1>1, <1>10, <1>12, <1>13, <2>1, <2>2, SMTT(30)
<1>15. Counted(p, V)'
  BY <1>2, <1>9, <1>13, <1>14 DEF Counted, n, h
<1> QED BY <1>2, <1>15 DEF RoundInv

\* A socket that takes the module of another: the other goes to the next round.
LEMMA DisplaceRound ==
  ASSUME Inv, RoundInv, NEW s \in Sockets, Displace(s)
  PROVE  RoundInv'
<1> DEFINE b == Best(s)
           old == owner[b]
<1>1. /\ Types /\ OnceQueued /\ OneToOne /\ Scored /\ Content
      /\ queue # <<>> /\ s = Head(queue) /\ queue' = Append(Tail(queue), old) /\ phase = "match"
      /\ loops \in Nat /\ loops' = loops - 1 /\ Acceptable(s) # {} /\ socket[s].populated
      /\ old # 0 /\ of' = [of EXCEPT ![old] = 0, ![s] = b]
      /\ score' = [score EXCEPT ![b] = Score(s, b)]
      /\ UNCHANGED <<socket, spd, phase>>
  BY DEF Inv, Displace, Pop, Take, Types
<1>2. /\ Sockets' = Sockets /\ Modules' = Modules /\ Len(socket)' = Len(socket)
      /\ \A t \in Sockets, e \in Modules : Score(t, e)' = Score(t, e)
  BY <1>1 DEF Sockets, Modules, Score
<1>3. /\ b \in Modules /\ b \in Acceptable(s) /\ Score(s, b) > score[b]
      /\ \A t \in Sockets, e \in Modules : Score(t, e) \in 0..35 /\ score[e] \in Nat
  BY <1>1, BestIsBest, ScoreType DEF Acceptable, Types
<1>4. s \in Queued /\ of[s] = 0 /\ Queued \subseteq Sockets
  <2>1. Queued \subseteq Sockets
    BY <1>1 DEF Queued, Types
  <2> QED BY <1>1, <2>1, Popped DEF OneToOne
<1>5. b # 0 /\ old \in Sockets /\ old # s /\ of[old] = b /\ old \notin Queued /\ score[b] = Score(old, b)
  <2>1. b # 0
    BY <1>1, <1>3, NoSocketIsZero
  <2> QED BY <1>1, <1>3, <1>4, <2>1 DEF OneToOne, Types, Scored
<1>6. Queued' = (Queued \ {s}) \union {old}
  <2>1. Elements(Tail(queue)) = Queued \ {s} /\ Tail(queue) \in Seq(Sockets)
        /\ Injective(Tail(queue))
    BY <1>1, Popped
  <2> DEFINE q == Tail(queue)
  <2>2. old \notin Elements(q) /\ q \in Seq(Sockets) /\ Injective(q) /\ Elements(q) = Queued \ {s}
    BY <1>5, <2>1
  <2> HIDE DEF q, old
  <2>3. Elements(Append(q, old)) = Elements(q) \union {old}
    BY <1>5, <2>2, AppendToQueue
  <2>4. Queued' = Elements(queue')
    BY DEF Queued, Elements
  <2> QED BY <1>1, <2>2, <2>3, <2>4 DEF q
<1> HIDE DEF b, old
<1>7. /\ of'[s] = b /\ of'[old] = 0
      /\ \A t \in Sockets : t # s /\ t # old => of'[t] = of[t]
      /\ score'[b] = Score(s, b) /\ \A e \in Modules : e # b => score'[e] = score[e]
  <2>1. of \in [Sockets -> Modules \union {0}] /\ score \in [Modules -> Nat]
    BY <1>1 DEF Types
  <2> QED BY <1>1, <1>3, <1>5, <2>1
<1>8. \A t \in Sockets, e \in Modules : e \in Acceptable(t)' => e \in Acceptable(t)
  <2> SUFFICES ASSUME NEW t \in Sockets, NEW e \in Modules, Score(t, e) > 0, Score(t, e) > score'[e]
               PROVE  Score(t, e) > score[e]
    BY <1>2 DEF Acceptable
  <2>1. Score(t, e) \in 0..35 /\ score[e] \in Nat /\ Score(s, b) \in 0..35 /\ score[b] \in Nat
    BY <1>3
  <2>2. CASE e = b
    BY <1>3, <1>7, <2>1, <2>2
  <2>3. CASE e # b
    BY <1>7, <2>3
  <2> QED BY <2>2, <2>3
<1>9. PICK p \in [Sockets -> 1..7] : \E W : Counted(p, W)
  BY <1>1 DEF RoundInv
<1>10. PICK W : Counted(p, W)
  BY <1>9
<1>11. Rounds(p)
  BY <1>10 DEF Counted
\* The one that must make way fits the module less, by 5 at least.
<1>12. /\ Score(old, b) \in 5..35 /\ Score(s, b) \in 5..35 /\ Score(s, b) >= Score(old, b) + 5
       /\ 5 * p[s] + Score(s, b) <= 40 /\ p[old] <= p[s] /\ socket[old].populated
  <2>1. Score(old, b) > 0 /\ socket[old].populated
    BY <1>5, <1>11 DEF Rounds
  <2>2. Score(old, b) \in Levels /\ Score(s, b) \in Levels
    BY <1>3, <1>5, ScoreLevels
  <2>3. Score(s, b) > Score(old, b)
    BY <1>3, <1>5
  <2>4. Score(s, b) >= Score(old, b) + 5
    BY <2>2, <2>3, LevelsApart
  <2>5. \A x \in Levels : x > 0 => x \in 5..35
    BY DEF Levels
  <2>6. 5 * p[s] + Score(s, b) <= 40 /\ p[old] <= p[s]
    BY <1>1, <1>3, <1>4, <1>5, <1>11 DEF Rounds
  <2>7. Score(old, b) \in 5..35
    BY <2>1, <2>2, <2>5
  <2>8. Score(s, b) \in 5..35
    <3>1. \A x, y \in Levels : x > y /\ y > 0 => x > 0
      BY DEF Levels
    <3> QED BY <2>1, <2>2, <2>3, <2>5, <3>1
  <2> QED BY <2>1, <2>4, <2>6, <2>7, <2>8
<1>13. p[s] \in 1..6 /\ p[old] \in 1..7
  <2>1. p[s] \in 1..7 /\ p[old] \in 1..7
    BY <1>5
  <2> QED BY <1>12, <2>1
<1>14. PICK r \in [Sockets -> 1..7] :
         r[old] = p[s] + 1 /\ \A t \in Sockets : t # old => r[t] = p[t]
  <2>1. p[s] + 1 \in 1..7
    BY <1>13
  <2> DEFINE x == [p EXCEPT ![old] = p[s] + 1]
  <2>2. x \in [Sockets -> 1..7] /\ x[old] = p[s] + 1 /\ \A t \in Sockets : t # old => x[t] = p[t]
    BY <1>5, <2>1
  <2> QED BY <2>2
<1> DEFINE m == Len(queue)
<1>15. /\ m \in Nat \ {0} /\ DOMAIN queue' = 1..m /\ queue'[m] = old
       /\ Head(queue') = queue'[1]
       /\ \A i \in 1..(m - 1) : /\ queue'[i] \in Queued \ {s}
                                /\ p[s] <= r[queue'[i]] /\ r[queue'[i]] <= p[s] + 1
       /\ \A i, j \in 1..(m - 1) : i < j =>
            r[queue'[i]] <= r[queue'[j]] /\ r[queue'[j]] <= r[queue'[i]] + 1
  <2> DEFINE q == Tail(queue)
  <2>1. m \in Nat \ {0} /\ q \in Seq(Sockets) /\ Len(q) = m - 1 /\ DOMAIN q = 1..(m - 1)
        /\ Elements(q) = Queued \ {s}
    BY <1>1, Popped DEF Types
  <2>2. /\ \A i \in 1..(m - 1) : p[s] <= p[q[i]] /\ p[q[i]] <= p[s] + 1
        /\ \A i, j \in 1..(m - 1) : i < j => p[q[i]] <= p[q[j]] /\ p[q[j]] <= p[q[i]] + 1
    BY <1>1, <1>11, <2>1, QueueOrder
  <2>3. queue' = Append(q, old)
    BY <1>1
  <2> HIDE DEF q, m
  <2>4. DOMAIN queue' = 1..m /\ queue'[m] = old /\ \A i \in 1..(m - 1) : queue'[i] = q[i]
    BY <1>5, <2>1, <2>3
  <2>5. \A i \in 1..(m - 1) : q[i] \in Queued \ {s} /\ q[i] \in Sockets /\ q[i] # old
    BY <1>4, <1>5, <2>1 DEF Elements
  <2>6. \A i \in 1..(m - 1) : r[q[i]] = p[q[i]]
    BY <1>14, <2>5
  <2>7. Head(queue') = queue'[1]
    BY <2>3, <2>1, <1>5
  <2> QED BY <2>1, <2>2, <2>4, <2>5, <2>6, <2>7
<1> HIDE DEF m
<1>16. Rounds(r)'
  <2>1. ASSUME NEW i \in DOMAIN queue', NEW j \in DOMAIN queue', i < j
        PROVE  r[queue'[i]] <= r[queue'[j]] /\ r[queue'[j]] <= r[queue'[i]] + 1
    <3>1. CASE j = m
      <4>1. i \in 1..(m - 1) /\ r[queue'[j]] = p[s] + 1
        BY <1>14, <1>15, <2>1, <3>1
      <4>2. queue'[i] \in Sockets
        BY <1>4, <1>15, <4>1
      <4>3. r[queue'[i]] \in 1..7 /\ p[s] \in 1..6
        BY <1>13, <1>14, <4>2
      <4> QED BY <1>15, <4>1, <4>3
    <3>2. CASE j # m
      BY <1>15, <2>1, <3>2
    <3> QED BY <3>1, <3>2
  <2>2. ASSUME NEW t \in Sockets \ Queued', queue' # <<>> PROVE r[t] <= r[Head(queue')]
    <3>1. t # old /\ r[t] = p[t] /\ p[t] <= p[s]
      <4>1. t # old /\ (t = s \/ t \notin Queued)
        BY <1>6, <2>2
      <4> QED BY <1>1, <1>11, <1>13, <1>14, <4>1 DEF Rounds
    <3>2. p[s] <= r[queue'[1]] /\ r[queue'[1]] \in Nat
      <4>1. CASE m = 1
        BY <1>13, <1>14, <1>15, <4>1
      <4>2. CASE m # 1
        <5>1. 1 \in 1..(m - 1)
          BY <1>15, <4>2
        <5>2. queue'[1] \in Sockets
          BY <1>4, <1>15, <5>1
        <5> QED BY <1>14, <1>15, <5>1, <5>2
      <4> QED BY <4>1, <4>2
    <3>3. p[t] \in Nat /\ p[s] \in Nat
      OBVIOUS
    <3> QED BY <1>15, <3>1, <3>2, <3>3
  <2>3. ASSUME NEW t \in Sockets, of'[t] # 0
        PROVE  /\ of'[t] \in Modules /\ socket[t].populated
               /\ Score(t, of'[t]) > 0 /\ 5 * r[t] + Score(t, of'[t]) <= 40
    <3>1. CASE t = s
      <4>1. of'[t] = b /\ r[t] = p[s] /\ socket[t].populated
        BY <1>1, <1>5, <1>7, <1>14, <3>1
      <4> QED BY <1>3, <1>12, <3>1, <4>1
    <3>2. CASE t # s
      <4>1. t # old /\ of'[t] = of[t] /\ r[t] = p[t]
        BY <1>7, <1>14, <2>3, <3>2
      <4> QED BY <1>1, <1>11, <2>3, <4>1 DEF Rounds, Types
    <3> QED BY <3>1, <3>2
  <2>4. ASSUME NEW t \in Queued', NEW e \in Modules, e \in Acceptable(t)'
        PROVE  5 * r[t] + Score(t, e) <= 40
    <3>1. t \in Sockets
      BY <1>4, <1>5, <1>6
    <3>2. e \in Acceptable(t)
      BY <1>8, <2>4, <3>1
    <3>3. CASE t # old
      BY <1>6, <1>11, <1>14, <3>1, <3>2, <3>3 DEF Rounds
    <3>4. CASE t = old
      <4>1. ~(score[e] >= Score(old, e)) /\ Score(old, e) > 0
        <5>1. score[e] \in Nat /\ Score(old, e) \in 0..35
          BY <1>3, <1>5
        <5> QED BY <3>2, <3>4, <5>1 DEF Acceptable
      <4>2. ~(Score(old, e) > Served(old))
        BY <1>1, <1>5, <1>12, <4>1 DEF Content
      <4>3. Served(old) = Score(old, b)
        BY <1>5 DEF Served
      <4>4. Score(old, e) \in 0..35
        BY <1>3, <1>5
      <4> QED BY <1>12, <1>13, <1>14, <3>4, <4>2, <4>3, <4>4
    <3> QED BY <3>3, <3>4
  <2>5. \A t \in Queued' : t \in Sockets /\ Acceptable(t)' \subseteq Modules
    BY <1>2, <1>4, <1>5, <1>6 DEF Acceptable
  <2> QED BY <1>1, <1>2, <2>1, <2>2, <2>3, <2>4, <2>5, ZenonT(60) DEF Rounds
<1> DEFINE n == Len(socket)
           g == Weight(p)
           h == Weight(r)'
           k == [g EXCEPT ![s] = 5 * p[s] + Score(s, b)]
<1>17. Sockets = 1..n /\ n \in Nat /\ g \in [1..n -> Int]
  BY <1>1, WeightType
<1>18. /\ g[s] = 5 * (p[s] - 1) /\ g[old] = 5 * p[old] + Score(old, b)
       /\ h[s] = 5 * p[s] + Score(s, b) /\ h[old] = 5 * p[s]
       /\ \A t \in Sockets : t # s /\ t # old => h[t] = g[t]
  <2>1. \A t \in Sockets : h[t] = IF t \in Queued' THEN 5 * (r[t] - 1)
                                  ELSE 5 * r[t] + (IF of'[t] = 0 THEN 5 ELSE Score(t, of'[t]))
    BY <1>1, <1>2 DEF Weight, Gain, Score
  <2>2. \A t \in Sockets : g[t] = IF t \in Queued THEN 5 * (p[t] - 1)
                                  ELSE 5 * p[t] + (IF of[t] = 0 THEN 5 ELSE Score(t, of[t]))
    BY DEF Weight, Gain
  <2> HIDE DEF g, h
  <2>3. g[s] = 5 * (p[s] - 1) /\ g[old] = 5 * p[old] + Score(old, b)
    BY <1>4, <1>5, <2>2
  <2>4. h[s] = 5 * p[s] + Score(s, b)
    BY <1>4, <1>5, <1>6, <1>7, <1>14, <2>1
  <2>5. h[old] = 5 * p[s]
    <3>1. h[old] = 5 * ((p[s] + 1) - 1)
      BY <1>5, <1>6, <1>14, <2>1
    <3> QED BY <1>13, <3>1
  <2>6. ASSUME NEW t \in Sockets, t # s, t # old PROVE h[t] = g[t]
    <3>1. (t \in Queued' <=> t \in Queued) /\ r[t] = p[t] /\ of'[t] = of[t]
      BY <1>6, <1>7, <1>14, <2>6
    <3> QED BY <2>1, <2>2, <3>1
  <2> QED BY <2>3, <2>4, <2>5, <2>6
<1>19. /\ k \in [1..n -> Int] /\ k[s] = h[s] /\ \A t \in 1..n : t # s => k[t] = g[t]
       /\ h \in [1..n -> Int] /\ \A t \in 1..n : t # old => h[t] = k[t]
  <2>1. 5 * p[s] + Score(s, b) \in Int /\ 5 * p[s] \in Int
    BY <1>12, <1>13
  <2>2. DOMAIN h = Sockets /\ h = [t \in Sockets |-> h[t]]
    BY <1>2 DEF Weight
  <2> HIDE DEF g, h, n
  <2>3. k \in [1..n -> Int] /\ k[s] = h[s] /\ \A t \in 1..n : t # s => k[t] = g[t]
    BY <1>17, <1>18, <2>1
  <2>4. \A t \in 1..n : h[t] \in Int
    BY <1>17, <1>18, <2>1
  <2> HIDE DEF k
  <2>5. h \in [1..n -> Int]
    BY <1>17, <2>2, <2>4
  <2>6. \A t \in 1..n : t # old => h[t] = k[t]
    BY <1>17, <1>18, <2>3
  <2> QED BY <2>3, <2>5, <2>6
<1>20. k[old] = g[old]
  BY <1>5, <1>17, <1>19
<1> HIDE DEF g, h, k, n
<1>21. SumsOf(n, g, W)
  BY <1>10 DEF Counted, g, n
<1>22. PICK U : SumsOf(n, k, U) /\ U[n] = W[n] + k[s] - g[s]
  BY <1>17, <1>19, <1>21, SumsBump, ZenonT(60)
<1>23. PICK V : SumsOf(n, h, V) /\ V[n] = U[n] + h[old] - k[old]
  <2>1. old \in 1..n
    BY <1>5, <1>17
  <2>2. k \in [1..n -> Int] /\ h \in [1..n -> Int] /\ \A i \in 1..n : i # old => h[i] = k[i]
    BY <1>19
  <2>3. SumsOf(n, k, U) /\ n \in Nat
    BY <1>17, <1>22
  <2> QED BY <2>1, <2>2, <2>3, SumsBump, ZenonT(60)
<1>24. V[n] >= 10 * (4 * n - loops')
  <2>1. W[n] >= 10 * (4 * n - loops) /\ W[n] \in Int
    <3>1. W \in [0..n -> Int] /\ n \in 0..n
      BY <1>17, <1>21 DEF SumsOf
    <3> QED BY <1>10, <3>1 DEF Counted, n
  <2>2. V[n] = W[n] + h[s] - g[s] + h[old] - g[old]
    <3>1. {h[s], g[s], h[old], g[old]} \subseteq Int
      BY <1>5, <1>17, <1>19
    <3> QED BY <1>19, <1>20, <1>22, <1>23, <2>1, <3>1
  <2>3. h[s] - g[s] + h[old] - g[old] = 5 + Score(s, b) + 5 * p[s] - 5 * p[old] - Score(old, b)
    BY <1>12, <1>13, <1>18
  <2>4. h[s] - g[s] + h[old] - g[old] >= 10
    BY <1>12, <1>13, <2>3
  <2>5. h[s] \in Int /\ g[s] \in Int /\ h[old] \in Int /\ g[old] \in Int
    BY <1>5, <1>17, <1>19
  <2>6. 10 * (4 * n - loops') = 10 * (4 * n - loops) + 10
    BY <1>1, <1>17
  <2>7. 10 * (4 * n - loops) \in Int
    BY <1>1, <1>17
  <2> QED BY <2>1, <2>2, <2>4, <2>5, <2>6, <2>7
<1>25. Counted(r, V)'
  BY <1>2, <1>16, <1>23, <1>24 DEF Counted, n, h
<1> QED BY <1>2, <1>14, <1>25 DEF RoundInv

LEMMA RoundStep == Inv /\ RoundInv /\ [Next]_vars => RoundInv'
<1> SUFFICES ASSUME Inv, RoundInv, [Next]_vars PROVE RoundInv'
  OBVIOUS
<1>1. CASE Fill
  BY <1>1 DEF Fill, RoundInv
<1>2. ASSUME NEW s \in Sockets, Leave(s) \/ Claim(s) PROVE RoundInv'
  BY <1>2, PopRound
<1>3. ASSUME NEW s \in Sockets, Displace(s) PROVE RoundInv'
  BY <1>3, DisplaceRound
<1>4. CASE UNCHANGED vars
  <2>1. UNCHANGED <<socket, spd, queue, loops, of, score, phase>>
    BY <1>4 DEF vars
  <2>2. Sockets' = Sockets /\ Queued' = Queued /\ \A s \in Sockets : Acceptable(s)' = Acceptable(s)
    BY <2>1 DEF Sockets, Modules, Queued, Acceptable, Score
  <2>3. ASSUME NEW p \in [Sockets -> 1..7], NEW W, Counted(p, W) PROVE Counted(p, W)'
    <3>1. Rounds(p)'
      BY <2>1, <2>3 DEF Counted, Rounds, Sockets, Modules, Queued, Acceptable, Score
    <3>2. Weight(p)' = Weight(p)
      BY <2>1 DEF Weight, Gain, Sockets, Queued, Score
    <3> QED BY <2>1, <2>3, <3>1, <3>2 DEF Counted
  <2> QED BY <2>1, <2>2, <2>3 DEF RoundInv
<1> QED BY <1>1, <1>2, <1>3, <1>4 DEF Next

\* The search ends because the queue is empty and never because it went on for too long:
\* four rounds for each socket are enough, however many sockets and modules there are
\* and whatever they are called (dmi_memory.c:500-504).
THEOREM GivesUpNeverHolds == Spec => []GivesUpNever
<1>1. Init => phase = "match"
  BY DEF Init
<1>2. GivesUpNever /\ [Next]_vars => GivesUpNever' \/ (phase = "match")'
  <2> SUFFICES ASSUME GivesUpNever, [Next]_vars PROVE GivesUpNever' \/ phase' = "match"
    OBVIOUS
  <2>1. CASE Fill \/ UNCHANGED vars
    BY <2>1 DEF Fill, vars, GivesUpNever
  <2>2. ASSUME NEW s \in Sockets, Leave(s) \/ Claim(s) \/ Displace(s) PROVE phase' = "match"
    BY <2>2 DEF Leave, Claim, Displace, Pop
  <2> QED BY <2>1, <2>2 DEF Next
<1>3. Inv /\ RoundInv /\ phase = "match" => GivesUpNever
  BY NotGivenUp
<1> QED BY <1>1, <1>2, <1>3, InitInv, NextInv, RoundInit, RoundStep, PTL DEF Spec
=============================================================================
