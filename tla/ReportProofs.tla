---------------------------- MODULE ReportProofs ----------------------------
(***************************************************************************)
(* Theorems about Report for any modules, entries and pages, any command   *)
(* lines, ticks and formats.                                               *)
(***************************************************************************)
EXTENDS Report, SequenceTheorems, WellFoundedInduction, TLAPS

-----------------------------------------------------------------------------
(* Induction and recursion over numbers and sequences                       *)

\* A set that no natural is the least to leave out holds all up to any bound.
LEMMA Induction ==
  ASSUME NEW n \in Nat, NEW P, 0 \in P, \A i \in 1..n : i - 1 \in P => i \in P
  PROVE  \A i \in 0..n : i \in P
<1> DEFINE R == OpToRel(<, Nat)
           Bad == {i \in 0..n : i \notin P}
<1>1. IsWellFoundedOn(R, Nat)
  BY NatLessThanWellFounded, Zenon
<1>2. \A x, y \in Nat : x < y => <<x, y>> \in R
  BY DEF OpToRel
<1> HIDE DEF R
<1>3. SUFFICES ASSUME Bad # {} PROVE FALSE
  OBVIOUS
<1>4. Bad \subseteq Nat
  OBVIOUS
<1>5. PICK x \in Bad : \A y \in Bad : ~(<<y, x>> \in R)
  <2> HIDE DEF Bad
  <2> QED BY <1>1, <1>3, <1>4, WFMin, Zenon
<1>6. x \in 1..n
  BY <1>5
<1>7. x - 1 \in Nat /\ x \in Nat /\ x - 1 < x /\ x - 1 \in 0..n
  BY <1>6
<1>8. x - 1 \in P
  BY <1>2, <1>5, <1>7
<1> QED BY <1>5, <1>6, <1>8

\* f begins with d and takes the steps h up to k.
Recurs(f, k, d, h) == f[0] = d /\ \A i \in 1..k : f[i] = h[<<i, f[i - 1]>>]

\* A step for each number makes a function of the numbers.
LEMMA Recursion ==
  ASSUME NEW n \in Nat, NEW D, NEW d \in D, NEW h \in [(1..n) \X D -> D]
  PROVE  \E f \in [0..n -> D] : Recurs(f, n, d, h)
<1> DEFINE Steps(f, k) == Recurs(f, k, d, h)
           P == {k \in 0..n : \E f \in [0..k -> D] : Steps(f, k)}
<1>1. 0 \in P
  <2> DEFINE g == [i \in 0..0 |-> d]
  <2>1. g \in [0..0 -> D] /\ Steps(g, 0)
    BY DEF Recurs
  <2> HIDE DEF g
  <2>2. \E f \in [0..0 -> D] : Steps(f, 0)
    BY <2>1
  <2> QED BY <2>2
<1>2. ASSUME NEW k \in 1..n, k - 1 \in P PROVE k \in P
  <2>1. PICK f \in [0..(k - 1) -> D] : Steps(f, k - 1)
    BY <1>2
  <2> DEFINE g == [i \in 0..k |-> IF i = k THEN h[<<k, f[k - 1]>>] ELSE f[i]]
  <2>2. \A i \in 0..k : i # k => i \in 0..(k - 1)
    OBVIOUS
  <2>3. k - 1 \in 0..(k - 1) /\ f[k - 1] \in D /\ h[<<k, f[k - 1]>>] \in D
    OBVIOUS
  <2>4. g \in [0..k -> D]
    BY <2>2, <2>3
  <2>5. ASSUME NEW i \in 1..k PROVE g[i] = h[<<i, g[i - 1]>>]
    <3>1. i - 1 \in 0..k /\ i - 1 # k /\ g[i - 1] = f[i - 1]
      OBVIOUS
    <3>2. CASE i = k
      BY <3>1, <3>2
    <3>3. CASE i # k
      <4>1. i \in 1..(k - 1) /\ i \in 0..k /\ g[i] = f[i]
        BY <3>3
      <4> QED BY <2>1, <3>1, <4>1 DEF Recurs
    <3> QED BY <3>2, <3>3
  <2>6. g[0] = d
    BY <2>1 DEF Recurs
  <2> HIDE DEF g
  <2>7. Steps(g, k)
    BY <2>5, <2>6 DEF Recurs
  <2>8. \E f1 \in [0..k -> D] : Steps(f1, k)
    BY <2>4, <2>7
  <2> QED BY <2>8
<1>3. n \in P
  <2> HIDE DEF P
  <2>1. \A i \in 0..n : i \in P
    BY <1>1, <1>2, Induction
  <2> QED BY <2>1
<1> QED BY <1>3

\* The steps leave one choice.
LEMMA Determined ==
  ASSUME NEW n \in Nat, NEW d, NEW h, NEW f, NEW g, Recurs(f, n, d, h), Recurs(g, n, d, h)
  PROVE  \A i \in 0..n : f[i] = g[i]
<1> DEFINE P == {i \in 0..n : f[i] = g[i]}
<1>1. 0 \in P
  BY DEF Recurs
<1>2. ASSUME NEW i \in 1..n, i - 1 \in P PROVE i \in P
  <2>1. f[i - 1] = g[i - 1]
    BY <1>2
  <2>2. f[i] = g[i]
    BY <2>1, Zenon DEF Recurs
  <2> QED BY <2>2
<1>3. \A i \in 0..n : i \in P
  <2> HIDE DEF P
  <2> QED BY <1>1, <1>2, Induction
<1> QED BY <1>3

\* What holds of the empty sequence and stays when one is extended holds of all.
LEMMA SeqInduction ==
  ASSUME NEW S, NEW P, <<>> \in P, \A s \in Seq(S), e \in S : s \in P => Append(s, e) \in P
  PROVE  \A s \in Seq(S) : s \in P
<1> SUFFICES ASSUME NEW s \in Seq(S) PROVE s \in P
  OBVIOUS
<1> DEFINE Q == {k \in 0..Len(s) : \A t \in Seq(S) : Len(t) = k => t \in P}
<1>1. Len(s) \in Nat
  BY LenProperties
<1>2. 0 \in Q
  BY <1>1, EmptySeq
<1>3. ASSUME NEW k \in 1..Len(s), k - 1 \in Q PROVE k \in Q
  <2>1. SUFFICES ASSUME NEW t \in Seq(S), Len(t) = k PROVE t \in P
    BY <1>1
  <2>2. t # <<>>
    BY <2>1, EmptySeq
  <2>3. PICK u \in Seq(S), e \in S : t = Append(u, e)
    BY <2>2, SequenceEmptyOrAppend
  <2>4. Len(u) \in Nat /\ Len(t) = Len(u) + 1
    BY <2>3, LenProperties, AppendProperties
  <2>5. u \in P
    BY <1>1, <1>3, <2>1, <2>4
  <2> QED BY <2>3, <2>5
<1>4. \A k \in 0..Len(s) : k \in Q
  <2> HIDE DEF Q
  <2> QED BY <1>1, <1>2, <1>3, Induction
<1> QED BY <1>1, <1>4

-----------------------------------------------------------------------------
(* Sequences of sequences                                                   *)

\* FlattenSeq() joins one sequence after the other.
Joins(f, ss) ==
  /\ f[0] = <<>> /\ f[Len(ss)] = FlattenSeq(ss)
  /\ \A i \in 1..Len(ss) : f[i] = f[i - 1] \o ss[i]

LEMMA FlattenIs ==
  ASSUME NEW T, NEW ss \in Seq(Seq(T))
  PROVE  \E f \in [0..Len(ss) -> Seq(T)] : Joins(f, ss)
<1> DEFINE n == Len(ss)
           h == [x \in (1..n) \X Seq(T) |-> x[2] \o ss[x[1]]]
           IsFlat(r) == r = [i \in 1..n |-> IF i = 1 THEN ss[i] ELSE r[i - 1] \o ss[i]]
<1>1. n \in Nat /\ \A i \in 1..n : ss[i] \in Seq(T)
  BY LenProperties, ElementOfSeq
<1>2. h \in [(1..n) \X Seq(T) -> Seq(T)]
  BY <1>1, ConcatProperties
<1>3. <<>> \in Seq(T) /\ \A i \in 1..n : <<>> \o ss[i] = ss[i]
  BY <1>1, EmptySeq, ConcatEmptySeq
<1> HIDE DEF n, h
<1>4. PICK f \in [0..n -> Seq(T)] : Recurs(f, n, <<>>, h)
  BY <1>1, <1>2, <1>3, Recursion
<1>5. ASSUME NEW i \in 1..n PROVE f[i] = f[i - 1] \o ss[i]
  <2>1. f[i - 1] \in Seq(T)
    BY <1>1
  <2>2. h[<<i, f[i - 1]>>] = f[i - 1] \o ss[i]
    BY <2>1 DEF h
  <2> QED BY <1>4, <2>2 DEF Recurs
<1>6. CASE n = 0
  <2>1. FlattenSeq(ss) = <<>>
    BY <1>6, EmptySeq DEF FlattenSeq, n
  <2> QED BY <1>4, <1>6, <2>1 DEF n, Joins, Recurs
<1>7. CASE n # 0
  <2> DEFINE r == [i \in 1..n |-> f[i]]
             c == CHOOSE s : IsFlat(s)
  <2>1. IsFlat(r)
    <3>1. ASSUME NEW i \in 1..n PROVE r[i] = IF i = 1 THEN ss[i] ELSE r[i - 1] \o ss[i]
      <4>1. CASE i = 1
        <5>1. f[i] = f[0] \o ss[i] /\ f[0] = <<>>
          <6>1. i - 1 = 0
            BY <4>1
          <6> QED BY <1>4, <1>5, <6>1, Zenon DEF Recurs
        <5>2. f[i] = ss[i]
          BY <1>3, <5>1, Zenon
        <5> QED BY <4>1, <5>2
      <4>2. CASE i # 1
        <5>1. i - 1 \in 1..n
          BY <1>1, <4>2
        <5> QED BY <1>5, <4>2, <5>1
      <4> QED BY <4>1, <4>2
    <3> QED BY <3>1
  <2>2. IsFlat(c)
    <3> HIDE DEF r, IsFlat
    <3> QED BY <2>1, Zenon
  <2>3. FlattenSeq(ss) = c[n]
    BY <1>7 DEF FlattenSeq, n
  <2> DEFINE P == {i \in 0..n : i # 0 => c[i] = f[i]}
  <2>4. 0 \in P
    BY <1>1
  <2>5. ASSUME NEW i \in 1..n, i - 1 \in P PROVE i \in P
    <3> HIDE DEF c
    <3>1. c[i] = IF i = 1 THEN ss[i] ELSE c[i - 1] \o ss[i]
      BY <2>2
    <3>2. CASE i = 1
      <4>1. f[i] = f[0] \o ss[i] /\ f[0] = <<>>
        <5>1. i - 1 = 0
          BY <3>2
        <5> QED BY <1>4, <1>5, <5>1, Zenon DEF Recurs
      <4>2. f[i] = ss[i]
        BY <1>3, <4>1, Zenon
      <4> QED BY <3>1, <3>2, <4>2
    <3>3. CASE i # 1
      <4>1. i - 1 # 0 /\ c[i - 1] = f[i - 1]
        BY <2>5, <3>3
      <4>2. c[i] = f[i]
        BY <1>5, <3>1, <3>3, <4>1
      <4> QED BY <4>2
    <3> QED BY <3>2, <3>3
  <2>6. \A i \in 0..n : i \in P
    <3> HIDE DEF P, c
    <3> QED BY <1>1, <2>4, <2>5, Induction
  <2>7. c[n] = f[n]
    <3> HIDE DEF c
    <3> QED BY <1>1, <1>7, <2>6
  <2> HIDE DEF c
  <2> QED BY <1>4, <1>5, <2>3, <2>7 DEF n, Joins, Recurs
<1> QED BY <1>6, <1>7

\* Joining none gives the empty sequence; what is joined last comes last.
LEMMA FlattenEmpty == FlattenSeq(<<>>) = <<>>
BY EmptySeq DEF FlattenSeq

LEMMA FlattenType ==
  ASSUME NEW T, NEW ss \in Seq(Seq(T))
  PROVE  FlattenSeq(ss) \in Seq(T)
<1>1. Len(ss) \in 0..Len(ss)
  BY LenProperties
<1>2. PICK f \in [0..Len(ss) -> Seq(T)] : Joins(f, ss)
  BY FlattenIs
<1> QED BY <1>1, <1>2 DEF Joins

LEMMA FlattenAppend ==
  ASSUME NEW T, NEW ss \in Seq(Seq(T)), NEW s \in Seq(T)
  PROVE  FlattenSeq(Append(ss, s)) = FlattenSeq(ss) \o s
<1> DEFINE tt == Append(ss, s)
           n == Len(ss)
           h == [x \in (1..n) \X Seq(T) |-> x[2] \o ss[x[1]]]
<1>1. tt \in Seq(Seq(T)) /\ n \in Nat /\ Len(tt) = n + 1 /\ tt[n + 1] = s
      /\ \A i \in 1..n : tt[i] = ss[i]
  BY AppendProperties, LenProperties
<1> HIDE DEF tt
<1>2. PICK f \in [0..n -> Seq(T)] : Joins(f, ss)
  BY FlattenIs
<1>3. PICK g \in [0..n + 1 -> Seq(T)] : Joins(g, tt)
  BY <1>1, FlattenIs
<1> HIDE DEF n
<1>4. ASSUME NEW i \in 1..n PROVE f[i] = h[<<i, f[i - 1]>>] /\ g[i] = h[<<i, g[i - 1]>>]
  <2>1. i \in 1..n + 1 /\ f[i - 1] \in Seq(T) /\ g[i - 1] \in Seq(T)
    BY <1>1
  <2> QED BY <1>1, <1>2, <1>3, <2>1 DEF Joins, n
<1> HIDE DEF h
<1>5. Recurs(f, n, <<>>, h) /\ Recurs(g, n, <<>>, h)
  BY <1>2, <1>3, <1>4 DEF Joins, Recurs
<1>6. \A i \in 0..n : f[i] = g[i]
  <2>1. ASSUME NEW d, NEW f1, NEW g1, Recurs(f1, n, d, h), Recurs(g1, n, d, h)
        PROVE  \A i \in 0..n : f1[i] = g1[i]
    <3>1. n \in Nat
      BY <1>1
    <3> QED BY ONLY <2>1, <3>1, Determined
  <2> QED BY <1>5, <2>1, Zenon
<1>7. n \in 0..n /\ n + 1 \in 1..n + 1 /\ (n + 1) - 1 = n
  BY <1>1
<1> QED BY <1>1, <1>2, <1>3, <1>6, <1>7 DEF tt, n, Joins

\* Joined piece by piece or in two parts, it is the same.
LEMMA ConcatAppend ==
  ASSUME NEW S, NEW s \in Seq(S), NEW t \in Seq(S), NEW e \in S
  PROVE  s \o Append(t, e) = Append(s \o t, e)
<1>1. s \o t \in Seq(S) /\ <<e>> \in Seq(S)
  BY ConcatProperties
<1>2. Append(t, e) = t \o <<e>> /\ Append(s \o t, e) = (s \o t) \o <<e>>
  BY <1>1, AppendIsConcat
<1> QED BY <1>1, <1>2, ConcatAssociative

LEMMA FlattenCat ==
  ASSUME NEW T, NEW ss \in Seq(Seq(T)), NEW tt \in Seq(Seq(T))
  PROVE  FlattenSeq(ss \o tt) = FlattenSeq(ss) \o FlattenSeq(tt)
<1> DEFINE P == {x \in Seq(Seq(T)) : FlattenSeq(ss \o x) = FlattenSeq(ss) \o FlattenSeq(x)}
<1>1. <<>> \in P
  <2>1. <<>> \in Seq(Seq(T)) /\ ss \o <<>> = ss
    BY EmptySeq, ConcatEmptySeq
  <2>2. FlattenSeq(ss) \o <<>> = FlattenSeq(ss)
    BY FlattenType, ConcatEmptySeq
  <2> QED BY <2>1, <2>2, FlattenEmpty
<1>2. ASSUME NEW x \in Seq(Seq(T)), NEW e \in Seq(T), x \in P PROVE Append(x, e) \in P
  <2>1. Append(x, e) \in Seq(Seq(T)) /\ ss \o x \in Seq(Seq(T))
    BY AppendProperties, ConcatProperties
  <2>2. ss \o Append(x, e) = Append(ss \o x, e)
    BY ConcatAppend
  <2>3. FlattenSeq(Append(ss \o x, e)) = FlattenSeq(ss \o x) \o e
    BY <2>1, FlattenAppend
  <2>4. FlattenSeq(Append(x, e)) = FlattenSeq(x) \o e
    BY FlattenAppend
  <2>5. FlattenSeq(ss) \in Seq(T) /\ FlattenSeq(x) \in Seq(T)
    BY FlattenType
  <2>6. (FlattenSeq(ss) \o FlattenSeq(x)) \o e = FlattenSeq(ss) \o (FlattenSeq(x) \o e)
    BY <2>5, ConcatAssociative, SMTT(30)
  <2> QED BY <1>2, <2>1, <2>2, <2>3, <2>4, <2>6
<1>3. tt \in P
  <2> HIDE DEF P
  <2> QED BY <1>1, <1>2, SeqInduction
<1> QED BY <1>3

\* A function applied to each element.
Mapped(g, s) == [i \in DOMAIN s |-> g[s[i]]]

LEMMA MappedType ==
  ASSUME NEW S, NEW T, NEW g, \A x \in S : g[x] \in T, NEW s \in Seq(S)
  PROVE  Mapped(g, s) \in Seq(T)
<1>1. Len(s) \in Nat /\ DOMAIN s = 1..Len(s) /\ \A i \in 1..Len(s) : s[i] \in S
  BY LenProperties, ElementOfSeq
<1>2. Mapped(g, s) \in [1..Len(s) -> T]
  BY <1>1 DEF Mapped
<1> QED BY <1>1, <1>2

LEMMA MappedLen ==
  ASSUME NEW S, NEW g, NEW s \in Seq(S)
  PROVE  Len(Mapped(g, s)) = Len(s)
<1>1. Len(s) \in Nat /\ DOMAIN s = 1..Len(s)
  BY LenProperties
<1>2. Mapped(g, s) \in [1..Len(s) -> {g[s[i]] : i \in 1..Len(s)}]
  BY <1>1 DEF Mapped
<1> QED BY <1>1, <1>2

LEMMA MappedCat ==
  ASSUME NEW S, NEW g, NEW s \in Seq(S), NEW t \in Seq(S)
  PROVE  Mapped(g, s \o t) = Mapped(g, s) \o Mapped(g, t)
<1> DEFINE a == Mapped(g, s \o t)
           u == Mapped(g, s)
           v == Mapped(g, t)
           b == u \o v
           T == {g[x] : x \in S}
<1>1. s \o t \in Seq(S) /\ Len(s \o t) = Len(s) + Len(t) /\ Len(s) \in Nat /\ Len(t) \in Nat
      /\ DOMAIN s = 1..Len(s) /\ DOMAIN t = 1..Len(t)
      /\ \A i \in 1..Len(s) + Len(t) :
           (s \o t)[i] = IF i <= Len(s) THEN s[i] ELSE t[i - Len(s)]
  BY ConcatProperties, LenProperties
<1>2. DOMAIN (s \o t) = 1..Len(s) + Len(t)
  BY <1>1, LenProperties
<1>3. u \in Seq(T) /\ Len(u) = Len(s)
  BY MappedType, MappedLen
<1>4. v \in Seq(T) /\ Len(v) = Len(t)
  BY MappedType, MappedLen
<1>5. a \in Seq(T) /\ Len(a) = Len(s) + Len(t)
  <2>1. a \in Seq(T)
    BY <1>1, MappedType
  <2>2. Len(a) = Len(s \o t)
    BY <1>1, MappedLen
  <2> QED BY <1>1, <2>1, <2>2
<1>6. \A i \in 1..Len(s) : u[i] = g[s[i]]
  BY <1>1 DEF Mapped
<1>7. \A i \in 1..Len(t) : v[i] = g[t[i]]
  BY <1>1 DEF Mapped
<1>8. \A i \in 1..Len(s) + Len(t) : a[i] = g[(s \o t)[i]]
  BY <1>2 DEF Mapped
<1> HIDE DEF a, u, v, T
<1>9. b \in Seq(T) /\ Len(b) = Len(u) + Len(v)
      /\ \A i \in 1..Len(u) + Len(v) : b[i] = IF i <= Len(u) THEN u[i] ELSE v[i - Len(u)]
  BY <1>3, <1>4, ConcatProperties
<1> HIDE DEF b
<1>10. ASSUME NEW i \in 1..Len(a) PROVE a[i] = b[i]
  <2>1. CASE i <= Len(s)
    <3>1. i \in 1..Len(s) /\ i \in 1..Len(s) + Len(t)
      BY <1>1, <1>5, <2>1
    <3>2. a[i] = g[s[i]]
      BY <1>1, <1>8, <2>1, <3>1
    <3>3. b[i] = u[i]
      BY <1>3, <1>4, <1>9, <2>1, <3>1
    <3> QED BY <1>6, <3>1, <3>2, <3>3
  <2>2. CASE ~(i <= Len(s))
    <3>1. i - Len(s) \in 1..Len(t) /\ i \in 1..Len(s) + Len(t)
      BY <1>1, <1>5, <2>2
    <3>2. a[i] = g[t[i - Len(s)]]
      BY <1>1, <1>8, <2>2, <3>1
    <3>3. b[i] = v[i - Len(s)]
      BY <1>3, <1>4, <1>9, <2>2, <3>1
    <3> QED BY <1>7, <3>1, <3>2, <3>3
  <2> QED BY <2>1, <2>2
<1>11. Len(b) = Len(a) /\ b \in Seq(T)
  BY <1>3, <1>4, <1>5, <1>9
<1>12. a = b
  BY <1>5, <1>10, <1>11, SeqEqual
<1> QED BY <1>12 DEF a, b, u, v

LEMMA MappedOne ==
  ASSUME NEW g, NEW e
  PROVE  Mapped(g, <<e>>) = <<g[e]>>
BY DEF Mapped

\* A function that maps joined sequences to what it makes of them, joined.
Respects(h, S, T) ==
  /\ h \in [Seq(S) -> Seq(T)] /\ h[<<>>] = <<>>
  /\ \A x, y \in Seq(S) : h[x \o y] = h[x] \o h[y]

LEMMA FlattenRespects ==
  ASSUME NEW S, NEW T, NEW h, Respects(h, S, T), NEW ss \in Seq(Seq(S))
  PROVE  h[FlattenSeq(ss)] = FlattenSeq(Mapped(h, ss))
<1> DEFINE P == {x \in Seq(Seq(S)) : h[FlattenSeq(x)] = FlattenSeq(Mapped(h, x))}
<1>0. h \in [Seq(S) -> Seq(T)] /\ h[<<>>] = <<>>
  BY DEF Respects
<1>1. <<>> \in P
  <2>1. Mapped(h, <<>>) = <<>> /\ <<>> \in Seq(Seq(S))
    BY EmptySeq DEF Mapped
  <2> QED BY <1>0, <2>1, FlattenEmpty
<1>2. ASSUME NEW x \in Seq(Seq(S)), NEW e \in Seq(S), x \in P PROVE Append(x, e) \in P
  <2>1. Append(x, e) \in Seq(Seq(S)) /\ Append(x, e) = x \o <<e>> /\ <<e>> \in Seq(Seq(S))
    BY AppendProperties, AppendIsConcat
  <2>2. FlattenSeq(x) \in Seq(S) /\ FlattenSeq(Append(x, e)) = FlattenSeq(x) \o e
    BY FlattenType, FlattenAppend
  <2>3. h[FlattenSeq(Append(x, e))] = h[FlattenSeq(x)] \o h[e]
    BY <2>2 DEF Respects
  <2>4. Mapped(h, Append(x, e)) = Mapped(h, x) \o <<h[e]>>
    <3>1. Mapped(h, x \o <<e>>) = Mapped(h, x) \o Mapped(h, <<e>>)
      <4>1. ASSUME NEW y \in Seq(Seq(S)) PROVE Mapped(h, x \o y) = Mapped(h, x) \o Mapped(h, y)
        BY MappedCat
      <4> QED BY <2>1, <4>1, Zenon
    <3>2. Mapped(h, <<e>>) = <<h[e]>>
      BY <1>0, MappedOne, Zenon
    <3> QED BY <2>1, <3>1, <3>2
  <2>5. Mapped(h, x) \in Seq(Seq(T)) /\ h[e] \in Seq(T)
    BY <1>0, MappedType
  <2>6. Mapped(h, Append(x, e)) = Append(Mapped(h, x), h[e])
    BY <2>4, <2>5, AppendIsConcat
  <2>7. FlattenSeq(Mapped(h, Append(x, e))) = FlattenSeq(Mapped(h, x)) \o h[e]
    BY <2>5, <2>6, FlattenAppend
  <2> QED BY <1>2, <2>1, <2>3, <2>7
<1>3. ss \in P
  <2> HIDE DEF P
  <2> QED BY <1>1, <1>2, SeqInduction
<1> QED BY <1>3

\* What is made of each element, joined, respects the joining of the sequences.
LEMMA EachRespects ==
  ASSUME NEW S, NEW T, NEW g \in [S -> Seq(T)]
  PROVE  Respects([s \in Seq(S) |-> FlattenSeq(Mapped(g, s))], S, T)
<1> DEFINE h == [s \in Seq(S) |-> FlattenSeq(Mapped(g, s))]
<1>1. ASSUME NEW s \in Seq(S) PROVE Mapped(g, s) \in Seq(Seq(T)) /\ FlattenSeq(Mapped(g, s)) \in Seq(T)
  BY MappedType, FlattenType
<1>2. h \in [Seq(S) -> Seq(T)]
  BY <1>1
<1>3. h[<<>>] = <<>>
  <2>1. <<>> \in Seq(S) /\ Mapped(g, <<>>) = <<>>
    BY EmptySeq DEF Mapped
  <2> QED BY <2>1, FlattenEmpty
<1>4. ASSUME NEW x \in Seq(S), NEW y \in Seq(S) PROVE h[x \o y] = h[x] \o h[y]
  <2>1. x \o y \in Seq(S) /\ Mapped(g, x \o y) = Mapped(g, x) \o Mapped(g, y)
    <3>1. x \o y \in Seq(S)
      BY ConcatProperties
    <3>2. Mapped(g, x \o y) = Mapped(g, x) \o Mapped(g, y)
      BY MappedCat
    <3> QED BY <3>1, <3>2
  <2>2. FlattenSeq(Mapped(g, x) \o Mapped(g, y)) = FlattenSeq(Mapped(g, x)) \o FlattenSeq(Mapped(g, y))
    BY <1>1, FlattenCat
  <2> QED BY <2>1, <2>2
<1> HIDE DEF h
<1>5. Respects(h, S, T)
  BY <1>2, <1>3, <1>4 DEF Respects
<1> QED BY <1>5 DEF h

\* Joining sequences of one element each.
LEMMA FlattenOnes ==
  ASSUME NEW S, NEW g, NEW h, \A x \in S : g[x] = <<h[x]>>, NEW s \in Seq(S)
  PROVE  FlattenSeq(Mapped(g, s)) = Mapped(h, s)
<1> DEFINE T == {h[x] : x \in S}
           P == {x \in Seq(S) : FlattenSeq(Mapped(g, x)) = Mapped(h, x)}
<1>1. <<>> \in P
  <2>1. Mapped(g, <<>>) = <<>> /\ Mapped(h, <<>>) = <<>> /\ <<>> \in Seq(S)
    BY EmptySeq DEF Mapped
  <2> QED BY <2>1, FlattenEmpty
<1>2. ASSUME NEW x \in Seq(S), NEW e \in S, x \in P PROVE Append(x, e) \in P
  <2>1. Append(x, e) \in Seq(S) /\ Append(x, e) = x \o <<e>> /\ <<e>> \in Seq(S)
    BY AppendProperties, AppendIsConcat
  <2>2. ASSUME NEW f, NEW y \in Seq(S) PROVE Mapped(f, x \o y) = Mapped(f, x) \o Mapped(f, y)
    BY MappedCat
  <2>3. Mapped(g, <<e>>) = <<g[e]>> /\ Mapped(h, <<e>>) = <<h[e]>>
    BY MappedOne
  <2>4. ASSUME NEW y \in S PROVE g[y] \in Seq(T)
    <3>1. h[y] \in T /\ g[y] = <<h[y]>>
      OBVIOUS
    <3>2. ASSUME NEW z \in T PROVE <<z>> \in Seq(T)
      OBVIOUS
    <3> QED BY <3>1, <3>2, Zenon
  <2>5. Mapped(g, x) \in Seq(Seq(T)) /\ g[e] \in Seq(T)
    BY <2>4, MappedType
  <2>6. Mapped(g, Append(x, e)) = Append(Mapped(g, x), g[e])
    <3>1. Mapped(g, Append(x, e)) = Mapped(g, x) \o <<g[e]>>
      BY <2>1, <2>2, <2>3, Zenon
    <3> QED BY <2>5, <3>1, AppendIsConcat
  <2>7. FlattenSeq(Mapped(g, Append(x, e))) = FlattenSeq(Mapped(g, x)) \o g[e]
    BY <2>5, <2>6, FlattenAppend
  <2>8. Mapped(h, Append(x, e)) = Mapped(h, x) \o <<h[e]>>
    BY <2>1, <2>2, <2>3, Zenon
  <2> QED BY <1>2, <2>1, <2>7, <2>8
<1>3. s \in P
  <2> HIDE DEF P
  <2> QED BY <1>1, <1>2, SeqInduction
<1> QED BY <1>3

LEMMA NoElements ==
  ASSUME NEW s \in Seq({})
  PROVE  s = <<>>
BY EmptySeq, ElementOfSeq

\* What Kept() makes of each element, and its facts.
One(S, set) == [x \in S |-> IF x \in set THEN <<x>> ELSE <<>>]

LEMMA KeptIs ==
  ASSUME NEW S, NEW s \in Seq(S), NEW set
  PROVE  Kept(s, set) = FlattenSeq(Mapped(One(S, set), s))
<1>1. DOMAIN s = 1..Len(s) /\ \A i \in 1..Len(s) : s[i] \in S
  BY LenProperties, ElementOfSeq
<1>2. \A x \in S : One(S, set)[x] = IF x \in set THEN <<x>> ELSE <<>>
  BY DEF One
<1>3. [i \in DOMAIN s |-> IF s[i] \in set THEN <<s[i]>> ELSE <<>>] = Mapped(One(S, set), s)
  BY <1>1, <1>2 DEF Mapped
<1> QED BY <1>3 DEF Kept

LEMMA KeptType ==
  ASSUME NEW S, NEW s \in Seq(S), NEW set
  PROVE  Kept(s, set) \in Seq(S \intersect set)
<1> DEFINE T == S \intersect set
<1>1. ASSUME NEW x \in S PROVE One(S, set)[x] \in Seq(T)
  <2>1. ASSUME NEW y \in T PROVE <<y>> \in Seq(T)
    OBVIOUS
  <2>2. CASE x \in set
    <3>1. x \in T /\ One(S, set)[x] = <<x>>
      BY <2>2 DEF One
    <3> QED BY <2>1, <3>1, Zenon
  <2>3. CASE x \notin set
    BY <2>3, EmptySeq DEF One
  <2> QED BY <2>2, <2>3
<1>2. Mapped(One(S, set), s) \in Seq(Seq(T))
  BY <1>1, MappedType
<1> HIDE DEF T
<1>3. Kept(s, set) \in Seq(T)
  BY <1>2, KeptIs, FlattenType
<1> QED BY <1>3 DEF T

LEMMA KeptSeq ==
  ASSUME NEW S, NEW s \in Seq(S), NEW set
  PROVE  Kept(s, set) \in Seq(S)
<1> DEFINE T == S \intersect set
<1>1. Kept(s, set) \in Seq(T)
  BY KeptType
<1>2. T \subseteq S
  OBVIOUS
<1> HIDE DEF T
<1> QED BY <1>1, <1>2, SeqMonotonic

LEMMA KeptAll ==
  ASSUME NEW set, NEW s \in Seq(set)
  PROVE  Kept(s, set) = s
<1> DEFINE h == [x \in set |-> x]
<1>1. \A x \in set : One(set, set)[x] = <<h[x]>>
  BY DEF One
<1>2. DOMAIN s = 1..Len(s) /\ \A i \in 1..Len(s) : s[i] \in set
  BY LenProperties, ElementOfSeq
<1>3. Mapped(h, s) = s
  BY <1>2 DEF Mapped
<1> HIDE DEF h
<1>4. FlattenSeq(Mapped(One(set, set), s)) = Mapped(h, s)
  BY <1>1, FlattenOnes
<1> QED BY <1>3, <1>4, KeptIs

LEMMA KeptNone ==
  ASSUME NEW S, NEW s \in Seq(S), NEW set, S \intersect set = {}
  PROVE  Kept(s, set) = <<>>
<1>1. Kept(s, set) \in Seq(S \intersect set)
  BY KeptType
<1> QED BY <1>1, NoElements

\* What is kept of sequences, joined, is what is kept of the joined sequence.
LEMMA KeptFlatten ==
  ASSUME NEW S, NEW ss \in Seq(Seq(S)), NEW set
  PROVE  Kept(FlattenSeq(ss), set) = FlattenSeq([i \in DOMAIN ss |-> Kept(ss[i], set)])
<1> DEFINE g == One(S, set)
           h == [s \in Seq(S) |-> FlattenSeq(Mapped(g, s))]
<1>1. g \in [S -> Seq(S)]
  BY EmptySeq DEF One
<1>2. ASSUME NEW f \in [S -> Seq(S)] PROVE Respects([s \in Seq(S) |-> FlattenSeq(Mapped(f, s))], S, S)
  BY EachRespects
<1>3. Respects(h, S, S)
  BY <1>1, <1>2
<1>4. \A s \in Seq(S) : h[s] = Kept(s, set)
  BY KeptIs
<1> HIDE DEF h
<1>5. h[FlattenSeq(ss)] = FlattenSeq(Mapped(h, ss))
  BY <1>3, FlattenRespects
<1>6. DOMAIN ss = 1..Len(ss) /\ \A i \in 1..Len(ss) : ss[i] \in Seq(S)
  BY LenProperties, ElementOfSeq
<1>7. Mapped(h, ss) = [i \in DOMAIN ss |-> Kept(ss[i], set)]
  BY <1>4, <1>6 DEF Mapped
<1>8. FlattenSeq(ss) \in Seq(S)
  BY FlattenType
<1> QED BY <1>4, <1>5, <1>7, <1>8
-----------------------------------------------------------------------------
(* The modules and the tree                                                 *)

Entry == [name : STRING, flags : SUBSET STRING]
RowsOf(m) == NamesOf(Visible(m))
Rows == FlattenSeq([i \in DOMAIN modules |-> RowsOf(modules[i])])

\* Only files that are tried are loaded.
LEMMA ModulesType ==
  ASSUME NEW p, NEW broken
  PROVE  modules_load_all(p, broken) \in Seq(Range(Files))
<1> DEFINE D == Range(Files)
           tried == Kept(Files, {m \in Range(Files) \ broken :
                                   m = "benchmark" => p.gui_running \/ ~p.skip_benchmarks})
           n == Len(tried)
           lighter(m) == {m1 \in Range(Files) : Weight[m1] < Weight[m]}
           step(i, l) == Kept(l, lighter(tried[i])) \o <<tried[i]>>
                         \o Kept(l, Range(Files) \ lighter(tried[i]))
           h == [x \in (1..n) \X Seq(D) |-> step(x[1], x[2])]
           IsList(l) == l = [i \in 0..n |-> IF i = 0 THEN <<>> ELSE step(i, l[i - 1])]
           list == CHOOSE l : IsList(l)
<1>1. Files \in Seq(D)
  BY ProgramAssumption, SeqOfRange
<1>2. tried \in Seq(D)
  <2>1. ASSUME NEW set PROVE Kept(Files, set) \in Seq(D)
    BY <1>1, KeptSeq
  <2> QED BY <2>1
<1>3. modules_load_all(p, broken) = list[n]
  BY DEF modules_load_all
<1> HIDE DEF tried, D, lighter
<1>4. n \in Nat /\ \A i \in 1..n : tried[i] \in D
  BY <1>2, LenProperties, ElementOfSeq
<1> HIDE DEF n
<1>5. ASSUME NEW i \in 1..n, NEW l \in Seq(D) PROVE step(i, l) \in Seq(D)
  <2>1. ASSUME NEW set PROVE Kept(l, set) \in Seq(D)
    BY KeptSeq
  <2>2. tried[i] \in D
    BY <1>4
  <2>3. <<tried[i]>> \in Seq(D)
    BY <2>2
  <2> QED BY <2>1, <2>3, ConcatProperties
<1> HIDE DEF step
<1>6. h \in [(1..n) \X Seq(D) -> Seq(D)]
  BY <1>5
<1>7. <<>> \in Seq(D)
  BY EmptySeq
<1>8. ASSUME NEW i \in 1..n, NEW l \in Seq(D) PROVE h[<<i, l>>] = step(i, l)
  OBVIOUS
<1> HIDE DEF h
<1>9. PICK f \in [0..n -> Seq(D)] : Recurs(f, n, <<>>, h)
  BY <1>4, <1>6, <1>7, Recursion
<1>10. IsList(f)
  <2>1. ASSUME NEW i \in 0..n PROVE f[i] = IF i = 0 THEN <<>> ELSE step(i, f[i - 1])
    <3>1. CASE i = 0
      BY <1>9, <3>1 DEF Recurs
    <3>2. CASE i # 0
      <4>1. i \in 1..n /\ i - 1 \in 0..n
        BY <1>4, <3>2
      <4> QED BY <1>8, <1>9, <3>2, <4>1 DEF Recurs
    <3> QED BY <3>1, <3>2
  <2> QED BY <2>1
<1>11. IsList(list)
  <2> HIDE DEF IsList
  <2> QED BY <1>10, Zenon
<1> DEFINE P == {i \in 0..n : list[i] = f[i]}
<1> HIDE DEF list
<1>12. 0 \in P
  BY <1>4, <1>10, <1>11
<1>13. ASSUME NEW i \in 1..n, i - 1 \in P PROVE i \in P
  <2>1. i \in 0..n /\ i # 0
    BY <1>4
  <2>2. list[i] = step(i, list[i - 1]) /\ f[i] = step(i, f[i - 1])
    BY <1>10, <1>11, <2>1
  <2> QED BY <1>13, <2>1, <2>2
<1>14. n \in P
  <2> HIDE DEF P
  <2>1. \A i \in 0..n : i \in P
    BY <1>4, <1>12, <1>13, Induction
  <2> QED BY <1>4, <2>1
<1>15. list[n] \in Seq(D)
  BY <1>4, <1>14
<1> QED BY <1>3, <1>15 DEF D

\* A module's rows are some of its entries, by name.
LEMMA RowsType ==
  ASSUME NEW m \in Range(Files)
  PROVE  /\ RowsOf(m) \in Seq(Pages) /\ RowsOf(m) \in Seq(Children(m))
         /\ Children(m) \subseteq EntryNames(m)
<1> DEFINE Es == Range(ModuleEntries[m])
           Ls == Range(module_load(m))
           v == Visible(m)
<1>1. ModuleEntries[m] \in Seq(Es)
  <2>1. ModuleEntries[m] \in Seq(Entry)
    BY ProgramAssumption DEF Entry
  <2> QED BY <2>1, SeqOfRange
<1>2. module_load(m) \in Seq(Es)
  <2> HIDE DEF Es
  <2>1. ASSUME NEW s \in Seq(Es), NEW set PROVE Kept(s, set) \in Seq(Es)
    BY KeptSeq
  <2> QED BY <1>1, <2>1 DEF module_load
<1>3. module_load(m) \in Seq(Ls) /\ Ls \subseteq Es
  <2> HIDE DEF Es
  <2> QED BY <1>2, SeqOfRange, RangeOfSeq
<1>4. \A e \in Ls : e.name \in Pages
  <2> DEFINE l == module_load(m)
  <2>1. NamesOf(l) = [i \in DOMAIN l |-> l[i].name]
    BY DEF NamesOf
  <2> HIDE DEF l
  <2>2. \A e \in Range(l) : e.name \in Range(NamesOf(l))
    BY <2>1 DEF Range
  <2> QED BY <2>2 DEF Pages, Entries, l
<1>5. \A e \in Es : e.name \in EntryNames(m)
  BY DEF EntryNames
<1> HIDE DEF Es, Ls
<1>6. Visible(m) \in Seq(Ls)
  <2>1. ASSUME NEW s \in Seq(Ls), NEW set PROVE Kept(s, set) \in Seq(Ls)
    BY KeptSeq
  <2> QED BY <1>3, <2>1 DEF Visible
<1> HIDE DEF v
<1>7. Len(v) \in Nat /\ DOMAIN v = 1..Len(v) /\ \A i \in 1..Len(v) : v[i] \in Ls
  BY <1>6, LenProperties, ElementOfSeq DEF v
<1>8. RowsOf(m) = [i \in 1..Len(v) |-> v[i].name]
  BY <1>7 DEF RowsOf, NamesOf, v
<1>9. \A i \in 1..Len(v) : v[i].name \in EntryNames(m) /\ v[i].name \in Pages
  BY <1>3, <1>4, <1>5, <1>7
<1>10. RowsOf(m) \in Seq(EntryNames(m)) /\ RowsOf(m) \in Seq(Pages)
  BY <1>7, <1>8, <1>9
<1>11. Children(m) = Range(RowsOf(m))
  BY DEF Children, RowsOf
<1> HIDE DEF RowsOf
<1>12. Range(RowsOf(m)) \subseteq EntryNames(m)
  BY <1>10, RangeOfSeq
<1>13. RowsOf(m) \in Seq(Range(RowsOf(m)))
  BY <1>10, SeqOfRange
<1> QED BY <1>10, <1>11, <1>12, <1>13

\* The rows of all modules, as a sequence of sequences
LEMMA AllRows ==
  ASSUME modules \in Seq(Range(Files))
  PROVE  /\ [i \in DOMAIN modules |-> RowsOf(modules[i])] \in Seq(Seq(Pages))
         /\ Rows \in Seq(Pages)
         /\ Rows \in Seq(shell_add_modules_to_gui(modules))
<1> DEFINE rows == [i \in DOMAIN modules |-> RowsOf(modules[i])]
           all == shell_add_modules_to_gui(modules)
<1>1. Len(modules) \in Nat /\ DOMAIN modules = 1..Len(modules)
      /\ \A i \in 1..Len(modules) : modules[i] \in Range(Files) /\ modules[i] \in Range(modules)
  BY LenProperties, ElementOfSeq DEF Range
<1>2. \A i \in 1..Len(modules) : RowsOf(modules[i]) \in Seq(Pages)
  BY <1>1, RowsType
<1>3. ASSUME NEW i \in 1..Len(modules) PROVE RowsOf(modules[i]) \in Seq(all)
  <2>1. RowsOf(modules[i]) \in Seq(Children(modules[i]))
    BY <1>1, RowsType
  <2>2. Children(modules[i]) \subseteq all
    BY <1>1 DEF shell_add_modules_to_gui, Children
  <2> HIDE DEF all
  <2> QED BY <2>1, <2>2, SeqMonotonic
<1> HIDE DEF all
<1>4. rows \in Seq(Seq(Pages)) /\ rows \in Seq(Seq(all))
  BY <1>1, <1>2, <1>3
<1> HIDE DEF rows
<1>5. FlattenSeq(rows) \in Seq(Pages) /\ FlattenSeq(rows) \in Seq(all)
  BY <1>4, FlattenType
<1> QED BY <1>4, <1>5 DEF rows, all, Rows
-----------------------------------------------------------------------------
(* What is to be written                                                    *)

Items == ({"module"} \X Range(Files)) \union ({"entry"} \X Pages)
EntryOf == [x \in Items |-> IF x[1] = "entry" THEN <<x[2]>> ELSE <<>>]
EntriesIn(t) == FlattenSeq(Mapped(EntryOf, t))

LEMMA FlattenOne ==
  ASSUME NEW T, NEW s \in Seq(T)
  PROVE  FlattenSeq(<<s>>) = s
<1> DEFINE none == <<>>
<1>1. none \in Seq(Seq(T)) /\ Append(none, s) = <<s>> /\ FlattenSeq(none) = <<>>
  BY EmptySeq, FlattenEmpty
<1>2. <<>> \o s = s
  BY ConcatEmptySeq
<1> HIDE DEF none
<1>3. FlattenSeq(Append(none, s)) = FlattenSeq(none) \o s
  BY <1>1, FlattenAppend
<1> QED BY <1>1, <1>2, <1>3

LEMMA EntryOfType == EntryOf \in [Items -> Seq(Pages)]
<1>1. ASSUME NEW x \in Items PROVE (IF x[1] = "entry" THEN <<x[2]>> ELSE <<>>) \in Seq(Pages)
  <2>1. CASE x[1] = "entry"
    <3>1. x[2] \in Pages
      BY <2>1 DEF Items
    <3>2. <<x[2]>> \in Seq(Pages)
      BY <3>1
    <3> QED BY <2>1, <3>2
  <2>2. CASE x[1] # "entry"
    BY <2>2, EmptySeq
  <2> QED BY <2>1, <2>2
<1> QED BY <1>1 DEF EntryOf

LEMMA EntriesRespect == Respects([t \in Seq(Items) |-> EntriesIn(t)], Items, Pages)
<1>1. ASSUME NEW S, NEW T, NEW g \in [S -> Seq(T)]
      PROVE  Respects([s \in Seq(S) |-> FlattenSeq(Mapped(g, s))], S, T)
  BY EachRespects
<1> QED BY <1>1, EntryOfType, Zenon DEF EntriesIn

LEMMA EntriesType ==
  ASSUME NEW t \in Seq(Items)
  PROVE  EntriesIn(t) \in Seq(Pages)
BY EntriesRespect DEF Respects

LEMMA EntriesCat ==
  ASSUME NEW s \in Seq(Items), NEW t \in Seq(Items)
  PROVE  EntriesIn(s \o t) = EntriesIn(s) \o EntriesIn(t)
<1> DEFINE h == [x \in Seq(Items) |-> EntriesIn(x)]
<1>1. s \o t \in Seq(Items)
  BY ConcatProperties
<1>2. h[s \o t] = h[s] \o h[t]
  BY EntriesRespect DEF Respects
<1> QED BY <1>1, <1>2

LEMMA EntriesOne ==
  ASSUME NEW x \in Items
  PROVE  EntriesIn(<<x>>) = IF x[1] = "entry" THEN <<x[2]>> ELSE <<>>
<1>1. Mapped(EntryOf, <<x>>) = <<EntryOf[x]>>
  BY MappedOne
<1>2. EntryOf[x] \in Seq(Pages)
  BY EntryOfType
<1>3. FlattenSeq(<<EntryOf[x]>>) = EntryOf[x]
  BY <1>2, FlattenOne
<1> QED BY <1>1, <1>3 DEF EntriesIn, EntryOf

\* Nothing is lost of what is left to write when one item is taken.
LEMMA EntriesTail ==
  ASSUME NEW t \in Seq(Items), t # <<>>
  PROVE  /\ Head(t) \in Items /\ Tail(t) \in Seq(Items)
         /\ EntriesIn(t) = (IF Head(t)[1] = "entry" THEN <<Head(t)[2]>> ELSE <<>>) \o EntriesIn(Tail(t))
<1>1. Head(t) \in Items /\ Tail(t) \in Seq(Items)
  BY HeadTailProperties
<1> DEFINE x == Head(t)
           y == Tail(t)
<1>2. t = <<x>> \o y
  OBVIOUS
<1> HIDE DEF x, y
<1>3. <<x>> \in Seq(Items)
  BY <1>1 DEF x
<1>4. EntriesIn(<<x>> \o y) = EntriesIn(<<x>>) \o EntriesIn(y)
  BY <1>1, <1>3, EntriesCat DEF y
<1>5. EntriesIn(<<x>>) = IF x[1] = "entry" THEN <<x[2]>> ELSE <<>>
  BY <1>1, EntriesOne DEF x
<1> QED BY <1>1, <1>2, <1>4, <1>5 DEF x, y

\* Of a module the entries with a tick are written, in the order of the tree.
LEMMA EntriesOfModule ==
  ASSUME NEW m \in Range(Files), NEW set
  PROVE  /\ OfModule(m, set) \in Seq(Items) /\ OfModule(m, set) # <<>>
         /\ Head(OfModule(m, set)) = <<"module", m>>
         /\ EntriesIn(OfModule(m, set)) = Kept(RowsOf(m), set)
<1> DEFINE p == Kept(RowsOf(m), set)
           g == [e \in Pages |-> <<"entry", e>>]
           ones == [e \in Pages |-> <<e>>]
           id == [e \in Pages |-> e]
           x == <<"module", m>>
<1>1. p \in Seq(Pages)
  BY RowsType, KeptSeq
<1>3. x \in Items /\ x[1] # "entry" /\ \A e \in Pages : g[e] \in Items
  BY DEF Items
<1>4. OfModule(m, set) = <<x>> \o [i \in DOMAIN p |-> <<"entry", p[i]>>]
  BY DEF OfModule, RowsOf
<1> HIDE DEF p, x
<1>5. DOMAIN p = 1..Len(p) /\ \A i \in 1..Len(p) : p[i] \in Pages
  BY <1>1, LenProperties, ElementOfSeq
<1>6. [i \in DOMAIN p |-> <<"entry", p[i]>>] = Mapped(g, p)
  BY <1>5 DEF Mapped
<1>7. \A e \in Pages : EntryOf[g[e]] = ones[e]
  BY DEF EntryOf, Items
<1>8. ASSUME NEW i \in 1..Len(p) PROVE g[p[i]] \in Items /\ EntryOf[g[p[i]]] = ones[p[i]]
  BY <1>3, <1>5, <1>7
<1>9. \A e \in Pages : ones[e] = <<id[e]>>
  OBVIOUS
<1>10. Mapped(id, p) = p
  BY <1>1, <1>5 DEF Mapped
<1> HIDE DEF g, ones, id
<1>11. Mapped(g, p) \in Seq(Items)
  BY <1>1, <1>3, MappedType
<1>12. Mapped(EntryOf, Mapped(g, p)) = Mapped(ones, p)
  BY <1>5, <1>8 DEF Mapped
<1>13. FlattenSeq(Mapped(ones, p)) = Mapped(id, p)
  BY <1>1, <1>9, FlattenOnes
<1>14. EntriesIn(Mapped(g, p)) = p
  BY <1>10, <1>12, <1>13 DEF EntriesIn
<1> DEFINE y == Mapped(g, p)
<1> HIDE DEF y
<1>15. <<x>> \in Seq(Items) /\ y \in Seq(Items)
  BY <1>3, <1>11 DEF y
<1>16. EntriesIn(<<x>> \o y) = EntriesIn(<<x>>) \o EntriesIn(y) /\ <<x>> \o y \in Seq(Items)
  BY <1>15, EntriesCat, ConcatProperties
<1>17. EntriesIn(<<x>>) = <<>>
  BY <1>3, EntriesOne
<1>18. <<>> \o p = p
  BY <1>1, ConcatEmptySeq
<1>19. <<x>> \o y # <<>> /\ Head(<<x>> \o y) = x
  BY <1>15
<1> QED BY <1>4, <1>6, <1>14, <1>16, <1>17, <1>18, <1>19 DEF p, x, y

\* A list is empty or begins with a module.
Begins(t) == t = <<>> \/ Head(t)[1] = "module"

LEMMA ListBegins ==
  ASSUME NEW ss \in Seq({t \in Seq(Items) : Begins(t)})
  PROVE  FlattenSeq(ss) \in Seq(Items) /\ Begins(FlattenSeq(ss))
<1> DEFINE Z == {t \in Seq(Items) : Begins(t)}
           P == {x \in Seq(Z) : FlattenSeq(x) \in Z}
<1>1. <<>> \in P
  BY EmptySeq, FlattenEmpty DEF Begins
<1>2. ASSUME NEW x \in Seq(Z), NEW e \in Z, x \in P PROVE Append(x, e) \in P
  <2>1. Z \subseteq Seq(Items)
    OBVIOUS
  <2> DEFINE a == FlattenSeq(x)
  <2>2. a \in Z /\ e \in Z
    BY <1>2
  <2>3. a \in Seq(Items) /\ e \in Seq(Items) /\ Begins(a) /\ Begins(e)
    BY <2>2
  <2> HIDE DEF a
  <2>4. a \o e \in Seq(Items)
    BY <2>3, ConcatProperties
  <2>5. Begins(a \o e)
    <3>1. CASE a = <<>>
      <4>1. a \o e = e
        BY <2>3, <3>1, ConcatEmptySeq
      <4> QED BY <2>3, <4>1
    <3>2. CASE a # <<>>
      <4>1. a \o e # <<>> /\ Head(a \o e) = Head(a)
        BY <2>3, <3>2
      <4> QED BY <2>3, <3>2, <4>1 DEF Begins
    <3> QED BY <3>1, <3>2
  <2>6. x \in Seq(Seq(Items)) /\ Append(x, e) \in Seq(Z)
    <3> HIDE DEF Z
    <3> QED BY <2>1, SeqMonotonic, AppendProperties
  <2>7. FlattenSeq(Append(x, e)) = a \o e
    BY <2>3, <2>6, FlattenAppend DEF a
  <2> QED BY <2>4, <2>5, <2>6, <2>7
<1>3. ss \in P
  <2> HIDE DEF P
  <2>1. ss \in Seq(Z)
    OBVIOUS
  <2> HIDE DEF Z
  <2> QED BY <1>1, <1>2, <2>1, SeqInduction
<1> QED BY <1>3

\* A set of ticks in which no module lacks a tick that one of its entries has
Consistent(set) == \A m \in Range(modules) : Children(m) \intersect set # {} => m \in set

\* Then all entries with a tick are on the list, in the order of the tree.
LEMMA ListOfModules ==
  ASSUME modules \in Seq(Range(Files)), NEW set, Consistent(set)
  PROVE  /\ module_list(set) \in Seq(Items) /\ Begins(module_list(set))
         /\ EntriesIn(module_list(set)) = Kept(Rows, set)
<1> DEFINE n == Len(modules)
           of == [i \in 1..n |-> IF modules[i] \in set THEN OfModule(modules[i], set) ELSE <<>>]
           rows == [i \in 1..n |-> RowsOf(modules[i])]
           Z == {t \in Seq(Items) : Begins(t)}
           h == [t \in Seq(Items) |-> EntriesIn(t)]
<1>1. n \in Nat /\ DOMAIN modules = 1..n
      /\ \A i \in 1..n : modules[i] \in Range(Files) /\ modules[i] \in Range(modules)
  BY LenProperties, ElementOfSeq DEF Range
<1>2. module_list(set) = FlattenSeq(of) /\ Rows = FlattenSeq(rows)
  BY <1>1 DEF module_list, Rows
<1>3. rows \in Seq(Seq(Pages))
  BY <1>1, AllRows
<1>4. ASSUME NEW i \in 1..n PROVE of[i] \in Z /\ EntriesIn(of[i]) = Kept(rows[i], set)
  <2> DEFINE m == modules[i]
  <2>1. m \in Range(Files) /\ RowsOf(m) \in Seq(Children(m)) /\ rows[i] = RowsOf(m)
        /\ (Children(m) \intersect set # {} => m \in set)
    BY <1>1, RowsType DEF Consistent
  <2> HIDE DEF m
  <2>2. CASE m \in set
    <3>1. of[i] = OfModule(m, set)
      BY <2>2 DEF m
    <3>2. /\ OfModule(m, set) \in Seq(Items) /\ Head(OfModule(m, set)) = <<"module", m>>
          /\ EntriesIn(OfModule(m, set)) = Kept(RowsOf(m), set)
      BY <2>1, EntriesOfModule
    <3> QED BY <2>1, <3>1, <3>2 DEF Begins
  <2>3. CASE m \notin set
    <3>1. of[i] = <<>>
      BY <2>3 DEF m
    <3>2. Kept(RowsOf(m), set) = <<>>
      BY <2>1, <2>3, KeptNone
    <3>3. EntriesIn(<<>>) = <<>> /\ <<>> \in Seq(Items)
      BY EmptySeq, FlattenEmpty DEF EntriesIn, Mapped
    <3> QED BY <2>1, <3>1, <3>2, <3>3 DEF Begins
  <2> QED BY <2>2, <2>3
<1> HIDE DEF of, rows
<1>5. DOMAIN of = 1..n /\ DOMAIN rows = 1..n
  BY DEF of, rows
<1>6. of \in Seq(Z)
  <2> HIDE DEF Z
  <2> QED BY <1>1, <1>4, <1>5 DEF of
<1>7. FlattenSeq(of) \in Seq(Items) /\ Begins(FlattenSeq(of))
  BY <1>6, ListBegins
<1>8. of \in Seq(Seq(Items))
  <2>1. Z \subseteq Seq(Items)
    OBVIOUS
  <2> HIDE DEF Z
  <2> QED BY <1>6, <2>1, SeqMonotonic
<1>9. Mapped(h, of) = [i \in DOMAIN rows |-> Kept(rows[i], set)]
  <2>1. \A i \in 1..n : of[i] \in Seq(Items)
    BY <1>4
  <2> QED BY <1>4, <1>5, <2>1 DEF Mapped
<1>10. Respects(h, Items, Pages)
  BY EntriesRespect
<1> HIDE DEF h
<1>11. h[FlattenSeq(of)] = FlattenSeq(Mapped(h, of))
  BY <1>8, <1>10, FlattenRespects
<1>12. Kept(FlattenSeq(rows), set) = FlattenSeq([i \in DOMAIN rows |-> Kept(rows[i], set)])
  BY <1>3, KeptFlatten
<1>13. h[FlattenSeq(of)] = EntriesIn(FlattenSeq(of))
  BY <1>7 DEF h
<1> QED BY <1>2, <1>7, <1>9, <1>11, <1>12, <1>13
-----------------------------------------------------------------------------
(* What is written: lines, and the depth of tables in HTML                  *)

Kinds == {"head", "h1", "<table>", "</table>", "stitle", "sstitle", "tr", "style", "module", "stars",
          "entry", "dashes", "group", "row", "block", "detail", "[group]"}
Names == STRING \union {"", "details"}   \* all strings; the provers do not see that these are some
Lines == [kind : Kinds, name : Names]

LEMMA MadeIsLine ==
  ASSUME NEW kind \in Kinds, NEW name \in Names
  PROVE  /\ Made(kind, name) \in Lines
         /\ Made(kind, name).kind = kind /\ Made(kind, name).name = name
BY DEF Made, Lines

\* The depth after a line, and where it may stand
After(d, t) == CASE t.kind = "<table>" -> d + 1
                 [] t = Close /\ d > 0 -> d - 1
                 [] OTHER -> d
MayStand(d, t) == CASE t.kind \in {"h1", "style"} -> d = 0
                    [] t.kind = "<table>" -> d = (IF t.name = "details" THEN 1 ELSE 0)
                    [] t.kind \in {"stitle", "sstitle", "tr"} -> d > 0
                    [] OTHER -> TRUE

LEMMA AfterType ==
  ASSUME NEW d \in Nat, NEW t
  PROVE  After(d, t) \in Nat
BY DEF After

\* The lines x lead from depth d to depth e, each where it may stand.
Depth(p, x, d, e) ==
  /\ p \in [0..Len(x) -> Nat] /\ p[0] = d /\ p[Len(x)] = e
  /\ \A i \in 1..Len(x) : p[i] = After(p[i - 1], x[i]) /\ MayStand(p[i - 1], x[i])
Fits(html, x, d, e) == x \in Seq(Lines) /\ (html => \E p : Depth(p, x, d, e))

LEMMA FitsNone ==
  ASSUME NEW html, NEW d \in Nat
  PROVE  Fits(html, <<>>, d, d)
<1> DEFINE p == [i \in 0..0 |-> d]
           x == <<>>
<1>1. x \in Seq(Lines) /\ Len(x) = 0
  BY EmptySeq
<1> HIDE DEF x
<1>2. p \in [0..0 -> Nat] /\ p[0] = d
  OBVIOUS
<1> HIDE DEF p
<1>3. Depth(p, x, d, d)
  BY <1>1, <1>2 DEF Depth
<1> QED BY <1>1, <1>3 DEF Fits, x

LEMMA FitsOne ==
  ASSUME NEW html, NEW d \in Nat, NEW t \in Lines, html => MayStand(d, t)
  PROVE  Fits(html, <<t>>, d, After(d, t))
<1> DEFINE x == <<t>>
<1>1. x \in Seq(Lines) /\ Len(x) = 1 /\ x[1] = t
  OBVIOUS
<1> DEFINE p == [i \in 0..1 |-> IF i = 0 THEN d ELSE After(d, t)]
<1>2. p \in [0..1 -> Nat] /\ p[0] = d /\ p[1] = After(d, t)
  BY AfterType
<1> HIDE DEF x, p
<1>3. html => Depth(p, x, d, After(d, t))
  BY <1>1, <1>2 DEF Depth
<1> QED BY <1>1, <1>3 DEF Fits, x

LEMMA FitsCat ==
  ASSUME NEW html, NEW d, NEW e, NEW f, NEW x, NEW y, Fits(html, x, d, e), Fits(html, y, e, f)
  PROVE  Fits(html, x \o y, d, f)
<1> DEFINE z == x \o y
           n == Len(x)
           m == Len(y)
<1>1. x \in Seq(Lines) /\ y \in Seq(Lines)
  BY DEF Fits
<1>2. z \in Seq(Lines) /\ n \in Nat /\ m \in Nat /\ Len(z) = n + m
      /\ \A i \in 1..n + m : z[i] = IF i <= n THEN x[i] ELSE y[i - n]
  BY <1>1, ConcatProperties, LenProperties
<1> HIDE DEF z
<1>3. ASSUME html PROVE \E r : Depth(r, z, d, f)
  <2>1. PICK p : Depth(p, x, d, e)
    BY <1>3 DEF Fits
  <2>2. PICK q : Depth(q, y, e, f)
    BY <1>3 DEF Fits
  <2>3. /\ p \in [0..n -> Nat] /\ p[0] = d /\ p[n] = e
        /\ \A i \in 1..n : p[i] = After(p[i - 1], x[i]) /\ MayStand(p[i - 1], x[i])
    BY <2>1 DEF Depth
  <2>4. /\ q \in [0..m -> Nat] /\ q[0] = e /\ q[m] = f
        /\ \A i \in 1..m : q[i] = After(q[i - 1], y[i]) /\ MayStand(q[i - 1], y[i])
    BY <2>2 DEF Depth
  <2> DEFINE r == [i \in 0..n + m |-> IF i <= n THEN p[i] ELSE q[i - n]]
  <2> HIDE DEF n, m
  <2>5. \A i \in 0..n : r[i] = p[i]
    BY <1>2
  <2>6. ASSUME NEW i \in 0..m PROVE r[n + i] = q[i]
    <3>1. n + i \in 0..n + m /\ (n + i) - n = i
      BY <1>2
    <3>2. CASE i = 0
      BY <1>2, <2>3, <2>4, <2>5, <3>2
    <3>3. CASE i # 0
      BY <1>2, <3>1, <3>3
    <3> QED BY <3>2, <3>3
  <2>7. r \in [0..n + m -> Nat]
    <3>1. ASSUME NEW i \in 0..n + m PROVE (IF i <= n THEN p[i] ELSE q[i - n]) \in Nat
      <4>1. CASE i <= n
        BY <1>2, <2>3, <4>1
      <4>2. CASE ~(i <= n)
        <5>1. i - n \in 0..m
          BY <1>2, <4>2
        <5> QED BY <2>4, <4>2, <5>1
      <4> QED BY <4>1, <4>2
    <3> QED BY <3>1
  <2> HIDE DEF r
  <2>8. r[0] = d /\ r[n + m] = f
    BY <1>2, <2>3, <2>4, <2>5, <2>6
  <2>9. ASSUME NEW i \in 1..n + m PROVE r[i] = After(r[i - 1], z[i]) /\ MayStand(r[i - 1], z[i])
    <3>1. CASE i <= n
      <4>1. i \in 1..n /\ i \in 0..n /\ i - 1 \in 0..n /\ z[i] = x[i]
        BY <1>2, <3>1
      <4> QED BY <2>3, <2>5, <4>1
    <3>2. CASE ~(i <= n)
      <4> DEFINE j == i - n
      <4>1. j \in 1..m /\ j \in 0..m /\ j - 1 \in 0..m /\ z[i] = y[j]
            /\ i = n + j /\ i - 1 = n + (j - 1)
        BY <1>2, <3>2
      <4> HIDE DEF j
      <4>2. r[i] = q[j] /\ r[i - 1] = q[j - 1]
        BY <2>6, <4>1
      <4> QED BY <2>4, <4>1, <4>2
    <3> QED BY <3>1, <3>2
  <2>10. Len(z) = n + m
    BY <1>2 DEF n, m
  <2>11. Depth(r, z, d, f)
    BY <2>7, <2>8, <2>9, <2>10 DEF Depth
  <2> QED BY <2>11
<1> QED BY <1>2, <1>3 DEF Fits, z

\* Pieces that end at the depth where they begin
LEMMA FitsAll ==
  ASSUME NEW html, NEW d \in Nat, NEW S, NEW g,
         \A e \in S : Fits(html, g[e], d, d), NEW s \in Seq(S)
  PROVE  Fits(html, FlattenSeq(Mapped(g, s)), d, d)
<1> DEFINE P == {x \in Seq(S) : Fits(html, FlattenSeq(Mapped(g, x)), d, d)}
<1>1. <<>> \in P
  <2>1. Mapped(g, <<>>) = <<>> /\ <<>> \in Seq(S)
    BY EmptySeq DEF Mapped
  <2> QED BY <2>1, FlattenEmpty, FitsNone
<1>2. ASSUME NEW x \in Seq(S), NEW e \in S, x \in P PROVE Append(x, e) \in P
  <2>1. Append(x, e) \in Seq(S) /\ Append(x, e) = x \o <<e>> /\ <<e>> \in Seq(S)
    BY AppendProperties, AppendIsConcat
  <2>2. ASSUME NEW y \in Seq(S) PROVE Mapped(g, x \o y) = Mapped(g, x) \o Mapped(g, y)
    BY MappedCat
  <2>3. Mapped(g, <<e>>) = <<g[e]>>
    BY MappedOne
  <2>4. \A y \in S : g[y] \in Seq(Lines)
    BY DEF Fits
  <2>5. Mapped(g, x) \in Seq(Seq(Lines)) /\ g[e] \in Seq(Lines)
    BY <2>4, MappedType
  <2>6. Mapped(g, Append(x, e)) = Append(Mapped(g, x), g[e])
    <3>1. Mapped(g, Append(x, e)) = Mapped(g, x) \o <<g[e]>>
      BY <2>1, <2>2, <2>3, Zenon
    <3> QED BY <2>5, <3>1, AppendIsConcat
  <2>7. FlattenSeq(Mapped(g, Append(x, e))) = FlattenSeq(Mapped(g, x)) \o g[e]
    BY <2>5, <2>6, FlattenAppend
  <2>8. Fits(html, FlattenSeq(Mapped(g, x)), d, d) /\ Fits(html, g[e], d, d)
    BY <1>2
  <2>9. Fits(html, FlattenSeq(Mapped(g, x)) \o g[e], d, d)
    BY <2>8, FitsCat
  <2> QED BY <2>1, <2>7, <2>9
<1>3. s \in P
  <2> HIDE DEF P
  <2> QED BY <1>1, <1>2, SeqInduction
<1> QED BY <1>3

\* A page or the details of a row: titles and what is told of the rows
Told(groups, title, tell, skip) ==
  FlattenSeq([i \in DOMAIN groups |->
    IF groups[i] \in skip THEN <<>>
    ELSE title[groups[i]] \o FlattenSeq([j \in DOMAIN groups[i].rows |-> tell[groups[i].rows[j]]])])

LEMMA GroupsFit ==
  ASSUME NEW html, NEW d \in Nat, NEW groups, Grouped(groups), NEW title, NEW tell, NEW skip,
         \A g \in Range(groups) : g \notin skip => Fits(html, title[g], d, d),
         \A g \in Range(groups) : \A row \in Range(g.rows) : Fits(html, tell[row], d, d)
  PROVE  Fits(html, Told(groups, title, tell, skip), d, d)
<1> DEFINE G == Range(groups)
           whole == [g \in G |-> IF g \in skip THEN <<>>
                                 ELSE title[g] \o FlattenSeq(Mapped(tell, g.rows))]
<1>1. groups \in Seq(G) /\ \A g \in G : g.rows \in Seq(Range(g.rows))
  BY DEF Grouped, IsSequence
<1>2. ASSUME NEW g \in G PROVE Fits(html, whole[g], d, d)
  <2>1. CASE g \in skip
    BY <2>1, FitsNone
  <2>2. CASE g \notin skip
    <3> DEFINE S == Range(g.rows)
    <3>1. g.rows \in Seq(S) /\ \A row \in S : Fits(html, tell[row], d, d)
      BY <1>1
    <3> HIDE DEF S
    <3>2. Fits(html, FlattenSeq(Mapped(tell, g.rows)), d, d)
      BY <3>1, FitsAll
    <3>3. Fits(html, title[g], d, d)
      BY <2>2
    <3>4. Fits(html, title[g] \o FlattenSeq(Mapped(tell, g.rows)), d, d)
      BY <3>2, <3>3, FitsCat
    <3> QED BY <2>2, <3>4
  <2> QED BY <2>1, <2>2
<1>3. DOMAIN groups = 1..Len(groups) /\ \A i \in DOMAIN groups : groups[i] \in G
  BY <1>1, LenProperties
<1>4. Mapped(whole, groups) = [i \in DOMAIN groups |->
          IF groups[i] \in skip THEN <<>>
          ELSE title[groups[i]] \o FlattenSeq([j \in DOMAIN groups[i].rows |-> tell[groups[i].rows[j]]])]
  BY <1>3 DEF Mapped
<1> HIDE DEF whole, G
<1>5. Fits(html, FlattenSeq(Mapped(whole, groups)), d, d)
  BY <1>1, <1>2, FitsAll
<1> QED BY <1>4, <1>5 DEF Told

Ctx == [format : {"html", "text", "shell", "none"}, all : BOOLEAN, output : Seq(Lines), first_table : BOOLEAN,
        first_sub_table : BOOLEAN, in_details : BOOLEAN]

\* Titles and rows stand in a table.
LEMMA LineFits ==
  ASSUME NEW c, NEW d \in Nat, d > 0, NEW name \in Names
  PROVE  /\ Fits(Html(c), report_subsubtitle(c, name), d, d)
         /\ Fits(Html(c), report_key_value(c, name), d, d)
<1>1. ASSUME NEW kind \in Kinds, kind \notin {"<table>", "</table>", "h1", "style"}
      PROVE  Fits(Html(c), <<Made(kind, name)>>, d, d)
  <2> DEFINE t == Made(kind, name)
  <2>1. t \in Lines /\ t.kind = kind
    BY MadeIsLine
  <2>2. After(d, t) = d /\ MayStand(d, t)
    BY <1>1, <2>1 DEF After, MayStand, Close, Made
  <2> HIDE DEF t
  <2>3. Fits(Html(c), <<t>>, d, After(d, t))
    BY <2>1, <2>2, FitsOne
  <2> QED BY <2>2, <2>3 DEF t
<1>2. PICK kind \in {"sstitle", "block", "group"} : report_subsubtitle(c, name) = <<Made(kind, name)>>
  BY DEF report_subsubtitle
<1>3. PICK kind1 \in {"tr", "detail", "row"} : report_key_value(c, name) = <<Made(kind1, name)>>
  BY DEF report_key_value
<1>4. Fits(Html(c), <<Made(kind, name)>>, d, d)
  <2>1. kind = "sstitle" \/ kind = "block" \/ kind = "group"
    BY <1>2
  <2> QED BY <1>1, <2>1 DEF Kinds
<1>5. Fits(Html(c), <<Made(kind1, name)>>, d, d)
  <2>1. kind1 = "tr" \/ kind1 = "detail" \/ kind1 = "row"
    BY <1>3
  <2> QED BY <1>1, <2>1 DEF Kinds
<1> QED BY <1>2, <1>3, <1>4, <1>5

\* The titles and the rows of groups, as functions of these
Titles(c, groups) == [g \in Range(groups) |-> report_subsubtitle(c, g.name)]
RowsIn(groups) == UNION {Range(g.rows) : g \in Range(groups)}
DetailsToldBy(c, groups) == [r \in RowsIn(groups) |-> report_key_value(c, r.key)]
RowsToldBy(c, groups) == [r \in RowsIn(groups) |-> IF WantsDetails(c, r) THEN report_details(c, r)
                                                   ELSE report_key_value(c, r.key)]
Hidden(groups) == {g \in Range(groups) : g.param}

LEMMA DetailsTold ==
  ASSUME NEW c, NEW groups, Grouped(groups)
  PROVE  InGroups(c, groups, LAMBDA r : report_key_value(c, r.key))
         = Told(groups, Titles(c, groups), DetailsToldBy(c, groups), Hidden(groups))
<1> DEFINE title == Titles(c, groups)
           tell == DetailsToldBy(c, groups)
           skip == Hidden(groups)
<1>1. DOMAIN groups = 1..Len(groups) /\ \A i \in DOMAIN groups : groups[i] \in Range(groups)
  BY LenProperties DEF Grouped, IsSequence, Range
<1>2. \A g \in Range(groups) : g.param \in BOOLEAN /\ \A j \in DOMAIN g.rows : g.rows[j] \in Range(g.rows)
  BY DEF Range, Grouped
<1>3. ASSUME NEW i \in DOMAIN groups
      PROVE [j \in DOMAIN groups[i].rows |-> report_key_value(c, groups[i].rows[j].key)]
            = [j \in DOMAIN groups[i].rows |-> tell[groups[i].rows[j]]]
  BY <1>1, <1>2 DEF DetailsToldBy, RowsIn
<1>4. \A i \in DOMAIN groups : groups[i] \in skip <=> groups[i].param
  BY <1>1, <1>2 DEF Hidden
<1>5. \A i \in DOMAIN groups : title[groups[i]] = report_subsubtitle(c, groups[i].name)
  BY <1>1 DEF Titles
<1> HIDE DEF title, tell, skip
<1>6. InGroups(c, groups, LAMBDA r : report_key_value(c, r.key)) = Told(groups, title, tell, skip)
  BY <1>3, <1>4, <1>5 DEF InGroups, Each, Told
<1> QED BY <1>6 DEF title, tell, skip

LEMMA RowsTold ==
  ASSUME NEW c, NEW groups, Grouped(groups)
  PROVE  InGroups(c, groups, LAMBDA row : IF WantsDetails(c, row) THEN report_details(c, row)
                                          ELSE report_key_value(c, row.key))
         = Told(groups, Titles(c, groups), RowsToldBy(c, groups), Hidden(groups))
<1> DEFINE title == Titles(c, groups)
           tell == RowsToldBy(c, groups)
           skip == Hidden(groups)
<1>1. DOMAIN groups = 1..Len(groups) /\ \A i \in DOMAIN groups : groups[i] \in Range(groups)
  BY LenProperties DEF Grouped, IsSequence, Range
<1>2. \A g \in Range(groups) : g.param \in BOOLEAN /\ \A j \in DOMAIN g.rows : g.rows[j] \in Range(g.rows)
  BY DEF Range, Grouped
<1>3. ASSUME NEW i \in DOMAIN groups
      PROVE [j \in DOMAIN groups[i].rows |->
               IF WantsDetails(c, groups[i].rows[j]) THEN report_details(c, groups[i].rows[j])
               ELSE report_key_value(c, groups[i].rows[j].key)]
            = [j \in DOMAIN groups[i].rows |-> tell[groups[i].rows[j]]]
  BY <1>1, <1>2 DEF RowsToldBy, RowsIn
<1>4. \A i \in DOMAIN groups : groups[i] \in skip <=> groups[i].param
  BY <1>1, <1>2 DEF Hidden
<1>5. \A i \in DOMAIN groups : title[groups[i]] = report_subsubtitle(c, groups[i].name)
  BY <1>1 DEF Titles
<1> HIDE DEF title, tell, skip
<1>6. InGroups(c, groups, LAMBDA row : IF WantsDetails(c, row) THEN report_details(c, row)
                                       ELSE report_key_value(c, row.key))
      = Told(groups, title, tell, skip)
  BY <1>3, <1>4, <1>5 DEF InGroups, Each, Told
<1> QED BY <1>6 DEF title, tell, skip

\* Details begin and end in the table of their row.
LEMMA DetailsFit ==
  ASSUME NEW c \in Ctx, NEW row, row.key \in Names, Grouped(row.details)
  PROVE  Fits(Html(c), report_details(c, row), 1, 1)
<1> DEFINE inside == [c EXCEPT !.in_details = TRUE]
           title == Titles(inside, row.details)
           tell == DetailsToldBy(inside, row.details)
           skip == Hidden(row.details)
           told == Told(row.details, title, tell, skip)
<1>1. Html(inside) = Html(c)
  BY DEF Html, Ctx
<1>2. /\ \A g \in Range(row.details) : g.name \in Names /\ g.param \in BOOLEAN
      /\ \A g \in Range(row.details) : \A r \in Range(g.rows) : r.key \in Names
  BY DEF Grouped, Names
<1> HIDE DEF inside
<1>3. ASSUME NEW d \in Nat, d > 0 PROVE Fits(Html(c), told, d, d)
  <2>1. \A g \in Range(row.details) : g \notin skip => Fits(Html(c), title[g], d, d)
    BY <1>1, <1>2, <1>3, LineFits DEF Titles
  <2>2. ASSUME NEW g \in Range(row.details), NEW r \in Range(g.rows) PROVE Fits(Html(c), tell[r], d, d)
    <3>1. tell[r] = report_key_value(inside, r.key) /\ r.key \in Names
      BY <1>2 DEF DetailsToldBy, RowsIn
    <3> QED BY <1>1, <1>3, <3>1, LineFits
  <2> HIDE DEF title, tell, skip
  <2>3. Fits(Html(c), told, d, d)
    BY <2>1, <2>2, GroupsFit
  <2> QED BY <2>3
<1>4. InGroups(inside, row.details, LAMBDA r : report_key_value(inside, r.key)) = told
  BY DetailsTold
<1> HIDE DEF told
<1>5. Fits(Html(c), report_key_value(c, row.key), 1, 1)
  <2> DEFINE d == 1
  <2>1. d \in Nat /\ d > 0
    OBVIOUS
  <2> HIDE DEF d
  <2>2. Fits(Html(c), report_key_value(c, row.key), d, d)
    BY <2>1, LineFits
  <2> QED BY <2>2 DEF d
<1>6. CASE Html(c)
  <2> DEFINE open == Made("<table>", "details")
  <2>1. /\ open \in Lines /\ open.kind = "<table>" /\ open.name = "details"
        /\ Close \in Lines /\ Close.kind = "</table>"
    <3>1. "<table>" \in Kinds /\ "</table>" \in Kinds /\ "" \in Names /\ "details" \in Names
      BY DEF Kinds, Names
    <3> QED BY <3>1, MadeIsLine, Zenon DEF Close
  <2> HIDE DEF open
  <2>2. After(1, open) = 2 /\ MayStand(1, open) /\ After(2, Close) = 1 /\ MayStand(2, Close)
    BY <2>1 DEF After, MayStand
  <2>3. Fits(Html(c), <<open>>, 1, 2) /\ Fits(Html(c), <<Close>>, 2, 1)
    <3>1. Fits(Html(c), <<open>>, 1, After(1, open)) /\ Fits(Html(c), <<Close>>, 2, After(2, Close))
      BY <2>1, <2>2, FitsOne
    <3> QED BY <2>2, <3>1
  <2>4. Fits(Html(c), told, 2, 2)
    BY <1>3
  <2>5. Fits(Html(c), ((report_key_value(c, row.key) \o <<open>>) \o told) \o <<Close>>, 1, 1)
    BY <1>5, <2>3, <2>4, FitsCat
  <2> QED BY <1>4, <1>6, <2>5 DEF report_details, open, inside
<1>7. CASE ~Html(c)
  <2>1. Fits(Html(c), told, 1, 1)
    BY <1>3
  <2> DEFINE none == <<>>
  <2>2. Fits(Html(c), none, 1, 1)
    BY FitsNone
  <2> HIDE DEF none
  <2>3. Fits(Html(c), ((report_key_value(c, row.key) \o none) \o told) \o none, 1, 1)
    BY <1>5, <2>1, <2>2, FitsCat
  <2> QED BY <1>4, <1>7, <2>3 DEF report_details, none, inside
<1> QED BY <1>6, <1>7

\* A page in HTML or text
LEMMA PageFits ==
  ASSUME NEW c \in Ctx, NEW e \in Pages
  PROVE  Fits(Html(c), InGroups(c, Table[e], LAMBDA row :
                          IF WantsDetails(c, row) THEN report_details(c, row)
                          ELSE report_key_value(c, row.key)), 1, 1)
<1> DEFINE groups == Table[e]
           title == Titles(c, groups)
           tell == RowsToldBy(c, groups)
           skip == Hidden(groups)
           one == 1
<1>1. Grouped(groups) /\ \A g \in Range(groups) : \A r \in Range(g.rows) : Grouped(r.details)
  BY TableAssumption, PagesAssumption
<1> HIDE DEF groups
<1>2. /\ \A g \in Range(groups) : g.name \in Names /\ g.param \in BOOLEAN
      /\ \A g \in Range(groups) : \A r \in Range(g.rows) : r.key \in Names
  BY <1>1 DEF Grouped, Names
<1>3. one \in Nat /\ one > 0
  OBVIOUS
<1>4. ASSUME NEW r, r.key \in Names, Grouped(r.details) PROVE Fits(Html(c), report_details(c, r), one, one)
  BY <1>4, DetailsFit
<1> HIDE DEF one
<1>5. \A g \in Range(groups) : g \notin skip => Fits(Html(c), title[g], one, one)
  BY <1>2, <1>3, LineFits DEF Titles
<1>6. ASSUME NEW g \in Range(groups), NEW r \in Range(g.rows) PROVE Fits(Html(c), tell[r], one, one)
  <2>1. tell[r] = IF WantsDetails(c, r) THEN report_details(c, r) ELSE report_key_value(c, r.key)
    BY DEF RowsToldBy, RowsIn
  <2>2. Fits(Html(c), report_key_value(c, r.key), one, one)
    BY <1>2, <1>3, LineFits
  <2>3. Fits(Html(c), report_details(c, r), one, one)
    BY <1>1, <1>2, <1>4
  <2> QED BY <2>1, <2>2, <2>3
<1>7. InGroups(c, groups, LAMBDA row : IF WantsDetails(c, row) THEN report_details(c, row)
                                       ELSE report_key_value(c, row.key))
      = Told(groups, title, tell, skip)
  BY <1>1, RowsTold
<1> HIDE DEF title, tell, skip
<1>8. Fits(Html(c), Told(groups, title, tell, skip), one, one)
  BY <1>1, <1>3, <1>5, <1>6, GroupsFit
<1> QED BY <1>7, <1>8 DEF one, groups

\* The text of a page or of details as it is
LEMMA ShellLine ==
  ASSUME NEW kind \in {"row", "[group]"}, NEW name \in Names
  PROVE  Fits(FALSE, <<Made(kind, name)>>, 0, 0)
<1> DEFINE t == Made(kind, name)
<1>1. t \in Lines
  BY MadeIsLine DEF Kinds
<1> HIDE DEF t
<1>2. <<t>> \in Seq(Lines)
  BY <1>1
<1> QED BY <1>2 DEF Fits, t

LEMMA ShellDetailsFit ==
  ASSUME NEW groups, Grouped(groups)
  PROVE  Fits(FALSE, ShellGroups(groups, LAMBDA r : <<Made("row", r.key)>>), 0, 0)
<1> DEFINE title == [g \in Range(groups) |-> <<Made("[group]", g.name)>>]
           tell == [r \in UNION {Range(g.rows) : g \in Range(groups)} |-> <<Made("row", r.key)>>]
           skip == {}
           zero == 0
<1>1. /\ \A g \in Range(groups) : g.name \in Names
      /\ \A g \in Range(groups) : \A r \in Range(g.rows) : r.key \in Names
  BY DEF Grouped, Names
<1>2. zero \in Nat
  OBVIOUS
<1>3. ASSUME NEW kind \in {"row", "[group]"}, NEW name \in Names
      PROVE  Fits(FALSE, <<Made(kind, name)>>, zero, zero)
  BY ShellLine
<1> HIDE DEF zero
<1>4. \A g \in Range(groups) : Fits(FALSE, title[g], zero, zero)
  BY <1>1, <1>3
<1>5. ASSUME NEW g \in Range(groups), NEW r \in Range(g.rows) PROVE Fits(FALSE, tell[r], zero, zero)
  <2>1. tell[r] = <<Made("row", r.key)>>
    OBVIOUS
  <2> QED BY <1>1, <1>3, <2>1
<1>6. ShellGroups(groups, LAMBDA r : <<Made("row", r.key)>>) = Told(groups, title, tell, skip)
  <2>1. DOMAIN groups = 1..Len(groups) /\ \A i \in DOMAIN groups : groups[i] \in Range(groups)
    BY LenProperties DEF Grouped, IsSequence, Range
  <2>2. \A g \in Range(groups) : \A j \in DOMAIN g.rows : g.rows[j] \in Range(g.rows)
    BY DEF Range
  <2>3. ASSUME NEW i \in DOMAIN groups
        PROVE [j \in DOMAIN groups[i].rows |-> <<Made("row", groups[i].rows[j].key)>>]
              = [j \in DOMAIN groups[i].rows |-> tell[groups[i].rows[j]]]
    BY <2>1, <2>2
  <2>4. \A i \in DOMAIN groups : title[groups[i]] = <<Made("[group]", groups[i].name)>>
    BY <2>1
  <2> HIDE DEF title, tell
  <2> QED BY <2>3, <2>4 DEF ShellGroups, Each, Told
<1> HIDE DEF title, tell, skip
<1>7. Fits(FALSE, Told(groups, title, tell, skip), zero, zero)
  BY <1>2, <1>4, <1>5, GroupsFit
<1> QED BY <1>6, <1>7 DEF zero

LEMMA ShellFits ==
  ASSUME NEW c \in Ctx, NEW e \in Pages
  PROVE  Fits(FALSE, report_table_shell_dump(c, Table[e]), 0, 0)
<1> DEFINE groups == Table[e]
           more(r) == IF (r.wants \/ c.all) /\ r.details # <<>>
                      THEN ShellGroups(r.details, LAMBDA r1 : <<Made("row", r1.key)>>) ELSE <<>>
           title == [g \in Range(groups) |-> <<Made("[group]", g.name)>>]
           tell == [r \in UNION {Range(g.rows) : g \in Range(groups)} |->
                      <<Made("row", r.key)>> \o more(r)]
           skip == {}
           zero == 0
<1>1. Grouped(groups) /\ \A g \in Range(groups) : \A r \in Range(g.rows) : Grouped(r.details)
  BY TableAssumption, PagesAssumption
<1>2. report_table_shell_dump(c, Table[e]) =
        ShellGroups(groups, LAMBDA r : <<Made("row", r.key)>> \o more(r))
  BY DEF report_table_shell_dump
<1> HIDE DEF groups
<1>3. /\ \A g \in Range(groups) : g.name \in Names
      /\ \A g \in Range(groups) : \A r \in Range(g.rows) : r.key \in Names
  BY <1>1 DEF Grouped, Names
<1>4. zero \in Nat
  OBVIOUS
<1>5. ASSUME NEW kind \in {"row", "[group]"}, NEW name \in Names
      PROVE  Fits(FALSE, <<Made(kind, name)>>, zero, zero)
  BY ShellLine
<1>6. ASSUME NEW r, Grouped(r.details) PROVE Fits(FALSE, more(r), zero, zero)
  <2>1. Fits(FALSE, ShellGroups(r.details, LAMBDA r1 : <<Made("row", r1.key)>>), zero, zero)
    BY <1>6, ShellDetailsFit
  <2>2. Fits(FALSE, <<>>, zero, zero)
    BY FitsNone
  <2> QED BY <2>1, <2>2, Zenon
<1> HIDE DEF zero, more
<1>7. \A g \in Range(groups) : Fits(FALSE, title[g], zero, zero)
  BY <1>3, <1>5
<1>8. ASSUME NEW g \in Range(groups), NEW r \in Range(g.rows) PROVE Fits(FALSE, tell[r], zero, zero)
  <2>1. tell[r] = <<Made("row", r.key)>> \o more(r)
    OBVIOUS
  <2>2. Fits(FALSE, <<Made("row", r.key)>>, zero, zero)
    BY <1>3, <1>5
  <2>3. Fits(FALSE, more(r), zero, zero)
    BY <1>1, <1>6
  <2> QED BY <2>1, <2>2, <2>3, FitsCat
<1>9. ShellGroups(groups, LAMBDA r : <<Made("row", r.key)>> \o more(r)) = Told(groups, title, tell, skip)
  <2>1. DOMAIN groups = 1..Len(groups) /\ \A i \in DOMAIN groups : groups[i] \in Range(groups)
    BY <1>1, LenProperties DEF Grouped, IsSequence, Range
  <2>2. \A g \in Range(groups) : \A j \in DOMAIN g.rows : g.rows[j] \in Range(g.rows)
    BY DEF Range
  <2>3. ASSUME NEW i \in DOMAIN groups
        PROVE [j \in DOMAIN groups[i].rows |->
                 <<Made("row", groups[i].rows[j].key)>> \o more(groups[i].rows[j])]
              = [j \in DOMAIN groups[i].rows |-> tell[groups[i].rows[j]]]
    BY <2>1, <2>2
  <2>4. \A i \in DOMAIN groups : title[groups[i]] = <<Made("[group]", groups[i].name)>>
    BY <2>1
  <2> HIDE DEF title, tell
  <2> QED BY <2>3, <2>4 DEF ShellGroups, Each, Told
<1> HIDE DEF title, tell, skip
<1>10. Fits(FALSE, Told(groups, title, tell, skip), zero, zero)
  BY <1>1, <1>4, <1>7, <1>8, GroupsFit
<1> QED BY <1>2, <1>9, <1>10 DEF zero
-----------------------------------------------------------------------------
(* The report that is being written                                         *)

\* The report up to now leads to depth d.
Reaches(c, d) == c \in Ctx /\ Fits(Html(c), c.output, 0, d)
Same(c1, c) == c1.format = c.format /\ c1.all = c.all

\* Between two items of the list all tables are closed, or one is open, that of the
\* entry that was written last.
Proper(c) == \E d \in {0, 1} : Reaches(c, d) /\ (d = 1 => ~c.first_table /\ ~c.first_sub_table)

LEMMA PutReaches ==
  ASSUME NEW c, NEW d, NEW e, NEW x, Reaches(c, d), Fits(Html(c), x, d, e)
  PROVE  /\ Reaches(Put(c, x), e) /\ Same(Put(c, x), c)
         /\ Put(c, x).first_table = c.first_table /\ Put(c, x).first_sub_table = c.first_sub_table
<1>1. c \in Ctx /\ c.output \in Seq(Lines) /\ x \in Seq(Lines)
  BY DEF Reaches, Fits
<1>2. c.output \o x \in Seq(Lines)
  BY <1>1, ConcatProperties
<1>3. Put(c, x) = [c EXCEPT !.output = c.output \o x]
  BY DEF Put
<1> DEFINE z == c.output \o x
<1>4. Fits(Html(c), c.output \o x, 0, e)
  <2> DEFINE zero == 0
  <2>1. Fits(Html(c), c.output, zero, d)
    BY DEF Reaches
  <2> HIDE DEF zero
  <2>2. Fits(Html(c), c.output \o x, zero, e)
    BY <2>1, FitsCat
  <2> QED BY <2>2 DEF zero
<1> HIDE DEF z
<1>5. Put(c, x) \in Ctx /\ Put(c, x).output = z /\ Same(Put(c, x), c)
      /\ Put(c, x).first_table = c.first_table /\ Put(c, x).first_sub_table = c.first_sub_table
  BY <1>1, <1>2, <1>3 DEF z, Ctx, Same
<1>6. Html(Put(c, x)) = Html(c)
  BY <1>5 DEF Same, Html
<1> QED BY <1>4, <1>5, <1>6 DEF z, Reaches

\* Where there are no tables every line may stand.
LEMMA PlainReaches ==
  ASSUME NEW c \in Ctx, ~Html(c)
  PROVE  Reaches(c, 0) /\ Proper(c)
<1>1. c.output \in Seq(Lines)
  BY DEF Ctx
<1>2. Reaches(c, 0)
  BY <1>1 DEF Reaches, Fits
<1> QED BY <1>2 DEF Proper

LEMMA LineReaches ==
  ASSUME NEW c, NEW d \in Nat, NEW kind \in Kinds, NEW name \in Names,
         Html(c) => MayStand(d, Made(kind, name))
  PROVE  Fits(Html(c), <<Made(kind, name)>>, d, After(d, Made(kind, name)))
<1> DEFINE t == Made(kind, name)
<1>1. t \in Lines
  BY MadeIsLine
<1> HIDE DEF t
<1> QED BY <1>1, FitsOne DEF t

LEMMA NewReport ==
  ASSUME NEW format \in {"html", "text", "shell", "none"}, NEW all \in BOOLEAN
  PROVE  LET c == report_context_new(format, all)
         IN Reaches(c, 0) /\ Proper(c) /\ c.all = all
<1> DEFINE c == report_context_new(format, all)
           zero == 0
           none == <<>>
<1>1. none \in Seq(Lines)
  BY EmptySeq
<1>2. c \in Ctx /\ c.output = none /\ c.all = all
  BY <1>1 DEF report_context_new, Ctx
<1>3. zero \in Nat
  OBVIOUS
<1> HIDE DEF c, zero
<1>4. Fits(Html(c), none, zero, zero)
  BY <1>3, FitsNone
<1> HIDE DEF none
<1>5. Reaches(c, 0)
  BY <1>2, <1>4 DEF Reaches, zero
<1>6. Proper(c)
  BY <1>5 DEF Proper
<1> QED BY <1>2, <1>5, <1>6 DEF c

\* What stands where in HTML
LEMMA HeadStands == MayStand(0, Made("head", "")) /\ After(0, Made("head", "")) = 0
<1> DEFINE t == Made("head", "")
<1>1. t.kind = "head" /\ t # Close
  BY DEF Made, Close
<1> HIDE DEF t
<1>2. MayStand(0, t) /\ After(0, t) = 0
  BY <1>1 DEF MayStand, After
<1> QED BY <1>2 DEF t

LEMMA CloseStands ==
  ASSUME NEW d \in {0, 1}
  PROVE  MayStand(d, Close) /\ After(d, Close) = 0
<1>1. Close.kind = "</table>"
  BY DEF Made, Close
<1> QED BY <1>1 DEF MayStand, After

LEMMA TitleStands ==
  ASSUME NEW kind \in {"h1", "style"}, NEW name
  PROVE  MayStand(0, Made(kind, name)) /\ After(0, Made(kind, name)) = 0
<1> DEFINE t == Made(kind, name)
<1>1. t.kind = kind /\ t # Close
  BY DEF Made, Close
<1> HIDE DEF t
<1>2. MayStand(0, t) /\ After(0, t) = 0
  BY <1>1 DEF MayStand, After
<1> QED BY <1>2 DEF t

LEMMA TableStands ==
  ASSUME NEW name
  PROVE  /\ MayStand(0, Made("<table>", "")) /\ After(0, Made("<table>", "")) = 1
         /\ MayStand(1, Made("stitle", name)) /\ After(1, Made("stitle", name)) = 1
<1> DEFINE t == Made("<table>", "")
           u == Made("stitle", name)
<1>1. t.kind = "<table>" /\ t.name # "details" /\ u.kind = "stitle" /\ u # Close
  BY DEF Made, Close
<1> HIDE DEF t, u
<1>2. MayStand(0, t) /\ After(0, t) = 1 /\ MayStand(1, u) /\ After(1, u) = 1
  BY <1>1 DEF MayStand, After
<1> QED BY <1>2 DEF t, u

LEMMA EmptyName == "" \in Names
BY DEF Names

\* A table is closed where one may be open.
LEMMA Closes ==
  ASSUME NEW c, NEW d \in {0, 1}, NEW first \in BOOLEAN, first => d = 0
  PROVE  Fits(Html(c), IF first THEN <<>> ELSE <<Close>>, d, 0)
<1>1. CASE first
  <2> DEFINE zero == 0
             none == <<>>
  <2>1. zero \in Nat
    OBVIOUS
  <2> HIDE DEF zero
  <2>2. Fits(Html(c), none, zero, zero)
    BY <2>1, FitsNone
  <2> HIDE DEF none
  <2>3. Fits(Html(c), none, d, 0)
    BY <1>1, <2>2 DEF zero
  <2> QED BY <1>1, <2>3 DEF none
<1>2. CASE ~first
  <2>1. d \in Nat
    OBVIOUS
  <2>2. MayStand(d, Close) /\ After(d, Close) = 0
    BY CloseStands
  <2>3. Close \in Lines
    BY EmptyName, MadeIsLine DEF Close, Kinds
  <2> DEFINE t == Close
  <2> HIDE DEF t
  <2>4. Fits(Html(c), <<t>>, d, After(d, t))
    BY <2>1, <2>2, <2>3, FitsOne DEF t
  <2>5. Fits(Html(c), <<Close>>, d, 0)
    BY <2>2, <2>4 DEF t
  <2> QED BY <1>2, <2>5
<1> QED BY <1>1, <1>2

\* The header
LEMMA HeaderReaches ==
  ASSUME NEW c, Reaches(c, 0)
  PROVE  Proper(report_header(c)) /\ Same(report_header(c), c)
<1> DEFINE zero == 0
           t == Made("head", "")
           x == <<t>>
<1>1. CASE Html(c)
  <2>1. zero \in Nat /\ Reaches(c, zero)
    OBVIOUS
  <2>2. MayStand(zero, t) /\ After(zero, t) = zero
    BY HeadStands
  <2>3. t \in Lines
    BY EmptyName, MadeIsLine DEF Kinds
  <2> HIDE DEF zero, t
  <2>4. Fits(Html(c), x, zero, zero)
    BY <2>1, <2>2, <2>3, FitsOne
  <2> HIDE DEF x
  <2>5. Reaches(Put(c, x), zero) /\ Same(Put(c, x), c)
    BY <2>1, <2>4, PutReaches
  <2>6. report_header(c) = Put(c, x)
    BY <1>1 DEF report_header, x, t
  <2> QED BY <2>5, <2>6 DEF Proper, zero
<1>2. CASE ~Html(c)
  <2>1. report_header(c) = c
    BY <1>2 DEF report_header
  <2> QED BY <1>2, <2>1, PlainReaches DEF Reaches, Same
<1> QED BY <1>1, <1>2

\* Without tables a report is proper whatever is added to it.
LEMMA PlainPut ==
  ASSUME NEW c \in Ctx, ~Html(c), NEW x \in Seq(Lines)
  PROVE  Put(c, x) \in Ctx /\ ~Html(Put(c, x)) /\ Proper(Put(c, x)) /\ Same(Put(c, x), c)
<1>1. Reaches(c, 0)
  BY PlainReaches
<1> DEFINE zero == 0
<1>2. Fits(Html(c), x, zero, zero)
  BY DEF Fits
<1> HIDE DEF zero
<1>3. Reaches(Put(c, x), zero) /\ Same(Put(c, x), c)
  BY <1>1, <1>2, PutReaches DEF zero
<1>4. Put(c, x) \in Ctx /\ ~Html(Put(c, x))
  BY <1>3 DEF Reaches, Same, Html
<1> QED BY <1>3, <1>4, PlainReaches

LEMMA TwoLines ==
  ASSUME NEW kind \in Kinds, NEW kind1 \in Kinds, NEW name \in Names
  PROVE  <<Made(kind, name), Made(kind1, "")>> \in Seq(Lines)
<1> DEFINE t == Made(kind, name)
           u == Made(kind1, "")
<1>1. t \in Lines /\ u \in Lines
  BY EmptyName, MadeIsLine
<1> HIDE DEF t, u
<1>2. <<t, u>> \in Seq(Lines)
  BY <1>1
<1> QED BY <1>2 DEF t, u

LEMMA AllNames == Range(Files) \subseteq Names /\ Pages \subseteq Names
<1>1. Range(Files) \subseteq STRING
  BY ProgramAssumption, RangeOfSeq
<1>2. ASSUME NEW m \in Range(Files) PROVE Range(NamesOf(Entries(m))) \subseteq STRING
  <2>1. ModuleEntries[m] \in Seq(Entry)
    BY ProgramAssumption DEF Entry
  <2>2. ASSUME NEW set PROVE Kept(ModuleEntries[m], set) \in Seq(Entry)
    BY <2>1, KeptSeq
  <2> DEFINE l == module_load(m)
  <2>3. l \in Seq(Entry)
    BY <2>2 DEF module_load
  <2> HIDE DEF l
  <2>4. DOMAIN l = 1..Len(l) /\ \A i \in 1..Len(l) : l[i] \in Entry
    BY <2>3, LenProperties, ElementOfSeq
  <2>5. \A i \in DOMAIN l : l[i].name \in STRING
    BY <2>4 DEF Entry
  <2>6. Range(NamesOf(l)) \subseteq STRING
    BY <2>5 DEF NamesOf, Range
  <2> QED BY <2>6 DEF Entries, l
<1> QED BY <1>1, <1>2 DEF Pages, Names

\* A module's title closes the table before it.
LEMMA TitleReaches ==
  ASSUME NEW c, Proper(c), NEW m \in Range(Files)
  PROVE  /\ Proper(report_title(c, m)) /\ Same(report_title(c, m), c)
         /\ Html(c) => ~report_title(c, m).first_table
<1> DEFINE t == report_title(c, m)
           zero == 0
<1>1. m \in Names
  BY AllNames
<1>2. PICK d \in {0, 1} : Reaches(c, d) /\ (d = 1 => ~c.first_table /\ ~c.first_sub_table)
  BY DEF Proper
<1>3. c \in Ctx /\ c.first_table \in BOOLEAN
  BY <1>2 DEF Reaches, Ctx
<1>4. CASE Html(c)
  <2> DEFINE x == IF c.first_table THEN <<>> ELSE <<Close>>
             y == <<Made("h1", m)>>
  <2>1. Fits(Html(c), x, d, 0)
    <3>1. c.first_table => d = 0
      BY <1>2
    <3> QED BY <1>3, <3>1, Closes
  <2>2. Fits(Html(c), y, zero, zero)
    <3>1. MayStand(zero, Made("h1", m)) /\ After(zero, Made("h1", m)) = zero
      BY TitleStands
    <3>2. zero \in Nat /\ "h1" \in Kinds
      BY DEF Kinds
    <3> HIDE DEF zero
    <3> QED BY <1>1, <3>1, <3>2, LineReaches, Zenon
  <2>3. t = [Put(c, x \o y) EXCEPT !.first_table = FALSE]
    BY <1>4 DEF report_title
  <2> HIDE DEF x, y
  <2>4. Fits(Html(c), x \o y, d, zero)
    <3>1. Fits(Html(c), x, d, zero)
      BY <2>1
    <3> HIDE DEF zero
    <3> QED BY <2>2, <3>1, FitsCat
  <2> DEFINE u == Put(c, x \o y)
  <2>5. Reaches(u, zero) /\ Same(u, c)
    <3> HIDE DEF zero
    <3> QED BY <1>2, <2>4, PutReaches
  <2> HIDE DEF u
  <2>6. t = [u EXCEPT !.first_table = FALSE]
    BY <2>3 DEF u
  <2>7. t \in Ctx /\ t.output = u.output /\ t.format = u.format /\ t.all = u.all /\ t.first_table = FALSE
    BY <2>5, <2>6 DEF Reaches, Ctx
  <2> HIDE DEF t
  <2>8. Reaches(t, 0) /\ Same(t, c)
    BY <2>5, <2>7 DEF Reaches, Same, Html
  <2> QED BY <2>7, <2>8 DEF Proper, t
<1>5. CASE ~Html(c)
  <2> DEFINE x == <<Made("module", m), Made("stars", "")>>
  <2>1. x \in Seq(Lines)
    BY <1>1, TwoLines DEF Kinds
  <2>2. t = Put(c, x)
    BY <1>5 DEF report_title
  <2> HIDE DEF x, t
  <2>3. Proper(t) /\ Same(t, c)
    BY <1>3, <1>5, <2>1, <2>2, PlainPut
  <2> QED BY <1>5, <2>3 DEF t
<1> QED BY <1>4, <1>5

LEMMA Pair ==
  ASSUME NEW a, NEW b
  PROVE  <<a>> \o <<b>> = <<a, b>>
<1> DEFINE S == {a, b}
           one == <<a>>
           two == <<a, b>>
           both == Append(one, b)
<1>1. a \in S /\ b \in S
  OBVIOUS
<1> HIDE DEF S
<1>2. one \in Seq(S) /\ Len(one) = 1 /\ one[1] = a
  BY <1>1
<1>3. two \in Seq(S) /\ Len(two) = 2 /\ two[1] = a /\ two[2] = b
  BY <1>1
<1> HIDE DEF one, two
<1>4. both \in Seq(S) /\ Len(both) = 2 /\ both[1] = a /\ both[2] = b
  <2>1. ASSUME NEW u, NEW s \in Seq(S), NEW e \in S, u = Append(s, e)
        PROVE  /\ u \in Seq(S) /\ Len(u) = Len(s) + 1 /\ u[Len(s) + 1] = e
               /\ \A i \in 1..Len(s) : u[i] = s[i]
    BY <2>1, AppendProperties
  <2> DEFINE n == Len(one)
  <2>2. both \in Seq(S) /\ Len(both) = n + 1 /\ both[n + 1] = b /\ \A i \in 1..n : both[i] = one[i]
    BY <1>1, <1>2, <2>1
  <2> HIDE DEF both
  <2> QED BY <1>2, <2>2
<1>5. both = one \o <<b>>
  BY <1>1, <1>2, AppendIsConcat
<1> HIDE DEF both
<1>6. \A i \in 1..Len(two) : two[i] = both[i]
  BY <1>3, <1>4
<1>7. two = both
  BY <1>3, <1>4, <1>6, SeqEqual
<1> QED BY <1>5, <1>7 DEF one, two

\* An entry's title closes the table of the entry before it and opens its own.
LEMMA SubtitleReaches ==
  ASSUME NEW c, Proper(c), NEW e \in Pages
  PROVE  LET s == report_subtitle(c, e)
         IN Html(c) => Reaches(s, 1) /\ Same(s, c) /\ s.first_table = c.first_table /\ ~s.first_sub_table
<1> DEFINE s == report_subtitle(c, e)
           zero == 0
           one == 1
           x == IF c.first_sub_table THEN <<>> ELSE <<Close>>
           t == Made("<table>", "")
           y == Made("stitle", e)
           u == Put(c, x \o <<t, y>>)
<1>1. e \in Names /\ "" \in Names /\ "<table>" \in Kinds /\ "stitle" \in Kinds
  BY AllNames, EmptyName DEF Kinds
<1>2. PICK d \in {0, 1} : Reaches(c, d) /\ (d = 1 => ~c.first_table /\ ~c.first_sub_table)
  BY DEF Proper
<1>3. c \in Ctx /\ c.first_sub_table \in BOOLEAN
  BY <1>2 DEF Reaches, Ctx
<1>4. Fits(Html(c), x, d, zero)
  <2>1. c.first_sub_table => d = 0
    BY <1>2
  <2> HIDE DEF x
  <2>2. Fits(Html(c), x, d, 0)
    <3>1. Fits(Html(c), IF c.first_sub_table THEN <<>> ELSE <<Close>>, d, 0)
      BY <1>3, <2>1, Closes
    <3> QED BY <3>1 DEF x
  <2> QED BY <2>2
<1>5. /\ t \in Lines /\ y \in Lines /\ zero \in Nat /\ one \in Nat
      /\ MayStand(zero, t) /\ After(zero, t) = one /\ MayStand(one, y) /\ After(one, y) = one
  BY <1>1, MadeIsLine, TableStands
<1>6. Html(c) => s = [u EXCEPT !.first_sub_table = FALSE]
  BY DEF report_subtitle
<1> HIDE DEF s, zero, one, x, t, y
<1>7. Fits(Html(c), <<t>>, zero, one) /\ Fits(Html(c), <<y>>, one, one)
  <2>1. Fits(Html(c), <<t>>, zero, After(zero, t)) /\ Fits(Html(c), <<y>>, one, After(one, y))
    BY <1>5, FitsOne
  <2> QED BY <1>5, <2>1
<1>8. Fits(Html(c), <<t>> \o <<y>>, zero, one)
  BY <1>7, FitsCat
<1>9. <<t>> \o <<y>> = <<t, y>>
  BY Pair
<1> DEFINE z == x \o <<t, y>>
<1>10. Fits(Html(c), z, d, one)
  BY <1>4, <1>8, <1>9, FitsCat
<1> HIDE DEF z
<1>11. Reaches(u, one) /\ Same(u, c) /\ u.first_table = c.first_table
  <2>1. Reaches(Put(c, z), one) /\ Same(Put(c, z), c) /\ Put(c, z).first_table = c.first_table
    BY <1>2, <1>10, PutReaches
  <2> QED BY <2>1 DEF z
<1> HIDE DEF u
<1>12. Html(c) =>
       /\ s \in Ctx /\ s.output = u.output /\ s.format = u.format /\ s.all = u.all
       /\ s.first_table = u.first_table /\ s.first_sub_table = FALSE
  BY <1>6, <1>11 DEF Reaches, Ctx
<1>13. Html(c) => Reaches(s, one) /\ Same(s, c)
  BY <1>11, <1>12 DEF Reaches, Same, Html
<1> QED BY <1>11, <1>12, <1>13 DEF s, one

LEMMA EntryReaches ==
  ASSUME NEW c, Proper(c), NEW e \in Pages, Html(c) => ~c.first_table
  PROVE  LET t == report_table(report_subtitle(c, e), e)
         IN Proper(t) /\ Same(t, c) /\ (Html(c) => ~t.first_table)
<1> DEFINE s == report_subtitle(c, e)
           one == 1
           page(c1) == InGroups(c1, Table[e], LAMBDA row :
                         IF WantsDetails(c1, row) THEN report_details(c1, row)
                         ELSE report_key_value(c1, row.key))
           t == report_table(s, e)
<1>1. CASE Html(c)
  <2>1. Reaches(s, one) /\ Same(s, c) /\ s.first_table = c.first_table /\ ~s.first_sub_table
    BY <1>1, SubtitleReaches
  <2>2. s \in Ctx /\ s.format # "shell" /\ Html(s)
    BY <1>1, <2>1 DEF Reaches, Same, Html
  <2> HIDE DEF s
  <2>3. Fits(Html(s), page(s), one, one)
    BY <2>2, PageFits
  <2>4. t = Put(s, page(s))
    BY <2>2 DEF report_table
  <2> DEFINE x == page(s)
  <2> HIDE DEF page, one, x, t
  <2>5. Reaches(t, one) /\ Same(t, s) /\ t.first_table = s.first_table /\ t.first_sub_table = s.first_sub_table
    <3>1. Fits(Html(s), x, one, one) /\ t = Put(s, x)
      BY <2>3, <2>4 DEF x
    <3> QED BY <2>1, <3>1, PutReaches
  <2>6. Proper(t)
    BY <1>1, <2>1, <2>5 DEF Proper, one
  <2> QED BY <1>1, <2>1, <2>5, <2>6 DEF Same, t, s
<1>2. CASE ~Html(c)
  <2> DEFINE h == <<Made("entry", e), Made("dashes", "")>>
  <2>0. c \in Ctx
    BY DEF Proper, Reaches
  <2>1. h \in Seq(Lines)
    <3>1. e \in Names
      BY AllNames
    <3> QED BY <3>1, TwoLines DEF Kinds
  <2>2. s = Put(c, h)
    BY <1>2 DEF report_subtitle
  <2> HIDE DEF h, s
  <2>3. s \in Ctx /\ ~Html(s) /\ Same(s, c)
    BY <1>2, <2>0, <2>1, <2>2, PlainPut
  <2>4. page(s) \in Seq(Lines)
    BY <2>3, PageFits DEF Fits
  <2>5. report_table_shell_dump(s, Table[e]) \in Seq(Lines)
    BY <2>3, ShellFits DEF Fits
  <2> DEFINE x == IF s.format = "shell" THEN report_table_shell_dump(s, Table[e]) ELSE page(s)
  <2>6. x \in Seq(Lines) /\ t = Put(s, x)
    BY <2>4, <2>5 DEF report_table
  <2> HIDE DEF page, x, t
  <2>7. Proper(t) /\ Same(t, s)
    BY <2>3, <2>6, PlainPut
  <2> QED BY <1>2, <2>3, <2>7 DEF Same, t, s
<1> QED BY <1>1, <1>2

\* The footer closes the last table.
LEMMA FooterReaches ==
  ASSUME NEW c, Proper(c)
  PROVE  Proper(report_footer(c)) /\ Same(report_footer(c), c)
<1>1. PICK d \in {0, 1} : Reaches(c, d) /\ (d = 1 => ~c.first_table /\ ~c.first_sub_table)
  BY DEF Proper
<1>2. c \in Ctx
  BY <1>1 DEF Reaches
<1>3. CASE Html(c)
  <2> DEFINE zero == 0
             t == Made("style", "")
             x == <<Close>>
  <2>1. Fits(Html(c), x, d, zero)
    <3>1. Fits(Html(c), IF FALSE THEN <<>> ELSE <<Close>>, d, 0)
      BY <1>1, Closes
    <3> QED BY <3>1
  <2>2. Fits(Html(c), <<t>>, zero, zero)
    <3>1. MayStand(zero, t) /\ After(zero, t) = zero
      BY TitleStands
    <3>2. t \in Lines /\ zero \in Nat
      BY EmptyName, MadeIsLine DEF Kinds
    <3> HIDE DEF zero, t
    <3>3. Fits(Html(c), <<t>>, zero, After(zero, t))
      BY <3>1, <3>2, FitsOne
    <3> QED BY <3>1, <3>3
  <2>3. x \o <<t>> = <<Close, t>>
    BY Pair
  <2>4. report_footer(c) = Put(c, <<Close, t>>)
    BY <1>3 DEF report_footer
  <2> HIDE DEF zero, t, x
  <2>5. Fits(Html(c), x \o <<t>>, d, zero)
    BY <2>1, <2>2, FitsCat
  <2> DEFINE y == <<Close, t>>
  <2> HIDE DEF y
  <2>6. Reaches(Put(c, y), zero) /\ Same(Put(c, y), c)
    BY <1>1, <2>3, <2>5, PutReaches DEF y
  <2> QED BY <2>4, <2>6 DEF Proper, zero, y
<1>4. CASE ~Html(c)
  <2>1. report_footer(c) = c
    BY <1>4 DEF report_footer
  <2> QED BY <1>2, <1>4, <2>1, PlainReaches DEF Same
<1> QED BY <1>3, <1>4

\* Depths() is the only path there is.
LEMMA DepthsAre ==
  ASSUME NEW x \in Seq(Lines), NEW p, NEW e, Depth(p, x, 0, e)
  PROVE  \A i \in 1..Len(x) + 1 : Depths(x)[i] = p[i - 1]
<1> DEFINE n == Len(x)
           step(f, i) == IF i = 1 THEN 0
                         ELSE CASE x[i - 1].kind = "<table>" -> f[i - 1] + 1
                                [] x[i - 1] = Close /\ f[i - 1] > 0 -> f[i - 1] - 1
                                [] OTHER -> f[i - 1]
           IsDepth(f) == f = [i \in 1..n + 1 |-> step(f, i)]
           c == CHOOSE f : IsDepth(f)
           r == [i \in 1..n + 1 |-> p[i - 1]]
<1>1. n \in Nat
  BY LenProperties
<1>2. /\ p \in [0..n -> Nat] /\ p[0] = 0
      /\ \A i \in 1..n : p[i] = After(p[i - 1], x[i])
  BY DEF Depth
<1>3. Depths(x) = c
  BY DEF Depths
<1> HIDE DEF n
<1>4. ASSUME NEW f, NEW i \in 2..n + 1 PROVE step(f, i) = After(f[i - 1], x[i - 1])
  <2>1. i # 1
    OBVIOUS
  <2> QED BY <2>1 DEF After
<1>5. \A f : step(f, 1) = 0
  OBVIOUS
<1> HIDE DEF step
<1>6. IsDepth(r)
  <2>1. ASSUME NEW i \in 1..n + 1 PROVE r[i] = step(r, i)
    <3>1. CASE i = 1
      BY <1>2, <1>5, <3>1
    <3>2. CASE i # 1
      <4>1. i \in 2..n + 1 /\ i - 1 \in 1..n + 1 /\ i - 1 \in 1..n
        BY <1>1, <3>2
      <4> DEFINE j == i - 1
      <4>2. r[i] = p[j] /\ r[j] = p[j - 1]
        BY <4>1
      <4>3. p[j] = After(p[j - 1], x[j])
        BY <1>2, <4>1
      <4>4. step(r, i) = After(r[j], x[j])
        BY <1>4, <4>1
      <4> QED BY <4>2, <4>3, <4>4
    <3> QED BY <3>1, <3>2
  <2> QED BY <2>1
<1>7. IsDepth(c)
  <2> HIDE DEF IsDepth
  <2> QED BY <1>6, Zenon
<1> HIDE DEF c, r
<1>8. ASSUME NEW f, IsDepth(f) PROVE f[1] = 0 /\ \A i \in 2..n + 1 : f[i] = After(f[i - 1], x[i - 1])
  <2>1. \A i \in 1..n + 1 : f[i] = step(f, i)
    BY <1>8
  <2>2. 1 \in 1..n + 1 /\ \A i \in 2..n + 1 : i \in 1..n + 1
    BY <1>1
  <2> QED BY <1>4, <1>5, <2>1, <2>2
<1> DEFINE P == {i \in 0..n : c[i + 1] = p[i]}
<1>9. 0 \in P
  BY <1>1, <1>2, <1>7, <1>8
<1>10. ASSUME NEW i \in 1..n, i - 1 \in P PROVE i \in P
  <2>1. i + 1 \in 2..n + 1 /\ (i + 1) - 1 = i /\ (i - 1) + 1 = i /\ i \in 0..n
    BY <1>1
  <2>2. c[i] = p[i - 1]
    BY <1>10, <2>1
  <2>3. c[i + 1] = After(c[i], x[i])
    <3>1. \A k \in 2..n + 1 : c[k] = After(c[k - 1], x[k - 1])
      BY <1>7, <1>8
    <3> QED BY <2>1, <3>1
  <2> QED BY <1>2, <2>1, <2>2, <2>3
<1>11. \A i \in 0..n : i \in P
  <2> HIDE DEF P
  <2> QED BY <1>1, <1>9, <1>10, Induction
<1>12. ASSUME NEW i \in 1..n + 1 PROVE c[i] = p[i - 1]
  <2>1. i - 1 \in 0..n /\ (i - 1) + 1 = i
    BY <1>1
  <2>2. c[(i - 1) + 1] = p[i - 1]
    BY <1>11, <2>1
  <2> QED BY <2>1, <2>2
<1> QED BY <1>3, <1>12 DEF n

\* In a proper report everything stands where it may.
LEMMA ProperCloses ==
  ASSUME Proper(ctx)
  PROVE  TablesClose
<1> SUFFICES ASSUME Html(ctx), NEW i \in DOMAIN ctx.output
             PROVE  MayStand(Depths(ctx.output)[i], ctx.output[i])
  <2> DEFINE x == ctx.output
             depth == Depths(x)
  <2> HIDE DEF depth
  <2> QED BY DEF TablesClose, MayStand, depth
<1> DEFINE x == ctx.output
<1>1. PICK d \in {0, 1} : Reaches(ctx, d)
  BY DEF Proper
<1>2. x \in Seq(Lines) /\ \E p : Depth(p, x, 0, d)
  BY <1>1 DEF Reaches, Fits
<1>3. PICK p : Depth(p, x, 0, d)
  BY <1>2
<1> HIDE DEF x
<1>4. Len(x) \in Nat /\ i \in 1..Len(x)
  BY <1>2, LenProperties DEF x
<1>5. MayStand(p[i - 1], x[i])
  BY <1>3, <1>4 DEF Depth
<1>6. Depths(x)[i] = p[i - 1]
  <2>1. i \in 1..Len(x) + 1
    BY <1>4
  <2> QED BY <1>2, <1>3, <2>1, DepthsAre
<1> QED BY <1>5, <1>6 DEF x
-----------------------------------------------------------------------------
(* The inductive invariant                                                  *)

Reported == [i \in DOMAIN sections |-> sections[i][1]]
Sections == Pages \X BOOLEAN

TypeInv ==
  /\ modules \in Seq(Range(Files)) /\ todo \in Seq(Items) /\ sections \in Seq(Sections)
  /\ dialog # "done" => params.report_format \in {"html", "text", "shell"}
  /\ dialog \in {"ticking", "saving"} => Window

\* What is written and what is left to write make up what was ticked.
TickInv ==
  /\ Consistent(ticked)
  /\ dialog \in {"writing", "asking", "ended"} =>
       Reported \o EntriesIn(todo) = IF Window THEN Kept(Rows, ticked) ELSE Rows

\* The first table of a report begins after a title.
TableInv ==
  /\ Proper(ctx)
  /\ dialog = "writing" /\ Html(ctx) /\ ctx.first_table => Begins(todo)

FilterInv == filtered \subseteq Flagged("boot") /\ ReportsFiltered

ReportInv == TypeInv /\ TickInv /\ TableInv /\ FilterInv

LEMMA FileFormat ==
  ASSUME NEW kind \in Range(file_types)
  PROVE  file_types_get_data_by_name(kind.ext) \in {"html", "text", "shell"}
<1> DEFINE S == {i \in DOMAIN file_types : file_types[i].ext = kind.ext}
<1>1. DOMAIN file_types = 1..3 /\ \A i \in 1..3 : file_types[i].format \in {"html", "text", "shell"}
  BY DEF file_types
<1>2. S # {} /\ S \subseteq 1..3
  BY <1>1 DEF Range
<1> HIDE DEF S
<1>3. \E x \in S : \A y \in S : x <= y
  <2>1. CASE 1 \in S
    BY <1>2, <2>1
  <2>2. CASE 1 \notin S /\ 2 \in S
    BY <1>2, <2>2
  <2>3. CASE 1 \notin S /\ 2 \notin S
    <3>1. \A y \in S : y = 3
      BY <1>2, <2>3
    <3>2. PICK x : x \in S
      BY <1>2
    <3>3. x <= 3
      BY <3>1, <3>2
    <3>4. \A y \in S : x <= y
      BY <3>1, <3>3
    <3> QED BY <3>2, <3>4
  <2> QED BY <2>1, <2>2, <2>3
<1>4. Min(S) \in S
  BY <1>3 DEF Min
<1> QED BY <1>1, <1>2, <1>4 DEF file_types_get_data_by_name, S

LEMMA ReportedType ==
  ASSUME NEW s \in Seq(Sections)
  PROVE  [i \in DOMAIN s |-> s[i][1]] \in Seq(Pages)
<1>1. Len(s) \in Nat /\ DOMAIN s = 1..Len(s) /\ \A i \in 1..Len(s) : s[i] \in Sections
  BY LenProperties, ElementOfSeq
<1>2. \A x \in Sections : x[1] \in Pages
  BY DEF Sections
<1>3. \A i \in 1..Len(s) : s[i][1] \in Pages
  BY <1>1, <1>2
<1> QED BY <1>1, <1>3

LEMMA ReportedAppend ==
  ASSUME NEW s \in Seq(Sections), NEW e \in Pages, NEW b \in BOOLEAN
  PROVE  LET t == Append(s, <<e, b>>)
         IN t \in Seq(Sections) /\ [i \in DOMAIN t |-> t[i][1]] = [i \in DOMAIN s |-> s[i][1]] \o <<e>>
<1> DEFINE g == [x \in Sections |-> x[1]]
           x == <<e, b>>
           t == Append(s, x)
<1>1. x \in Sections /\ g[x] = e
  BY DEF Sections
<1> HIDE DEF x
<1>2. ASSUME NEW u \in Seq(Sections) PROVE Mapped(g, u) = [i \in DOMAIN u |-> u[i][1]]
  <2>1. DOMAIN u = 1..Len(u) /\ \A i \in 1..Len(u) : u[i] \in Sections
    BY LenProperties, ElementOfSeq
  <2> QED BY <2>1 DEF Mapped
<1> HIDE DEF g
<1>3. t \in Seq(Sections) /\ t = s \o <<x>> /\ <<x>> \in Seq(Sections)
  BY <1>1, AppendProperties, AppendIsConcat
<1> DEFINE one == <<x>>
<1> HIDE DEF t, one
<1>4. Mapped(g, s \o one) = Mapped(g, s) \o Mapped(g, one)
  <2>1. one \in Seq(Sections)
    BY <1>3 DEF one
  <2> QED BY <2>1, MappedCat
<1>5. Mapped(g, one) = <<e>>
  <2>1. Mapped(g, <<x>>) = <<g[x]>>
    BY MappedOne
  <2> QED BY <1>1, <2>1 DEF one
<1>6. Mapped(g, t) = Mapped(g, s) \o <<e>>
  BY <1>3, <1>4, <1>5 DEF one
<1>7. [i \in DOMAIN t |-> t[i][1]] = Mapped(g, t) /\ [i \in DOMAIN s |-> s[i][1]] = Mapped(g, s)
  BY <1>2, <1>3
<1>8. [i \in DOMAIN t |-> t[i][1]] = [i \in DOMAIN s |-> s[i][1]] \o <<e>>
  BY <1>6, <1>7
<1> QED BY <1>3, <1>8 DEF t, x

LEMMA InitInv == Init => ReportInv
<1> SUFFICES ASSUME Init PROVE ReportInv
  OBVIOUS
<1>1. TypeInv
  <2>1. modules = <<>> /\ todo = <<>> /\ sections = <<>> /\ dialog = "done"
    BY DEF Init
  <2>2. modules \in Seq(Range(Files)) /\ todo \in Seq(Items) /\ sections \in Seq(Sections)
    BY <2>1, EmptySeq
  <2> QED BY <2>1, <2>2 DEF TypeInv
<1>2. TickInv
  BY DEF Init, TickInv, Consistent
<1>3. TableInv
  <2>1. Proper(report_context_new("none", FALSE))
    BY NewReport
  <2> QED BY <2>1 DEF Init, TableInv
<1>4. FilterInv
  BY DEF Init, FilterInv, ReportsFiltered
<1> QED BY <1>1, <1>2, <1>3, <1>4 DEF ReportInv

\* The steps of the dialog before a report is written
LEMMA DialogStep ==
  ASSUME ReportInv, UNCHANGED <<program, filtered, writing>>, dialog # "done",
         dialog' \in {"closed", "ticking", "saving"}, dialog' # "closed" => Window,
         Consistent(ticked')
  PROVE  ReportInv'
<1>0. TypeInv /\ TickInv /\ TableInv /\ FilterInv
  BY DEF ReportInv
<1>1. /\ params' = params /\ modules' = modules /\ filtered' = filtered
      /\ ctx' = ctx /\ todo' = todo /\ sections' = sections
  BY DEF program, writing
<1>2. TypeInv'
  BY <1>0, <1>1 DEF TypeInv, Window
<1>3. TickInv'
  BY <1>1 DEF TickInv, Consistent
<1>4. TableInv'
  BY <1>0, <1>1 DEF TableInv
<1>5. FilterInv'
  BY <1>0, <1>1 DEF FilterInv, ReportsFiltered
<1> QED BY <1>2, <1>3, <1>4, <1>5 DEF ReportInv

LEMMA TicksSet ==
  ASSUME Consistent(ticked)
  PROVE  Consistent(set_all_active(TRUE)) /\ Consistent(set_all_active(FALSE))
<1>1. \A m \in Range(modules) : Children(m) # {} => m \in All /\ Children(m) \subseteq All
  BY DEF All
<1>2. set_all_active(TRUE) = ticked \union All /\ set_all_active(FALSE) = ticked \ All
  BY DEF set_all_active
<1>3. ASSUME NEW m \in Range(modules), Children(m) \intersect (ticked \union All) # {}
      PROVE  m \in ticked \union All
  BY <1>1, <1>3
<1>4. ASSUME NEW m \in Range(modules), Children(m) \intersect (ticked \ All) # {}
      PROVE  m \in ticked \ All
  BY <1>1, <1>4
<1> QED BY <1>2, <1>3, <1>4 DEF Consistent

LEMMA AllTicks == Consistent(shell_add_modules_to_gui(modules))
BY DEF Consistent, shell_add_modules_to_gui

\* Names of modules and entries are apart.
LEMMA Apart ==
  ASSUME modules \in Seq(Range(Files)), NEW m \in Range(modules), NEW m1 \in Range(modules)
  PROVE  m1 \notin Children(m) /\ (m1 # m => Children(m1) \intersect Children(m) = {})
<1>1. m \in Range(Files) /\ m1 \in Range(Files)
  BY RangeOfSeq
<1>2. Children(m) \subseteq EntryNames(m) /\ Children(m1) \subseteq EntryNames(m1)
  BY <1>1, RowsType
<1> QED BY <1>1, <1>2, NamesAssumption

LEMMA ToggleKeeps ==
  ASSUME modules \in Seq(Range(Files)), Consistent(ticked), NEW m \in Range(modules)
  PROVE  /\ Consistent(ticked \ ({m} \union Children(m)))
         /\ Consistent(ticked \union {m} \union Children(m))
         /\ \A e \in Children(m) : Consistent(ticked \ {e}) /\ Consistent(ticked \union {m, e})
<1>1. \A m1 \in Range(modules) :
        /\ m1 \notin Children(m) /\ (m1 # m => Children(m1) \intersect Children(m) = {})
        /\ m \notin Children(m1)
  BY Apart
<1> QED BY <1>1 DEF Consistent

\* A report begins with all that is to be written on its list.
LEMMA StartStep ==
  ASSUME ReportInv, NEW format \in {"html", "text", "shell"}, NEW set, Consistent(set),
         StartWriting(format, set), UNCHANGED <<program, ticked, filtered>>, dialog # "done",
         Kept(Rows, set) = IF Window THEN Kept(Rows, ticked) ELSE Rows
  PROVE  ReportInv'
<1>0. TypeInv /\ TickInv /\ TableInv /\ FilterInv
  BY DEF ReportInv
<1>1. /\ params' = params /\ modules' = modules /\ filtered' = filtered /\ ticked' = ticked
      /\ dialog' = "writing" /\ todo' = module_list(set) /\ sections' = <<>>
      /\ ctx' = report_header(report_context_new(format, ctx.all))
  BY DEF program, StartWriting
<1>2. module_list(set) \in Seq(Items) /\ Begins(module_list(set)) /\ EntriesIn(module_list(set)) = Kept(Rows, set)
  BY <1>0, ListOfModules DEF TypeInv
<1>3. Proper(ctx')
  <2>1. ctx.all \in BOOLEAN
    BY <1>0 DEF TableInv, Proper, Reaches, Ctx
  <2> DEFINE c == report_context_new(format, ctx.all)
  <2>2. Reaches(c, 0)
    BY <2>1, NewReport
  <2> HIDE DEF c
  <2>3. Proper(report_header(c))
    BY <2>2, HeaderReaches
  <2> QED BY <1>1, <2>3 DEF c
<1>4. TypeInv'
  <2>1. sections' \in Seq(Sections)
    BY <1>1, EmptySeq
  <2> QED BY <1>0, <1>1, <1>2, <2>1 DEF TypeInv
<1>5. TickInv'
  <2>1. Consistent(ticked)'
    BY <1>0, <1>1 DEF TickInv, Consistent
  <2>2. EntriesIn(todo') = IF Window' THEN Kept(Rows', ticked') ELSE Rows'
    BY <1>1, <1>2 DEF Window, Rows
  <2>3. Reported' = <<>>
    BY <1>1 DEF Reported
  <2>4. <<>> \o EntriesIn(todo') = EntriesIn(todo')
    BY <1>1, <1>2, EntriesType, ConcatEmptySeq
  <2> QED BY <2>1, <2>2, <2>3, <2>4 DEF TickInv
<1>6. TableInv'
  BY <1>1, <1>2, <1>3 DEF TableInv
<1>7. FilterInv'
  BY <1>0, <1>1 DEF FilterInv, ReportsFiltered
<1> QED BY <1>4, <1>5, <1>6, <1>7 DEF ReportInv

LEMMA WriteModuleStep ==
  ASSUME ReportInv, WriteModule
  PROVE  ReportInv'
<1>0. TypeInv /\ TickInv /\ TableInv /\ FilterInv
  BY DEF ReportInv
<1>1. /\ params' = params /\ modules' = modules /\ filtered' = filtered /\ ticked' = ticked
      /\ dialog = "writing" /\ dialog' = dialog /\ sections' = sections /\ todo # <<>>
      /\ Head(todo)[1] = "module" /\ todo' = Tail(todo) /\ ctx' = report_title(ctx, Head(todo)[2])
  BY DEF program, WriteModule, dialogVars
<1>2. /\ Head(todo) \in Items /\ Tail(todo) \in Seq(Items)
      /\ EntriesIn(todo) = (IF Head(todo)[1] = "entry" THEN <<Head(todo)[2]>> ELSE <<>>)
                           \o EntriesIn(Tail(todo))
  BY <1>0, <1>1, EntriesTail DEF TypeInv
<1>3. Head(todo)[2] \in Range(Files)
  BY <1>1, <1>2 DEF Items
<1> DEFINE m == Head(todo)[2]
<1>4. Proper(report_title(ctx, m)) /\ Same(report_title(ctx, m), ctx)
      /\ (Html(ctx) => ~report_title(ctx, m).first_table)
  <2>1. Proper(ctx)
    BY <1>0 DEF TableInv
  <2> HIDE DEF m
  <2> QED BY <1>3, <2>1, TitleReaches DEF m
<1>5. TypeInv'
  BY <1>0, <1>1, <1>2 DEF TypeInv, Window
<1>6. TickInv'
  <2>1. EntriesIn(todo) = EntriesIn(todo')
    <3>1. EntriesIn(Tail(todo)) \in Seq(Pages)
      BY <1>2, EntriesType
    <3> QED BY <1>1, <1>2, <3>1, ConcatEmptySeq
  <2>2. Reported' = Reported /\ Rows' = Rows /\ Window' = Window
    BY <1>1 DEF Reported, Rows, Window
  <2>3. Consistent(ticked)'
    BY <1>0, <1>1 DEF TickInv, Consistent
  <2> QED BY <1>0, <1>1, <2>1, <2>2, <2>3 DEF TickInv
<1>7. TableInv'
  <2>1. Html(ctx') => Html(ctx)
    BY <1>1, <1>4 DEF Same, Html
  <2>2. Html(ctx') => ~ctx'.first_table
    BY <1>1, <1>4, <2>1
  <2> QED BY <1>1, <1>4, <2>2 DEF TableInv
<1>8. FilterInv'
  BY <1>0, <1>1, <1>4 DEF FilterInv, ReportsFiltered, Same
<1> QED BY <1>5, <1>6, <1>7, <1>8 DEF ReportInv

\* Only the boots are shortened where they are scanned.
LEMMA BootsOnly ==
  ASSUME filtered \subseteq Flagged("boot"), NEW all
  PROVE  ScansBoots(all) \subseteq Flagged("boot")
BY DEF ScansBoots

LEMMA WriteEntryStep ==
  ASSUME ReportInv, WriteEntry
  PROVE  ReportInv'
<1> DEFINE e == Head(todo)[2]
           b == e \in filtered' \/ (e \in Flagged("benchmark") /\ ~ctx.all)
           t == report_table(report_subtitle(ctx, e), e)
<1>0. TypeInv /\ TickInv /\ TableInv /\ FilterInv
  BY DEF ReportInv
<1>1. /\ params' = params /\ modules' = modules /\ ticked' = ticked
      /\ dialog = "writing" /\ dialog' = dialog /\ todo # <<>> /\ Head(todo)[1] = "entry"
      /\ todo' = Tail(todo) /\ ctx' = t /\ sections' = Append(sections, <<e, b>>)
      /\ filtered' = IF e \in Flagged("boot") THEN ScansBoots(ctx.all) ELSE filtered
  BY DEF program, WriteEntry, dialogVars
<1>2. /\ Head(todo) \in Items /\ Tail(todo) \in Seq(Items)
      /\ EntriesIn(todo) = (IF Head(todo)[1] = "entry" THEN <<Head(todo)[2]>> ELSE <<>>)
                           \o EntriesIn(Tail(todo))
  BY <1>0, <1>1, EntriesTail DEF TypeInv
<1>3. e \in Pages /\ b \in BOOLEAN /\ EntriesIn(todo) = <<e>> \o EntriesIn(todo')
  BY <1>1, <1>2 DEF Items
<1>4. ~Begins(todo)
  BY <1>1 DEF Begins
<1>5. Proper(t) /\ Same(t, ctx) /\ (Html(ctx) => ~t.first_table)
  <2>1. Proper(ctx) /\ (Html(ctx) => ~ctx.first_table)
    BY <1>0, <1>1, <1>4 DEF TableInv
  <2> HIDE DEF e
  <2> QED BY <1>3, <2>1, EntryReaches
<1>6. ctx.all \in BOOLEAN
  BY <1>0 DEF TableInv, Proper, Reaches, Ctx
<1> HIDE DEF e, t
<1>7. b = (~ctx.all /\ e \in Flagged("boot") \union Flagged("benchmark"))
  BY <1>0, <1>1, <1>6 DEF FilterInv, ScansBoots
<1>8. filtered' \subseteq Flagged("boot")
  BY <1>0, <1>1, BootsOnly DEF FilterInv
<1>9. sections \in Seq(Sections)
  BY <1>0 DEF TypeInv
<1> HIDE DEF b
<1>10. sections' \in Seq(Sections) /\ Reported' = Reported \o <<e>>
  <2>1. LET u == Append(sections, <<e, b>>)
        IN u \in Seq(Sections) /\ [i \in DOMAIN u |-> u[i][1]] = [i \in DOMAIN sections |-> sections[i][1]] \o <<e>>
    BY <1>3, <1>9, ReportedAppend
  <2> QED BY <1>1, <2>1 DEF Reported
<1>11. TypeInv'
  BY <1>0, <1>1, <1>2, <1>10 DEF TypeInv, Window
<1>12. TickInv'
  <2>1. Reported' \o EntriesIn(todo') = Reported \o EntriesIn(todo)
    <3>1. Reported \in Seq(Pages) /\ EntriesIn(todo') \in Seq(Pages) /\ <<e>> \in Seq(Pages)
      <4>1. Reported \in Seq(Pages)
        BY <1>9, ReportedType DEF Reported
      <4>2. EntriesIn(todo') \in Seq(Pages)
        BY <1>1, <1>2, EntriesType
      <4>3. <<e>> \in Seq(Pages)
        BY <1>3
      <4> QED BY <4>1, <4>2, <4>3
    <3>2. (Reported \o <<e>>) \o EntriesIn(todo') = Reported \o (<<e>> \o EntriesIn(todo'))
      BY <3>1, ConcatAssociative
    <3> QED BY <1>3, <1>10, <3>2
  <2>2. Rows' = Rows /\ Window' = Window
    BY <1>1 DEF Rows, Window
  <2>3. Consistent(ticked)'
    BY <1>0, <1>1 DEF TickInv, Consistent
  <2> QED BY <1>0, <1>1, <2>1, <2>2, <2>3 DEF TickInv
<1>13. TableInv'
  <2>1. Html(ctx') => Html(ctx)
    BY <1>1, <1>5 DEF Same, Html
  <2> QED BY <1>1, <1>5, <2>1 DEF TableInv
<1>14. FilterInv'
  <2>1. ctx'.all = ctx.all
    BY <1>1, <1>5 DEF Same
  <2>2. DOMAIN sections = 1..Len(sections) /\ Len(sections) \in Nat
    BY <1>9, LenProperties
  <2>3. <<e, b>> \in Sections
    BY <1>3 DEF Sections
  <2> DEFINE x == <<e, b>>
  <2>4. x[1] = e /\ x[2] = b
    OBVIOUS
  <2> HIDE DEF x
  <2>5. /\ DOMAIN sections' = 1..Len(sections) + 1
        /\ \A i \in 1..Len(sections) : sections'[i] = sections[i]
        /\ sections'[Len(sections) + 1] = x
    <3>1. sections' = Append(sections, x)
      BY <1>1 DEF x
    <3> DEFINE u == Append(sections, x)
    <3>2. /\ u \in Seq(Sections) /\ Len(u) = Len(sections) + 1 /\ u[Len(sections) + 1] = x
          /\ \A i \in 1..Len(sections) : u[i] = sections[i]
      BY <1>9, <2>3, AppendProperties DEF x
    <3> HIDE DEF u
    <3>3. DOMAIN u = 1..Len(u)
      BY <3>2, LenProperties
    <3> QED BY <3>1, <3>2, <3>3 DEF u
  <2>6. ASSUME NEW i \in DOMAIN sections'
        PROVE sections'[i][2] = (~ctx'.all /\ sections'[i][1] \in Flagged("boot") \union Flagged("benchmark"))
    <3>1. CASE i = Len(sections) + 1
      BY <1>7, <2>1, <2>4, <2>5, <3>1
    <3>2. CASE i # Len(sections) + 1
      <4>1. i \in DOMAIN sections /\ sections'[i] = sections[i]
        BY <2>2, <2>5, <3>2
      <4> QED BY <1>0, <2>1, <4>1 DEF FilterInv, ReportsFiltered
    <3> QED BY <3>1, <3>2
  <2> QED BY <1>8, <2>6 DEF FilterInv, ReportsFiltered
<1> QED BY <1>11, <1>12, <1>13, <1>14 DEF ReportInv

\* The report goes with its dialog.
LEMMA ClosedStep ==
  ASSUME ReportInv, Closed, UNCHANGED <<program, filtered, todo>>, dialog # "done"
  PROVE  ReportInv'
<1>0. TypeInv /\ TickInv /\ TableInv /\ FilterInv
  BY DEF ReportInv
<1>1. /\ params' = params /\ modules' = modules /\ filtered' = filtered /\ todo' = todo
      /\ dialog' = "closed" /\ ticked' = set_all_active(FALSE) /\ sections' = <<>>
      /\ ctx' = report_context_new("none", ctx.all)
  BY DEF program, Closed
<1>2. Proper(ctx')
  <2>1. ctx.all \in BOOLEAN
    BY <1>0 DEF TableInv, Proper, Reaches, Ctx
  <2> QED BY <1>1, <2>1, NewReport
<1>3. TypeInv'
  <2>1. sections' \in Seq(Sections)
    BY <1>1, EmptySeq
  <2> QED BY <1>0, <1>1, <2>1 DEF TypeInv
<1>4. TickInv'
  <2>1. Consistent(set_all_active(FALSE))
    BY <1>0, TicksSet DEF TickInv
  <2>2. Consistent(ticked)'
    BY <1>1, <2>1 DEF Consistent
  <2> QED BY <1>1, <2>2 DEF TickInv
<1>5. TableInv'
  BY <1>1, <1>2 DEF TableInv
<1>6. FilterInv'
  BY <1>0, <1>1 DEF FilterInv, ReportsFiltered
<1> QED BY <1>3, <1>4, <1>5, <1>6 DEF ReportInv

LEMMA FinishStep ==
  ASSUME ReportInv, Finish
  PROVE  ReportInv'
<1>0. TypeInv /\ TickInv /\ TableInv /\ FilterInv
  BY DEF ReportInv
<1>1. CASE Window /\ ~Html(ctx)
  BY <1>1, ClosedStep DEF Finish
<1>2. CASE ~(Window /\ ~Html(ctx))
  <2>1. /\ params' = params /\ modules' = modules /\ filtered' = filtered /\ todo' = todo
        /\ dialog = "writing" /\ dialog' \in {"asking", "ended"}
        /\ ticked' = ticked /\ sections' = sections /\ ctx' = report_footer(ctx)
    BY <1>2 DEF program, Finish
  <2>2. Proper(ctx') /\ Same(ctx', ctx)
    BY <1>0, <2>1, FooterReaches DEF TableInv
  <2>3. TypeInv'
    BY <1>0, <2>1 DEF TypeInv
  <2>4. TickInv'
    <3>1. Reported' = Reported /\ Rows' = Rows /\ Window' = Window
      BY <2>1 DEF Reported, Rows, Window
    <3>2. Consistent(ticked)'
      BY <1>0, <2>1 DEF TickInv, Consistent
    <3> QED BY <1>0, <2>1, <3>1, <3>2 DEF TickInv
  <2>5. TableInv'
    BY <2>1, <2>2 DEF TableInv
  <2>6. FilterInv'
    BY <1>0, <2>1, <2>2 DEF FilterInv, ReportsFiltered, Same
  <2> QED BY <2>3, <2>4, <2>5, <2>6 DEF ReportInv
<1> QED BY <1>1, <1>2

\* The steps behind a dialog or after a report, which write nothing
LEMMA QuietStep ==
  ASSUME ReportInv, UNCHANGED <<program, ticked, writing>>, dialog' \in {dialog, "done"},
         filtered' \subseteq Flagged("boot")
  PROVE  ReportInv'
<1>0. TypeInv /\ TickInv /\ TableInv /\ FilterInv
  BY DEF ReportInv
<1>1. /\ params' = params /\ modules' = modules /\ ticked' = ticked
      /\ ctx' = ctx /\ todo' = todo /\ sections' = sections
  BY DEF program, writing
<1>2. TypeInv'
  BY <1>0, <1>1 DEF TypeInv, Window
<1>3. TickInv'
  <2>1. Reported' = Reported /\ Rows' = Rows /\ Window' = Window
    BY <1>1 DEF Reported, Rows, Window
  <2>2. Consistent(ticked)'
    BY <1>0, <1>1 DEF TickInv, Consistent
  <2> QED BY <1>0, <1>1, <2>1, <2>2 DEF TickInv
<1>4. TableInv'
  BY <1>0, <1>1 DEF TableInv
<1>5. FilterInv'
  BY <1>0, <1>1 DEF FilterInv, ReportsFiltered
<1> QED BY <1>2, <1>3, <1>4, <1>5 DEF ReportInv

\* What main() asks for is a report in one of the formats, or none.
LEMMA Parameters ==
  ASSUME NEW args \in CommandLines, NEW display \in BOOLEAN
  PROVE  LET p == ui_init(parameters_init(args), display)
         IN p.report_format \in {"html", "text", "shell"} /\ p.force_all_details \in BOOLEAN
<1> DEFINE q == parameters_init(args)
           p == ui_init(q, display)
<1>1. /\ q.report_format \in {"html", "text", "shell"} /\ q.force_all_details \in BOOLEAN
      /\ DOMAIN q = {"create_report", "report_format", "topic", "topiccached", "skip_benchmarks",
                     "run_benchmark", "force_all_details", "markup_ok", "gui_running"}
  BY ProgramAssumption DEF parameters_init
<1> HIDE DEF q
<1>2. p.report_format = q.report_format /\ p.force_all_details = q.force_all_details
  BY <1>1 DEF ui_init
<1> QED BY <1>1, <1>2 DEF q

LEMMA RestartStep ==
  ASSUME Restart
  PROVE  ReportInv'
<1>1. PICK args \in CommandLines, display \in BOOLEAN, broken \in Broken :
        \E p \in {ui_init(parameters_init(args), display)} :
          /\ params' = p /\ modules' = modules_load_all(p, broken)
          /\ dialog' \in {"done", "closed"}
          /\ ctx' = report_context_new("none", p.force_all_details)
  BY DEF Restart, Start
<1> DEFINE p == ui_init(parameters_init(args), display)
<1>2. /\ params' = p /\ modules' = modules_load_all(p, broken) /\ dialog' \in {"done", "closed"}
      /\ ctx' = report_context_new("none", p.force_all_details)
  BY <1>1
<1>3. p.report_format \in {"html", "text", "shell"} /\ p.force_all_details \in BOOLEAN
  BY Parameters
<1> HIDE DEF p
<1>4. ticked' = {} /\ filtered' = {} /\ todo' = <<>> /\ sections' = <<>>
  BY DEF Restart
<1>5. TypeInv'
  <2>1. modules' \in Seq(Range(Files))
    BY <1>2, ModulesType
  <2>2. todo' \in Seq(Items) /\ sections' \in Seq(Sections)
    BY <1>4, EmptySeq
  <2> QED BY <1>2, <1>3, <2>1, <2>2 DEF TypeInv
<1>6. TickInv'
  BY <1>2, <1>4 DEF TickInv, Consistent
<1>7. TableInv'
  <2>1. Proper(ctx')
    BY <1>2, <1>3, NewReport
  <2> QED BY <1>2, <2>1 DEF TableInv
<1>8. FilterInv'
  BY <1>4 DEF FilterInv, ReportsFiltered
<1> QED BY <1>5, <1>6, <1>7, <1>8 DEF ReportInv

LEMMA NextInv == ReportInv /\ [Next]_vars => ReportInv'
<1> SUFFICES ASSUME ReportInv, [Next]_vars PROVE ReportInv'
  OBVIOUS
<1>0. /\ modules \in Seq(Range(Files)) /\ Consistent(ticked) /\ filtered \subseteq Flagged("boot")
      /\ dialog # "done" => params.report_format \in {"html", "text", "shell"}
      /\ dialog \in {"ticking", "saving"} => Window
  BY DEF ReportInv, TypeInv, TickInv, FilterInv
<1>1. CASE Open
  BY <1>0, <1>1, TicksSet, DialogStep DEF Open
<1>2. CASE Cancel
  BY <1>0, <1>2, TicksSet, DialogStep DEF Cancel
<1>3. ASSUME NEW set, Tick(set), Consistent(set) PROVE ReportInv'
  <2>1. Consistent(ticked') /\ dialog = "ticking" /\ dialog' = "ticking" /\ Window
        /\ UNCHANGED <<program, filtered, writing>>
    BY <1>0, <1>3 DEF Tick
  <2> QED BY <2>1, DialogStep
<1>4. CASE SelectAll
  BY <1>0, <1>3, <1>4, TicksSet DEF SelectAll
<1>5. CASE SelectNone
  BY <1>0, <1>3, <1>5, TicksSet DEF SelectNone
<1>6. CASE Generate
  BY <1>0, <1>6, DialogStep DEF Generate
<1>7. CASE NoFile
  BY <1>0, <1>7, TicksSet, DialogStep DEF NoFile
<1>8. ASSUME NEW m \in Range(modules), ToggleModule(m) PROVE ReportInv'
  <2>1. Consistent(ticked \ ({m} \union Children(m))) /\ Consistent(ticked \union {m} \union Children(m))
    BY <1>0, ToggleKeeps
  <2>2. CASE m \in ticked
    BY <1>3, <1>8, <2>1, <2>2 DEF ToggleModule
  <2>3. CASE m \notin ticked
    BY <1>3, <1>8, <2>1, <2>3 DEF ToggleModule
  <2> QED BY <2>2, <2>3
<1>9. ASSUME NEW m \in Range(modules), NEW e \in Children(m), ToggleEntry(m, e) PROVE ReportInv'
  <2>1. Consistent(ticked \ {e}) /\ Consistent(ticked \union {m, e})
    BY <1>0, ToggleKeeps
  <2>2. CASE e \in ticked
    BY <1>3, <1>9, <2>1, <2>2 DEF ToggleEntry
  <2>3. CASE e \notin ticked
    BY <1>3, <1>9, <2>1, <2>3 DEF ToggleEntry
  <2> QED BY <2>2, <2>3
<1>10. ASSUME NEW kind \in Range(file_types), ChooseFile(kind) PROVE ReportInv'
  <2> DEFINE format == file_types_get_data_by_name(kind.ext)
  <2>1. format \in {"html", "text", "shell"}
    BY FileFormat
  <2>2. StartWriting(format, ticked) /\ dialog = "saving" /\ UNCHANGED <<program, ticked, filtered>>
    BY <1>10 DEF ChooseFile
  <2> HIDE DEF format
  <2>3. Kept(Rows, ticked) = IF Window THEN Kept(Rows, ticked) ELSE Rows
    BY <1>0, <2>2
  <2> QED BY <1>0, <2>1, <2>2, <2>3, StartStep
<1>11. CASE CliWrite
  <2> DEFINE all == shell_add_modules_to_gui(modules)
  <2>0. Consistent(all) /\ Rows \in Seq(all)
    BY <1>0, AllRows, AllTicks
  <2>1. StartWriting(params.report_format, all) /\ dialog = "closed" /\ ~Window
        /\ UNCHANGED <<program, ticked, filtered>>
    BY <1>11 DEF CliWrite
  <2> HIDE DEF all
  <2>2. Kept(Rows, all) = Rows
    BY <2>0, KeptAll
  <2>3. Kept(Rows, all) = IF Window THEN Kept(Rows, ticked) ELSE Rows
    BY <2>1, <2>2
  <2> QED BY <1>0, <2>0, <2>1, <2>3, StartStep
<1>12. CASE WriteModule
  BY <1>12, WriteModuleStep
<1>13. CASE WriteEntry
  BY <1>13, WriteEntryStep
<1>14. CASE Finish
  BY <1>14, FinishStep
<1>15. CASE Answer
  BY <1>15, ClosedStep DEF Answer
<1>16. ASSUME NEW e \in Pages, Background(e) PROVE ReportInv'
  <2>1. dialog' = dialog /\ UNCHANGED <<program, ticked, writing>>
    BY <1>16 DEF Background, dialogVars
  <2>2. filtered' \subseteq Flagged("boot")
    BY <1>0, <1>16, BootsOnly DEF Background
  <2> QED BY <2>1, <2>2, QuietStep
<1>17. CASE CliPrint
  BY <1>0, <1>17, QuietStep DEF CliPrint
<1>18. CASE CliCached
  BY <1>0, <1>18, QuietStep DEF CliCached
<1>19. CASE Restart
  BY <1>19, RestartStep
<1>20. CASE UNCHANGED vars
  BY <1>0, <1>20, QuietStep DEF vars, dialogVars
<1> QED BY <1>1, <1>2, <1>4, <1>5, <1>6, <1>7, <1>8, <1>9, <1>10, <1>11, <1>12, <1>13, <1>14,
           <1>15, <1>16, <1>17, <1>18, <1>19, <1>20 DEF Next

\* In every state what is written and what is left to write make up what was ticked,
\* in HTML the lines so far lead to closed tables or to the one of the last entry, the
\* list holds loaded modules and rows of the tree, and only boots are ever shortened by
\* a scan (report_create_module_list_from_dialog, report_create_from_module_list).
THEOREM ReportCorrect == Spec => []ReportInv
<1>1. Init => ReportInv
  BY InitInv
<1>2. ReportInv /\ [Next]_vars => ReportInv'
  BY NextInv
<1> QED BY <1>1, <1>2, PTL DEF Spec

\* A report that is finished holds what had a tick when Generate was clicked, or all
\* rows on the command line, each once and in the order of the tree, for any modules,
\* entries and clicks (report_dialog_sel_toggle, report_create_from_module_list).
THEOREM TickedReportedHolds == Spec => []TickedReported
<1>1. ReportInv => TickedReported
  <2> SUFFICES ASSUME ReportInv, dialog \in {"writing", "asking", "ended"}, todo = <<>>
               PROVE  Reported = IF Window THEN Kept(Rows, ticked) ELSE Rows
    BY DEF TickedReported, Reported, Rows, RowsOf
  <2>1. Reported \o EntriesIn(todo) = IF Window THEN Kept(Rows, ticked) ELSE Rows
    BY DEF ReportInv, TickInv
  <2>2. EntriesIn(<<>>) = <<>>
    BY EmptySeq, FlattenEmpty DEF EntriesIn, Mapped
  <2>3. Reported \in Seq(Pages)
    BY ReportedType DEF ReportInv, TypeInv, Reported
  <2>4. Reported \o <<>> = Reported
    BY <2>3, ConcatEmptySeq
  <2> QED BY <2>1, <2>2, <2>4
<1> QED BY <1>1, ReportCorrect, PTL

\* In HTML all tables are closed that are opened, and titles and rows stand where
\* they may, whatever pages, groups and details a report has (report_html_title,
\* report_html_subtitle, report_html_details_start and _end, report_html_footer).
THEOREM TablesCloseHolds == Spec => []TablesClose
<1>1. ReportInv => TablesClose
  BY ProperCloses DEF ReportInv, TableInv
<1> QED BY <1>1, ReportCorrect, PTL

\* Boots and benchmarks are shortened in reports without all details and in these
\* only, whatever the window scans before and meanwhile (report.c:811, 815).
THEOREM ReportsFilteredHolds == Spec => []ReportsFiltered
<1>1. ReportInv => ReportsFiltered
  BY DEF ReportInv, FilterInv
<1> QED BY <1>1, ReportCorrect, PTL
-----------------------------------------------------------------------------
(* The lines of a text report                                               *)

\* Titles of modules and entries are underlined, nothing else is, and groups, details
\* and rows stand below a title.
Formed(x) ==
  \A i \in DOMAIN x :
    /\ x[i].kind = "module" => i + 1 \in DOMAIN x /\ x[i + 1].kind = "stars"
    /\ x[i].kind = "entry"  => i + 1 \in DOMAIN x /\ x[i + 1].kind = "dashes"
    /\ x[i].kind = "stars"  => i - 1 \in DOMAIN x /\ x[i - 1].kind = "module"
    /\ x[i].kind = "dashes" => i - 1 \in DOMAIN x /\ x[i - 1].kind = "entry"
    /\ x[i].kind \in {"group", "block", "row"} => \E j \in DOMAIN x : j < i /\ Heading(x[j])
BodyLines == [kind : {"group", "row", "block", "detail"}, name : Names]

LEMMA FormedCat ==
  ASSUME NEW T, NEW x \in Seq(T), NEW y \in Seq(T), Formed(x), Formed(y)
  PROVE  Formed(x \o y)
<1> DEFINE z == x \o y
           n == Len(x)
           m == Len(y)
<1>1. z \in Seq(T) /\ n \in Nat /\ m \in Nat /\ Len(z) = n + m
      /\ \A i \in 1..n + m : z[i] = IF i <= n THEN x[i] ELSE y[i - n]
  BY ConcatProperties, LenProperties
<1>2. DOMAIN x = 1..n /\ DOMAIN y = 1..m
  BY LenProperties
<1> HIDE DEF z
<1>3. DOMAIN z = 1..n + m
  BY <1>1, LenProperties
<1> HIDE DEF n, m
<1>4. ASSUME NEW i \in 1..n PROVE i \in DOMAIN z /\ z[i] = x[i]
  BY <1>1, <1>3
<1>5. ASSUME NEW i \in 1..m PROVE n + i \in DOMAIN z /\ z[n + i] = y[i]
  BY <1>1, <1>3
<1>6. ASSUME NEW i \in DOMAIN z
      PROVE  /\ z[i].kind = "module" => i + 1 \in DOMAIN z /\ z[i + 1].kind = "stars"
             /\ z[i].kind = "entry"  => i + 1 \in DOMAIN z /\ z[i + 1].kind = "dashes"
             /\ z[i].kind = "stars"  => i - 1 \in DOMAIN z /\ z[i - 1].kind = "module"
             /\ z[i].kind = "dashes" => i - 1 \in DOMAIN z /\ z[i - 1].kind = "entry"
             /\ z[i].kind \in {"group", "block", "row"} => \E j \in DOMAIN z : j < i /\ Heading(z[j])
  <2>1. CASE i <= n
    <3>1. i \in 1..n /\ z[i] = x[i]
      BY <1>1, <1>3, <1>4, <2>1
    <3>2. /\ x[i].kind = "module" => i + 1 \in 1..n /\ x[i + 1].kind = "stars"
          /\ x[i].kind = "entry"  => i + 1 \in 1..n /\ x[i + 1].kind = "dashes"
          /\ x[i].kind = "stars"  => i - 1 \in 1..n /\ x[i - 1].kind = "module"
          /\ x[i].kind = "dashes" => i - 1 \in 1..n /\ x[i - 1].kind = "entry"
          /\ x[i].kind \in {"group", "block", "row"} => \E j \in 1..n : j < i /\ Heading(x[j])
      BY <1>2, <3>1 DEF Formed
    <3> QED BY <1>4, <3>1, <3>2
  <2>2. CASE ~(i <= n)
    <3> DEFINE k == i - n
    <3>1. k \in 1..m /\ i = n + k /\ i + 1 = n + (k + 1) /\ i - 1 = n + (k - 1)
      <4>1. n \in Nat /\ m \in Nat /\ i \in 1..n + m
        BY <1>1, <1>3
      <4> QED BY <2>2, <4>1
    <3> HIDE DEF k
    <3>2. z[i] = y[k]
      BY <1>5, <3>1
    <3>3. /\ y[k].kind = "module" => k + 1 \in 1..m /\ y[k + 1].kind = "stars"
          /\ y[k].kind = "entry"  => k + 1 \in 1..m /\ y[k + 1].kind = "dashes"
          /\ y[k].kind = "stars"  => k - 1 \in 1..m /\ y[k - 1].kind = "module"
          /\ y[k].kind = "dashes" => k - 1 \in 1..m /\ y[k - 1].kind = "entry"
          /\ y[k].kind \in {"group", "block", "row"} => \E j \in 1..m : j < k /\ Heading(y[j])
      BY <1>2, <3>1 DEF Formed
    <3>4. ASSUME NEW j \in 1..m, j < k, Heading(y[j]) PROVE \E l \in DOMAIN z : l < i /\ Heading(z[l])
      <4>1. n + j \in DOMAIN z /\ z[n + j] = y[j]
        BY <1>5
      <4>2. n + j < i
        BY <1>1, <3>1, <3>4
      <4> QED BY <3>4, <4>1, <4>2
    <3> QED BY <1>5, <3>1, <3>2, <3>3, <3>4
  <2> QED BY <2>1, <2>2
<1>7. Formed(z)
  BY <1>6 DEF Formed
<1> QED BY <1>7 DEF z

LEMMA FormedPlain ==
  ASSUME NEW x, \A i \in DOMAIN x : x[i].kind \notin {"module", "entry", "stars", "dashes", "group", "block", "row"}
  PROVE  Formed(x)
BY DEF Formed

LEMMA FormedNone == Formed(<<>>)
<1> DEFINE x == <<>>
<1>1. DOMAIN x = {}
  OBVIOUS
<1> HIDE DEF x
<1>2. Formed(x)
  BY <1>1 DEF Formed
<1> QED BY <1>2 DEF x

\* Two lines
LEMMA PairIs ==
  ASSUME NEW t, NEW u
  PROVE  DOMAIN <<t, u>> = 1..2 /\ <<t, u>>[1] = t /\ <<t, u>>[2] = u
OBVIOUS

LEMMA FormedModule ==
  ASSUME NEW m
  PROVE  Formed(<<Made("module", m), Made("stars", "")>>)
<1> DEFINE t == Made("module", m)
           u == Made("stars", "")
           x == <<t, u>>
<1>1. DOMAIN x = 1..2 /\ x[1] = t /\ x[2] = u
  BY PairIs
<1>2. t.kind = "module" /\ u.kind = "stars"
  BY DEF Made
<1> HIDE DEF t, u, x
<1>3. Formed(x)
  <2>1. \A i \in DOMAIN x : i = 1 \/ i = 2
    BY <1>1
  <2>2. 1 \in DOMAIN x /\ 2 \in DOMAIN x /\ 1 + 1 = 2 /\ 2 - 1 = 1
    BY <1>1
  <2> QED BY <1>1, <1>2, <2>1, <2>2 DEF Formed
<1> QED BY <1>3 DEF t, u, x

LEMMA FormedEntry ==
  ASSUME NEW e, NEW y \in Seq(BodyLines)
  PROVE  Formed(<<Made("entry", e), Made("dashes", "")>> \o y)
<1> DEFINE t == Made("entry", e)
           u == Made("dashes", "")
           x == <<t, u>>
           T == {t, u} \union BodyLines
           z == x \o y
           m == Len(y)
<1>1. DOMAIN x = 1..2 /\ x[1] = t /\ x[2] = u
  BY PairIs
<1>2. t.kind = "entry" /\ u.kind = "dashes" /\ Heading(t) /\ t \in T /\ u \in T /\ BodyLines \subseteq T
  BY DEF Made, Heading
<1> HIDE DEF T, t, u
<1>3. x \in Seq(T)
  BY <1>2
<1>4. y \in Seq(T)
  BY <1>2, SeqMonotonic
<1>5. Len(x) = 2 /\ m \in Nat /\ \A i \in 1..m : y[i].kind \in {"group", "row", "block", "detail"}
  <2>1. m \in Nat /\ \A i \in 1..m : y[i] \in BodyLines
    BY LenProperties, ElementOfSeq
  <2> QED BY <2>1 DEF BodyLines
<1> HIDE DEF x, m
<1>6. z \in Seq(T) /\ Len(z) = 2 + m /\ \A i \in 1..2 + m : z[i] = IF i <= 2 THEN x[i] ELSE y[i - 2]
  <2> DEFINE n == Len(x)
  <2>1. z \in Seq(T) /\ Len(z) = n + Len(y) /\ \A i \in 1..n + Len(y) : z[i] = IF i <= n THEN x[i] ELSE y[i - n]
    BY <1>3, <1>4, ConcatProperties
  <2>2. n = 2
    BY <1>5
  <2> HIDE DEF n, z
  <2> QED BY <2>1, <2>2 DEF m
<1> HIDE DEF z
<1>7. DOMAIN z = 1..2 + m
  BY <1>6, LenProperties
<1>8. 1 \in DOMAIN z /\ 2 \in DOMAIN z /\ z[1] = t /\ z[2] = u
  BY <1>1, <1>5, <1>6, <1>7
<1>9. ASSUME NEW i \in DOMAIN z, i # 1, i # 2
      PROVE  z[i].kind \in {"group", "row", "block", "detail"} /\ 1 < i
  <2>1. i - 2 \in 1..m /\ ~(i <= 2) /\ 1 < i
    BY <1>5, <1>7, <1>9
  <2> QED BY <1>5, <1>6, <1>7, <2>1
<1>10. Formed(z)
  <2>1. 1 + 1 = 2 /\ 2 - 1 = 1
    OBVIOUS
  <2> QED BY <1>2, <1>8, <1>9, <2>1 DEF Formed
<1> QED BY <1>10 DEF z, x, t, u

\* In text a page is titles and rows.
LEMMA GroupsType ==
  ASSUME NEW T, NEW groups, Grouped(groups), NEW title, NEW tell, NEW skip,
         \A g \in Range(groups) : g \notin skip => title[g] \in Seq(T),
         \A g \in Range(groups) : \A row \in Range(g.rows) : tell[row] \in Seq(T)
  PROVE  Told(groups, title, tell, skip) \in Seq(T)
<1> DEFINE G == Range(groups)
           whole == [g \in G |-> IF g \in skip THEN <<>>
                                 ELSE title[g] \o FlattenSeq(Mapped(tell, g.rows))]
<1>1. groups \in Seq(G) /\ \A g \in G : g.rows \in Seq(Range(g.rows))
  BY DEF Grouped, IsSequence
<1>2. ASSUME NEW g \in G PROVE whole[g] \in Seq(T)
  <2>1. CASE g \in skip
    BY <2>1, EmptySeq
  <2>2. CASE g \notin skip
    <3> DEFINE S == Range(g.rows)
    <3>1. g.rows \in Seq(S) /\ \A row \in S : tell[row] \in Seq(T)
      BY <1>1
    <3> HIDE DEF S
    <3>2. Mapped(tell, g.rows) \in Seq(Seq(T))
      BY <3>1, MappedType
    <3>3. FlattenSeq(Mapped(tell, g.rows)) \in Seq(T)
      BY <3>2, FlattenType
    <3>4. title[g] \o FlattenSeq(Mapped(tell, g.rows)) \in Seq(T)
      BY <2>2, <3>3, ConcatProperties
    <3> QED BY <2>2, <3>4
  <2> QED BY <2>1, <2>2
<1>3. DOMAIN groups = 1..Len(groups) /\ \A i \in DOMAIN groups : groups[i] \in G
  BY <1>1, LenProperties
<1>4. Mapped(whole, groups) = [i \in DOMAIN groups |->
          IF groups[i] \in skip THEN <<>>
          ELSE title[groups[i]] \o FlattenSeq([j \in DOMAIN groups[i].rows |-> tell[groups[i].rows[j]]])]
  BY <1>3 DEF Mapped
<1> HIDE DEF whole, G
<1>5. Mapped(whole, groups) \in Seq(Seq(T))
  BY <1>1, <1>2, MappedType
<1>6. FlattenSeq(Mapped(whole, groups)) \in Seq(T)
  BY <1>5, FlattenType
<1> QED BY <1>4, <1>6 DEF Told

LEMMA TextLine ==
  ASSUME NEW c, ~Html(c), NEW name \in Names
  PROVE  report_subsubtitle(c, name) \in Seq(BodyLines) /\ report_key_value(c, name) \in Seq(BodyLines)
<1>1. ASSUME NEW kind \in {"group", "row", "block", "detail"} PROVE <<Made(kind, name)>> \in Seq(BodyLines)
  <2> DEFINE t == Made(kind, name)
  <2>1. t \in BodyLines
    BY DEF Made, BodyLines
  <2> HIDE DEF t
  <2>2. <<t>> \in Seq(BodyLines)
    BY <2>1
  <2> QED BY <2>2 DEF t
<1>2. PICK kind \in {"block", "group"} : report_subsubtitle(c, name) = <<Made(kind, name)>>
  BY DEF report_subsubtitle
<1>3. PICK kind1 \in {"detail", "row"} : report_key_value(c, name) = <<Made(kind1, name)>>
  BY DEF report_key_value
<1> QED BY <1>1, <1>2, <1>3

LEMMA TextDetails ==
  ASSUME NEW c \in Ctx, ~Html(c), NEW row, row.key \in Names, Grouped(row.details)
  PROVE  report_details(c, row) \in Seq(BodyLines)
<1> DEFINE inside == [c EXCEPT !.in_details = TRUE]
           title == Titles(inside, row.details)
           tell == DetailsToldBy(inside, row.details)
           skip == Hidden(row.details)
           told == Told(row.details, title, tell, skip)
<1>1. ~Html(inside)
  BY DEF Html, Ctx
<1>2. /\ \A g \in Range(row.details) : g.name \in Names
      /\ \A g \in Range(row.details) : \A r \in Range(g.rows) : r.key \in Names
  BY DEF Grouped, Names
<1>3. InGroups(inside, row.details, LAMBDA r : report_key_value(inside, r.key)) = told
  BY DetailsTold
<1> HIDE DEF inside
<1>4. \A g \in Range(row.details) : title[g] \in Seq(BodyLines)
  BY <1>1, <1>2, TextLine DEF Titles
<1>5. ASSUME NEW g \in Range(row.details), NEW r \in Range(g.rows) PROVE tell[r] \in Seq(BodyLines)
  <2>1. tell[r] = report_key_value(inside, r.key)
    BY DEF DetailsToldBy, RowsIn
  <2> QED BY <1>1, <1>2, <2>1, TextLine
<1> HIDE DEF title, tell, skip
<1>6. told \in Seq(BodyLines)
  BY <1>4, <1>5, GroupsType
<1> HIDE DEF told
<1>7. report_key_value(c, row.key) \in Seq(BodyLines)
  BY TextLine
<1> DEFINE none == <<>>
<1>8. none \in Seq(BodyLines)
  BY EmptySeq
<1> HIDE DEF none
<1>9. ((report_key_value(c, row.key) \o none) \o told) \o none \in Seq(BodyLines)
  BY <1>6, <1>7, <1>8, ConcatProperties
<1> QED BY <1>3, <1>9 DEF report_details, none, inside

LEMMA TextPage ==
  ASSUME NEW c \in Ctx, ~Html(c), NEW e \in Pages
  PROVE  InGroups(c, Table[e], LAMBDA row : IF WantsDetails(c, row) THEN report_details(c, row)
                                            ELSE report_key_value(c, row.key)) \in Seq(BodyLines)
<1> DEFINE groups == Table[e]
           title == Titles(c, groups)
           tell == RowsToldBy(c, groups)
           skip == Hidden(groups)
<1>1. Grouped(groups) /\ \A g \in Range(groups) : \A r \in Range(g.rows) : Grouped(r.details)
  BY TableAssumption, PagesAssumption
<1> HIDE DEF groups
<1>2. /\ \A g \in Range(groups) : g.name \in Names
      /\ \A g \in Range(groups) : \A r \in Range(g.rows) : r.key \in Names
  BY <1>1 DEF Grouped, Names
<1>3. \A g \in Range(groups) : title[g] \in Seq(BodyLines)
  BY <1>2, TextLine DEF Titles
<1>4. ASSUME NEW g \in Range(groups), NEW r \in Range(g.rows) PROVE tell[r] \in Seq(BodyLines)
  <2>1. tell[r] = IF WantsDetails(c, r) THEN report_details(c, r) ELSE report_key_value(c, r.key)
    BY DEF RowsToldBy, RowsIn
  <2>2. report_key_value(c, r.key) \in Seq(BodyLines)
    BY <1>2, TextLine
  <2>3. report_details(c, r) \in Seq(BodyLines)
    BY <1>1, <1>2, TextDetails
  <2> QED BY <2>1, <2>2, <2>3
<1>5. InGroups(c, groups, LAMBDA row : IF WantsDetails(c, row) THEN report_details(c, row)
                                       ELSE report_key_value(c, row.key))
      = Told(groups, title, tell, skip)
  BY <1>1, RowsTold
<1> HIDE DEF title, tell, skip
<1>6. Told(groups, title, tell, skip) \in Seq(BodyLines)
  BY <1>1, <1>3, <1>4, GroupsType
<1> QED BY <1>5, <1>6 DEF groups
-----------------------------------------------------------------------------
(* What a topic prints of a text report                                     *)

IsCalled(topic, line) == line.kind \in DOMAIN Place /\ <<topic, Place[line.kind], line>> \in Found

\* The topic is found nowhere but at the beginning of names and of rows.
Apt(topic, line) ==
  \A at \in {0, 1, 4} : <<topic, at, line>> \in Found => line.kind \in DOMAIN Place /\ at = Place[line.kind]
Readable(topic, lines) == \A i \in DOMAIN lines : Apt(topic, lines[i])
Named(topic, lines) == {i \in DOMAIN lines : IsCalled(topic, lines[i])}
Whole(topic, lines) == {i \in Named(topic, lines) : Heading(lines[i])}
First(topic, lines) == {i \in Named(topic, lines) : \A j \in Whole(topic, lines) : i <= j}
ApartIn(topic, lines) == {i \in First(topic, lines) :
                            \A j \in First(topic, lines) : j < i => SectionEnd(lines, j) < i}
Section(lines, i, k) == (IF Heading(lines[i]) THEN <<>> ELSE <<HeaderOf(lines, i)>>) \o SubSeq(lines, i, k)
PartsOf(topic, lines) ==
  [i \in DOMAIN lines |-> IF i \in ApartIn(topic, lines) THEN Section(lines, i, SectionEnd(lines, i)) ELSE <<>>]

\* What is printed when a section of a kind is.
Rank == [module |-> 1, entry |-> 2, group |-> 3, block |-> 4, row |-> 4]
Active(s, kind) == s.active = Rank[kind]
Idle(s) == s.active = 0
Printing(T) == [active : -1..4, header : Seq(T), out : Seq(T)]

LEMMA EndsAre ==
  /\ DOMAIN Ends = {"module", "entry", "group", "block", "row"}
  /\ Ends["module"] = {"module"} /\ Ends["entry"] = {"module", "entry"}
  /\ Ends["group"] = {"module", "entry", "group"} /\ Ends["block"] = {"module", "entry", "group", "block"}
  /\ Ends["row"] = {"module", "entry", "group", "block"}
BY DEF Ends

LEMMA PlacesAre ==
  /\ DOMAIN Place = DOMAIN Ends
  /\ Place["module"] = 0 /\ Place["entry"] = 0 /\ Place["group"] = 1
  /\ Place["block"] = 4 /\ Place["row"] = 4
BY DEF Place, Ends

LEMMA RankIs ==
  Rank["module"] = 1 /\ Rank["entry"] = 2 /\ Rank["group"] = 3 /\ Rank["block"] = 4 /\ Rank["row"] = 4
BY DEF Rank

\* What ends a section ends the sections within it.
LEMMA EndsNest ==
  ASSUME NEW p \in DOMAIN Ends
  PROVE  /\ Ends[p] \subseteq {"module", "entry", "group", "block"}
         /\ \A q \in DOMAIN Ends : q \notin Ends[p] => Ends[p] \subseteq Ends[q]
         /\ {"module"} \subseteq Ends[p] /\ (p # "module" => "entry" \in Ends[p])
<1>1. p \in {"module", "entry", "group", "block", "row"}
  BY EndsAre
<1>2. \A q \in DOMAIN Ends :
      /\ q = "module" => Ends[q] = {"module"}
      /\ q = "entry" => Ends[q] = {"module", "entry"}
      /\ q = "group" => Ends[q] = {"module", "entry", "group"}
      /\ q = "block" => Ends[q] = {"module", "entry", "group", "block"}
      /\ q = "row" => Ends[q] = {"module", "entry", "group", "block"}
  BY EndsAre, Zenon
<1>3. ASSUME NEW q \in DOMAIN Ends, q \notin Ends[p] PROVE Ends[p] \subseteq Ends[q]
  <2>1. q \in {"module", "entry", "group", "block", "row"}
    BY EndsAre
  <2> QED BY <1>1, <1>2, <1>3, <2>1
<1>4. Ends[p] \subseteq {"module", "entry", "group", "block"}
  BY <1>1, <1>2
<1>5. {"module"} \subseteq Ends[p] /\ (p # "module" => "entry" \in Ends[p])
  BY <1>1, <1>2
<1> QED BY <1>3, <1>4, <1>5

\* A title, with its line, and what is no title
Below(line, next) ==
  /\ next.kind = "stars" <=> line.kind = "module"
  /\ next.kind = "dashes" <=> line.kind = "entry"
EndsHere(p, next) == p \in {"group", "block", "row"} /\ next.kind \in Ends[p] /\ next.kind \in {"group", "block"}

\* What is printed comes to an end with the next title of its rank or a higher one.
LEMMA EndedIs ==
  ASSUME NEW line, NEW next, Below(line, next)
  PROVE  /\ TopicEnded(0, next) = 0 /\ TopicEnded(-1, next) = -1
         /\ TopicEnded(1, next) = IF line.kind = "module" THEN -1 ELSE 1
         /\ TopicEnded(2, next) = IF line.kind \in {"module", "entry"} THEN -1 ELSE 2
         /\ TopicEnded(3, next) = IF line.kind \in {"module", "entry"} THEN 0 ELSE 3
         /\ TopicEnded(4, next) = IF line.kind \in {"module", "entry"} THEN 0 ELSE 4
<1>1. TopicEnded(0, next) = 0 /\ TopicEnded(-1, next) = -1
  BY DEF TopicEnded
<1>2. TopicEnded(1, next) = IF line.kind = "module" THEN -1 ELSE 1
  BY DEF TopicEnded, Below
<1>3. TopicEnded(2, next) = IF line.kind \in {"module", "entry"} THEN -1 ELSE 2
  BY DEF TopicEnded, Below
<1>4. TopicEnded(3, next) = IF line.kind \in {"module", "entry"} THEN 0 ELSE 3
  BY DEF TopicEnded, Below
<1>5. TopicEnded(4, next) = IF line.kind \in {"module", "entry"} THEN 0 ELSE 4
  BY DEF TopicEnded, Below
<1> QED BY <1>1, <1>2, <1>3, <1>4, <1>5

\* In a section none begins.
LEMMA BeginsNot ==
  ASSUME NEW topic, NEW line, NEW next, NEW active \in {-1, 1, 2, 3, 4}
  PROVE  TopicBegins(topic, active, line, next) = 0
BY DEF TopicBegins

LEMMA BeginsIs ==
  ASSUME NEW topic, NEW line, NEW next, Below(line, next), Apt(topic, line)
  PROVE  TopicBegins(topic, 0, line, next) = IF IsCalled(topic, line) THEN Rank[line.kind] ELSE 0
<1> DEFINE found(at) == <<topic, at, line>> \in Found
<1>1. ASSUME NEW at \in {0, 1, 4}, found(at) PROVE IsCalled(topic, line) /\ at = Place[line.kind]
  BY <1>1 DEF Apt, IsCalled
<1>2. TopicBegins(topic, 0, line, next) =
        IF found(4) THEN 4 ELSE IF found(1) THEN 3 ELSE IF found(0) /\ Dash(next) THEN 2
        ELSE IF found(0) /\ next.kind = "stars" THEN 1 ELSE 0
  BY DEF TopicBegins
<1>3. IsCalled(topic, line) => line.kind \in {"module", "entry", "group", "block", "row"} /\ found(Place[line.kind])
  BY EndsAre, PlacesAre DEF IsCalled
<1>4. line.kind = "module" => next.kind = "stars" /\ ~Dash(next)
  BY DEF Below, Dash
<1>5. line.kind = "entry" => Dash(next)
  BY DEF Below, Dash
<1> HIDE DEF found
<1>6. CASE ~IsCalled(topic, line)
  <2>1. ~found(0) /\ ~found(1) /\ ~found(4)
    BY <1>1, <1>6
  <2> QED BY <1>2, <1>6, <2>1
<1>7. ASSUME IsCalled(topic, line), line.kind \in {"block", "row"}
      PROVE  TopicBegins(topic, 0, line, next) = Rank[line.kind]
  <2>1. found(4)
    BY <1>3, <1>7, PlacesAre
  <2> QED BY <1>2, <1>7, <2>1, RankIs
<1>8. ASSUME IsCalled(topic, line), line.kind = "group"
      PROVE  TopicBegins(topic, 0, line, next) = Rank[line.kind]
  <2>1. found(1)
    BY <1>3, <1>8, PlacesAre
  <2>2. ~found(4)
    BY <1>1, <1>8, PlacesAre
  <2> QED BY <1>2, <1>8, <2>1, <2>2, RankIs
<1>9. ASSUME IsCalled(topic, line), line.kind \in {"module", "entry"}
      PROVE  TopicBegins(topic, 0, line, next) = Rank[line.kind]
  <2>1. found(0)
    BY <1>3, <1>9, PlacesAre
  <2>2. ~found(4) /\ ~found(1)
    BY <1>1, <1>9, PlacesAre
  <2> QED BY <1>2, <1>4, <1>5, <1>9, <2>1, <2>2, RankIs
<1> QED BY <1>3, <1>6, <1>7, <1>8, <1>9

LEMMA GoesOnIs ==
  ASSUME NEW next
  PROVE  /\ \A active \in -1..2 : TopicGoesOn(active, next) = active
         /\ next.kind # "dashes" => \A p \in {"group", "block", "row"} :
              TopicGoesOn(Rank[p], next) = IF EndsHere(p, next) THEN 0 ELSE Rank[p]
<1>1. \A active \in -1..2 : TopicGoesOn(active, next) = active
  BY DEF TopicGoesOn
<1>2. TopicGoesOn(3, next) = IF Dash(next) THEN 0 ELSE 3
  BY DEF TopicGoesOn
<1>3. TopicGoesOn(4, next) = IF next.kind = "block" \/ Dash(next) THEN 0 ELSE 4
  BY DEF TopicGoesOn, Dash
<1>4. next.kind # "dashes" =>
        /\ Dash(next) <=> next.kind = "group"
        /\ EndsHere("group", next) <=> next.kind = "group"
        /\ EndsHere("block", next) <=> next.kind \in {"group", "block"}
        /\ EndsHere("row", next) <=> next.kind \in {"group", "block"}
  BY EndsAre DEF EndsHere, Dash
<1>5. next.kind # "dashes" =>
        /\ TopicGoesOn(Rank["group"], next) = IF EndsHere("group", next) THEN 0 ELSE Rank["group"]
        /\ TopicGoesOn(Rank["block"], next) = IF EndsHere("block", next) THEN 0 ELSE Rank["block"]
        /\ TopicGoesOn(Rank["row"], next) = IF EndsHere("row", next) THEN 0 ELSE Rank["row"]
  BY <1>2, <1>3, <1>4, RankIs
<1> QED BY <1>1, <1>5

LEMMA LineHeader ==
  ASSUME NEW topic, NEW s, NEW line, NEW next
  PROVE  TopicLine(topic, s, line, next).header = TopicHeader(s, line)
BY DEF TopicLine

\* Nothing is printed before a section of the name
LEMMA LineIdle ==
  ASSUME NEW topic, NEW s, NEW line, NEW next, s.active = 0, Below(line, next), Apt(topic, line), ~IsCalled(topic, line)
  PROVE  /\ TopicLine(topic, s, line, next).active = 0
         /\ TopicLine(topic, s, line, next).out = (s.out \o <<>>) \o <<>>
<1>1. TopicEnded(s.active, next) = 0 /\ TopicBegins(topic, 0, line, next) = 0
  BY EndedIs, BeginsIs
<1>2. TopicGoesOn(0, next) = 0
  BY GoesOnIs
<1>3. ~(0 \in {3, 4}) /\ ~(0 > 0)
  OBVIOUS
<1> QED BY <1>1, <1>2, <1>3 DEF TopicLine

\* u is what a section that begins leaves.
Begun(u, s, line, next) ==
  /\ u.active = IF EndsHere(line.kind, next) THEN 0 ELSE Rank[line.kind]
  /\ u.out = (s.out \o (IF Heading(line) THEN <<>> ELSE s.header)) \o <<line>>

LEMMA LineBegins ==
  ASSUME NEW topic, NEW s, NEW line, NEW next, Idle(s), Below(line, next), Apt(topic, line), IsCalled(topic, line)
  PROVE  Begun(TopicLine(topic, s, line, next), s, line, next)
<1> DEFINE r == Rank[line.kind]
<1>1. TopicEnded(s.active, next) = 0 /\ TopicBegins(topic, 0, line, next) = r
  BY EndedIs, BeginsIs DEF Idle
<1>2. line.kind \in {"module", "entry", "group", "block", "row"}
  BY EndsAre, PlacesAre DEF IsCalled
<1>3. r \in 1..4 /\ r # 0 /\ r > 0 /\ (r \in {3, 4} <=> ~Heading(line))
  BY <1>2, RankIs DEF Heading
<1>4. TopicGoesOn(r, next) = IF EndsHere(line.kind, next) THEN 0 ELSE r
  <2>1. CASE Heading(line)
    <3>1. r \in -1..2 /\ ~EndsHere(line.kind, next)
      BY <1>2, <2>1, RankIs DEF Heading, EndsHere
    <3> QED BY <3>1, GoesOnIs
  <2>2. CASE ~Heading(line)
    <3>1. line.kind \in {"group", "block", "row"} /\ next.kind # "dashes"
      BY <1>2, <2>2 DEF Heading, Below
    <3> QED BY <3>1, GoesOnIs
  <2> QED BY <2>1, <2>2
<1>5. ~Heading(line) => TopicHeader(s, line) = s.header
  BY DEF TopicHeader
<1> HIDE DEF r
<1> QED BY <1>1, <1>3, <1>4, <1>5 DEF TopicLine, Begun, r

\* and nothing more after the module or entry of the name.
LEMMA LineOver ==
  ASSUME NEW topic, NEW s, NEW line, NEW next, s.active = -1, Below(line, next)
  PROVE  /\ TopicLine(topic, s, line, next).active = -1
         /\ TopicLine(topic, s, line, next).out = (s.out \o <<>>) \o <<>>
<1>1. TopicEnded(s.active, next) = -1 /\ TopicBegins(topic, -1, line, next) = 0
  BY EndedIs, BeginsNot
<1>2. TopicGoesOn(-1, next) = -1
  BY GoesOnIs
<1>3. ~(0 \in {3, 4}) /\ ~(-1 > 0)
  OBVIOUS
<1> QED BY <1>1, <1>2, <1>3 DEF TopicLine

\* In a section a line that does not end it changes nothing.
LEMMA LineWithin ==
  ASSUME NEW topic, NEW line, NEW next, NEW p \in DOMAIN Ends, Below(line, next), line.kind \notin Ends[p]
  PROVE  /\ TopicEnded(Rank[p], next) = Rank[p] /\ TopicBegins(topic, Rank[p], line, next) = 0
         /\ TopicGoesOn(Rank[p], next) = (IF EndsHere(p, next) THEN 0 ELSE Rank[p]) /\ Rank[p] > 0
<1> DEFINE r == Rank[p]
<1>1. p \in {"module", "entry", "group", "block", "row"}
  BY EndsAre
<1>2. r \in {1, 2, 3, 4} /\ r > 0
  BY <1>1, RankIs
<1>3. TopicEnded(r, next) = r
  <2>1. CASE p = "module"
    BY <2>1, EndsAre, EndedIs, RankIs
  <2>2. CASE p # "module"
    <3>1. line.kind # "module" /\ line.kind # "entry"
      BY <2>2, EndsNest
    <3>2. r \in {2, 3, 4}
      BY <1>1, <2>2, RankIs
    <3> QED BY <3>1, <3>2, EndedIs
  <2> QED BY <2>1, <2>2
<1>4. TopicBegins(topic, r, line, next) = 0
  BY <1>2, BeginsNot
<1>5. TopicGoesOn(r, next) = IF EndsHere(p, next) THEN 0 ELSE r
  <2>1. CASE p \in {"module", "entry"}
    <3>1. r \in -1..2 /\ ~EndsHere(p, next)
      BY <2>1, RankIs DEF EndsHere
    <3> QED BY <3>1, GoesOnIs
  <2>2. CASE p \in {"group", "block", "row"}
    <3>1. next.kind # "dashes"
      BY <2>2, EndsNest DEF Below
    <3> QED BY <2>2, <3>1, GoesOnIs
  <2> QED BY <1>1, <2>1, <2>2
<1> QED BY <1>2, <1>3, <1>4, <1>5

\* A module or an entry that ends is the last that is printed,
LEMMA LineStops ==
  ASSUME NEW topic, NEW s, NEW line, NEW next, NEW p \in {"module", "entry"}, Active(s, p),
         Below(line, next), line.kind \in Ends[p]
  PROVE  /\ TopicLine(topic, s, line, next).active = -1
         /\ TopicLine(topic, s, line, next).out = (s.out \o <<>>) \o <<>>
<1>1. TopicEnded(s.active, next) = -1
  <2>1. CASE p = "module"
    BY <2>1, EndsAre, EndedIs, RankIs DEF Active
  <2>2. CASE p = "entry"
    BY <2>2, EndsAre, EndedIs, RankIs DEF Active
  <2> QED BY <2>1, <2>2
<1>2. TopicBegins(topic, -1, line, next) = 0
  BY BeginsNot
<1>3. TopicGoesOn(-1, next) = -1
  BY GoesOnIs
<1>4. ~(0 \in {3, 4}) /\ ~(-1 > 0)
  OBVIOUS
<1> QED BY <1>1, <1>2, <1>3, <1>4 DEF TopicLine

\* after a group or a block more may come.
LEMMA LineEnds ==
  ASSUME NEW T, NEW topic, NEW s \in Printing(T), NEW line, NEW next, s.active \in {3, 4},
         Below(line, next), Heading(line)
  PROVE  TopicLine(topic, s, line, next) = TopicLine(topic, [s EXCEPT !.active = 0], line, next)
<1> DEFINE u == [s EXCEPT !.active = 0]
<1>1. u.active = 0 /\ u.header = s.header /\ u.out = s.out
  BY DEF Printing
<1>2. TopicEnded(s.active, next) = 0 /\ TopicEnded(0, next) = 0
  BY EndedIs DEF Heading
<1>3. TopicHeader(u, line) = TopicHeader(s, line)
  BY <1>1 DEF TopicHeader
<1> HIDE DEF u
<1> QED BY <1>1, <1>2, <1>3 DEF TopicLine, u

\* Where a section ends
LEMMA SectionEndIs ==
  ASSUME NEW T, NEW lines \in Seq(T), NEW i \in 1..Len(lines)
  PROVE  /\ SectionEnd(lines, i) \in i..Len(lines)
         /\ \A j \in i + 1..Len(lines) : lines[j].kind \in Ends[lines[i].kind] => SectionEnd(lines, i) < j
         /\ SectionEnd(lines, i) < Len(lines) =>
              lines[SectionEnd(lines, i) + 1].kind \in Ends[lines[i].kind]
<1> DEFINE n == Len(lines)
           S == {j \in i + 1..n : lines[j].kind \in Ends[lines[i].kind]} \union {n + 1}
<1>1. n \in Nat /\ i \in 1..n
  BY LenProperties
<1> HIDE DEF n
<1>2. S \subseteq i + 1..n + 1 /\ n + 1 \in S
  BY <1>1
<1>3. \E x \in S : \A y \in S : x <= y
  <2> DEFINE P == {k \in 0..n + 1 : (\E y \in S : y <= k) => \E x \in S : \A y \in S : x <= y}
  <2>1. 0 \in P
    BY <1>1, <1>2
  <2>2. ASSUME NEW k \in 1..n + 1, k - 1 \in P PROVE k \in P
    <3>1. SUFFICES ASSUME \E y \in S : y <= k PROVE \E x \in S : \A y \in S : x <= y
      BY <1>1
    <3>2. CASE \E y \in S : y <= k - 1
      BY <2>2, <3>2
    <3>3. CASE ~\E y \in S : y <= k - 1
      <4>1. \A y \in S : k <= y
        BY <1>1, <1>2, <3>3
      <4>2. k \in S
        BY <1>1, <1>2, <3>1, <4>1
      <4> QED BY <4>1, <4>2
    <3> QED BY <3>2, <3>3
  <2>3. \A k \in 0..n + 1 : k \in P
    <3> HIDE DEF P
    <3>1. n + 1 \in Nat
      BY <1>1
    <3> QED BY <2>1, <2>2, <3>1, Induction
  <2>4. n + 1 \in P
    <3> HIDE DEF P
    <3>1. n + 1 \in 0..n + 1
      BY <1>1
    <3> QED BY <2>3, <3>1
  <2>5. n + 1 <= n + 1
    BY <1>1
  <2> QED BY <1>2, <2>4, <2>5
<1> DEFINE e == Min(S)
<1>4. e \in S /\ \A y \in S : e <= y
  <2> HIDE DEF S
  <2> QED BY <1>3, Zenon DEF Min
<1>5. SectionEnd(lines, i) = e - 1
  BY DEF SectionEnd, n
<1> HIDE DEF e
<1>6. e \in i + 1..n + 1
  BY <1>2, <1>4
<1>7. e - 1 \in i..n
  BY <1>1, <1>6
<1>8. ASSUME NEW j \in i + 1..n, lines[j].kind \in Ends[lines[i].kind] PROVE e - 1 < j
  BY <1>1, <1>4, <1>6, <1>8
<1>9. ASSUME e - 1 < n PROVE lines[(e - 1) + 1].kind \in Ends[lines[i].kind]
  <2>1. e # n + 1 /\ (e - 1) + 1 = e
    BY <1>1, <1>6, <1>9
  <2> QED BY <1>4, <2>1
<1> HIDE DEF S
<1> QED BY <1>5, <1>7, <1>8, <1>9 DEF n

\* The heading that a line stands under
HeaderAt(lines, k) == IF \E j \in 1..k : Heading(lines[j]) THEN <<HeaderOf(lines, k)>> ELSE <<>>

LEMMA HeaderStep ==
  ASSUME NEW lines, NEW k \in Nat \ {0}
  PROVE  HeaderAt(lines, k) = IF Heading(lines[k]) THEN <<lines[k]>> ELSE HeaderAt(lines, k - 1)
<1> DEFINE S == {j \in 1..k : Heading(lines[j])}
<1>1. CASE Heading(lines[k])
  <2>1. k \in S /\ \A y \in S : y <= k
    BY <1>1
  <2>2. Max(S) \in S /\ \A y \in S : y <= Max(S)
    <3> HIDE DEF S
    <3>1. \E x \in S : \A y \in S : y <= x
      BY <2>1, Zenon
    <3>2. \A y \in S : y <= y
      BY DEF S
    <3> QED BY <3>1, <3>2 DEF Max
  <2> DEFINE x == Max(S)
  <2>3. x \in 1..k /\ k <= x
    BY <2>1, <2>2
  <2> HIDE DEF x
  <2>4. x = k
    BY <2>3
  <2>5. HeaderOf(lines, k) = lines[x]
    BY DEF HeaderOf, x
  <2> QED BY <1>1, <2>4, <2>5 DEF HeaderAt
<1>2. CASE ~Heading(lines[k])
  <2>1. {j \in 1..k : Heading(lines[j])} = {j \in 1..(k - 1) : Heading(lines[j])}
    BY <1>2
  <2>2. HeaderOf(lines, k) = HeaderOf(lines, k - 1)
    BY <2>1 DEF HeaderOf
  <2>3. (\E j \in 1..k : Heading(lines[j])) <=> \E j \in 1..(k - 1) : Heading(lines[j])
    BY <2>1
  <2> QED BY <1>2, <2>2, <2>3 DEF HeaderAt
<1> QED BY <1>1, <1>2

\* Sections that stand apart begin one after the other has ended.
LEMMA ApartIs ==
  ASSUME NEW T, NEW lines \in Seq(T), NEW topic, NEW k \in 1..Len(lines)
  PROVE  /\ k \in Named(topic, lines) <=> IsCalled(topic, lines[k])
         /\ k \in Whole(topic, lines) <=> k \in Named(topic, lines) /\ Heading(lines[k])
         /\ k \in First(topic, lines) <=> k \in Named(topic, lines) /\ \A w \in Whole(topic, lines) : k <= w
         /\ k \in ApartIn(topic, lines) <=> k \in First(topic, lines) /\
              \A j \in First(topic, lines) : j < k => SectionEnd(lines, j) < k
         /\ Whole(topic, lines) \subseteq 1..Len(lines) /\ First(topic, lines) \subseteq 1..Len(lines)
<1>1. DOMAIN lines = 1..Len(lines)
  BY LenProperties
<1> QED BY <1>1 DEF Named, Whole, First, ApartIn

\* f: the sections before each line, one after the other
Joined(T, topic, lines, f) == f \in [0..Len(lines) -> Seq(T)] /\ Joins(f, PartsOf(topic, lines))

LEMMA SectionType ==
  ASSUME NEW T, NEW lines \in Seq(T), NEW i \in 1..Len(lines), NEW k \in i..Len(lines), Formed(lines),
         lines[i].kind \in DOMAIN Ends
  PROVE  /\ Section(lines, i, k) \in Seq(T)
         /\ ~Heading(lines[i]) => HeaderAt(lines, i) = <<HeaderOf(lines, i)>> /\ HeaderOf(lines, i) \in T
<1>1. Len(lines) \in Nat /\ DOMAIN lines = 1..Len(lines) /\ \A j \in 1..Len(lines) : lines[j] \in T
  BY LenProperties, ElementOfSeq
<1>2. SubSeq(lines, i, k) \in Seq(T)
  <2>1. \A j \in i..k : lines[j] \in T
    BY <1>1
  <2> QED BY <2>1, SubSeqProperties
<1>3. ASSUME ~Heading(lines[i])
      PROVE  HeaderAt(lines, i) = <<HeaderOf(lines, i)>> /\ HeaderOf(lines, i) \in T
  <2>1. lines[i].kind \in {"group", "block", "row"}
    BY <1>3, EndsAre DEF Heading
  <2>2. PICK j \in 1..Len(lines) : j < i /\ Heading(lines[j])
    BY <1>1, <2>1 DEF Formed
  <2> DEFINE S == {l \in 1..i : Heading(lines[l])}
  <2>3. j \in S
    BY <2>2
  <2>4. \E x \in S : \A y \in S : y <= x
    <3> DEFINE P == {l \in 0..i : (\E y \in S : i - l <= y) => \E x \in S : \A y \in S : y <= x}
    <3>1. 0 \in P
      <4>1. SUFFICES ASSUME NEW y \in S, i - 0 <= y PROVE \E x \in S : \A z \in S : z <= x
        OBVIOUS
      <4>2. \A z \in S : z <= y
        BY <4>1
      <4> QED BY <4>2
    <3>2. ASSUME NEW l \in 1..i, l - 1 \in P PROVE l \in P
      <4>1. SUFFICES ASSUME NEW y \in S, i - l <= y PROVE \E x \in S : \A z \in S : z <= x
        BY SMTT(30)
      <4>2. CASE \E z \in S : i - (l - 1) <= z
        BY <3>2, <4>2
      <4>3. CASE ~\E z \in S : i - (l - 1) <= z
        <5>1. \A z \in S : z <= y
          BY <4>1, <4>3
        <5> QED BY <5>1
      <4> QED BY <4>2, <4>3
    <3>3. \A l \in 0..i : l \in P
      <4> HIDE DEF P
      <4>1. i \in Nat
        OBVIOUS
      <4> QED BY ONLY <3>1, <3>2, <4>1, Induction
    <3>4. i \in P
      <4> HIDE DEF P
      <4>1. i \in 0..i
        OBVIOUS
      <4> QED BY <3>3, <4>1
    <3>5. i - i <= j
      BY <2>2
    <3> QED BY <2>3, <3>4, <3>5
  <2>5. Max(S) \in S
    <3> HIDE DEF S
    <3>1. \A y \in S : y <= y
      BY DEF S
    <3> QED BY <2>4, <3>1 DEF Max
  <2>6. HeaderOf(lines, i) = lines[Max(S)]
    BY DEF HeaderOf
  <2> QED BY <1>1, <2>3, <2>5, <2>6 DEF HeaderAt
<1>4. ~Heading(lines[i]) => <<HeaderOf(lines, i)>> \in Seq(T)
  <2> DEFINE t == HeaderOf(lines, i)
  <2>1. t \in T => <<t>> \in Seq(T)
    OBVIOUS
  <2> QED BY <1>3, <2>1
<1>5. Section(lines, i, k) \in Seq(T)
  <2>1. CASE Heading(lines[i])
    <3> DEFINE none == <<>>
    <3>1. none \in Seq(T)
      BY EmptySeq
    <3> HIDE DEF none
    <3>2. none \o SubSeq(lines, i, k) \in Seq(T)
      BY <1>2, <3>1, ConcatProperties
    <3> QED BY <2>1, <3>2 DEF Section, none
  <2>2. CASE ~Heading(lines[i])
    BY <1>2, <1>4, <2>2, ConcatProperties DEF Section
  <2> QED BY <2>1, <2>2
<1> QED BY <1>3, <1>5

\* A section grows by the lines that follow.
LEMMA SectionGrows ==
  ASSUME NEW T, NEW lines \in Seq(T), NEW i \in 1..Len(lines), NEW k \in i..Len(lines), Formed(lines),
         lines[i].kind \in DOMAIN Ends
  PROVE  /\ k = i => Section(lines, i, k) = (IF Heading(lines[i]) THEN <<>> ELSE HeaderAt(lines, i)) \o <<lines[k]>>
         /\ k # i => Section(lines, i, k) = Section(lines, i, k - 1) \o <<lines[k]>>
<1> DEFINE h == IF Heading(lines[i]) THEN <<>> ELSE <<HeaderOf(lines, i)>>
<1>1. h \in Seq(T) /\ lines[k] \in T /\ Len(lines) \in Nat
  <2>1. ~Heading(lines[i]) => HeaderOf(lines, i) \in T
    BY SectionType
  <2> DEFINE t == HeaderOf(lines, i)
  <2>2. t \in T => <<t>> \in Seq(T)
    OBVIOUS
  <2> QED BY <2>1, <2>2, EmptySeq, ElementOfSeq, LenProperties
<1>2. SubSeq(lines, i, k) = SubSeq(lines, i, k - 1) \o <<lines[k]>>
  BY SubSeqRecursiveSecond
<1>3. SubSeq(lines, i, k - 1) \in Seq(T)
  <2>1. \A j \in i..k - 1 : lines[j] \in T
    BY <1>1, ElementOfSeq
  <2>2. i \in Int /\ k - 1 \in Int
    OBVIOUS
  <2> QED BY <2>1, <2>2, SubSeqProperties
<1>4. <<lines[k]>> \in Seq(T)
  BY <1>1
<1>5. ASSUME k = i PROVE SubSeq(lines, i, k) = <<lines[k]>>
  <2>1. SubSeq(lines, i, k - 1) = <<>>
    BY <1>5, SubSeqEmpty
  <2> QED BY <1>2, <1>4, <2>1, ConcatEmptySeq
<1>6. Section(lines, i, k) = h \o SubSeq(lines, i, k) /\ Section(lines, i, k - 1) = h \o SubSeq(lines, i, k - 1)
  BY DEF Section
<1>7. h = IF Heading(lines[i]) THEN <<>> ELSE HeaderAt(lines, i)
  BY SectionType
<1> HIDE DEF h
<1>8. h \o (SubSeq(lines, i, k - 1) \o <<lines[k]>>) = (h \o SubSeq(lines, i, k - 1)) \o <<lines[k]>>
  BY <1>1, <1>3, <1>4, ConcatAssociative, SMTT(30)
<1> QED BY <1>2, <1>5, <1>6, <1>7, <1>8

LEMMA JoinedStep ==
  ASSUME NEW T, NEW lines \in Seq(T), NEW topic, Formed(lines),
         NEW f, Joined(T, topic, lines, f), NEW k \in 1..Len(lines)
  PROVE  /\ k \in ApartIn(topic, lines) => f[k] = f[k - 1] \o Section(lines, k, SectionEnd(lines, k))
         /\ k \notin ApartIn(topic, lines) => f[k] = f[k - 1]
<1> DEFINE ss == PartsOf(topic, lines)
<1>1. Len(lines) \in Nat /\ DOMAIN lines = 1..Len(lines)
  BY LenProperties
<1>2. DOMAIN ss = 1..Len(lines) /\ ss[k] =
        IF k \in ApartIn(topic, lines) THEN Section(lines, k, SectionEnd(lines, k)) ELSE <<>>
  BY <1>1 DEF PartsOf
<1>3. Len(ss) = Len(lines)
  <2>1. ss \in [1..Len(lines) -> {ss[i] : i \in 1..Len(lines)}]
    BY <1>1 DEF PartsOf
  <2> HIDE DEF ss
  <2> QED BY <1>1, <2>1
<1> HIDE DEF ss
<1>4. f[k] = f[k - 1] \o ss[k]
  BY <1>3 DEF Joined, Joins, ss
<1>5. f[k - 1] \o <<>> = f[k - 1]
  <2>1. k - 1 \in 0..Len(lines)
    BY <1>1
  <2>2. f[k - 1] \in Seq(T)
    BY <2>1 DEF Joined
  <2> QED BY <2>2, ConcatEmptySeq
<1> QED BY <1>2, <1>4, <1>5

\* Where none begins none is added.
LEMMA JoinedSame ==
  ASSUME NEW T, NEW lines \in Seq(T), NEW topic, Formed(lines),
         NEW f, Joined(T, topic, lines, f),
         NEW b \in 0..Len(lines), NEW k \in b..Len(lines),
         \A j \in b + 1..k : j \notin ApartIn(topic, lines)
  PROVE  f[k] = f[b]
<1> DEFINE P == {d \in 0..k - b : f[b + d] = f[b]}
<1>0. Len(lines) \in Nat
  BY LenProperties
<1>1. 0 \in P
  BY <1>0
<1>2. ASSUME NEW d \in 1..k - b, d - 1 \in P PROVE d \in P
  <2>1. b + d \in 1..Len(lines) /\ b + d \in b + 1..k /\ (b + d) - 1 = b + (d - 1)
    BY <1>0
  <2>2. f[b + d] = f[(b + d) - 1]
    <3>1. ASSUME NEW l \in 1..Len(lines), l \notin ApartIn(topic, lines) PROVE f[l] = f[l - 1]
      BY <3>1, JoinedStep
    <3> QED BY <2>1, <3>1
  <2>3. f[b + (d - 1)] = f[b]
    BY <1>2
  <2> QED BY <2>1, <2>2, <2>3
<1>3. \A d \in 0..k - b : d \in P
  <2> HIDE DEF P
  <2>1. k - b \in Nat
    BY <1>0
  <2> QED BY <1>1, <1>2, <2>1, Induction
<1>4. k - b \in P
  <2> HIDE DEF P
  <2>1. k - b \in 0..k - b
    BY <1>0
  <2> QED BY <1>3, <2>1
<1>5. b + (k - b) = k
  BY <1>0
<1> QED BY <1>4, <1>5

\* How far the topic is after k lines: nothing is printed and what was printed has
\* ended; nothing is printed any more; the section at b is printed.
NextLine(lines, i) == IF i < Len(lines) THEN lines[i + 1] ELSE Made("end", "")
Quiet(topic, lines, k) ==
  /\ \A w \in Whole(topic, lines) : k < w
  /\ \A j \in First(topic, lines) : j <= k => SectionEnd(lines, j) <= k
Prints(topic, lines, f, k, s, b) ==
  /\ b <= k /\ k <= SectionEnd(lines, b)
  /\ s.active = Rank[lines[b].kind]
  /\ s.out = f[b - 1] \o Section(lines, b, k)
  /\ ~Heading(lines[b]) => /\ \A w \in Whole(topic, lines) : k < w
                           /\ k < Len(lines) => k < SectionEnd(lines, b) \/ Heading(lines[k + 1])
TopicAt(topic, lines, f, k, s) ==
  /\ s.header = HeaderAt(lines, k)
  /\ \/ s.active = 0 /\ s.out = f[k] /\ Quiet(topic, lines, k)
     \/ s.active = -1 /\ s.out = f[k] /\ \E w \in Whole(topic, lines) : w <= k
     \/ \E b \in ApartIn(topic, lines) : Prints(topic, lines, f, k, s, b)

LEMMA FormedAt ==
  ASSUME NEW T, NEW lines \in Seq(T), Formed(lines), NEW k \in 1..Len(lines)
  PROVE  /\ lines[k].kind = "module" => k + 1 \in 1..Len(lines) /\ lines[k + 1].kind = "stars"
         /\ lines[k].kind = "entry"  => k + 1 \in 1..Len(lines) /\ lines[k + 1].kind = "dashes"
         /\ lines[k].kind = "stars"  => k - 1 \in 1..Len(lines) /\ lines[k - 1].kind = "module"
         /\ lines[k].kind = "dashes" => k - 1 \in 1..Len(lines) /\ lines[k - 1].kind = "entry"
<1> DEFINE D == DOMAIN lines
<1>1. D = 1..Len(lines)
  BY LenProperties
<1>2. ASSUME NEW i \in D
      PROVE  /\ lines[i].kind = "module" => i + 1 \in D /\ lines[i + 1].kind = "stars"
             /\ lines[i].kind = "entry"  => i + 1 \in D /\ lines[i + 1].kind = "dashes"
             /\ lines[i].kind = "stars"  => i - 1 \in D /\ lines[i - 1].kind = "module"
             /\ lines[i].kind = "dashes" => i - 1 \in D /\ lines[i - 1].kind = "entry"
  BY DEF Formed
<1> HIDE DEF D
<1> QED BY <1>1, <1>2

LEMMA LineBelow ==
  ASSUME NEW T, NEW lines \in Seq(T), Formed(lines), NEW k \in 1..Len(lines)
  PROVE  Below(lines[k], NextLine(lines, k))
<1> DEFINE next == NextLine(lines, k)
<1>1. Len(lines) \in Nat
  BY LenProperties
<1>2. /\ lines[k].kind = "module" => k < Len(lines) /\ lines[k + 1].kind = "stars"
      /\ lines[k].kind = "entry"  => k < Len(lines) /\ lines[k + 1].kind = "dashes"
  BY <1>1, FormedAt
<1>3. CASE k < Len(lines)
  <2>1. next = lines[k + 1] /\ k + 1 \in 1..Len(lines) /\ (k + 1) - 1 = k
    BY <1>1, <1>3 DEF NextLine
  <2>2. /\ next.kind = "stars" => lines[k].kind = "module"
        /\ next.kind = "dashes" => lines[k].kind = "entry"
    <3> DEFINE i == k + 1
    <3>1. i \in 1..Len(lines) /\ i - 1 = k /\ next = lines[i]
      BY <2>1
    <3> HIDE DEF i, next
    <3>2. /\ lines[i].kind = "stars" => lines[i - 1].kind = "module"
          /\ lines[i].kind = "dashes" => lines[i - 1].kind = "entry"
      BY <3>1, FormedAt
    <3> QED BY ONLY <3>1, <3>2
  <2> QED BY <1>2, <2>1, <2>2 DEF Below
<1>4. CASE ~(k < Len(lines))
  <2>1. next.kind = "end"
    BY <1>4 DEF NextLine, Made
  <2> QED BY <1>2, <1>4, <2>1 DEF Below
<1> QED BY <1>3, <1>4

\* What ends a section that stands apart ends all that began before.
LEMMA SectionOver ==
  ASSUME NEW T, NEW lines \in Seq(T), NEW topic, Formed(lines), NEW f, Joined(T, topic, lines, f),
         NEW b \in ApartIn(topic, lines)
  PROVE  LET k == SectionEnd(lines, b)
         IN /\ f[k] = f[b - 1] \o Section(lines, b, k)
            /\ \A j \in First(topic, lines) : j <= k => SectionEnd(lines, j) <= k
<1> DEFINE k == SectionEnd(lines, b)
           n == Len(lines)
<1>1. n \in Nat /\ b \in 1..n /\ b \in First(topic, lines)
  BY LenProperties DEF ApartIn, First, Named
<1>2. \A j \in First(topic, lines) : j \in 1..n /\ lines[j].kind \in DOMAIN Ends
  BY LenProperties, PlacesAre DEF First, Named, IsCalled
<1>3. \A j \in First(topic, lines) : j < b => SectionEnd(lines, j) < b
  BY DEF ApartIn
<1>4. /\ k \in b..n
      /\ \A j \in b + 1..n : lines[j].kind \in Ends[lines[b].kind] => k < j
      /\ k < n => lines[k + 1].kind \in Ends[lines[b].kind]
  BY <1>1, SectionEndIs
<1> HIDE DEF k
<1>5. ASSUME NEW j \in First(topic, lines), j <= k PROVE SectionEnd(lines, j) <= k
  <2> DEFINE e == SectionEnd(lines, j)
  <2>1. e \in j..n /\ \A l \in j + 1..n : lines[l].kind \in Ends[lines[j].kind] => e < l
    BY <1>2, SectionEndIs
  <2>2. j \in 1..n
    BY <1>2
  <2>3. j < b => e < b
    BY <1>3
  <2>4. lines[b].kind \in DOMAIN Ends /\ lines[j].kind \in DOMAIN Ends
    BY <1>1, <1>2
  <2> SUFFICES e <= k
    OBVIOUS
  <2> HIDE DEF e, n
  <2>5. CASE j < b
    BY <1>1, <1>4, <2>1, <2>3, <2>5
  <2>6. CASE k = n
    BY <1>1, <2>1, <2>6
  <2>7. CASE b <= j /\ k # n
    <3>1. k + 1 \in j + 1..n /\ k < n
      BY <1>1, <1>4, <1>5, <2>2, <2>7
    <3>2. j = b \/ lines[j].kind \notin Ends[lines[b].kind]
      BY <1>1, <1>4, <1>5, <2>2, <2>7
    <3>3. lines[k + 1].kind \in Ends[lines[j].kind]
      BY <1>4, <2>4, <3>1, <3>2, EndsNest
    <3>4. e < k + 1
      BY <2>1, <3>1, <3>3
    <3> QED BY <1>1, <1>4, <2>1, <3>4
  <2> QED BY <1>1, <1>4, <2>2, <2>5, <2>6, <2>7
<1>6. f[b] = f[b - 1] \o Section(lines, b, k)
  BY <1>1, JoinedStep DEF k
<1>7. ASSUME NEW j \in b + 1..k PROVE j \notin ApartIn(topic, lines)
  <2>1. SUFFICES ASSUME j \in ApartIn(topic, lines) PROVE FALSE
    OBVIOUS
  <2>2. k < j
    <3>1. \A i \in First(topic, lines) : i < j => SectionEnd(lines, i) < j
      BY <2>1 DEF ApartIn
    <3>2. b < j
      BY <1>1, <1>4
    <3> QED BY <1>1, <3>1, <3>2 DEF k
  <2> QED BY <1>1, <1>4, <2>2
<1>8. f[k] = f[b]
  <2>1. b \in 0..n
    BY <1>1
  <2> QED BY <1>4, <1>7, <2>1, JoinedSame
<1> QED BY <1>5, <1>6, <1>8 DEF k

\* A line when nothing is printed
LEMMA QuietLine ==
  ASSUME NEW T, NEW lines \in Seq(T), NEW topic, Formed(lines), Readable(topic, lines), NEW f, Joined(T, topic, lines, f),
         NEW k, k \in 1..Len(lines), NEW s, s.active = 0, s.header = HeaderAt(lines, k - 1),
         s.out = f[k - 1], Quiet(topic, lines, k - 1)
  PROVE  TopicAt(topic, lines, f, k, TopicLine(topic, s, lines[k], NextLine(lines, k)))
<1> DEFINE n == Len(lines)
           line == lines[k]
           next == NextLine(lines, k)
           u == TopicLine(topic, s, line, next)
<1>1. n \in Nat /\ k \in 1..n /\ k - 1 \in 0..n /\ Below(line, next)
  BY LenProperties, LineBelow
<1>0. Apt(topic, line)
  BY LenProperties DEF Readable
<1>2. u.header = HeaderAt(lines, k)
  <2>1. k \in Nat \ {0}
    BY <1>1
  <2>2. u.header = TopicHeader(s, line)
    BY LineHeader
  <2> HIDE DEF u
  <2> QED BY <2>1, <2>2, HeaderStep DEF TopicHeader
<1>3. /\ \A w \in Whole(topic, lines) : w \in 1..n /\ k - 1 < w
      /\ \A j \in First(topic, lines) : j \in 1..n /\ (j <= k - 1 => SectionEnd(lines, j) <= k - 1)
  BY ApartIs DEF Quiet
<1>4. f[k - 1] \in Seq(T)
  BY <1>1 DEF Joined
<1>5. ASSUME k \in Named(topic, lines) PROVE TopicAt(topic, lines, f, k, u)
  <2>0. IsCalled(topic, line)
    BY <1>5, ApartIs
  <2>1. line.kind \in DOMAIN Ends
    BY <2>0, PlacesAre DEF IsCalled
  <2>2. k \in First(topic, lines)
    BY <1>1, <1>3, <1>5, ApartIs
  <2>3. k \in ApartIn(topic, lines)
    <3>1. \A j \in First(topic, lines) : j < k => SectionEnd(lines, j) < k
      <4>1. ASSUME NEW j \in First(topic, lines), j < k PROVE SectionEnd(lines, j) < k
        <5>1. j \in 1..n /\ j <= k - 1
          BY <1>1, <1>3, <4>1
        <5>2. SectionEnd(lines, j) <= k - 1 /\ SectionEnd(lines, j) \in Int
          BY <1>3, <5>1, SectionEndIs
        <5> QED BY <1>1, <5>2
      <4> QED BY <4>1
    <3> QED BY <2>2, <3>1, ApartIs
  <2> DEFINE h == IF Heading(line) THEN <<>> ELSE s.header
  <2>4. /\ u.active = IF EndsHere(line.kind, next) THEN 0 ELSE Rank[line.kind]
        /\ u.out = (s.out \o h) \o <<line>>
    <3>1. Idle(s) /\ Below(line, next) /\ Apt(topic, line) /\ IsCalled(topic, line)
      BY <1>0, <1>1, <2>0 DEF Idle
    <3> HIDE DEF line, next
    <3>2. Begun(TopicLine(topic, s, line, next), s, line, next)
      BY ONLY <3>1, LineBegins
    <3> QED BY <3>2 DEF Begun
  <2>5. k \in k..n /\ Section(lines, k, k) \in Seq(T)
    BY <1>1, <2>1, SectionType
  <2>6. ~Heading(line) => HeaderAt(lines, k) = HeaderAt(lines, k - 1)
    BY <1>1, HeaderStep
  <2>7. u.out = f[k - 1] \o Section(lines, k, k)
    <3>1. Section(lines, k, k) = h \o <<line>>
      <4>1. Section(lines, k, k) = (IF Heading(lines[k]) THEN <<>> ELSE HeaderAt(lines, k)) \o <<lines[k]>>
        BY <2>1, <2>5, SectionGrows
      <4> QED BY <2>6, <4>1
    <3>2. h \in Seq(T)
      <4>1. ASSUME ~Heading(line) PROVE h \in Seq(T)
        <5>1. h = <<HeaderOf(lines, k)>> /\ HeaderOf(lines, k) \in T
          BY <1>1, <2>1, <2>5, <2>6, <4>1, SectionType
        <5> DEFINE t == HeaderOf(lines, k)
        <5>2. t \in T => <<t>> \in Seq(T)
          OBVIOUS
        <5> QED BY <5>1, <5>2
      <4>2. ASSUME Heading(line) PROVE h \in Seq(T)
        BY <4>2, EmptySeq
      <4> QED BY <4>1, <4>2
    <3>3. <<line>> \in Seq(T)
      BY ElementOfSeq
    <3> DEFINE g == f[k - 1]
               l == <<line>>
    <3> HIDE DEF h, line, u
    <3>4. (g \o h) \o l = g \o (h \o l)
      <4> HIDE DEF g, l
      <4>1. g \in Seq(T) /\ l \in Seq(T)
        BY <1>4, <3>3 DEF g, l
      <4> QED BY ONLY <3>2, <4>1, ConcatAssociative, SMTT(30)
    <3> QED BY <2>4, <3>1, <3>4
  <2>8. /\ SectionEnd(lines, k) \in k..n
        /\ \A j \in k + 1..n : lines[j].kind \in Ends[line.kind] => SectionEnd(lines, k) < j
        /\ SectionEnd(lines, k) < n => lines[SectionEnd(lines, k) + 1].kind \in Ends[line.kind]
    BY <1>1, SectionEndIs
  <2>9. ~Heading(line) => \A w \in Whole(topic, lines) : k < w
    <3>1. ~Heading(line) => k \notin Whole(topic, lines)
      BY ApartIs
    <3> QED BY <1>1, <1>3, <3>1
  <2> HIDE DEF u
  <2>10. CASE EndsHere(line.kind, next)
    <3>1. ~Heading(line) /\ next.kind \in Ends[line.kind]
      BY <2>10 DEF EndsHere, Heading
    <3>2. k < n /\ next = lines[k + 1]
      <4>1. next.kind # "end"
        BY <2>10 DEF EndsHere
      <4> QED BY <4>1 DEF NextLine, Made
    <3>3. SectionEnd(lines, k) = k
      <4>1. k + 1 \in k + 1..n
        BY <1>1, <3>2
      <4>2. SectionEnd(lines, k) < k + 1
        BY <2>8, <3>1, <3>2, <4>1
      <4> QED BY <1>1, <2>8, <4>2
    <3>4. /\ f[k] = f[k - 1] \o Section(lines, k, k)
          /\ \A j \in First(topic, lines) : j <= k => SectionEnd(lines, j) <= k
      <4> DEFINE e == SectionEnd(lines, k)
      <4>1. /\ f[e] = f[k - 1] \o Section(lines, k, e)
            /\ \A j \in First(topic, lines) : j <= e => SectionEnd(lines, j) <= e
        BY <2>3, SectionOver
      <4>2. e = k
        BY <3>3
      <4> HIDE DEF e
      <4> QED BY <4>1, <4>2
    <3> QED BY <1>2, <2>4, <2>7, <2>9, <2>10, <3>1, <3>4 DEF TopicAt, Quiet
  <2>11. CASE ~EndsHere(line.kind, next)
    <3>1. u.active = Rank[line.kind]
      BY <2>4, <2>11
    <3>2. ASSUME ~Heading(line), k < n, ~(k < SectionEnd(lines, k)) PROVE Heading(lines[k + 1])
      <4>1. SectionEnd(lines, k) = k /\ next = lines[k + 1]
        BY <1>1, <2>8, <3>2 DEF NextLine
      <4>2. line.kind \in {"group", "block", "row"}
        BY <2>1, <3>2, EndsAre DEF Heading
      <4>3. next.kind \in Ends[line.kind]
        BY <2>8, <3>2, <4>1
      <4>4. next.kind \in {"module", "entry", "group", "block"}
        BY <2>1, <4>3, EndsNest
      <4> QED BY <2>11, <4>1, <4>2, <4>3, <4>4 DEF EndsHere, Heading
    <3>3. Prints(topic, lines, f, k, u, k)
      BY <1>1, <2>7, <2>8, <2>9, <3>1, <3>2 DEF Prints
    <3> QED BY <1>2, <2>3, <3>3 DEF TopicAt
  <2> QED BY <2>10, <2>11
<1>6. ASSUME k \notin Named(topic, lines) PROVE TopicAt(topic, lines, f, k, u)
  <2>1. ~IsCalled(topic, line)
    BY <1>6, ApartIs
  <2>2. u.active = 0 /\ u.out = (s.out \o <<>>) \o <<>>
    BY <1>0, <1>1, <2>1, LineIdle
  <2>3. f[k] = f[k - 1]
    <3>1. k \notin ApartIn(topic, lines)
      BY <1>6, ApartIs
    <3> QED BY <3>1, JoinedStep
  <2>4. u.out = f[k]
    BY <1>4, <2>2, <2>3, ConcatEmptySeq
  <2>5. k \notin Whole(topic, lines) /\ k \notin First(topic, lines)
    BY <1>6, ApartIs
  <2>6. \A w \in Whole(topic, lines) : k < w
    BY <1>1, <1>3, <2>5
  <2>7. ASSUME NEW j \in First(topic, lines), j <= k PROVE SectionEnd(lines, j) <= k
    <3>1. j \in 1..n /\ j <= k - 1
      <4>1. j # k /\ j \in 1..n
        BY <1>3, <2>5
      <4> QED BY <1>1, <2>7, <4>1
    <3>2. SectionEnd(lines, j) <= k - 1 /\ SectionEnd(lines, j) \in Int
      BY <1>3, <3>1, SectionEndIs
    <3> QED BY <1>1, <3>2
  <2> HIDE DEF u
  <2> QED BY <1>2, <2>2, <2>4, <2>6, <2>7 DEF TopicAt, Quiet
<1> QED BY <1>5, <1>6

\* A line wherever the topic is
LEMMA TopicStep ==
  ASSUME NEW T, NEW lines \in Seq(T), NEW topic, Formed(lines), Readable(topic, lines), NEW f, Joined(T, topic, lines, f),
         NEW k, k \in 1..Len(lines), NEW s \in Printing(T), TopicAt(topic, lines, f, k - 1, s)
  PROVE  TopicAt(topic, lines, f, k, TopicLine(topic, s, lines[k], NextLine(lines, k)))
<1> DEFINE n == Len(lines)
           line == lines[k]
           next == NextLine(lines, k)
           u == TopicLine(topic, s, line, next)
<1>1. n \in Nat /\ k \in 1..n /\ k - 1 \in 0..n /\ Below(line, next)
  BY LenProperties, LineBelow
<1>2. u.header = HeaderAt(lines, k)
  <2>1. k \in Nat \ {0}
    BY <1>1
  <2>2. s.header = HeaderAt(lines, k - 1)
    BY DEF TopicAt
  <2>3. u.header = TopicHeader(s, line)
    BY LineHeader
  <2> HIDE DEF u
  <2> QED BY <2>1, <2>2, <2>3, HeaderStep DEF TopicHeader
<1>3. s.out \in Seq(T) /\ (s.out \o <<>>) \o <<>> = s.out /\ s.out \o <<>> = s.out
  BY ConcatEmptySeq DEF Printing
<1>4. ASSUME s.active = 0, s.out = f[k - 1], Quiet(topic, lines, k - 1) PROVE TopicAt(topic, lines, f, k, u)
  <2>1. s.header = HeaderAt(lines, k - 1)
    BY DEF TopicAt
  <2> QED BY <1>4, <2>1, QuietLine
<1>5. ASSUME s.active = -1, s.out = f[k - 1], NEW w \in Whole(topic, lines), w <= k - 1
      PROVE  TopicAt(topic, lines, f, k, u)
  <2>1. u.active = -1 /\ u.out = (s.out \o <<>>) \o <<>>
    BY <1>1, <1>5, LineOver
  <2>2. w <= k /\ ~(k <= w)
    <3>1. w \in 1..n
      BY ApartIs, <1>1
    <3> QED BY <1>1, <1>5, <3>1
  <2>3. k \notin ApartIn(topic, lines)
    BY <1>1, <2>2, ApartIs
  <2>4. f[k] = f[k - 1]
    BY <1>1, <2>3, JoinedStep
  <2> HIDE DEF u
  <2> QED BY <1>2, <1>3, <1>5, <2>1, <2>2, <2>4 DEF TopicAt
<1>6. ASSUME NEW b \in ApartIn(topic, lines), Prints(topic, lines, f, k - 1, s, b)
      PROVE  TopicAt(topic, lines, f, k, u)
  <2> DEFINE p == lines[b].kind
             e == SectionEnd(lines, b)
  <2>1. b \in 1..n /\ b \in First(topic, lines) /\ p \in DOMAIN Ends
    BY LenProperties, PlacesAre DEF ApartIn, First, Named, IsCalled
  <2>2. /\ e \in b..n
        /\ \A j \in b + 1..n : lines[j].kind \in Ends[p] => e < j
        /\ e < n => lines[e + 1].kind \in Ends[p]
    BY <2>1, SectionEndIs
  <2>3. /\ b <= k - 1 /\ k - 1 <= e /\ s.active = Rank[p] /\ s.out = f[b - 1] \o Section(lines, b, k - 1)
        /\ ~Heading(lines[b]) => /\ \A w \in Whole(topic, lines) : k - 1 < w
                                 /\ k - 1 < n => k - 1 < e \/ Heading(line)
    BY <1>1, <1>6 DEF Prints
  <2>4. k \in b + 1..n /\ (line.kind \in Ends[p] => e = k - 1)
    BY <1>1, <2>1, <2>2, <2>3
  <2>5. line.kind \notin Ends[p] => k <= e
    <3>1. CASE e < n
      <4>1. lines[e + 1].kind \in Ends[p] /\ e + 1 # k => k <= e
        BY <1>1, <2>2, <2>3
      <4>2. e + 1 = k => line = lines[e + 1]
        OBVIOUS
      <4> QED BY <2>2, <3>1, <4>1, <4>2
    <3>2. CASE ~(e < n)
      BY <1>1, <2>2, <3>2
    <3> QED BY <3>1, <3>2
  <2>6. p \in {"module", "entry", "group", "block", "row"} /\ (Heading(lines[b]) <=> p \in {"module", "entry"})
    BY <2>1, EndsAre DEF Heading
  <2>7. ASSUME line.kind \in Ends[p], Heading(lines[b]) PROVE TopicAt(topic, lines, f, k, u)
    <3>1. u.active = -1 /\ u.out = (s.out \o <<>>) \o <<>>
      <4>1. Active(s, p) /\ p \in {"module", "entry"}
        BY <2>3, <2>6, <2>7 DEF Active
      <4> HIDE DEF line, next, p
      <4> QED BY <1>1, <2>7, <4>1, LineStops
    <3>2. b \in Whole(topic, lines) /\ b <= k /\ ~(k <= b)
      <4>1. b \in Named(topic, lines)
        BY <2>1, ApartIs
      <4>2. b \in Whole(topic, lines)
        BY <2>1, <2>7, <4>1, ApartIs
      <4> QED BY <1>1, <2>1, <2>4, <4>2
    <3>3. k \notin ApartIn(topic, lines)
      BY <1>1, <3>2, ApartIs
    <3>4. f[k] = f[k - 1]
      BY <1>1, <3>3, JoinedStep
    <3>5. f[k - 1] = f[b - 1] \o Section(lines, b, k - 1)
      <4>1. f[e] = f[b - 1] \o Section(lines, b, e)
        BY SectionOver
      <4>2. e = k - 1
        BY <2>4, <2>7
      <4> HIDE DEF e
      <4> QED BY <4>1, <4>2
    <3> HIDE DEF u
    <3> QED BY <1>2, <1>3, <2>3, <3>1, <3>2, <3>4, <3>5 DEF TopicAt
  <2>8. ASSUME line.kind \in Ends[p], ~Heading(lines[b]) PROVE TopicAt(topic, lines, f, k, u)
    <3> DEFINE v == [s EXCEPT !.active = 0]
    <3>1. e = k - 1 /\ Heading(line)
      <4>1. e = k - 1
        BY <2>4, <2>8
      <4> QED BY <1>1, <2>3, <2>8, <4>1
    <3>2. s.active \in {3, 4}
      BY <2>3, <2>6, <2>8, RankIs
    <3>3. u = TopicLine(topic, v, line, next)
      <4> HIDE DEF line, next
      <4> QED BY <1>1, <3>1, <3>2, LineEnds
    <3>4. v.active = 0 /\ v.header = s.header /\ v.out = s.out
      BY DEF Printing
    <3>5. /\ f[e] = f[b - 1] \o Section(lines, b, e)
          /\ \A j \in First(topic, lines) : j <= e => SectionEnd(lines, j) <= e
      BY SectionOver
    <3>6. Quiet(topic, lines, k - 1) /\ s.out = f[k - 1]
      <4> HIDE DEF e
      <4> QED BY <2>3, <2>8, <3>1, <3>5 DEF Quiet
    <3>7. s.header = HeaderAt(lines, k - 1)
      BY DEF TopicAt
    <3> HIDE DEF v, u
    <3>8. TopicAt(topic, lines, f, k, TopicLine(topic, v, lines[k], NextLine(lines, k)))
      BY <3>4, <3>6, <3>7, QuietLine
    <3> QED BY <3>3, <3>8
  <2>9. ASSUME line.kind \notin Ends[p] PROVE TopicAt(topic, lines, f, k, u)
    <3>1. /\ u.active = IF EndsHere(p, next) THEN 0 ELSE Rank[p]
          /\ u.out = s.out \o <<line>>
      <4>1. p \in DOMAIN Ends /\ Below(line, next) /\ line.kind \notin Ends[p] /\ s.active = Rank[p]
        BY <1>1, <2>1, <2>3, <2>9
      <4>2. ~(0 \in {3, 4}) /\ (IF 0 # 0 THEN 0 ELSE Rank[p]) = Rank[p]
        OBVIOUS
      <4> HIDE DEF line, next, p
      <4>3. /\ TopicEnded(Rank[p], next) = Rank[p] /\ TopicBegins(topic, Rank[p], line, next) = 0
            /\ TopicGoesOn(Rank[p], next) = (IF EndsHere(p, next) THEN 0 ELSE Rank[p]) /\ Rank[p] > 0
        BY ONLY <4>1, LineWithin, SMTT(30)
      <4> QED BY <1>3, <4>1, <4>2, <4>3 DEF TopicLine
    <3>2. u.out = f[b - 1] \o Section(lines, b, k)
      <4>1. Section(lines, b, k) = Section(lines, b, k - 1) \o <<line>>
        <5>1. k \in b..n /\ k # b
          BY <1>1, <2>1, <2>4
        <5> QED BY <2>1, <5>1, SectionGrows
      <4> DEFINE g == f[b - 1]
                 h == Section(lines, b, k - 1)
                 l == <<line>>
      <4>2. g \in Seq(T) /\ h \in Seq(T) /\ l \in Seq(T)
        <5>1. b - 1 \in 0..n /\ k - 1 \in b..n
          BY <1>1, <2>1, <2>3
        <5>2. g \in Seq(T)
          BY <5>1 DEF Joined
        <5>3. h \in Seq(T)
          BY <2>1, <5>1, SectionType
        <5>4. line \in T
          BY <1>1, ElementOfSeq
        <5> QED BY <5>2, <5>3, <5>4
      <4>3. (g \o h) \o l = g \o (h \o l)
        <5> HIDE DEF g, h, l
        <5> QED BY ONLY <4>2, ConcatAssociative, SMTT(30)
      <4>4. u.out = (g \o h) \o l
        BY <1>3, <2>3, <3>1
      <4> HIDE DEF u, line
      <4> QED BY <4>1, <4>3, <4>4
    <3>3. k \in b..e
      BY <1>1, <2>1, <2>4, <2>5, <2>9
    <3>4. ~Heading(lines[b]) => \A w \in Whole(topic, lines) : k < w
      <4>1. SUFFICES ASSUME ~Heading(lines[b]), NEW w \in Whole(topic, lines) PROVE k < w
        OBVIOUS
      <4>2. ~Heading(line)
        <5>1. {"module", "entry"} \subseteq Ends[p]
          BY <2>1, <2>6, <4>1, EndsNest
        <5> QED BY <2>9, <5>1 DEF Heading
      <4>3. k \notin Whole(topic, lines)
        BY <1>1, <4>2, ApartIs
      <4>4. w \in 1..n /\ k - 1 < w /\ w # k
        BY <2>3, <4>1, <4>3, ApartIs, <1>1
      <4> QED BY <1>1, <4>4
    <3>5. CASE EndsHere(p, next)
      <4>1. ~Heading(lines[b]) /\ next.kind \in Ends[p]
        BY <2>6, <3>5 DEF EndsHere
      <4>2. k < n /\ next = lines[k + 1]
        <5>1. next.kind # "end"
          BY <3>5 DEF EndsHere
        <5> QED BY <5>1 DEF NextLine, Made
      <4>3. e = k
        <5>1. k + 1 \in b + 1..n
          BY <1>1, <2>1, <2>4, <4>2
        <5>2. e < k + 1
          BY <2>2, <4>1, <4>2, <5>1
        <5> QED BY <1>1, <2>2, <3>3, <5>2
      <4>4. /\ f[e] = f[b - 1] \o Section(lines, b, e)
            /\ \A j \in First(topic, lines) : j <= e => SectionEnd(lines, j) <= e
        BY SectionOver
      <4>5. Quiet(topic, lines, k) /\ u.out = f[k]
        <5> HIDE DEF e, u
        <5> QED BY <3>2, <3>4, <4>1, <4>3, <4>4 DEF Quiet
      <4> HIDE DEF u
      <4> QED BY <1>2, <3>1, <3>5, <4>5 DEF TopicAt
    <3>6. CASE ~EndsHere(p, next)
      <4>1. u.active = Rank[p]
        BY <3>1, <3>6
      <4>2. ASSUME ~Heading(lines[b]), k < n, ~(k < e) PROVE Heading(lines[k + 1])
        <5>1. e = k /\ next = lines[k + 1]
          BY <1>1, <2>2, <3>3, <4>2 DEF NextLine
        <5>2. p \in {"group", "block", "row"}
          BY <2>6, <4>2
        <5>3. next.kind \in Ends[p]
          BY <2>2, <4>2, <5>1
        <5>4. next.kind \in {"module", "entry", "group", "block"}
          BY <2>1, <5>3, EndsNest
        <5> QED BY <3>6, <5>1, <5>2, <5>3, <5>4 DEF EndsHere, Heading
      <4>3. b <= k /\ k <= e
        BY <3>3
      <4>4. Prints(topic, lines, f, k, u, b)
        <5> HIDE DEF u
        <5> QED BY <3>2, <3>4, <4>1, <4>2, <4>3 DEF Prints
      <4> HIDE DEF u
      <4> QED BY <1>2, <4>4 DEF TopicAt
    <3> QED BY <3>5, <3>6
  <2> QED BY <2>7, <2>8, <2>9
<1>7. \/ s.active = 0 /\ s.out = f[k - 1] /\ Quiet(topic, lines, k - 1)
      \/ s.active = -1 /\ s.out = f[k - 1] /\ \E w \in Whole(topic, lines) : w <= k - 1
      \/ \E b \in ApartIn(topic, lines) : Prints(topic, lines, f, k - 1, s, b)
  BY DEF TopicAt
<1> HIDE DEF u
<1>8. TopicAt(topic, lines, f, k, u)
  BY <1>4, <1>5, <1>6, <1>7
<1> QED BY <1>8 DEF u

LEMMA LineType ==
  ASSUME NEW T, NEW topic, NEW s \in Printing(T), NEW line \in T, NEW next
  PROVE  TopicLine(topic, s, line, next) \in Printing(T)
<1> DEFINE ended == TopicEnded(s.active, next)
           begins == TopicBegins(topic, ended, line, next)
           active == IF begins # 0 THEN begins ELSE ended
           header == TopicHeader(s, line)
           more == IF begins \in {3, 4} THEN header ELSE <<>>
           this == IF active > 0 THEN <<line>> ELSE <<>>
<1>1. s.active \in -1..4 /\ s.header \in Seq(T) /\ s.out \in Seq(T)
  BY DEF Printing
<1>2. ended \in -1..4
  BY <1>1 DEF TopicEnded
<1>3. begins \in 0..4
  BY DEF TopicBegins
<1>4. <<line>> \in Seq(T) /\ <<>> \in Seq(T)
  BY EmptySeq
<1>5. header \in Seq(T)
  BY <1>1, <1>4 DEF TopicHeader
<1>6. more \in Seq(T) /\ this \in Seq(T)
  BY <1>4, <1>5
<1> HIDE DEF ended, begins
<1>7. active \in -1..4
  BY <1>2, <1>3
<1> HIDE DEF active
<1>8. TopicGoesOn(active, next) \in -1..4
  BY <1>7 DEF TopicGoesOn
<1> HIDE DEF header, more, this
<1>9. (s.out \o more) \o this \in Seq(T)
  BY <1>1, <1>6, ConcatProperties
<1>10. TopicLine(topic, s, line, next) =
         [active |-> TopicGoesOn(active, next), header |-> header, out |-> (s.out \o more) \o this]
  BY DEF TopicLine, ended, begins, active, header, more, this
<1> QED BY <1>5, <1>8, <1>9, <1>10 DEF Printing

\* Topic() as the property states it
LEMMA TopicIs ==
  ASSUME NEW T, NEW lines \in Seq(T), NEW topic, Formed(lines), Readable(topic, lines)
  PROVE  Topic(topic, lines) = FlattenSeq(PartsOf(topic, lines))
<1> DEFINE n == Len(lines)
           D == Printing(T)
           start == [active |-> 0, header |-> <<>>, out |-> <<>>]
           step(i, s) == TopicLine(topic, s, lines[i], NextLine(lines, i))
           IsTopic(at) == at = [i \in 0..n |-> IF i = 0 THEN start ELSE step(i, at[i - 1])]
           c == CHOOSE at : IsTopic(at)
           h == [x \in (1..n) \X D |-> step(x[1], x[2])]
           parts == PartsOf(topic, lines)
<1>1. n \in Nat /\ DOMAIN lines = 1..n /\ \A i \in 1..n : lines[i] \in T
  BY LenProperties, ElementOfSeq
<1>2. Topic(topic, lines) = c[n].out
  BY DEF Topic, NextLine
<1>3. parts \in Seq(Seq(T)) /\ Len(parts) = n
  <2>1. ASSUME NEW i \in 1..n PROVE parts[i] \in Seq(T)
    <3>1. CASE i \in ApartIn(topic, lines)
      <4>1. SectionEnd(lines, i) \in i..n
        BY SectionEndIs
      <4>2. lines[i].kind \in DOMAIN Ends
        BY <3>1, PlacesAre DEF ApartIn, First, Named, IsCalled
      <4>3. Section(lines, i, SectionEnd(lines, i)) \in Seq(T)
        BY <4>1, <4>2, SectionType
      <4> QED BY <1>1, <3>1, <4>3 DEF PartsOf
    <3>2. CASE i \notin ApartIn(topic, lines)
      BY <1>1, <3>2, EmptySeq DEF PartsOf
    <3> QED BY <3>1, <3>2
  <2>2. DOMAIN parts = 1..n /\ parts = [i \in 1..n |-> parts[i]]
    BY <1>1 DEF PartsOf
  <2> HIDE DEF parts, n
  <2>3. parts \in [1..n -> Seq(T)]
    BY <2>1, <2>2
  <2> QED BY <1>1, <2>3
<1>4. PICK f \in [0..n -> Seq(T)] : Joins(f, parts)
  <2> HIDE DEF parts, n
  <2>1. PICK f \in [0..Len(parts) -> Seq(T)] : Joins(f, parts)
    BY <1>3, FlattenIs
  <2> QED BY <1>3, <2>1
<1>5. Joined(T, topic, lines, f) /\ f[0] = <<>> /\ f[n] = FlattenSeq(parts)
  BY <1>3, <1>4 DEF Joined, Joins
<1>6. start \in D
  BY EmptySeq DEF Printing
<1>7. ASSUME NEW i \in 1..n, NEW s \in D PROVE step(i, s) \in D
  BY <1>1, LineType
<1> HIDE DEF step, D, start, n
<1>8. h \in [(1..n) \X D -> D]
  BY <1>7
<1>9. ASSUME NEW i \in 1..n, NEW s \in D PROVE h[<<i, s>>] = step(i, s)
  OBVIOUS
<1> HIDE DEF h
<1>10. PICK g \in [0..n -> D] : Recurs(g, n, start, h)
  BY <1>1, <1>6, <1>8, Recursion
<1>11. IsTopic(g)
  <2>1. ASSUME NEW i \in 0..n PROVE g[i] = IF i = 0 THEN start ELSE step(i, g[i - 1])
    <3>1. CASE i = 0
      BY <1>10, <3>1 DEF Recurs
    <3>2. CASE i # 0
      <4>1. i \in 1..n /\ i - 1 \in 0..n
        BY <1>1, <3>2
      <4> QED BY <1>9, <1>10, <3>2, <4>1 DEF Recurs
    <3> QED BY <3>1, <3>2
  <2> QED BY <2>1
<1>12. IsTopic(c)
  <2> HIDE DEF IsTopic
  <2> QED BY <1>11, Zenon
<1> HIDE DEF c
<1>13. c[0] = start /\ \A i \in 1..n : c[i] = step(i, c[i - 1])
  <2>1. \A i \in 0..n : c[i] = IF i = 0 THEN start ELSE step(i, c[i - 1])
    BY <1>12
  <2>2. 0 \in 0..n /\ \A i \in 1..n : i \in 0..n /\ i # 0
    BY <1>1
  <2> QED BY <2>1, <2>2
<1> DEFINE P == {i \in 0..n : c[i] \in D /\ TopicAt(topic, lines, f, i, c[i])}
<1>14. 0 \in P
  <2>1. HeaderAt(lines, 0) = <<>>
    BY DEF HeaderAt
  <2>2. Quiet(topic, lines, 0)
    <3>1. Whole(topic, lines) \subseteq 1..n /\ First(topic, lines) \subseteq 1..n
      BY <1>1 DEF Whole, First, Named
    <3> QED BY <1>1, <3>1 DEF Quiet
  <2>3. start.active = 0 /\ start.header = <<>> /\ start.out = <<>>
    BY DEF start
  <2>4. TopicAt(topic, lines, f, 0, start)
    BY <1>5, <2>1, <2>2, <2>3 DEF TopicAt
  <2> QED BY <1>1, <1>6, <1>13, <2>4
<1>15. ASSUME NEW i \in 1..n, i - 1 \in P PROVE i \in P
  <2>1. c[i - 1] \in D /\ TopicAt(topic, lines, f, i - 1, c[i - 1])
    BY <1>15
  <2> DEFINE s == c[i - 1]
  <2> HIDE DEF s
  <2>2. s \in Printing(T) /\ TopicAt(topic, lines, f, i - 1, s) /\ i \in 1..Len(lines)
    BY <2>1 DEF s, D, n
  <2>3. TopicAt(topic, lines, f, i, TopicLine(topic, s, lines[i], NextLine(lines, i)))
    BY <1>5, <2>2, TopicStep
  <2>4. TopicAt(topic, lines, f, i, step(i, s))
    BY <2>3 DEF step
  <2>5. step(i, s) \in D /\ i \in 0..n
    BY <1>1, <1>7, <2>2 DEF D
  <2> QED BY <1>13, <2>4, <2>5 DEF s
<1>16. n \in P
  <2> HIDE DEF P
  <2>1. \A i \in 0..n : i \in P
    BY <1>1, <1>14, <1>15, Induction
  <2> QED BY <1>1, <2>1
<1> DEFINE s == c[n]
<1>17. TopicAt(topic, lines, f, n, s)
  BY <1>16
<1> HIDE DEF s, P
<1>18. ASSUME NEW b \in ApartIn(topic, lines), Prints(topic, lines, f, n, s, b) PROVE s.out = f[n]
  <2>1. b \in 1..Len(lines)
    BY <1>1 DEF ApartIn, First, Named, n
  <2>2. SectionEnd(lines, b) \in b..n
    BY <2>1, SectionEndIs DEF n
  <2>3. n <= SectionEnd(lines, b) /\ s.out = f[b - 1] \o Section(lines, b, n)
    BY <1>18 DEF Prints
  <2>4. f[SectionEnd(lines, b)] = f[b - 1] \o Section(lines, b, SectionEnd(lines, b))
    <3>1. ASSUME NEW g1, Joined(T, topic, lines, g1)
          PROVE  g1[SectionEnd(lines, b)] = g1[b - 1] \o Section(lines, b, SectionEnd(lines, b))
      BY <3>1, SectionOver
    <3> QED BY <1>5, <3>1
  <2> DEFINE e == SectionEnd(lines, b)
  <2>5. e = n
    BY <1>1, <2>1, <2>2, <2>3
  <2> HIDE DEF e
  <2> QED BY <2>3, <2>4, <2>5 DEF e
<1>19. s.out = f[n]
  BY <1>17, <1>18 DEF TopicAt
<1> QED BY <1>2, <1>5, <1>19 DEF s
-----------------------------------------------------------------------------
(* A topic of the report that is printed                                    *)

\* A text report or a part of one is in form.
InForm(c) == c.format = "text" => Formed(c.output)
Asked(p) == p.format = "text" /\ p.topic \notin {NoTopic, "getlist"} \union Searches /\ Readable(p.topic, p.of)
Says(p) == Asked(p) => p.out = FlattenSeq(PartsOf(p.topic, p.of))

TextInv ==
  /\ InForm(ctx)
  /\ cache.output \in Seq(Lines) /\ InForm(cache)
  /\ TopicPrintsSections

LEMMA SaysIs == TopicPrintsSections <=> Says(printed)
BY DEF TopicPrintsSections, Says, Asked, Readable, Apt, PartsOf, Section, ApartIn, First, Whole, Named, IsCalled

LEMMA SaysIsNext == TopicPrintsSections' <=> Says(printed')
BY DEF TopicPrintsSections, Says, Asked, Readable, Apt, PartsOf, Section, ApartIn, First, Whole, Named, IsCalled

LEMMA FormPut ==
  ASSUME NEW c \in Ctx, InForm(c), NEW x \in Seq(Lines), Formed(x)
  PROVE  InForm(Put(c, x))
<1>1. c.output \in Seq(Lines)
  BY DEF Ctx
<1>2. Put(c, x).format = c.format /\ Put(c, x).output = c.output \o x
  BY DEF Put, Ctx
<1>3. c.format = "text" => Formed(c.output \o x)
  BY <1>1, FormedCat DEF InForm
<1> QED BY <1>2, <1>3 DEF InForm

\* What is printed of a text report in form
LEMMA PrintedStep ==
  ASSUME NEW T, NEW lines \in Seq(T), NEW format, format = "text" => Formed(lines), PrintTopic(format, lines)
  PROVE  TopicPrintsSections'
<1> DEFINE topic == params.topic
           out == CASE topic = NoTopic   -> lines
                    [] topic = "getlist" -> GetList(lines)
                    [] topic \in Searches -> TextSearch(topic, lines)
                    [] OTHER             -> Topic(topic, lines)
<1>1. printed' = [topic |-> topic, format |-> format, of |-> lines, out |-> out]
  BY DEF PrintTopic
<1>2. format = "text" /\ Readable(topic, lines) => Topic(topic, lines) = FlattenSeq(PartsOf(topic, lines))
  BY TopicIs
<1>3. topic \notin {NoTopic, "getlist"} \union Searches => out = Topic(topic, lines)
  OBVIOUS
<1> HIDE DEF out, topic
<1>4. Says(printed')
  BY <1>1, <1>2, <1>3 DEF Says, Asked
<1> QED BY <1>4, SaysIsNext

LEMMA TextInit == Init => TextInv
<1> SUFFICES ASSUME Init PROVE TextInv
  OBVIOUS
<1>1. ctx.format = "none" /\ cache.format = "none" /\ cache.output = <<>> /\ printed.format = "none"
  BY DEF Init, report_context_new, Nothing, NotPrinted
<1>2. cache.output \in Seq(Lines)
  BY <1>1, EmptySeq
<1>3. Says(printed)
  BY <1>1 DEF Says, Asked
<1> QED BY <1>1, <1>2, <1>3, SaysIs DEF TextInv, InForm

\* The report alone may change.
LEMMA TextKept ==
  ASSUME TextInv, InForm(ctx'), cache' = cache, printed' = printed
  PROVE  TextInv'
<1>1. Says(printed')
  BY SaysIs DEF TextInv
<1>2. TopicPrintsSections'
  BY <1>1, SaysIsNext
<1> QED BY <1>2 DEF TextInv, InForm

\* A report that begins is empty, but for the head of one in HTML.
LEMMA StartForm ==
  ASSUME NEW format, NEW all
  PROVE  InForm(report_header(report_context_new(format, all))) /\ InForm(report_context_new(format, all))
<1> DEFINE c == report_context_new(format, all)
<1>1. c.format = format /\ c.output = <<>>
  BY DEF report_context_new
<1>2. InForm(c)
  BY <1>1, FormedNone DEF InForm
<1>3. format = "text" => report_header(c) = c
  BY <1>1 DEF report_header, Html
<1>4. format # "text" => report_header(c).format # "text"
  BY <1>1 DEF report_header, report_context_new, Html, Put
<1>5. InForm(report_header(c))
  BY <1>2, <1>3, <1>4 DEF InForm
<1> QED BY <1>2, <1>5

LEMMA ModuleForm ==
  ASSUME NEW c \in Ctx, InForm(c), NEW m \in Names
  PROVE  InForm(report_title(c, m))
<1>1. CASE c.format = "text"
  <2> DEFINE x == <<Made("module", m), Made("stars", "")>>
  <2>1. x \in Seq(Lines)
    BY TwoLines DEF Kinds
  <2>2. Formed(x)
    BY FormedModule
  <2>3. report_title(c, m) = Put(c, x)
    BY <1>1 DEF report_title, Html
  <2> HIDE DEF x
  <2>4. InForm(Put(c, x))
    BY <2>1, <2>2, FormPut
  <2> QED BY <2>3, <2>4
<1>2. CASE c.format # "text"
  <2>1. \A x : Put(c, x).format = c.format /\ [Put(c, x) EXCEPT !.first_table = FALSE].format = c.format
    BY DEF Put, Ctx
  <2>2. report_title(c, m).format = c.format
    BY <2>1 DEF report_title
  <2> QED BY <1>2, <2>2 DEF InForm
<1> QED BY <1>1, <1>2

LEMMA EntryForm ==
  ASSUME NEW c \in Ctx, InForm(c), NEW e \in Pages
  PROVE  InForm(report_table(report_subtitle(c, e), e))
<1>1. e \in Names
  BY AllNames
<1>2. CASE c.format = "text"
  <2> DEFINE h == <<Made("entry", e), Made("dashes", "")>>
             d == report_subtitle(c, e)
             y == InGroups(d, Table[e], LAMBDA row : IF WantsDetails(d, row) THEN report_details(d, row)
                                                     ELSE report_key_value(d, row.key))
  <2>1. h \in Seq(Lines)
    BY <1>1, TwoLines DEF Kinds
  <2>2. d = Put(c, h) /\ ~Html(c)
    BY <1>2 DEF report_subtitle, Html
  <2>3. report_table(d, e) = Put(d, y) /\ d \in Ctx /\ ~Html(d) /\ d.format = "text" /\ d.output = c.output \o h
    <3>1. d \in Ctx /\ ~Html(d)
      <4> HIDE DEF h, y, d
      <4> QED BY <2>1, <2>2, PlainPut
    <3>2. d.format = "text" /\ d.output = c.output \o h
      <4> HIDE DEF h, y, d
      <4> QED BY <1>2, <2>2 DEF Put, Ctx
    <3>3. report_table(d, e) = Put(d, y)
      <4>1. d.format # "shell"
        BY <3>2
      <4> HIDE DEF d
      <4> QED BY <4>1 DEF report_table
    <3> QED BY <3>1, <3>2, <3>3
  <2> HIDE DEF d
  <2>4. y \in Seq(BodyLines)
    BY <2>3, TextPage
  <2> HIDE DEF y
  <2>5. Formed(h \o y)
    BY <2>4, FormedEntry
  <2> HIDE DEF h
  <2>6. y \in Seq(Lines)
    <3>1. BodyLines \subseteq Lines
      BY DEF BodyLines, Lines, Kinds
    <3> QED BY <2>4, <3>1, SeqMonotonic
  <2>7. c.output \in Seq(Lines)
    BY DEF Ctx
  <2>8. h \o y \in Seq(Lines) /\ (c.output \o h) \o y = c.output \o (h \o y)
    <3>1. h \o y \in Seq(Lines)
      BY <2>1, <2>6, ConcatProperties
    <3>2. (c.output \o h) \o y = c.output \o (h \o y)
      <4> DEFINE x == c.output
      <4>1. x \in Seq(Lines)
        BY <2>7
      <4> HIDE DEF x
      <4>2. (x \o h) \o y = x \o (h \o y)
        BY ONLY <2>1, <2>6, <4>1, ConcatAssociative
      <4> QED BY <4>2 DEF x
    <3> QED BY <3>1, <3>2
  <2>9. Formed(c.output \o (h \o y))
    <3>1. Formed(c.output)
      BY <1>2 DEF InForm
    <3> QED BY <2>5, <2>7, <2>8, <3>1, FormedCat
  <2>10. Put(d, y).output = (c.output \o h) \o y
    BY <2>3 DEF Put, Ctx
  <2>11. InForm(report_table(d, e))
    BY <2>3, <2>8, <2>9, <2>10 DEF InForm
  <2> QED BY <2>11 DEF d
<1>3. CASE c.format # "text"
  <2>1. \A x, b : Put(b, x).format = b.format \/ DOMAIN b # DOMAIN c
    BY DEF Put, Ctx
  <2>2. report_subtitle(c, e).format = c.format /\ DOMAIN report_subtitle(c, e) = DOMAIN c
    BY DEF report_subtitle, Put, Ctx
  <2> DEFINE d == report_subtitle(c, e)
  <2> HIDE DEF d
  <2>3. report_table(d, e).format = d.format
    BY <2>1, <2>2 DEF report_table, d
  <2> QED BY <1>3, <2>2, <2>3 DEF InForm, d
<1> QED BY <1>2, <1>3

LEMMA FooterForm ==
  ASSUME NEW c \in Ctx, InForm(c)
  PROVE  InForm(report_footer(c))
<1>1. CASE Html(c)
  <2>1. \A x : Put(c, x).format = c.format
    BY DEF Put, Ctx
  <2>2. report_footer(c).format # "text"
    BY <1>1, <2>1 DEF report_footer, Html
  <2> QED BY <2>2 DEF InForm
<1>2. CASE ~Html(c)
  BY <1>2 DEF report_footer
<1> QED BY <1>1, <1>2

LEMMA TextStart ==
  ASSUME TextInv, NEW format, NEW set, StartWriting(format, set), UNCHANGED cli
  PROVE  TextInv'
<1>1. ctx' = report_header(report_context_new(format, ctx.all)) /\ cache' = cache /\ printed' = printed
  BY DEF StartWriting, cli
<1>2. InForm(ctx')
  BY <1>1, StartForm
<1> QED BY <1>1, <1>2, TextKept

LEMMA TextWriteModule ==
  ASSUME ReportInv, TextInv, WriteModule
  PROVE  TextInv'
<1>1. /\ ctx' = report_title(ctx, Head(todo)[2]) /\ cache' = cache /\ printed' = printed
      /\ todo # <<>> /\ Head(todo)[1] = "module" /\ todo \in Seq(Items) /\ ctx \in Ctx
  BY DEF WriteModule, cli, ReportInv, TypeInv, TableInv, Proper, Reaches
<1>2. Head(todo) \in Items
  BY <1>1, EntriesTail
<1> DEFINE m == Head(todo)[2]
<1>3. m \in Names
  BY <1>1, <1>2, AllNames DEF Items
<1> HIDE DEF m
<1>4. InForm(report_title(ctx, m))
  BY <1>1, <1>3, ModuleForm DEF TextInv
<1>5. InForm(ctx')
  BY <1>1, <1>4 DEF m
<1> QED BY <1>1, <1>5, TextKept

LEMMA TextWriteEntry ==
  ASSUME ReportInv, TextInv, WriteEntry
  PROVE  TextInv'
<1> DEFINE e == Head(todo)[2]
           c == report_table(report_subtitle(ctx, e), e)
<1>1. /\ ctx' = c /\ cache' = cache /\ printed' = printed
      /\ todo # <<>> /\ Head(todo)[1] = "entry" /\ todo \in Seq(Items) /\ ctx \in Ctx
  BY DEF WriteEntry, cli, ReportInv, TypeInv, TableInv, Proper, Reaches
<1>2. Head(todo) \in Items
  BY <1>1, EntriesTail
<1>3. e \in Pages
  BY <1>1, <1>2 DEF Items
<1> HIDE DEF e
<1>4. InForm(c)
  BY <1>1, <1>3, EntryForm DEF TextInv
<1>5. InForm(ctx')
  BY <1>1, <1>4
<1> QED BY <1>1, <1>5, TextKept

\* The report goes with its dialog.
LEMMA TextClosed ==
  ASSUME TextInv, Closed, UNCHANGED cli
  PROVE  TextInv'
<1>1. ctx' = report_context_new("none", ctx.all) /\ cache' = cache /\ printed' = printed
  BY DEF Closed, cli
<1>2. InForm(ctx')
  BY <1>1, StartForm
<1> QED BY <1>1, <1>2, TextKept

LEMMA TextFinish ==
  ASSUME ReportInv, TextInv, Finish
  PROVE  TextInv'
<1>1. CASE Window /\ ~Html(ctx)
  BY <1>1, TextClosed DEF Finish
<1>2. CASE ~(Window /\ ~Html(ctx))
  <2>1. ctx' = report_footer(ctx) /\ cache' = cache /\ printed' = printed
    BY <1>2 DEF Finish, cli
  <2>2. ctx \in Ctx
    BY DEF ReportInv, TableInv, Proper, Reaches
  <2>3. InForm(ctx')
    BY <2>1, <2>2, FooterForm DEF TextInv
  <2> QED BY <2>1, <2>3, TextKept
<1> QED BY <1>1, <1>2

\* The report that was made goes to the cache and is printed.
LEMMA TextCliPrint ==
  ASSUME ReportInv, TextInv, CliPrint
  PROVE  TextInv'
<1>1. /\ ctx' = ctx /\ cache' = [format |-> ctx.format, output |-> ctx.output]
      /\ PrintTopic(ctx.format, ctx.output)
  BY DEF CliPrint, writing
<1>2. ctx.output \in Seq(Lines) /\ InForm(ctx)
  BY DEF TextInv, ReportInv, TableInv, Proper, Reaches, Ctx
<1>3. TopicPrintsSections'
  BY <1>1, <1>2, PrintedStep DEF InForm
<1>4. cache'.output \in Seq(Lines) /\ InForm(cache') /\ InForm(ctx')
  BY <1>1, <1>2 DEF InForm
<1> QED BY <1>3, <1>4 DEF TextInv

\* What is read from the cache may be followed by a line of whatever was in memory,
\* which is no title.
LEMMA TextCliCached ==
  ASSUME TextInv, CliCached
  PROVE  TextInv'
<1> DEFINE junk == Made("junk", "")
           T == Lines \union {junk}
           lines(b) == cache.output \o IF b THEN <<junk>> ELSE <<>>
<1>1. PICK b \in BOOLEAN : PrintTopic(cache.format, lines(b))
  BY DEF CliCached
<1>2. cache' = cache /\ ctx' = ctx
  BY DEF CliCached, writing
<1>3. junk.kind = "junk"
  BY DEF Made
<1>4. cache.output \in Seq(T)
  BY SeqMonotonic DEF TextInv
<1>5. \A c \in BOOLEAN : (IF c THEN <<junk>> ELSE <<>>) \in Seq(T) /\ Formed(IF c THEN <<junk>> ELSE <<>>)
  <2> HIDE DEF junk
  <2> DEFINE one == <<junk>>
  <2>1. one \in Seq(T) /\ DOMAIN one = {1} /\ one[1] = junk
    OBVIOUS
  <2> HIDE DEF one
  <2>2. Formed(one)
    BY <1>3, <2>1, FormedPlain
  <2>3. <<>> \in Seq(T)
    BY EmptySeq
  <2> QED BY <2>1, <2>2, <2>3, FormedNone DEF one
<1> DEFINE more == IF b THEN <<junk>> ELSE <<>>
<1>6. more \in Seq(T) /\ Formed(more)
  BY <1>5
<1>7. lines(b) = cache.output \o more
  OBVIOUS
<1> HIDE DEF more, junk, T, lines
<1>8. lines(b) \in Seq(T)
  BY <1>4, <1>6, <1>7, ConcatProperties
<1>9. cache.format = "text" => Formed(lines(b))
  BY <1>4, <1>6, <1>7, FormedCat DEF TextInv, InForm
<1>10. TopicPrintsSections'
  BY <1>1, <1>8, <1>9, PrintedStep
<1> QED BY <1>2, <1>10 DEF TextInv, InForm

LEMMA TextRestart ==
  ASSUME TextInv, Restart
  PROVE  TextInv'
<1>1. PICK all : ctx' = report_context_new("none", all)
  BY DEF Restart, Start
<1>2. InForm(ctx')
  BY <1>1, StartForm
<1>3. cache' = cache /\ printed'.format = "none"
  BY DEF Restart, NotPrinted
<1>4. TopicPrintsSections'
  BY <1>3, SaysIsNext DEF Says, Asked
<1> QED BY <1>2, <1>3, <1>4 DEF TextInv, InForm

LEMMA TextNext == ReportInv /\ TextInv /\ [Next]_vars => TextInv'
<1> SUFFICES ASSUME ReportInv, TextInv, [Next]_vars PROVE TextInv'
  OBVIOUS
<1>1. ASSUME ctx' = ctx, cache' = cache, printed' = printed PROVE TextInv'
  <2>1. InForm(ctx')
    BY <1>1 DEF TextInv
  <2> QED BY <1>1, <2>1, TextKept
<1>2. CASE Open \/ Cancel \/ SelectAll \/ SelectNone \/ Generate \/ NoFile
  BY <1>1, <1>2 DEF Open, Cancel, SelectAll, SelectNone, Tick, Generate, NoFile, writing, cli
<1>3. ASSUME NEW m \in Range(modules), ToggleModule(m) PROVE TextInv'
  BY <1>1, <1>3 DEF ToggleModule, Tick, writing, cli
<1>4. ASSUME NEW m \in Range(modules), NEW e \in Children(m), ToggleEntry(m, e) PROVE TextInv'
  BY <1>1, <1>4 DEF ToggleEntry, Tick, writing, cli
<1>5. ASSUME NEW kind \in Range(file_types), ChooseFile(kind) PROVE TextInv'
  BY <1>5, TextStart DEF ChooseFile, cli
<1>6. CASE CliWrite
  BY <1>6, TextStart DEF CliWrite, cli
<1>7. CASE WriteModule
  BY <1>7, TextWriteModule
<1>8. CASE WriteEntry
  BY <1>8, TextWriteEntry
<1>9. CASE Finish
  BY <1>9, TextFinish
<1>10. CASE Answer
  BY <1>10, TextClosed DEF Answer, cli
<1>11. ASSUME NEW e \in Pages, Background(e) PROVE TextInv'
  BY <1>1, <1>11 DEF Background, writing, cli
<1>12. CASE CliPrint
  BY <1>12, TextCliPrint
<1>13. CASE CliCached
  BY <1>13, TextCliCached
<1>14. CASE Restart
  BY <1>14, TextRestart
<1>15. CASE UNCHANGED vars
  BY <1>1, <1>15 DEF vars, writing, cli
<1> QED BY <1>2, <1>3, <1>4, <1>5, <1>6, <1>7, <1>8, <1>9, <1>10, <1>11, <1>12, <1>13, <1>14, <1>15 DEF Next

\* A topic of a text report is the sections of its name, whole, once each and in the
\* order of the report, for any pages and any names (hardinfo.c:216-264), and also
\* where the report was made by an earlier start and is read from the cache.
THEOREM TopicPrintsSectionsHolds == Spec => []TopicPrintsSections
<1>1. Init => TextInv
  BY TextInit
<1>2. ReportInv /\ TextInv /\ [Next]_vars => TextInv'
  BY TextNext
<1>3. TextInv => TopicPrintsSections
  BY DEF TextInv
<1> QED BY <1>1, <1>2, <1>3, ReportCorrect, PTL DEF Spec
=============================================================================
