--------------------------- MODULE CleanerProofs ----------------------------
(***************************************************************************)
(* What the cleaner may do to a text, any text: regular expressions do not *)
(* ask whether the tags are nested.                                        *)
(***************************************************************************)
EXTENDS Cleaner, SequenceTheorems, WellFoundedInduction, TLAPS

(***************************************************************************)
(* Recursive functions                                                     *)
(***************************************************************************)

LEMMA LeastNumber ==
  ASSUME NEW T \in SUBSET Nat, T # {}
  PROVE  \E n \in T : \A m \in T : n <= m
<1> DEFINE less == OpToRel(<, Nat)
<1>1. IsWellFoundedOn(less, Nat)
  BY NatLessThanWellFounded
<1>2. \A m, n \in Nat : m < n => <<m, n>> \in less
  BY DEF OpToRel
<1> HIDE DEF less
<1>3. PICK n \in T : \A m \in T : ~(<<m, n>> \in less)
  BY <1>1, WFMin
<1>4. \A m \in T : ~(m < n) /\ m \in Nat /\ n \in Nat
  BY <1>2, <1>3
<1>5. \A m \in T : n <= m
  BY <1>4
<1> QED
  BY <1>3, <1>5

\* A value handed from step to step.
Handed(g, n, x, step) ==
  g = [k \in 0..n |-> IF k = 0 THEN x ELSE step[k][g[k - 1]]]

LEMMA StepByStep ==
  ASSUME NEW n \in Nat, NEW x, NEW step
  PROVE  \E g : Handed(g, n, x, step)
<1> DEFINE Solves(g, m) ==
             g = [k \in 0..m |-> IF k = 0 THEN x ELSE step[k][g[k - 1]]]
           P(m) == \E g : Solves(g, m)
           T == {m \in Nat : ~P(m)}
<1> SUFFICES ASSUME T # {} PROVE FALSE
  BY DEF Handed
<1>1. PICK m \in T : \A l \in T : m <= l
  BY LeastNumber
<1>2. P(0)
  <2>1. Solves([k \in 0..0 |-> x], 0)
    OBVIOUS
  <2> QED
    BY <2>1
<1> HIDE DEF P
<1>3. m # 0 /\ m \in Nat /\ m - 1 \in Nat
  BY <1>1, <1>2
<1>4. P(m - 1)
  BY <1>1, <1>3
<1>5. PICK g : Solves(g, m - 1)
  BY <1>4 DEF P
<1> DEFINE h == [k \in 0..m |-> IF k = 0 THEN x ELSE step[k][g[k - 1]]]
<1>6. \A k \in 0..(m - 1) : h[k] = g[k]
  BY <1>3, <1>5
<1>7. \A k \in 0..m : k # 0 => k - 1 \in 0..(m - 1)
  BY <1>3
<1>8. Solves(h, m)
  BY <1>6, <1>7
<1> QED
  BY <1>1, <1>8 DEF P

(***************************************************************************)
(* Searching                                                               *)
(***************************************************************************)

\* A match ends with the first of its close tags.
LEMMA EndFound ==
  ASSUME NEW t \in Text, NEW p \in 1..Len(t)
  PROVE  /\ EndOf(t, p) \in Nat
         /\ EndOf(t, p) > 0 =>
              /\ EndOf(t, p) \in (p + 1)..Len(t)
              /\ t[EndOf(t, p)] = CloseOf[t[p]]
              /\ \A k \in (p + 1)..(EndOf(t, p) - 1) : t[k] # CloseOf[t[p]]
<1> DEFINE ends == {k \in (p + 1)..Len(t) : t[k] = CloseOf[t[p]]}
<1>1. CASE ends = {}
  <2>1. EndOf(t, p) = 0
    BY <1>1 DEF EndOf
  <2> QED
    BY <2>1
<1>2. CASE ends # {}
  <2>1. ends \in SUBSET Nat
    OBVIOUS
  <2>2. \E n \in ends : \A m \in ends : n <= m
    <3> HIDE DEF ends
    <3> QED
      BY <1>2, <2>1, LeastNumber
  <2>3. EndOf(t, p) = Min(ends)
    BY <1>2 DEF EndOf
  <2>4. Min(ends) \in ends /\ \A m \in ends : Min(ends) <= m
    <3> HIDE DEF ends
    <3> QED
      BY <2>2 DEF Min
  <2>5. \A k \in (p + 1)..(Min(ends) - 1) : k \notin ends /\ k \in (p + 1)..Len(t)
    BY <2>1, <2>4
  <2> QED
    BY <2>1, <2>3, <2>4, <2>5
<1> QED
  BY <1>1, <1>2

\* The scan, from each of its positions.
LEMMA ScanFromRight ==
  ASSUME NEW t \in Text, NEW tags, NEW hit, NEW miss
  PROVE  \E f : /\ f[Len(t) + 1] = <<>>
                /\ \A p \in 1..Len(t) :
                     f[p] = IF Matches(t, p, tags)
                            THEN hit[Body(t, p)] \o f[EndOf(t, p) + 1]
                            ELSE miss[t[p]] \o f[p + 1]
                /\ Scan(t, tags, hit, miss) = f[1]
<1> DEFINE len == Len(t)
           Solves(f, n) == f = [p \in n..len + 1 |->
                          IF p > len THEN <<>>
                          ELSE IF Matches(t, p, tags)
                          THEN hit[Body(t, p)] \o f[EndOf(t, p) + 1]
                          ELSE miss[t[p]] \o f[p + 1]]
           P(d) == \E f : Solves(f, len + 1 - d)
           T == {d \in 0..len : ~P(d)}
<1>1. len \in Nat
  OBVIOUS
<1>2. \A p \in 1..len : Matches(t, p, tags) => EndOf(t, p) + 1 \in (p + 1)..(len + 1)
  BY EndFound DEF Matches
<1> HIDE DEF len
<1>3. P(0)
  <2>1. \A p \in (len + 1)..(len + 1) : p > len
    BY <1>1
  <2>2. Solves([p \in (len + 1)..(len + 1) |-> <<>>], len + 1)
    BY <2>1
  <2>3. len + 1 - 0 = len + 1
    BY <1>1
  <2> QED
    BY <2>2, <2>3
<1>4. T = {}
  <2> SUFFICES ASSUME T # {} PROVE FALSE
    OBVIOUS
  <2> HIDE DEF P
  <2>1. T \in SUBSET Nat
    BY <1>1
  <2>2. PICK d \in T : \A e \in T : d <= e
    BY <2>1, LeastNumber
  <2>3. d \in 1..len /\ d - 1 \in 0..len /\ P(d - 1)
    BY <1>1, <1>3, <2>2
  <2> DEFINE n == len + 1 - d
  <2>4. n \in 1..len /\ len + 1 - (d - 1) = n + 1
    BY <1>1, <2>3
  <2>5. PICK f : Solves(f, n + 1)
    BY <2>3, <2>4 DEF P
  <2> DEFINE h == [p \in n..len + 1 |->
                          IF p > len THEN <<>>
                          ELSE IF Matches(t, p, tags)
                          THEN hit[Body(t, p)] \o f[EndOf(t, p) + 1]
                          ELSE miss[t[p]] \o f[p + 1]]
  <2> HIDE DEF n
  <2>6. \A p \in (n + 1)..(len + 1) : h[p] = f[p]
    <3> TAKE p \in (n + 1)..(len + 1)
    <3>1. p \in n..(len + 1)
      BY <1>1, <2>4
    <3>2. f[p] = IF p > len THEN <<>>
                 ELSE IF Matches(t, p, tags)
                 THEN hit[Body(t, p)] \o f[EndOf(t, p) + 1]
                 ELSE miss[t[p]] \o f[p + 1]
      BY <2>5
    <3> QED
      BY <3>1, <3>2
  <2>7. \A p \in n..(len + 1) : ~(p > len) =>
          /\ p + 1 \in (n + 1)..(len + 1)
          /\ Matches(t, p, tags) => EndOf(t, p) + 1 \in (n + 1)..(len + 1)
    BY <1>1, <1>2, <2>4
  <2>8. \A p \in n..(len + 1) :
          h[p] = IF p > len THEN <<>>
                 ELSE IF Matches(t, p, tags)
                 THEN hit[Body(t, p)] \o h[EndOf(t, p) + 1]
                 ELSE miss[t[p]] \o h[p + 1]
    <3> TAKE p \in n..(len + 1)
    <3>1. CASE p > len
      BY <3>1
    <3>2. CASE ~(p > len) /\ Matches(t, p, tags)
      <4>1. h[EndOf(t, p) + 1] = f[EndOf(t, p) + 1]
        BY <2>6, <2>7, <3>2
      <4> QED
        BY <3>2, <4>1
    <3>3. CASE ~(p > len) /\ ~Matches(t, p, tags)
      <4>1. h[p + 1] = f[p + 1]
        BY <2>6, <2>7, <3>3
      <4> QED
        BY <3>3, <4>1
    <3> QED
      BY <3>1, <3>2, <3>3
  <2>9. Solves(h, n)
    <3> DEFINE G == [p \in n..len + 1 |->
                       IF p > len THEN <<>>
                       ELSE IF Matches(t, p, tags)
                       THEN hit[Body(t, p)] \o h[EndOf(t, p) + 1]
                       ELSE miss[t[p]] \o h[p + 1]]
    <3>1. /\ DOMAIN h = n..len + 1 /\ DOMAIN G = n..len + 1
          /\ h = [p \in DOMAIN h |-> h[p]] /\ G = [p \in DOMAIN G |-> G[p]]
      OBVIOUS
    <3>2. \A p \in n..len + 1 : h[p] = G[p]
      BY <2>8
    <3> HIDE DEF h, G
    <3>3. h = G
      BY <3>1, <3>2, Zenon
    <3> QED
      BY <3>3 DEF G
  <2> QED
    BY <2>2, <2>9 DEF P, n
<1>5. P(len)
  <2> HIDE DEF P
  <2> QED
    BY <1>1, <1>4
<1>6. len + 1 - len = 1
  BY <1>1
<1>7. \E f : Solves(f, 1)
  BY <1>5, <1>6
<1> DEFINE from[p \in 1..len + 1] ==
             IF p > len THEN <<>>
             ELSE IF Matches(t, p, tags)
             THEN hit[Body(t, p)] \o from[EndOf(t, p) + 1]
             ELSE miss[t[p]] \o from[p + 1]
<1>8. from = [p \in 1..len + 1 |->
                IF p > len THEN <<>>
                ELSE IF Matches(t, p, tags)
                THEN hit[Body(t, p)] \o from[EndOf(t, p) + 1]
                ELSE miss[t[p]] \o from[p + 1]]
  BY <1>7
<1>9. Scan(t, tags, hit, miss) = from[1]
  BY DEF Scan, len
<1> HIDE DEF from
<1>10. \A p \in 1..len : p \in 1..(len + 1) /\ ~(p > len)
  BY <1>1
<1>11. len + 1 \in 1..(len + 1) /\ len + 1 > len
  BY <1>1
<1>12. /\ from[len + 1] = <<>>
       /\ \A p \in 1..len :
            from[p] = IF Matches(t, p, tags)
                      THEN hit[Body(t, p)] \o from[EndOf(t, p) + 1]
                      ELSE miss[t[p]] \o from[p + 1]
  BY <1>8, <1>10, <1>11
<1> QED
  BY <1>9, <1>12 DEF len

Associates(u, v, w) == (u \o v) \o w = u \o (v \o w)

LEMMA Associativity ==
  ASSUME NEW S, NEW u \in Seq(S), NEW v \in Seq(S), NEW w \in Seq(S)
  PROVE  Associates(u, v, w)
BY ConcatAssociative DEF Associates

\* A text from p on starts with the token at p, or with the match at p.
LEMMA FromHere ==
  ASSUME NEW S, NEW t \in Seq(S), NEW p \in 1..Len(t)
  PROVE  /\ SubSeq(t, p, Len(t)) = <<t[p]>> \o SubSeq(t, p + 1, Len(t))
         /\ \A e \in (p + 1)..Len(t) :
              /\ SubSeq(t, p, Len(t)) =
                   (<<t[p]>> \o SubSeq(t, p + 1, e - 1) \o <<t[e]>>)
                     \o SubSeq(t, e + 1, Len(t))
              /\ SubSeq(t, p + 1, e - 1) \in Seq(S)
<1>1. Len(t) \in Nat
  OBVIOUS
<1>2. ASSUME NEW k \in 1..Len(t)
      PROVE  SubSeq(t, k, Len(t)) = <<t[k]>> \o SubSeq(t, k + 1, Len(t))
  BY <1>1, <1>2, SubSeqRecursiveFirst
<1>3. ASSUME NEW e \in (p + 1)..Len(t)
      PROVE  /\ SubSeq(t, p, Len(t)) =
                   (<<t[p]>> \o SubSeq(t, p + 1, e - 1) \o <<t[e]>>)
                     \o SubSeq(t, e + 1, Len(t))
             /\ SubSeq(t, p + 1, e - 1) \in Seq(S)
  <2> DEFINE body == SubSeq(t, p + 1, e - 1)
             tail == SubSeq(t, e + 1, Len(t))
  <2>1. /\ body \in Seq(S) /\ tail \in Seq(S)
        /\ <<t[p]>> \in Seq(S) /\ <<t[e]>> \in Seq(S)
    OBVIOUS
  <2>2. SubSeq(t, p + 1, Len(t)) = body \o SubSeq(t, e, Len(t))
    <3>1. PICK k \in p..Len(t) : k = e - 1 /\ k + 1 = e
      BY <1>1
    <3>2. SubSeq(t, p + 1, k) \o SubSeq(t, k + 1, Len(t))
            = SubSeq(t, p + 1, Len(t))
      <4>1. /\ p + 1 \in 1..(Len(t) + 1) /\ k \in (p + 1) - 1..Len(t)
            /\ Len(t) \in k..Len(t)
        BY <1>1
      <4> QED
        BY <4>1, ConcatAdjacentSubSeq
    <3> QED
      BY <3>1, <3>2
  <2>3. SubSeq(t, e, Len(t)) = <<t[e]>> \o tail
    BY <1>1, <1>2
  <2>4. SubSeq(t, p, Len(t)) = <<t[p]>> \o (body \o (<<t[e]>> \o tail))
    BY <1>2, <2>2, <2>3
  <2> HIDE DEF body, tail
  <2>5. <<t[p]>> \o (body \o (<<t[e]>> \o tail))
          = (<<t[p]>> \o body \o <<t[e]>>) \o tail
    <3>1. <<t[e]>> \o tail \in Seq(S) /\ <<t[p]>> \o body \in Seq(S)
      BY <2>1
    <3>2. /\ Associates(<<t[p]>>, body, <<t[e]>> \o tail)
          /\ Associates(<<t[p]>> \o body, <<t[e]>>, tail)
      BY <2>1, <3>1, Associativity
    <3> QED
      BY <3>2 DEF Associates
  <2> QED
    BY <2>1, <2>4, <2>5 DEF body, tail
<1> QED
  BY <1>2, <1>3

\* A relation that holds of the whole if it holds part by part.
Congruence(R) ==
  /\ <<<<>>, <<>>>> \in R
  /\ \A u, v, s, r :
       <<u, s>> \in R /\ <<v, r>> \in R => <<u \o v, s \o r>> \in R

\* A relation between what the scan makes of a text and the text holds of the
\* whole if it holds match by match and token by token.
LEMMA ScanRelates ==
  ASSUME NEW S \in SUBSET Token, NEW t \in Seq(S), NEW tags \in SUBSET Open,
         NEW hit, NEW miss, NEW R,
         Congruence(R),
         \A x \in S : <<miss[x], <<x>>>> \in R,
         \A x \in tags \cap S : \A body \in Seq(S \ {CloseOf[x]}) :
           CloseOf[x] \in S =>
             <<hit[body], <<x>> \o body \o <<CloseOf[x]>>>> \in R
  PROVE  <<Scan(t, tags, hit, miss), t>> \in R
<1>1. t \in Text /\ Len(t) \in Nat
  BY DEF Text
<1>2. PICK f : /\ f[Len(t) + 1] = <<>>
               /\ \A p \in 1..Len(t) :
                    f[p] = IF Matches(t, p, tags)
                           THEN hit[Body(t, p)] \o f[EndOf(t, p) + 1]
                           ELSE miss[t[p]] \o f[p + 1]
               /\ Scan(t, tags, hit, miss) = f[1]
  BY <1>1, ScanFromRight
<1> DEFINE len == Len(t)
           From(p) == SubSeq(t, p, len)
           P(d) == <<f[len + 1 - d], From(len + 1 - d)>> \in R
           T == {d \in 0..len : ~P(d)}
<1>3. P(0)
  <2>1. len + 1 - 0 = len + 1 /\ len + 1 > len /\ len + 1 \in 1..len + 1
    BY <1>1
  <2>2. f[len + 1] = <<>>
    BY <1>2, <2>1
  <2>3. From(len + 1) = <<>>
    BY <1>1, SubSeqEmpty
  <2> QED
    BY <2>1, <2>2, <2>3 DEF Congruence
<1>4. T = {}
  <2> SUFFICES ASSUME T # {} PROVE FALSE
    OBVIOUS
  <2> HIDE DEF P
  <2>1. T \in SUBSET Nat
    BY <1>1
  <2>2. PICK d \in T : \A e \in T : d <= e
    BY <2>1, LeastNumber
  <2>3. d \in 1..len /\ \A e \in 0..(d - 1) : P(e)
    BY <1>1, <1>3, <2>2
  <2> DEFINE p == len + 1 - d
  <2>4. p \in 1..len
    BY <1>1, <2>3
  <2>5. \A q \in (p + 1)..(len + 1) : <<f[q], From(q)>> \in R
    <3> SUFFICES ASSUME NEW q \in (p + 1)..(len + 1)
                 PROVE  <<f[q], From(q)>> \in R
      OBVIOUS
    <3>1. len + 1 - q \in 0..(d - 1) /\ len + 1 - (len + 1 - q) = q
      BY <1>1, <2>3
    <3>2. P(len + 1 - q)
      BY <2>3, <3>1
    <3> QED
      BY <3>1, <3>2 DEF P
  <2> HIDE DEF p, From
  <2>6. t[p] \in S /\ ~(p > len) /\ p \in 1..(len + 1)
    BY <1>1, <2>4
  <2>7. <<f[p], From(p)>> \in R
    <3>1. CASE Matches(t, p, tags)
      <4> DEFINE e == EndOf(t, p)
      <4>1. /\ e \in (p + 1)..len /\ t[e] = CloseOf[t[p]] /\ e + 1 \in (p + 1)..(len + 1)
            /\ \A k \in (p + 1)..(e - 1) : t[k] # CloseOf[t[p]]
        BY <1>1, <2>4, <3>1, EndFound DEF Matches
      <4>2. f[p] = hit[Body(t, p)] \o f[e + 1]
        BY <1>2, <2>4, <3>1
      <4> HIDE DEF e
      <4>3. From(p) = (<<t[p]>> \o SubSeq(t, p + 1, e - 1) \o <<t[e]>>)
                        \o From(e + 1)
        BY <2>4, <4>1, FromHere DEF From
      <4>4. Body(t, p) = SubSeq(t, p + 1, e - 1)
        BY DEF Body, e
      <4>5. Body(t, p) \in Seq(S \ {CloseOf[t[p]]})
        <5>1. \A k \in (p + 1)..(e - 1) : t[k] \in S \ {CloseOf[t[p]]}
          BY <1>1, <2>4, <4>1
        <5>2. p + 1 \in Int /\ e - 1 \in Int
          BY <1>1, <2>4, <4>1
        <5> QED
          BY <4>4, <5>1, <5>2, SubSeqProperties
      <4>6. t[p] \in tags \cap S
        BY <2>6, <3>1 DEF Matches
      <4>7. t[e] \in S
        BY <1>1, <2>4, <4>1
      <4>8. <<hit[Body(t, p)], <<t[p]>> \o Body(t, p) \o <<t[e]>>>> \in R
        BY <4>1, <4>5, <4>6, <4>7
      <4>9. <<f[e + 1], From(e + 1)>> \in R
        BY <2>5, <4>1
      <4> QED
        BY <4>2, <4>3, <4>4, <4>8, <4>9 DEF Congruence
    <3>2. CASE ~Matches(t, p, tags)
      <4>1. f[p] = miss[t[p]] \o f[p + 1]
        BY <1>2, <2>4, <3>2
      <4>2. From(p) = <<t[p]>> \o From(p + 1)
        BY <2>4, FromHere DEF From
      <4>3. <<f[p + 1], From(p + 1)>> \in R /\ <<miss[t[p]], <<t[p]>>>> \in R
        BY <1>1, <2>4, <2>5, <2>6
      <4> QED
        BY <4>1, <4>2, <4>3 DEF Congruence
    <3> QED
      BY <3>1, <3>2
  <2> QED
    BY <2>2, <2>7 DEF P, p
<1>5. P(len)
  <2> HIDE DEF P
  <2> QED
    BY <1>1, <1>4
<1>6. len + 1 - len = 1 /\ From(1) = t
  BY <1>1, SubSeqFull
<1> QED
  BY <1>2, <1>5, <1>6

(***************************************************************************)
(* FlattenSeq                                                              *)
(***************************************************************************)

\* Parts joined one by one.
LEMMA JoinedFromLeft ==
  ASSUME NEW n \in Nat, NEW parts
  PROVE  \E g : g = [k \in 1..n |->
                       IF k = 1 THEN parts[k] ELSE g[k - 1] \o parts[k]]
<1> DEFINE Solves(g, m) ==
             g = [k \in 1..m |-> IF k = 1 THEN parts[k] ELSE g[k - 1] \o parts[k]]
           P(m) == \E g : Solves(g, m)
           T == {m \in Nat : ~P(m)}
<1> SUFFICES ASSUME T # {} PROVE FALSE
  OBVIOUS
<1>1. P(0)
  <2>1. Solves([k \in 1..0 |-> 0], 0)
    OBVIOUS
  <2> QED
    BY <2>1
<1>2. PICK m \in T : \A l \in T : m <= l
  BY LeastNumber
<1> HIDE DEF P
<1>3. m # 0 /\ m \in Nat /\ m - 1 \in Nat
  BY <1>1, <1>2
<1>4. P(m - 1)
  BY <1>2, <1>3
<1>5. PICK g : Solves(g, m - 1)
  BY <1>4 DEF P
<1> DEFINE h == [k \in 1..m |->
                   IF k = 1 THEN parts[k] ELSE g[k - 1] \o parts[k]]
<1>6. ASSUME NEW k \in 1..(m - 1) PROVE h[k] = g[k]
  <2>1. k \in 1..m
    BY <1>3
  <2>2. h[k] = IF k = 1 THEN parts[k] ELSE g[k - 1] \o parts[k]
    BY <2>1
  <2>3. g[k] = IF k = 1 THEN parts[k] ELSE g[k - 1] \o parts[k]
    BY <1>5
  <2> HIDE DEF h
  <2> QED
    BY <2>2, <2>3
<1>7. \A k \in 1..m : k # 1 => k - 1 \in 1..(m - 1)
  BY <1>3
<1>8. Solves(h, m)
  BY <1>6, <1>7
<1> QED
  BY <1>2, <1>8 DEF P

Joined(g, parts, n) ==
  g[1] = parts[1] /\ \A k \in 2..n : g[k] = g[k - 1] \o parts[k]

LEMMA FlattenFromLeft ==
  ASSUME NEW n \in Nat, NEW parts, Len(parts) = n, n = 0 => parts = <<>>
  PROVE  /\ n = 0 => FlattenSeq(parts) = <<>>
         /\ n # 0 => \E g : Joined(g, parts, n) /\ FlattenSeq(parts) = g[n]
<1> DEFINE flatten[k \in 1..n] ==
             IF k = 1 THEN parts[k] ELSE flatten[k - 1] \o parts[k]
<1>1. flatten = [k \in 1..n |->
                   IF k = 1 THEN parts[k] ELSE flatten[k - 1] \o parts[k]]
  BY JoinedFromLeft
<1>2. n # 0 => FlattenSeq(parts) = flatten[n]
  BY DEF FlattenSeq
<1>3. n = 0 => FlattenSeq(parts) = <<>>
  BY DEF FlattenSeq
<1> HIDE DEF flatten
<1>4. n # 0 => 1 \in 1..n
  OBVIOUS
<1>5. n # 0 => flatten[1] = parts[1]
  BY <1>1, <1>4
<1>6. \A k \in 2..n : k \in 1..n /\ k # 1
  OBVIOUS
<1>7. \A k \in 2..n : flatten[k] = flatten[k - 1] \o parts[k]
  BY <1>1, <1>6
<1> QED
  BY <1>2, <1>3, <1>5, <1>7 DEF Joined

\* A relation that goes part by part holds of the whole.
LEMMA FlattenRelates ==
  ASSUME NEW n \in Nat, NEW R,
         NEW a, Len(a) = n, n = 0 => a = <<>>,
         NEW b, Len(b) = n, n = 0 => b = <<>>,
         Congruence(R),
         \A i \in 1..n : <<a[i], b[i]>> \in R
  PROVE  <<FlattenSeq(a), FlattenSeq(b)>> \in R
<1>1. CASE n = 0
  <2>1. FlattenSeq(a) = <<>> /\ FlattenSeq(b) = <<>>
    BY <1>1, FlattenFromLeft
  <2> QED
    BY <2>1 DEF Congruence
<1>2. CASE n # 0
  <2>1. PICK g : Joined(g, a, n) /\ FlattenSeq(a) = g[n]
    BY <1>2, FlattenFromLeft
  <2>2. PICK h : Joined(h, b, n) /\ FlattenSeq(b) = h[n]
    BY <1>2, FlattenFromLeft
  <2> DEFINE T == {k \in 1..n : <<g[k], h[k]>> \notin R}
  <2>3. T = {}
    <3> SUFFICES ASSUME T # {} PROVE FALSE
      OBVIOUS
    <3>1. PICK k \in T : \A l \in T : k <= l
      <4>1. T \in SUBSET Nat
        OBVIOUS
      <4> HIDE DEF T
      <4> QED
        BY <4>1, LeastNumber
    <3>2. k # 1
      BY <1>2, <2>1, <2>2, <3>1 DEF Joined
    <3>3. k \in 2..n /\ k \in 1..n /\ k - 1 \in 1..n /\ ~(k <= k - 1)
      BY <3>1, <3>2
    <3>4. <<g[k - 1], h[k - 1]>> \in R
      BY <3>1, <3>3
    <3>5. <<g[k], h[k]>> \in R
      <4>1. <<a[k], b[k]>> \in R
        BY <3>3
      <4>2. g[k] = g[k - 1] \o a[k] /\ h[k] = h[k - 1] \o b[k]
        BY <2>1, <2>2, <3>3 DEF Joined
      <4> QED
        BY <3>4, <4>1, <4>2 DEF Congruence
    <3> QED
      BY <3>1, <3>5
  <2>4. n \in 1..n
    BY <1>2
  <2>5. <<g[n], h[n]>> \in R
    BY <2>3, <2>4
  <2> QED
    BY <2>1, <2>2, <2>5
<1> QED
  BY <1>1, <1>2

\* What a sequence of sequences is joined to.
LEMMA FlattenType ==
  ASSUME NEW A, NEW a \in Seq(Seq(A))
  PROVE  FlattenSeq(a) \in Seq(A)
<1> DEFINE R == Seq(A) \X Seq(A)
<1>1. Congruence(R)
  <2>1. ASSUME NEW u, NEW v, NEW s, NEW r, <<u, s>> \in R, <<v, r>> \in R
        PROVE  <<u \o v, s \o r>> \in R
    <3>1. u \in Seq(A) /\ v \in Seq(A) /\ s \in Seq(A) /\ r \in Seq(A)
      BY <2>1
    <3>2. u \o v \in Seq(A) /\ s \o r \in Seq(A)
      BY <3>1
    <3> QED
      BY <3>2
  <2>2. <<<<>>, <<>>>> \in R
    BY EmptySeq
  <2> QED
    BY <2>1, <2>2 DEF Congruence
<1>2. /\ Len(a) \in Nat
      /\ \A i \in 1..Len(a) : <<a[i], a[i]>> \in R
      /\ Len(a) = 0 => a = <<>>
  BY EmptySeq
<1> HIDE DEF R
<1>3. <<FlattenSeq(a), FlattenSeq(a)>> \in R
  BY <1>1, <1>2, FlattenRelates
<1> QED
  BY <1>3 DEF R

LEMMA FlattenAppend ==
  ASSUME NEW A, NEW a \in Seq(Seq(A)), NEW x \in Seq(A)
  PROVE  FlattenSeq(Append(a, x)) = FlattenSeq(a) \o x
<1> DEFINE n == Len(a)
           b == Append(a, x)
<1>1. /\ n \in Nat /\ Len(b) = n + 1 /\ b[n + 1] = x
      /\ \A k \in 1..n : b[k] = a[k]
      /\ n = 0 => a = <<>>
  BY AppendProperties, EmptySeq
<1> HIDE DEF n, b
<1>2. PICK h : Joined(h, b, n + 1) /\ FlattenSeq(b) = h[n + 1]
  BY <1>1, FlattenFromLeft
<1>3. CASE n = 0
  <2>1. FlattenSeq(b) = x
    BY <1>1, <1>2, <1>3 DEF Joined
  <2>2. FlattenSeq(a) = <<>>
    BY <1>1, <1>3, FlattenFromLeft DEF n
  <2> QED
    BY <2>1, <2>2, ConcatEmptySeq DEF b
<1>4. CASE n # 0
  <2>1. PICK g : Joined(g, a, n) /\ FlattenSeq(a) = g[n]
    BY <1>1, <1>4, FlattenFromLeft DEF n
  <2> DEFINE T == {k \in 1..n : g[k] # h[k]}
  <2>2. T = {}
    <3> SUFFICES ASSUME T # {} PROVE FALSE
      OBVIOUS
    <3>1. PICK k \in T : \A l \in T : k <= l
      <4>1. T \in SUBSET Nat
        OBVIOUS
      <4> HIDE DEF T
      <4> QED
        BY <4>1, LeastNumber
    <3>2. k # 1
      BY <1>1, <1>2, <1>4, <2>1, <3>1 DEF Joined
    <3>3. k \in 2..n /\ k \in 2..(n + 1) /\ k - 1 \in 1..n /\ ~(k <= k - 1)
      BY <1>1, <3>1, <3>2
    <3>4. g[k - 1] = h[k - 1]
      BY <3>1, <3>3
    <3>5. g[k] = g[k - 1] \o a[k] /\ h[k] = h[k - 1] \o b[k]
      BY <1>2, <2>1, <3>3 DEF Joined
    <3>6. b[k] = a[k]
      BY <1>1, <3>1
    <3> QED
      BY <3>1, <3>4, <3>5, <3>6
  <2>3. n \in 1..n /\ n + 1 \in 2..(n + 1) /\ (n + 1) - 1 = n
    BY <1>1, <1>4
  <2>4. h[n + 1] = h[(n + 1) - 1] \o b[n + 1]
    BY <1>2, <2>3 DEF Joined
  <2>5. g[n] = h[n]
    BY <2>2, <2>3
  <2>6. FlattenSeq(b) = FlattenSeq(a) \o x
    BY <1>1, <1>2, <2>1, <2>3, <2>4, <2>5
  <2> QED
    BY <2>6 DEF b
<1> QED
  BY <1>3, <1>4

LEMMA FlattenOne ==
  ASSUME NEW A, NEW x \in Seq(A)
  PROVE  FlattenSeq(<<x>>) = x
<1>1. <<>> \in Seq(Seq(A)) /\ <<x>> = Append(<<>>, x)
  OBVIOUS
<1>2. FlattenSeq(<<>>) = <<>>
  BY FlattenFromLeft
<1>3. FlattenSeq(Append(<<>>, x)) = <<>> \o x
  BY <1>1, <1>2, FlattenAppend
<1> QED
  BY <1>1, <1>3, ConcatEmptySeq

LEMMA FlattenConcat ==
  ASSUME NEW A, NEW a \in Seq(Seq(A)), NEW b \in Seq(Seq(A))
  PROVE  FlattenSeq(a \o b) = FlattenSeq(a) \o FlattenSeq(b)
<1> DEFINE Q(c) == FlattenSeq(a \o c) = FlattenSeq(a) \o FlattenSeq(c)
           T == {m \in Nat : \E c \in Seq(Seq(A)) : Len(c) = m /\ ~Q(c)}
<1>1. FlattenSeq(a) \in Seq(A)
  BY FlattenType
<1>2. Q(<<>>)
  <2>1. FlattenSeq(<<>>) = <<>>
    BY FlattenFromLeft
  <2>2. a \o <<>> = a
    BY ConcatEmptySeq
  <2>3. FlattenSeq(a) \o <<>> = FlattenSeq(a)
    BY <1>1, ConcatEmptySeq
  <2> QED
    BY <2>1, <2>2, <2>3
<1>3. ASSUME NEW c \in Seq(Seq(A)), Q(c), NEW x \in Seq(A)
      PROVE  Q(Append(c, x))
  <2>1. a \o Append(c, x) = Append(a \o c, x) /\ a \o c \in Seq(Seq(A))
    BY ConcatProperties
  <2>2. FlattenSeq(a \o Append(c, x)) = FlattenSeq(a \o c) \o x
    BY <2>1, FlattenAppend
  <2>3. FlattenSeq(Append(c, x)) = FlattenSeq(c) \o x /\ FlattenSeq(c) \in Seq(A)
    BY FlattenAppend, FlattenType
  <2>4. (FlattenSeq(a) \o FlattenSeq(c)) \o x
          = FlattenSeq(a) \o (FlattenSeq(c) \o x)
    <3>1. Associates(FlattenSeq(a), FlattenSeq(c), x)
      BY <1>1, <2>3, Associativity
    <3> QED
      BY <3>1 DEF Associates
  <2> QED
    BY <1>3, <2>2, <2>3, <2>4
<1> HIDE DEF Q
<1>4. T = {}
  <2> SUFFICES ASSUME T # {} PROVE FALSE
    OBVIOUS
  <2>1. PICK m \in T : \A l \in T : m <= l
    BY LeastNumber
  <2>2. PICK c \in Seq(Seq(A)) : Len(c) = m /\ ~Q(c)
    BY <2>1
  <2>3. PICK d \in Seq(Seq(A)), x \in Seq(A) : c = Append(d, x)
    BY <1>2, <2>2, SequenceEmptyOrAppend
  <2>4. Len(d) \in Nat /\ ~(m <= Len(d))
    BY <2>2, <2>3
  <2>5. Q(d)
    BY <2>1, <2>4
  <2> QED
    BY <1>3, <2>2, <2>3, <2>5
<1>5. Len(b) \in Nat
  OBVIOUS
<1>6. Q(b)
  BY <1>4, <1>5
<1> QED
  BY <1>6 DEF Q

LEMMA FlattenSingles ==
  ASSUME NEW A, NEW t \in Seq(A)
  PROVE  FlattenSeq([i \in 1..Len(t) |-> <<t[i]>>]) = t
<1> DEFINE Singles(c) == [i \in 1..Len(c) |-> <<c[i]>>]
           Q(c) == FlattenSeq(Singles(c)) = c
           T == {m \in Nat : \E c \in Seq(A) : Len(c) = m /\ ~Q(c)}
<1>1. Q(<<>>)
  <2>1. Singles(<<>>) = <<>>
    OBVIOUS
  <2>2. FlattenSeq(<<>>) = <<>>
    BY FlattenFromLeft
  <2> QED
    BY <2>1, <2>2
<1>2. ASSUME NEW c \in Seq(A), Q(c), NEW x \in A
      PROVE  Q(Append(c, x))
  <2>1. Singles(c) \in Seq(Seq(A)) /\ <<x>> \in Seq(A)
    OBVIOUS
  <2>2. Singles(Append(c, x)) = Append(Singles(c), <<x>>)
    OBVIOUS
  <2>3. FlattenSeq(Append(Singles(c), <<x>>)) = FlattenSeq(Singles(c)) \o <<x>>
    BY <2>1, FlattenAppend
  <2>4. c \o <<x>> = Append(c, x)
    BY AppendIsConcat
  <2> QED
    BY <1>2, <2>2, <2>3, <2>4
<1> HIDE DEF Q
<1>3. T = {}
  <2> SUFFICES ASSUME T # {} PROVE FALSE
    OBVIOUS
  <2>1. PICK m \in T : \A l \in T : m <= l
    BY LeastNumber
  <2>2. PICK c \in Seq(A) : Len(c) = m /\ ~Q(c)
    BY <2>1
  <2>3. PICK d \in Seq(A), x \in A : c = Append(d, x)
    BY <1>1, <2>2, SequenceEmptyOrAppend
  <2>4. Len(d) \in Nat /\ ~(m <= Len(d))
    BY <2>2, <2>3
  <2>5. Q(d)
    BY <2>1, <2>4
  <2> QED
    BY <1>2, <2>2, <2>3, <2>5
<1>4. Len(t) \in Nat
  OBVIOUS
<1>5. Q(t)
  BY <1>3, <1>4
<1> QED
  BY <1>5 DEF Q

(***************************************************************************)
(* Nothing invented, repeated or moved                                     *)
(***************************************************************************)

\* What stands in u beside marks stands in t, in this order.
Derived(u, t) ==
  \E f \in [1..Len(u) -> Nat] :
    /\ \A i \in 1..Len(u) : u[i] \notin Mark =>
         f[i] \in 1..Len(t) /\ t[f[i]] = u[i]
    /\ \A i, j \in 1..Len(u) :
         i < j /\ u[i] \notin Mark /\ u[j] \notin Mark => f[i] < f[j]

LEMMA DerivedBasics ==
  ASSUME NEW t \in Text
  PROVE  /\ Derived(<<>>, t) /\ Derived(t, t)
         /\ \A m \in Seq(Mark) : Derived(m, t)
<1>1. Len(t) \in Nat
  BY DEF Text
<1>2. Derived(<<>>, t)
  <2>1. [i \in 1..Len(<<>>) |-> 0] \in [1..Len(<<>>) -> Nat]
    OBVIOUS
  <2>2. \A i \in 1..Len(<<>>) : FALSE
    OBVIOUS
  <2> QED
    BY <2>1, <2>2 DEF Derived
<1>3. Derived(t, t)
  <2> DEFINE f == [i \in 1..Len(t) |-> i]
  <2>1. f \in [1..Len(t) -> Nat] /\ \A i \in 1..Len(t) : f[i] = i
    BY <1>1
  <2> HIDE DEF f
  <2> QED
    BY <2>1 DEF Derived
<1>4. ASSUME NEW m \in Seq(Mark) PROVE Derived(m, t)
  <2> DEFINE f == [i \in 1..Len(m) |-> 0]
  <2>1. f \in [1..Len(m) -> Nat] /\ \A i \in 1..Len(m) : m[i] \in Mark
    OBVIOUS
  <2> QED
    BY <2>1 DEF Derived
<1> QED
  BY <1>2, <1>3, <1>4

LEMMA DerivedConcat ==
  ASSUME NEW u \in Text, NEW s \in Text, NEW v \in Text, NEW r \in Text,
         Derived(u, s), Derived(v, r)
  PROVE  Derived(u \o v, s \o r)
<1> DEFINE m == Len(u)
           n == Len(s)
           w == u \o v
           y == s \o r
<1>1. /\ m \in Nat /\ n \in Nat /\ Len(v) \in Nat /\ Len(r) \in Nat
      /\ Len(w) = m + Len(v) /\ Len(y) = n + Len(r)
      /\ \A i \in 1..(m + Len(v)) : w[i] = IF i <= m THEN u[i] ELSE v[i - m]
      /\ \A i \in 1..(n + Len(r)) : y[i] = IF i <= n THEN s[i] ELSE r[i - n]
  BY ConcatProperties DEF Text
<1>2. PICK f \in [1..m -> Nat] :
        /\ \A i \in 1..m : u[i] \notin Mark => f[i] \in 1..n /\ s[f[i]] = u[i]
        /\ \A i, j \in 1..m :
             i < j /\ u[i] \notin Mark /\ u[j] \notin Mark => f[i] < f[j]
  BY DEF Derived
<1>3. PICK g \in [1..Len(v) -> Nat] :
        /\ \A i \in 1..Len(v) : v[i] \notin Mark =>
             g[i] \in 1..Len(r) /\ r[g[i]] = v[i]
        /\ \A i, j \in 1..Len(v) :
             i < j /\ v[i] \notin Mark /\ v[j] \notin Mark => g[i] < g[j]
  BY DEF Derived
<1> DEFINE h == [i \in 1..(m + Len(v)) |->
                   IF i <= m THEN f[i] ELSE n + g[i - m]]
<1> HIDE DEF m, n, w, y
<1>4. \A i \in 1..(m + Len(v)) : IF i <= m THEN i \in 1..m
                                            ELSE i - m \in 1..Len(v)
  BY <1>1
<1>5. h \in [1..(m + Len(v)) -> Nat]
  BY <1>1, <1>2, <1>3, <1>4
<1>6. \A i \in 1..(m + Len(v)) : h[i] = IF i <= m THEN f[i] ELSE n + g[i - m]
  OBVIOUS
<1> HIDE DEF h
<1>7. ASSUME NEW i \in 1..(m + Len(v)), w[i] \notin Mark
      PROVE  /\ h[i] \in 1..(n + Len(r)) /\ y[h[i]] = w[i]
             /\ i <= m => h[i] <= n
             /\ ~(i <= m) => h[i] > n
  <2>1. CASE i <= m
    <3>1. i \in 1..m /\ w[i] = u[i] /\ h[i] = f[i]
      BY <1>1, <1>4, <1>6, <2>1
    <3>2. f[i] \in 1..n /\ s[f[i]] = u[i]
      BY <1>2, <1>7, <3>1
    <3>3. f[i] \in 1..(n + Len(r)) /\ f[i] <= n
      BY <1>1, <3>2
    <3> QED
      BY <1>1, <2>1, <3>1, <3>2, <3>3
  <2>2. CASE ~(i <= m)
    <3>1. i - m \in 1..Len(v) /\ w[i] = v[i - m] /\ h[i] = n + g[i - m]
      BY <1>1, <1>4, <1>6, <2>2
    <3>2. g[i - m] \in 1..Len(r) /\ r[g[i - m]] = v[i - m]
      BY <1>3, <1>7, <3>1
    <3>3. /\ h[i] \in 1..(n + Len(r)) /\ ~(h[i] <= n) /\ h[i] > n
          /\ h[i] - n = g[i - m]
      BY <1>1, <3>1, <3>2
    <3> QED
      BY <1>1, <2>2, <3>1, <3>2, <3>3
  <2> QED
    BY <2>1, <2>2
<1>8. ASSUME NEW i \in 1..(m + Len(v)), NEW j \in 1..(m + Len(v)),
             i < j, w[i] \notin Mark, w[j] \notin Mark
      PROVE  h[i] < h[j]
  <2>1. CASE j <= m
    <3>1. i \in 1..m /\ j \in 1..m /\ i <= m
      BY <1>1, <1>8, <2>1
    <3>2. w[i] = u[i] /\ w[j] = u[j] /\ h[i] = f[i] /\ h[j] = f[j]
      BY <1>1, <1>6, <2>1, <3>1
    <3> QED
      BY <1>2, <1>8, <3>1, <3>2
  <2>2. CASE ~(i <= m)
    <3>1. i - m \in 1..Len(v) /\ j - m \in 1..Len(v) /\ ~(j <= m) /\ i - m < j - m
      BY <1>1, <1>8, <2>2
    <3>2. /\ w[i] = v[i - m] /\ w[j] = v[j - m]
          /\ h[i] = n + g[i - m] /\ h[j] = n + g[j - m]
      BY <1>1, <1>6, <2>2, <3>1
    <3>3. g[i - m] < g[j - m] /\ g[i - m] \in Nat /\ g[j - m] \in Nat
      BY <1>3, <1>8, <3>1, <3>2
    <3>4. \A a, b \in Nat : a < b => n + a < n + b
      BY <1>1
    <3> QED
      BY <3>2, <3>3, <3>4
  <2>3. CASE i <= m /\ ~(j <= m)
    <3>1. h[i] <= n /\ h[i] \in 1..(n + Len(r))
      BY <1>7, <1>8, <2>3
    <3>2. h[j] > n /\ h[j] \in 1..(n + Len(r))
      BY <1>7, <1>8, <2>3
    <3> QED
      BY <1>1, <3>1, <3>2
  <2> QED
    BY <1>1, <1>8, <2>1, <2>2, <2>3
<1>9. Derived(w, y)
  <2>1. h \in [1..Len(w) -> Nat]
    BY <1>1, <1>5
  <2>2. \A i \in 1..Len(w) : w[i] \notin Mark =>
          h[i] \in 1..Len(y) /\ y[h[i]] = w[i]
    BY <1>1, <1>7
  <2>3. \A i, j \in 1..Len(w) :
          i < j /\ w[i] \notin Mark /\ w[j] \notin Mark => h[i] < h[j]
    BY <1>1, <1>8
  <2> QED
    BY <2>1, <2>2, <2>3 DEF Derived
<1> QED
  BY <1>9 DEF w, y

LEMMA DerivedTwice ==
  ASSUME NEW u \in Text, NEW v \in Text, NEW t \in Text,
         Derived(u, v), Derived(v, t)
  PROVE  Derived(u, t)
<1>1. Len(u) \in Nat /\ Len(v) \in Nat /\ Len(t) \in Nat
  BY DEF Text
<1>2. PICK f \in [1..Len(u) -> Nat] :
        /\ \A i \in 1..Len(u) : u[i] \notin Mark =>
             f[i] \in 1..Len(v) /\ v[f[i]] = u[i]
        /\ \A i, j \in 1..Len(u) :
             i < j /\ u[i] \notin Mark /\ u[j] \notin Mark => f[i] < f[j]
  BY DEF Derived
<1>3. PICK g \in [1..Len(v) -> Nat] :
        /\ \A i \in 1..Len(v) : v[i] \notin Mark =>
             g[i] \in 1..Len(t) /\ t[g[i]] = v[i]
        /\ \A i, j \in 1..Len(v) :
             i < j /\ v[i] \notin Mark /\ v[j] \notin Mark => g[i] < g[j]
  BY DEF Derived
<1> DEFINE h == [i \in 1..Len(u) |-> IF u[i] \in Mark THEN 0 ELSE g[f[i]]]
<1>4. h \in [1..Len(u) -> Nat]
  BY <1>2, <1>3
<1>5. \A i \in 1..Len(u) : u[i] \notin Mark => h[i] = g[f[i]]
  OBVIOUS
<1> HIDE DEF h
<1>6. \A i \in 1..Len(u) : u[i] \notin Mark =>
        h[i] \in 1..Len(t) /\ t[h[i]] = u[i]
  BY <1>2, <1>3, <1>5
<1>7. \A i, j \in 1..Len(u) :
        i < j /\ u[i] \notin Mark /\ u[j] \notin Mark => h[i] < h[j]
  BY <1>2, <1>3, <1>5
<1> QED
  BY <1>4, <1>6, <1>7 DEF Derived

\* A derived text has the tokens of the other, and marks.
LEMMA DerivedTokens ==
  ASSUME NEW S, NEW u \in Text, NEW t \in Seq(S), Derived(u, t)
  PROVE  u \in Seq(S \cup Mark)
<1>1. PICK f \in [1..Len(u) -> Nat] :
        \A i \in 1..Len(u) : u[i] \notin Mark =>
             f[i] \in 1..Len(t) /\ t[f[i]] = u[i]
  BY DEF Derived
<1>2. \A i \in 1..Len(t) : t[i] \in S
  OBVIOUS
<1>3. \A i \in 1..Len(u) : u[i] \in S \cup Mark
  BY <1>1, <1>2
<1>4. u = [i \in 1..Len(u) |-> u[i]] /\ Len(u) \in Nat
  BY DEF Text
<1> QED
  BY <1>3, <1>4, IsASeq

\* Pairs of a derived text and the other.
DerivedPairs == {d \in Text \X Text : Derived(d[1], d[2])}

LEMMA TextBasics ==
  /\ <<>> \in Text
  /\ \A x \in Token : <<x>> \in Text
  /\ \A u, v \in Text : u \o v \in Text
  /\ Mark \subseteq Token /\ Word \subseteq Token /\ Open \subseteq Token
  /\ \A x \in Open : CloseOf[x] \in Token
<1>1. /\ Mark \subseteq Token /\ Word \subseteq Token /\ Open \subseteq Token
      /\ \A x \in Open : CloseOf[x] \in Token
  BY DEF Token, Tag, Close
<1>2. <<>> \in Text /\ \A x \in Token : <<x>> \in Text
  BY EmptySeq DEF Text
<1>3. \A u, v \in Text : u \o v \in Text
  BY ConcatProperties DEF Text
<1> QED
  BY <1>1, <1>2, <1>3

LEMMA DerivedCongruence == Congruence(DerivedPairs)
<1>1. <<<<>>, <<>>>> \in DerivedPairs
  BY TextBasics, DerivedBasics DEF DerivedPairs
<1>2. ASSUME NEW u, NEW v, NEW s, NEW r,
             <<u, s>> \in DerivedPairs, <<v, r>> \in DerivedPairs
      PROVE  <<u \o v, s \o r>> \in DerivedPairs
  <2>1. /\ u \in Text /\ v \in Text /\ s \in Text /\ r \in Text
        /\ Derived(u, s) /\ Derived(v, r)
    BY <1>2 DEF DerivedPairs
  <2>2. Derived(u \o v, s \o r)
    BY <2>1, DerivedConcat
  <2>3. u \o v \in Text /\ s \o r \in Text
    BY <2>1, TextBasics
  <2> QED
    BY <2>2, <2>3 DEF DerivedPairs
<1> QED
  BY <1>1, <1>2 DEF Congruence

\* A match holds its body.
LEMMA BodyDerived ==
  ASSUME NEW x \in Open, NEW body \in Text, NEW u \in Text, Derived(u, body)
  PROVE  /\ <<x>> \o body \o <<CloseOf[x]>> \in Text
         /\ Derived(u, <<x>> \o body \o <<CloseOf[x]>>)
<1> DEFINE o == <<x>>
           c == <<CloseOf[x]>>
<1>1. o \in Text /\ c \in Text /\ <<>> \in Text
  BY TextBasics
<1>2. Derived(<<>>, o) /\ Derived(<<>>, c)
  BY <1>1, DerivedBasics
<1> HIDE DEF o, c
<1>3. Derived(<<>> \o u, o \o body) /\ o \o body \in Text /\ <<>> \o u = u
  BY <1>1, <1>2, DerivedConcat, TextBasics, ConcatEmptySeq DEF Text
<1>4. Derived(u \o <<>>, (o \o body) \o c) /\ u \o <<>> = u
  BY <1>1, <1>2, <1>3, DerivedConcat, ConcatEmptySeq DEF Text
<1>5. (o \o body) \o c \in Text
  BY <1>1, <1>3, TextBasics
<1> QED
  BY <1>4, <1>5 DEF o, c

\* re.sub derives from a text what it makes of matches it derives from them.
LEMMA SubDerives ==
  ASSUME NEW t \in Text, NEW tags \in SUBSET Open, NEW rewrite,
         \A x \in tags, body \in Text :
           /\ rewrite[body] \in Text
           /\ Derived(rewrite[body], <<x>> \o body \o <<CloseOf[x]>>)
  PROVE  Sub(t, tags, rewrite) \in Text /\ Derived(Sub(t, tags, rewrite), t)
<1> DEFINE miss == [x \in Token |-> <<x>>]
<1>1. \A x \in Token : <<miss[x], <<x>>>> \in DerivedPairs
  BY TextBasics, DerivedBasics DEF DerivedPairs
<1>2. ASSUME NEW x \in tags \cap Token, NEW body \in Seq(Token \ {CloseOf[x]})
      PROVE  <<rewrite[body], <<x>> \o body \o <<CloseOf[x]>>>> \in DerivedPairs
  <2>1. body \in Text
    BY SeqMonotonic DEF Text
  <2>2. <<x>> \o body \o <<CloseOf[x]>> \in Text
    BY <2>1, BodyDerived, DerivedBasics, TextBasics
  <2> QED
    BY <2>1, <2>2 DEF DerivedPairs
<1> HIDE DEF miss
<1>3. t \in Seq(Token) /\ Token \in SUBSET Token
  BY DEF Text
<1>4. <<Scan(t, tags, rewrite, miss), t>> \in DerivedPairs
  BY <1>1, <1>2, <1>3, DerivedCongruence, ScanRelates
<1>5. Sub(t, tags, rewrite) = Scan(t, tags, rewrite, miss)
  BY DEF Sub, miss
<1> QED
  BY <1>4, <1>5 DEF DerivedPairs

LEMMA UnwrapDerives ==
  ASSUME NEW t \in Text, NEW tags \in SUBSET Open
  PROVE  Unwrap(t, tags) \in Text /\ Derived(Unwrap(t, tags), t)
<1>1. \A x \in tags, body \in Text :
        Derived(body, <<x>> \o body \o <<CloseOf[x]>>)
  BY BodyDerived, DerivedBasics
<1> QED
  BY <1>1, SubDerives DEF Unwrap

\* Token by token.
LEMMA EachRelates ==
  ASSUME NEW t \in Text, NEW parts, Len(parts) = Len(t),
         Len(t) = 0 => parts = <<>>,
         NEW R, Congruence(R),
         \A i \in 1..Len(t) : <<parts[i], <<t[i]>>>> \in R
  PROVE  <<FlattenSeq(parts), t>> \in R
<1> DEFINE b == [i \in 1..Len(t) |-> <<t[i]>>]
<1>1. Len(t) \in Nat /\ Len(b) = Len(t)
  BY DEF Text
<1>2. Len(t) = 0 => b = <<>>
  BY EmptySeq
<1>3. \A i \in 1..Len(t) : <<parts[i], b[i]>> \in R
  OBVIOUS
<1>4. FlattenSeq(b) = t
  BY FlattenSingles DEF Text
<1> HIDE DEF b
<1>5. <<FlattenSeq(parts), FlattenSeq(b)>> \in R
  BY <1>1, <1>2, <1>3, FlattenRelates
<1> QED
  BY <1>4, <1>5

LEMMA EachDerives ==
  ASSUME NEW t \in Text, NEW parts \in Seq(Text), Len(parts) = Len(t),
         \A i \in 1..Len(t) : Derived(parts[i], <<t[i]>>)
  PROVE  FlattenSeq(parts) \in Text /\ Derived(FlattenSeq(parts), t)
<1>1. Len(t) = 0 => parts = <<>>
  BY EmptySeq
<1>2. \A i \in 1..Len(t) : <<parts[i], <<t[i]>>>> \in DerivedPairs
  <2>1. \A i \in 1..Len(t) : parts[i] \in Text /\ t[i] \in Token
    BY DEF Text
  <2> QED
    BY <2>1, TextBasics DEF DerivedPairs
<1>3. <<FlattenSeq(parts), t>> \in DerivedPairs
  BY <1>1, <1>2, DerivedCongruence, EachRelates
<1> QED
  BY <1>3 DEF DerivedPairs

\* Without takes tokens from a text, all of them.
LEMMA WithoutDerives ==
  ASSUME NEW S \in SUBSET Token, NEW t \in Seq(S), NEW tokens
  PROVE  /\ Without(t, tokens) \in Seq(S \ tokens)
         /\ Derived(Without(t, tokens), t)
<1> DEFINE parts == [i \in 1..Len(t) |-> IF t[i] \in tokens THEN <<>> ELSE <<t[i]>>]
<1>1. t \in Text /\ Len(t) \in Nat /\ \A i \in 1..Len(t) : t[i] \in S /\ t[i] \in Token
  BY SeqMonotonic DEF Text
<1>2. \A i \in 1..Len(t) : parts[i] \in Seq(S \ tokens)
  <2>1. <<>> \in Seq(S \ tokens)
    BY EmptySeq
  <2>2. \A i \in 1..Len(t) : t[i] \notin tokens => <<t[i]>> \in Seq(S \ tokens)
    BY <1>1
  <2> QED
    BY <2>1, <2>2
<1>3. parts \in Seq(Seq(S \ tokens)) /\ Len(parts) = Len(t)
  BY <1>1, <1>2
<1>4. \A i \in 1..Len(t) : Derived(parts[i], <<t[i]>>)
  BY <1>1, DerivedBasics, TextBasics
<1>5. Without(t, tokens) = FlattenSeq(parts)
  BY DEF Without
<1> HIDE DEF parts
<1>6. FlattenSeq(parts) \in Seq(S \ tokens)
  BY <1>3, FlattenType
<1>7. parts \in Seq(Text)
  BY <1>3, SeqMonotonic DEF Text
<1> QED
  BY <1>1, <1>3, <1>4, <1>5, <1>6, <1>7, EachDerives

\* re.findall finds parts of the text, in their order.
LEMMA BodiesDerive ==
  ASSUME NEW t \in Text, NEW tag \in Open
  PROVE  /\ Bodies(t, tag) \in Seq(Text \ {<<>>})
         /\ FlattenSeq(Bodies(t, tag)) \in Text
         /\ Derived(FlattenSeq(Bodies(t, tag)), t)
<1> DEFINE Found == Seq(Text \ {<<>>})
           R == {d \in Found \X Text : Derived(FlattenSeq(d[1]), d[2])}
           hit == [body \in Text |-> IF body = <<>> THEN <<>> ELSE <<body>>]
           miss == [x \in Token |-> <<>>]
<1>1. \A a \in Found : a \in Seq(Text) /\ FlattenSeq(a) \in Text
  <2>1. \A a \in Found : a \in Seq(Seq(Token))
    BY SeqMonotonic DEF Text
  <2> QED
    BY <2>1, FlattenType DEF Text
<1>2. <<>> \in Found /\ FlattenSeq(<<>>) = <<>>
  BY EmptySeq, FlattenFromLeft
<1>3. Congruence(R)
  <2>1. <<<<>>, <<>>>> \in R
    BY <1>2, TextBasics, DerivedBasics
  <2>2. ASSUME NEW u, NEW v, NEW s, NEW r, <<u, s>> \in R, <<v, r>> \in R
        PROVE  <<u \o v, s \o r>> \in R
    <3>1. /\ u \in Found /\ v \in Found /\ s \in Text /\ r \in Text
          /\ Derived(FlattenSeq(u), s) /\ Derived(FlattenSeq(v), r)
      BY <2>2
    <3>2. FlattenSeq(u \o v) = FlattenSeq(u) \o FlattenSeq(v)
      BY <1>1, <3>1, FlattenConcat DEF Text
    <3>3. Derived(FlattenSeq(u \o v), s \o r)
      BY <1>1, <3>1, <3>2, DerivedConcat
    <3>4. u \o v \in Found /\ s \o r \in Text
      BY <3>1, ConcatProperties, TextBasics
    <3> QED
      BY <3>3, <3>4
  <2> QED
    BY <2>1, <2>2 DEF Congruence
<1>4. \A x \in Token : <<miss[x], <<x>>>> \in R
  BY <1>2, TextBasics, DerivedBasics
<1>5. ASSUME NEW x \in {tag} \cap Token, NEW body \in Seq(Token \ {CloseOf[x]})
      PROVE  <<hit[body], <<x>> \o body \o <<CloseOf[x]>>>> \in R
  <2> DEFINE whole == <<x>> \o body \o <<CloseOf[x]>>
  <2>1. body \in Text
    BY SeqMonotonic DEF Text
  <2>2. whole \in Text /\ Derived(body, whole) /\ Derived(<<>>, whole)
    BY <2>1, BodyDerived, DerivedBasics
  <2> HIDE DEF whole
  <2>3. CASE body = <<>>
    BY <1>2, <2>1, <2>2, <2>3 DEF whole
  <2>4. CASE body # <<>>
    <3>1. <<body>> \in Found
      BY <2>1, <2>4
    <3>2. FlattenSeq(<<body>>) = body
      BY <2>1, FlattenOne DEF Text
    <3>3. hit[body] = <<body>>
      BY <2>1, <2>4
    <3>4. Derived(FlattenSeq(<<body>>), whole)
      BY <2>2, <3>2
    <3>5. <<<<body>>, whole>> \in R
      BY <2>2, <3>1, <3>4
    <3> HIDE DEF hit, R
    <3> QED
      BY <3>3, <3>5 DEF whole
  <2> QED
    BY <2>3, <2>4
<1>6. t \in Seq(Token) /\ Token \in SUBSET Token /\ {tag} \in SUBSET Open
  BY DEF Text
<1>7. Bodies(t, tag) = Scan(t, {tag}, hit, miss)
  BY DEF Bodies
<1> HIDE DEF R, hit, miss
<1>8. <<Scan(t, {tag}, hit, miss), t>> \in R
  BY <1>3, <1>4, <1>5, <1>6, ScanRelates
<1> QED
  BY <1>1, <1>7, <1>8 DEF R

\* Lines with marks before them.
LEMMA MarkedDerive ==
  ASSUME NEW ps \in Seq(Text), NEW m \in Seq(Mark)
  PROVE  LET marked == FlattenSeq([i \in 1..Len(ps) |-> m \o ps[i]])
         IN  marked \in Text /\ Derived(marked, FlattenSeq(ps))
<1> DEFINE a == [i \in 1..Len(ps) |-> m \o ps[i]]
<1>1. m \in Text /\ Derived(m, <<>>)
  BY TextBasics, DerivedBasics, SeqMonotonic DEF Text
<1>2. ASSUME NEW i \in 1..Len(ps)
      PROVE  <<a[i], ps[i]>> \in DerivedPairs
  <2>1. ps[i] \in Text /\ Derived(ps[i], ps[i]) /\ <<>> \in Text
    BY DerivedBasics, TextBasics
  <2>2. Derived(m \o ps[i], <<>> \o ps[i]) /\ <<>> \o ps[i] = ps[i]
    BY <1>1, <2>1, DerivedConcat, ConcatEmptySeq DEF Text
  <2>3. m \o ps[i] \in Text
    BY <1>1, <2>1, TextBasics
  <2> QED
    BY <2>1, <2>2, <2>3 DEF DerivedPairs
<1>3. /\ Len(ps) \in Nat /\ Len(a) = Len(ps)
      /\ Len(ps) = 0 => ps = <<>> /\ a = <<>>
  BY EmptySeq
<1> HIDE DEF a
<1>4. <<FlattenSeq(a), FlattenSeq(ps)>> \in DerivedPairs
  BY <1>2, <1>3, DerivedCongruence, FlattenRelates
<1> QED
  BY <1>4 DEF DerivedPairs, a

\* A call-out has the text of its cell, or its paragraphs.
LEMMA CalloutDerives ==
  ASSUME NEW body \in Text
  PROVE  /\ Callout[body] \in Text
         /\ Derived(Callout[body], <<"<cell>">> \o body \o <<CloseOf["<cell>"]>>)
<1> DEFINE ps == Bodies(body, "<p>")
           whole == <<"<cell>">> \o body \o <<CloseOf["<cell>"]>>
<1>1. "<p>" \in Open /\ "<cell>" \in Open /\ CloseOf["<cell>"] = "</cell>"
  BY DEF Open, CloseOf
<1>2. /\ ps \in Seq(Text \ {<<>>}) /\ ps \in Seq(Text)
      /\ FlattenSeq(ps) \in Text /\ Derived(FlattenSeq(ps), body)
  BY <1>1, BodiesDerive, SeqMonotonic
<1>3. /\ whole \in Text
      /\ \A u \in Text : Derived(u, body) => Derived(u, whole)
  BY <1>1, BodyDerived, DerivedBasics
<1>4. Callout[body] = IF ps = <<>> THEN <<"<cell>">> \o body \o <<"</cell>">>
                      ELSE IF ps[1][1] = "ok" THEN Quoted(ps[1], Tail(ps))
                      ELSE FlattenSeq(ps)
  BY DEF Callout
<1> HIDE DEF ps, whole
<1>5. CASE ps = <<>>
  <2>1. Callout[body] = whole
    BY <1>1, <1>4, <1>5 DEF whole
  <2> QED
    BY <1>3, <2>1, DerivedBasics DEF whole
<1>6. CASE ps # <<>> /\ ps[1][1] # "ok"
  BY <1>2, <1>3, <1>4, <1>6 DEF whole
<1>7. CASE ps # <<>> /\ ps[1][1] = "ok"
  <2> DEFINE head == ps[1]
             rest == FlattenSeq([i \in 1..Len(Tail(ps)) |-> <<">", ">">> \o Tail(ps)[i]])
  <2>1. head \in Text /\ Tail(ps) \in Seq(Text) /\ ps = <<head>> \o Tail(ps)
    BY <1>2, <1>7
  <2>2. FlattenSeq(ps) = head \o FlattenSeq(Tail(ps)) /\ FlattenSeq(Tail(ps)) \in Text
    <3>1. <<head>> \in Seq(Seq(Token)) /\ Tail(ps) \in Seq(Seq(Token))
      BY <2>1 DEF Text
    <3>2. FlattenSeq(ps) = FlattenSeq(<<head>>) \o FlattenSeq(Tail(ps))
      BY <2>1, <3>1, FlattenConcat
    <3>3. FlattenSeq(<<head>>) = head
      BY <2>1, FlattenOne DEF Text
    <3> QED
      BY <3>1, <3>2, <3>3, FlattenType DEF Text
  <2>3. rest \in Text /\ Derived(rest, FlattenSeq(Tail(ps)))
    <3> DEFINE m == <<">", ">">>
    <3>1. m \in Seq(Mark)
      BY DEF Mark
    <3> HIDE DEF m
    <3>2. LET marked == FlattenSeq([i \in 1..Len(Tail(ps)) |-> m \o Tail(ps)[i]])
          IN  marked \in Text /\ Derived(marked, FlattenSeq(Tail(ps)))
      BY <2>1, <3>1, MarkedDerive
    <3> QED
      BY <3>2 DEF m
  <2> DEFINE before == <<">", "**">>
             after == <<"**">>
  <2>4. Callout[body] = before \o head \o after \o rest
    BY <1>4, <1>7 DEF Quoted
  <2>5. before \in Seq(Mark) /\ after \in Seq(Mark) /\ <<>> \in Text
    BY TextBasics DEF Mark
  <2>6. before \in Text /\ after \in Text
    BY <2>5, TextBasics, SeqMonotonic DEF Text
  <2>7. Derived(before, <<>>) /\ Derived(after, <<>>) /\ Derived(head, head)
    BY <2>1, <2>5, DerivedBasics
  <2> HIDE DEF head, rest, before, after
  <2>8. Derived(before \o head, <<>> \o head) /\ <<>> \o head = head
    BY <2>1, <2>5, <2>6, <2>7, DerivedConcat, ConcatEmptySeq DEF Text
  <2>9. before \o head \in Text
    BY <2>1, <2>6, TextBasics
  <2>10. Derived(before \o head \o after, head \o <<>>) /\ head \o <<>> = head
    BY <2>1, <2>5, <2>6, <2>7, <2>8, <2>9, DerivedConcat, ConcatEmptySeq DEF Text
  <2>11. before \o head \o after \in Text
    BY <2>6, <2>9, TextBasics
  <2>12. Derived(Callout[body], FlattenSeq(ps)) /\ Callout[body] \in Text
    BY <2>1, <2>2, <2>3, <2>4, <2>10, <2>11, DerivedConcat, TextBasics
  <2>13. Derived(Callout[body], body)
    BY <1>2, <2>12, DerivedTwice
  <2> QED
    BY <1>3, <2>12, <2>13 DEF whole
<1> QED
  BY <1>5, <1>6, <1>7

\* The quotation of a passage has the lines of the passage.
LEMMA QuotedLinesDerive ==
  ASSUME NEW body \in Text
  PROVE  QuotedLines[body] \in Text /\ Derived(QuotedLines[body], body)
<1> DEFINE spans == Bodies(body, "<span>")
           m == <<">">>
<1>1. m \in Seq(Mark) /\ "<span>" \in Open
  BY DEF Mark, Open
<1>2. /\ spans \in Seq(Text)
      /\ FlattenSeq(spans) \in Text /\ Derived(FlattenSeq(spans), body)
  BY <1>1, BodiesDerive, SeqMonotonic
<1>3. QuotedLines[body] = FlattenSeq([i \in 1..Len(spans) |-> m \o spans[i]])
  BY DEF QuotedLines
<1> HIDE DEF spans, m
<1>4. /\ QuotedLines[body] \in Text
      /\ Derived(QuotedLines[body], FlattenSeq(spans))
  BY <1>1, <1>2, <1>3, MarkedDerive
<1> QED
  BY <1>2, <1>4, DerivedTwice

(***************************************************************************)
(* The passes                                                              *)
(***************************************************************************)

\* A pass that takes nothing but what it should.
Derives(pass) ==
  \A t \in Text : pass[t] \in Text /\ Derived(pass[t], t)

LEMMA TagsAreOpen ==
  /\ {"<svg>", "<cell>", "<q>", "<toc>", "<ext>", "<a>", "<span>", "<p>"}
       \subseteq Open
  /\ CloseOf["<q>"] = "</div>" /\ CloseOf["<cell>"] = "</cell>"
BY DEF Open, CloseOf

LEMMA BlockPassesDerive ==
  Derives(StripSvg) /\ Derives(ConvertCallouts) /\ Derives(ConvertQuotedDiv)
<1>1. ASSUME NEW t \in Text PROVE StripSvg[t] \in Text /\ Derived(StripSvg[t], t)
  <2> DEFINE rewrite == [body \in Text |-> <<>>]
  <2>1. \A x \in {"<svg>"}, body \in Text :
          /\ rewrite[body] \in Text
          /\ Derived(rewrite[body], <<x>> \o body \o <<CloseOf[x]>>)
    BY TagsAreOpen, BodyDerived, TextBasics, DerivedBasics
  <2>2. StripSvg[t] = Sub(t, {"<svg>"}, rewrite)
    BY DEF StripSvg
  <2> HIDE DEF rewrite
  <2> QED
    BY <2>1, <2>2, SubDerives, TagsAreOpen
<1>2. ASSUME NEW t \in Text
      PROVE  ConvertCallouts[t] \in Text /\ Derived(ConvertCallouts[t], t)
  <2>1. ConvertCallouts[t] = Sub(t, {"<cell>"}, Callout)
    BY DEF ConvertCallouts
  <2> QED
    BY <2>1, SubDerives, CalloutDerives, TagsAreOpen
<1>3. ASSUME NEW t \in Text
      PROVE  ConvertQuotedDiv[t] \in Text /\ Derived(ConvertQuotedDiv[t], t)
  <2>1. ConvertQuotedDiv[t] = Sub(t, {"<q>"}, QuotedLines)
    BY DEF ConvertQuotedDiv
  <2>2. \A body \in Text : Derived(QuotedLines[body], <<"<q>">> \o body \o <<CloseOf["<q>"]>>)
    BY BodyDerived, QuotedLinesDerive, TagsAreOpen
  <2> QED
    BY <2>1, <2>2, SubDerives, QuotedLinesDerive, TagsAreOpen
<1> QED
  BY <1>1, <1>2, <1>3 DEF Derives

LEMMA ExternalDerives ==
  ASSUME NEW t \in Text
  PROVE  ExternalAnchors[t] \in Text /\ Derived(ExternalAnchors[t], t)
<1> DEFINE rewrite == [body \in Text |-> <<"[">> \o body \o <<"]">>]
<1>1. ASSUME NEW body \in Text
      PROVE  /\ rewrite[body] \in Text
             /\ Derived(rewrite[body], <<"<ext>">> \o body \o <<CloseOf["<ext>"]>>)
  <2> DEFINE o == <<"[">>
             c == <<"]">>
  <2>1. o \in Seq(Mark) /\ c \in Seq(Mark)
    BY DEF Mark
  <2>2. o \in Text /\ c \in Text /\ <<>> \in Text
    BY <2>1, TextBasics, SeqMonotonic DEF Text
  <2>3. rewrite[body] = o \o body \o c
    OBVIOUS
  <2>4. Derived(o, <<>>) /\ Derived(c, <<>>) /\ Derived(body, body)
    BY <2>1, <2>2, DerivedBasics
  <2> HIDE DEF o, c, rewrite
  <2>5. o \o body \in Text /\ o \o body \o c \in Text
    BY <2>2, TextBasics
  <2>6. Derived(o \o body, <<>> \o body) /\ <<>> \o body = body
    BY <2>2, <2>4, DerivedConcat, ConcatEmptySeq DEF Text
  <2>7. Derived(o \o body \o c, body \o <<>>) /\ body \o <<>> = body
    BY <2>2, <2>4, <2>5, <2>6, DerivedConcat, ConcatEmptySeq DEF Text
  <2> QED
    BY <2>3, <2>5, <2>7, BodyDerived, TagsAreOpen
<1>2. ExternalAnchors[t] = Sub(t, {"<ext>"}, rewrite)
  BY DEF ExternalAnchors
<1> HIDE DEF rewrite
<1> QED
  BY <1>1, <1>2, SubDerives, TagsAreOpen

LEMMA AnchorsDerive == Derives(RewriteAnchors)
<1>1. ASSUME NEW t \in Text PROVE TocAnchors[t] \in Text /\ Derived(TocAnchors[t], t)
  BY UnwrapDerives, TagsAreOpen DEF TocAnchors
<1>2. ASSUME NEW t \in Text PROVE OtherAnchors[t] \in Text /\ Derived(OtherAnchors[t], t)
  BY UnwrapDerives, TagsAreOpen DEF OtherAnchors
<1>3. ASSUME NEW t \in Text
      PROVE  RewriteAnchors[t] \in Text /\ Derived(RewriteAnchors[t], t)
  <2>1. RewriteAnchors[t] = OtherAnchors[ExternalAnchors[TocAnchors[t]]]
    BY DEF RewriteAnchors
  <2> QED
    BY <1>1, <1>2, <2>1, ExternalDerives, DerivedTwice
<1> QED
  BY <1>3 DEF Derives

\* Passes one after the other.
LEMMA StepsDerive ==
  ASSUME NEW n \in Nat, NEW t \in Text, NEW step, \A k \in 1..n : Derives(step[k]),
         NEW g, g = [k \in 0..n |-> IF k = 0 THEN t ELSE step[k][g[k - 1]]]
  PROVE  \A k \in 0..n : g[k] \in Text /\ Derived(g[k], t)
<1> DEFINE Q(k) == g[k] \in Text /\ Derived(g[k], t)
           T == {k \in 0..n : ~Q(k)}
<1>1. Q(0)
  BY DerivedBasics
<1>2. ASSUME NEW k \in 1..n, Q(k - 1) PROVE Q(k)
  <2>1. g[k] = step[k][g[k - 1]]
    OBVIOUS
  <2>2. g[k] \in Text /\ Derived(g[k], g[k - 1])
    BY <1>2, <2>1 DEF Derives
  <2> QED
    BY <1>2, <2>2, DerivedTwice
<1> HIDE DEF Q
<1>3. T = {}
  <2> SUFFICES ASSUME T # {} PROVE FALSE
    OBVIOUS
  <2>1. PICK k \in T : \A l \in T : k <= l
    <3>1. T \in SUBSET Nat
      OBVIOUS
    <3> HIDE DEF T
    <3> QED
      BY <3>1, LeastNumber
  <2>2. k \in 1..n /\ k - 1 \in 0..n /\ ~(k <= k - 1)
    BY <1>1, <2>1
  <2>3. Q(k - 1)
    BY <2>1, <2>2
  <2> QED
    BY <1>2, <2>1, <2>2, <2>3
<1> QED
  BY <1>3 DEF Q

\* Tokens that become marks.
LEMMA MappedDerive ==
  ASSUME NEW t \in Text, NEW u \in Text, Len(u) = Len(t),
         \A i \in 1..Len(t) : u[i] \in Mark \/ u[i] = t[i]
  PROVE  Derived(u, t)
<1> DEFINE f == [i \in 1..Len(u) |-> i]
<1>1. Len(t) \in Nat
  BY DEF Text
<1>2. f \in [1..Len(u) -> Nat] /\ \A i \in 1..Len(u) : f[i] = i
  BY <1>1
<1> HIDE DEF f
<1> QED
  BY <1>1, <1>2 DEF Derived

\* A round of the loop over the spans.
SpanRound == [t \in Text |-> Unwrap(t, {"<span>"})]

LEMMA SpansInRounds ==
  ASSUME NEW t \in Text
  PROVE  \E g : /\ g = [k \in 0..Len(t) |->
                         IF k = 0 THEN t ELSE [j \in 1..Len(t) |-> SpanRound][k][g[k - 1]]]
                /\ StripSpans[t] = Without(g[Len(t) \div 2], {"<span>", "</span>"})
<1> DEFINE n == Len(t)
           step == [k \in 1..n |-> SpanRound]
           after[k \in 0..n] == IF k = 0 THEN t ELSE SpanRound[after[k - 1]]
<1>1. n \in Nat
  BY DEF Text
<1>2. \E g : g = [k \in 0..n |-> IF k = 0 THEN t ELSE SpanRound[g[k - 1]]]
  <2>1. \A k \in 0..n : k # 0 => step[k] = SpanRound
    BY <1>1
  <2> HIDE DEF step, n, after
  <2>2. PICK g : Handed(g, n, t, step)
    BY <1>1, StepByStep
  <2>3. g = [k \in 0..n |-> IF k = 0 THEN t ELSE SpanRound[g[k - 1]]]
    BY <2>1, <2>2 DEF Handed
  <2> QED
    BY <2>3
<1>3. after = [k \in 0..n |-> IF k = 0 THEN t ELSE SpanRound[after[k - 1]]]
  BY <1>2
<1>4. StripSpans[t] = Without(after[n \div 2], {"<span>", "</span>"})
  BY DEF StripSpans, SpanRound
<1>5. \A k \in 1..n : step[k] = SpanRound
  OBVIOUS
<1> HIDE DEF after, step, n
<1>6. after = [k \in 0..n |-> IF k = 0 THEN t ELSE step[k][after[k - 1]]]
  BY <1>1, <1>3, <1>5
<1> QED
  BY <1>4, <1>6 DEF n, step

\* The tags each of the other passes takes away, paired or not.
LEMMA SpansDerive ==
  ASSUME NEW t \in Text
  PROVE  /\ StripSpans[t] \in Text /\ Derived(StripSpans[t], t)
         /\ \A S \in SUBSET Token : Mark \subseteq S /\ t \in Seq(S) =>
              StripSpans[t] \in Seq(S \ {"<span>", "</span>"})
<1> DEFINE n == Len(t)
           step == [k \in 1..n |-> SpanRound]
<1>1. n \in Nat /\ n \div 2 \in 0..n
  BY DEF Text
<1>2. PICK after :
        /\ after = [k \in 0..n |-> IF k = 0 THEN t ELSE step[k][after[k - 1]]]
        /\ StripSpans[t] = Without(after[n \div 2], {"<span>", "</span>"})
  BY SpansInRounds
<1>3. Derives(SpanRound)
  BY UnwrapDerives, TagsAreOpen DEF Derives, SpanRound
<1>4. \A k \in 1..n : step[k] = SpanRound
  OBVIOUS
<1> HIDE DEF step, n
<1>5. \A k \in 0..n : after[k] \in Text /\ Derived(after[k], t)
  BY <1>1, <1>2, <1>3, <1>4, StepsDerive
<1> DEFINE u == after[n \div 2]
<1>6. u \in Text /\ Derived(u, t)
  BY <1>1, <1>5
<1> HIDE DEF u
<1>7. ASSUME NEW S \in SUBSET Token, Mark \subseteq S, t \in Seq(S)
      PROVE  StripSpans[t] \in Seq(S \ {"<span>", "</span>"})
  <2>1. S \cup Mark = S
    BY <1>7
  <2>2. u \in Seq(S)
    BY <1>6, <1>7, <2>1, DerivedTokens
  <2> QED
    BY <1>2, <2>2, WithoutDerives DEF u
<1>8. /\ Without(u, {"<span>", "</span>"}) \in Seq(Token \ {"<span>", "</span>"})
      /\ Derived(Without(u, {"<span>", "</span>"}), u)
  BY <1>6, WithoutDerives DEF Text
<1>9. StripSpans[t] \in Text /\ Derived(StripSpans[t], u)
  BY <1>2, <1>8, SeqMonotonic DEF Text, u
<1>10. Derived(StripSpans[t], t)
  BY <1>6, <1>9, DerivedTwice
<1> QED
  BY <1>7, <1>9, <1>10

LEMMA ImagesDerive ==
  ASSUME NEW t \in Text
  PROVE  /\ ConvertImgTags[t] \in Text /\ Derived(ConvertImgTags[t], t)
         /\ \A S \in SUBSET Token : Mark \subseteq S /\ t \in Seq(S) =>
              ConvertImgTags[t] \in Seq(S \ {"<img>", "<img/>"})
<1> DEFINE u == Without(t, {"<img/>"})
           v == ConvertImgTags[t]
<1>1. v = Becomes(u, {"<img>"}, "![]")
  BY DEF ConvertImgTags
<1>2. "![]" \in Mark /\ "<img>" \notin Mark /\ "<img/>" \notin Mark
  BY DEF Mark
<1>3. ASSUME NEW S \in SUBSET Token, Mark \subseteq S, t \in Seq(S)
      PROVE  /\ u \in Seq(S \ {"<img/>"}) /\ Derived(u, t)
             /\ v \in Seq(S \ {"<img>", "<img/>"})
  <2>1. u \in Seq(S \ {"<img/>"}) /\ Derived(u, t)
    BY <1>3, WithoutDerives
  <2> HIDE DEF u, v
  <2>2. \A i \in 1..Len(u) : u[i] \in S \ {"<img/>"}
    BY <2>1
  <2>3. v = [i \in 1..Len(u) |-> IF u[i] \in {"<img>"} THEN "![]" ELSE u[i]]
    BY <1>1 DEF Becomes
  <2>4. \A i \in 1..Len(u) : v[i] \in S \ {"<img>", "<img/>"}
    BY <1>2, <1>3, <2>2, <2>3
  <2>5. Len(u) \in Nat
    BY <2>1
  <2>6. v \in Seq(S \ {"<img>", "<img/>"})
    <3> DEFINE W == S \ {"<img>", "<img/>"}
    <3>1. \A i \in 1..Len(u) : (IF u[i] \in {"<img>"} THEN "![]" ELSE u[i]) \in W
      BY <1>2, <1>3, <2>2
    <3> HIDE DEF W
    <3>2. [i \in 1..Len(u) |-> IF u[i] \in {"<img>"} THEN "![]" ELSE u[i]] \in Seq(W)
      BY <2>5, <3>1, IsASeq
    <3> QED
      BY <2>3, <3>2 DEF W
  <2> QED
    BY <2>1, <2>6
<1>4. u \in Text /\ Derived(u, t) /\ v \in Text
  <2>1. Token \in SUBSET Token /\ Mark \subseteq Token /\ t \in Seq(Token)
    BY DEF Text, Token
  <2> HIDE DEF u, v
  <2>2. /\ u \in Seq(Token \ {"<img/>"}) /\ Derived(u, t)
        /\ v \in Seq(Token \ {"<img>", "<img/>"})
    BY <1>3, <2>1
  <2>3. \A B : Seq(Token \ B) \subseteq Seq(Token)
    BY SeqMonotonic
  <2> QED
    BY <2>2, <2>3 DEF Text
<1>5. Derived(v, u)
  <2>1. /\ Len(u) \in Nat /\ Len(v) = Len(u)
        /\ \A i \in 1..Len(u) : v[i] = IF u[i] \in {"<img>"} THEN "![]" ELSE u[i]
    BY <1>1, <1>4 DEF Becomes, Text
  <2> HIDE DEF u, v
  <2> QED
    BY <1>2, <1>4, <2>1, MappedDerive
<1> HIDE DEF u, v
<1>6. Derived(v, t)
  BY <1>4, <1>5, DerivedTwice
<1> QED
  BY <1>3, <1>4, <1>6 DEF v

\* What a text says: its words, and which of them are quoted.
Said == Word \cup {">"}

LEMMA ResidualMaps ==
  ASSUME NEW t \in Text
  PROVE  \E u \in Text :
           /\ Len(u) = Len(t)
           /\ \A i \in 1..Len(t) : u[i] = t[i] \/ (u[i] \notin Said /\ t[i] \notin Said)
           /\ StripResidualHtml[t] = Without(u, {"<br>", "<u>", "</u>"})
<1> DEFINE Mapped(x) == CASE x \in {"<b>", "</b>"} -> "**"
                          [] x \in {"<i>", "</i>"} -> "*"
                          [] x = "<hr>" -> "---"
                          [] OTHER -> x
           u == [i \in 1..Len(t) |-> Mapped(t[i])]
<1>1. StripResidualHtml[t] = Without(u, {"<br>", "<u>", "</u>"})
  BY DEF StripResidualHtml
<1>2. \A x \in Token : /\ Mapped(x) \in Token
                       /\ Mapped(x) = x \/ (Mapped(x) \notin Said /\ x \notin Said)
  BY DEF Mark, Said, Word, Token
<1>3. Len(t) \in Nat /\ \A i \in 1..Len(t) : t[i] \in Token
  BY DEF Text
<1> HIDE DEF Mapped
<1>4. u \in Text
  BY <1>2, <1>3, IsASeq DEF Text
<1>5. /\ Len(u) = Len(t)
      /\ \A i \in 1..Len(t) : u[i] = t[i] \/ (u[i] \notin Said /\ t[i] \notin Said)
  BY <1>2, <1>3
<1> HIDE DEF u
<1> QED
  BY <1>1, <1>4, <1>5

LEMMA ResidualDerives ==
  ASSUME NEW t \in Text
  PROVE  /\ StripResidualHtml[t] \in Text /\ Derived(StripResidualHtml[t], t)
         /\ \A S \in SUBSET Token : Mark \subseteq S /\ t \in Seq(S) =>
              StripResidualHtml[t] \in
                Seq(S \ {"<b>", "</b>", "<i>", "</i>", "<hr>", "<br>", "<u>", "</u>"})
<1> DEFINE Mapped(x) == CASE x \in {"<b>", "</b>"} -> "**"
                          [] x \in {"<i>", "</i>"} -> "*"
                          [] x = "<hr>" -> "---"
                          [] OTHER -> x
           Bold == {"<b>", "</b>", "<i>", "</i>", "<hr>"}
           Gone == {"<br>", "<u>", "</u>"}
           u == [i \in 1..Len(t) |-> Mapped(t[i])]
           v == StripResidualHtml[t]
<1>1. v = Without(u, Gone)
  BY DEF StripResidualHtml
<1>2. \A x : Mapped(x) \in Mark \/ (Mapped(x) = x /\ x \notin Bold)
  BY DEF Mark
<1>3. Mark \cap Bold = {}
  BY DEF Mark
<1> HIDE DEF Mapped, Bold, v
<1>4. ASSUME NEW S \in SUBSET Token, Mark \subseteq S, t \in Seq(S)
      PROVE  u \in Seq(S \ Bold) /\ v \in Seq((S \ Bold) \ Gone)
  <2>1. Len(t) \in Nat /\ \A i \in 1..Len(t) : t[i] \in S
    BY <1>4
  <2>2. \A i \in 1..Len(t) : Mapped(t[i]) \in S \ Bold
    BY <1>2, <1>3, <1>4, <2>1
  <2>3. u \in Seq(S \ Bold)
    BY <2>1, <2>2, IsASeq
  <2>4. S \ Bold \in SUBSET Token
    OBVIOUS
  <2> HIDE DEF u, Gone
  <2> QED
    BY <1>1, <2>3, <2>4, WithoutDerives
<1>5. Token \in SUBSET Token /\ Mark \subseteq Token /\ t \in Seq(Token)
  BY TextBasics DEF Text
<1>6. \A B : Seq(Token \ B) \subseteq Text
  BY SeqMonotonic DEF Text
<1>7. u \in Text
  <2> HIDE DEF u, Gone
  <2> QED
    BY <1>4, <1>5, <1>6
<1>8. Derived(u, t)
  <2>1. Len(t) \in Nat
    BY DEF Text
  <2>2. Len(u) = Len(t) /\ \A i \in 1..Len(t) : u[i] \in Mark \/ u[i] = t[i]
    BY <1>2, <2>1
  <2> HIDE DEF u
  <2> QED
    BY <1>7, <2>2, MappedDerive
<1> HIDE DEF u, Gone
<1>9. v \in Text /\ Derived(v, u)
  <2>1. v \in Seq(Token \ Gone) /\ Derived(v, u)
    BY <1>1, <1>5, <1>7, WithoutDerives DEF Text
  <2> QED
    BY <1>6, <2>1
<1>10. Derived(v, t)
  BY <1>7, <1>8, <1>9, DerivedTwice
<1>11. \A S : (S \ Bold) \ Gone
               = S \ {"<b>", "</b>", "<i>", "</i>", "<hr>", "<br>", "<u>", "</u>"}
  BY DEF Bold, Gone
<1> QED
  BY <1>4, <1>9, <1>10, <1>11 DEF v

LEMMA ScaffoldDerives ==
  ASSUME NEW t \in Text
  PROVE  /\ StripTableScaffold[t] \in Text /\ Derived(StripTableScaffold[t], t)
         /\ StripDivs[t] \in Text /\ Derived(StripDivs[t], t)
         /\ \A S \in SUBSET Token : t \in Seq(S) =>
              /\ StripTableScaffold[t] \in Seq(S \ {"<cell>", "</cell>"})
              /\ StripDivs[t] \in Seq(S \ {"<q>", "<div>", "</div>"})
<1>1. /\ StripTableScaffold[t] = Without(t, {"<cell>", "</cell>"})
      /\ StripDivs[t] = Without(t, {"<q>", "<div>", "</div>"})
  BY DEF StripTableScaffold, StripDivs
<1>2. ASSUME NEW B
      PROVE  /\ Without(t, B) \in Text /\ Derived(Without(t, B), t)
             /\ \A S \in SUBSET Token : t \in Seq(S) => Without(t, B) \in Seq(S \ B)
  <2>1. Without(t, B) \in Seq(Token \ B) /\ Derived(Without(t, B), t)
    BY WithoutDerives DEF Text
  <2>2. Seq(Token \ B) \subseteq Text
    BY SeqMonotonic DEF Text
  <2>3. \A S \in SUBSET Token : t \in Seq(S) => Without(t, B) \in Seq(S \ B)
    BY WithoutDerives
  <2> QED
    BY <2>1, <2>2, <2>3
<1> QED
  BY <1>1, <1>2

(***************************************************************************)
(* The whole cleaner                                                       *)
(***************************************************************************)

LEMMA PassesDerive == Len(Passes) = 10 /\ \A i \in 1..10 : Derives(Passes[i])
<1>1. /\ Derives(StripTableScaffold) /\ Derives(StripDivs) /\ Derives(StripSpans)
      /\ Derives(ConvertImgTags) /\ Derives(StripResidualHtml)
  BY ScaffoldDerives, SpansDerive, ImagesDerive, ResidualDerives DEF Derives
<1>2. Derives(UnwrapParagraphs)
  BY UnwrapDerives, TagsAreOpen DEF Derives, UnwrapParagraphs
<1>3. Len(Passes) = 10
  BY DEF Passes
<1>4. /\ Derives(Passes[1]) /\ Derives(Passes[2]) /\ Derives(Passes[4])
      /\ Derives(Passes[5])
  BY BlockPassesDerive, AnchorsDerive DEF Passes
<1>5. /\ Derives(Passes[3]) /\ Derives(Passes[6]) /\ Derives(Passes[7])
      /\ Derives(Passes[8]) /\ Derives(Passes[9]) /\ Derives(Passes[10])
  BY <1>1, <1>2 DEF Passes
<1> QED
  BY <1>3, <1>4, <1>5

\* The text after each pass.
LEMMA CleanedInPasses ==
  ASSUME NEW t \in Text
  PROVE  \E g : /\ Clean(t) = g[10] /\ Handed(g, 10, t, Passes)
                /\ \A i \in 1..10 : g[i] = Passes[i][g[i - 1]]
                /\ \A i \in 0..10 : g[i] \in Text /\ Derived(g[i], t)
<1> DEFINE after[i \in 0..Len(Passes)] ==
             IF i = 0 THEN t ELSE Passes[i][after[i - 1]]
<1>1. Len(Passes) = 10 /\ Len(Passes) \in Nat /\ \A i \in 1..10 : Derives(Passes[i])
  BY PassesDerive
<1>2. \E g : g = [i \in 0..Len(Passes) |->
                    IF i = 0 THEN t ELSE Passes[i][g[i - 1]]]
  <2>1. \E g : Handed(g, Len(Passes), t, Passes)
    BY <1>1, StepByStep
  <2> QED
    BY <2>1 DEF Handed
<1>3. after = [i \in 0..Len(Passes) |->
                 IF i = 0 THEN t ELSE Passes[i][after[i - 1]]]
  BY <1>2
<1>4. Clean(t) = after[Len(Passes)]
  BY DEF Clean
<1> HIDE DEF after
<1>5. \A i \in 0..10 : after[i] \in Text /\ Derived(after[i], t)
  BY <1>1, <1>3, StepsDerive
<1>6. Handed(after, 10, t, Passes) /\ \A i \in 1..10 : after[i] = Passes[i][after[i - 1]]
  BY <1>1, <1>3 DEF Handed
<1> QED
  BY <1>1, <1>4, <1>5, <1>6

\* Whatever the converter wrote, tags nested or not: the cleaned text holds
\* words and tags of the converter's, each at most once and in their order, and
\* besides them the marks of the quotes, links, emphasis and images.
THEOREM CleanDerives ==
  \A t \in Text : Clean(t) \in Text /\ Derived(Clean(t), t)
<1> SUFFICES ASSUME NEW t \in Text PROVE Clean(t) \in Text /\ Derived(Clean(t), t)
  OBVIOUS
<1>1. PICK g : /\ Clean(t) = g[10]
               /\ \A i \in 0..10 : g[i] \in Text /\ Derived(g[i], t)
  BY CleanedInPasses
<1> QED
  BY <1>1

\* What no converter's Markdown keeps.  (A paragraph, an anchor or a drawing
\* without its other half stays.)
Scaffold ==
  {"<cell>", "</cell>", "<span>", "</span>", "<q>", "<div>", "</div>",
   "<img>", "<img/>", "<b>", "</b>", "<i>", "</i>", "<hr>", "<br>", "<u>", "</u>"}

\* Whatever the converter wrote, no table, span, div, image tag, emphasis or
\* line break is left of it: a pass brings none back that one before it took.
THEOREM NoScaffoldLeft ==
  \A t \in Text : Clean(t) \in Seq(Token \ Scaffold)
<1> SUFFICES ASSUME NEW t \in Text PROVE Clean(t) \in Seq(Token \ Scaffold)
  OBVIOUS
<1>1. PICK g : /\ Clean(t) = g[10]
               /\ \A i \in 1..10 : g[i] = Passes[i][g[i - 1]]
               /\ \A i \in 0..10 : g[i] \in Text
  BY CleanedInPasses
<1>2. ASSUME NEW S \in SUBSET Token, Mark \subseteq S, NEW i \in 1..10,
             g[i - 1] \in Seq(S)
      PROVE  g[i] \in Seq(S)
  <2>1. g[i - 1] \in Text /\ g[i] \in Text /\ Derived(g[i], g[i - 1])
    <3>1. i - 1 \in 0..10 /\ i \in 0..10
      OBVIOUS
    <3> QED
      BY <1>1, <3>1, PassesDerive DEF Derives
  <2>2. S \cup Mark = S
    BY <1>2
  <2> QED
    BY <1>2, <2>1, <2>2, DerivedTokens
<1> DEFINE S3 == Token \ {"<cell>", "</cell>"}
           S6 == S3 \ {"<span>", "</span>"}
           S8 == S6 \ {"<q>", "<div>", "</div>"}
           S9 == S8 \ {"<img>", "<img/>"}
<1>3. /\ S3 \in SUBSET Token /\ S6 \in SUBSET Token /\ S8 \in SUBSET Token
      /\ S9 \in SUBSET Token
      /\ Mark \subseteq S3 /\ Mark \subseteq S6 /\ Mark \subseteq S8 /\ Mark \subseteq S9
  BY TextBasics DEF Mark
<1>4. Token \ Scaffold =
        S9 \ {"<b>", "</b>", "<i>", "</i>", "<hr>", "<br>", "<u>", "</u>"}
  BY DEF Scaffold
<1>5. /\ g[3] = StripTableScaffold[g[2]] /\ g[6] = StripSpans[g[5]]
      /\ g[8] = StripDivs[g[7]] /\ g[9] = ConvertImgTags[g[8]]
      /\ g[10] = StripResidualHtml[g[9]]
  BY <1>1 DEF Passes
<1>6. /\ g[2] \in Text /\ g[5] \in Text /\ g[7] \in Text /\ g[8] \in Text
      /\ g[9] \in Text
  BY <1>1
<1>7. g[3] \in Seq(S3)
  BY <1>5, <1>6, ScaffoldDerives DEF Text
<1> HIDE DEF S3, S6, S8, S9
<1>8. g[4] \in Seq(S3) /\ g[5] \in Seq(S3)
  <2>1. 4 - 1 = 3 /\ 5 - 1 = 4 /\ 4 \in 1..10 /\ 5 \in 1..10
    OBVIOUS
  <2> QED
    BY <1>2, <1>3, <1>7, <2>1
<1>9. g[6] \in Seq(S6)
  BY <1>3, <1>5, <1>6, <1>8, SpansDerive DEF S6
<1>10. g[7] \in Seq(S6)
  <2>1. 7 - 1 = 6 /\ 7 \in 1..10
    OBVIOUS
  <2> QED
    BY <1>2, <1>3, <1>9, <2>1
<1>11. g[8] \in Seq(S8)
  BY <1>3, <1>5, <1>6, <1>10, ScaffoldDerives DEF S8
<1>12. g[9] \in Seq(S9)
  BY <1>3, <1>5, <1>6, <1>11, ImagesDerive DEF S9
<1> QED
  BY <1>1, <1>3, <1>4, <1>5, <1>6, <1>12, ResidualDerives

(***************************************************************************)
(* What is kept                                                            *)
(***************************************************************************)

\* Besides the passes that mean to, for drawings, call-outs and quoted passages,
\* none loses a word or makes a quotation.
Words(t) == Without(t, Token \ Said)
Plain == Token \ {"<svg>", "<cell>", "<q>"}
Keeps(pass) == \A t \in Seq(Plain) : Words(pass[t]) = Words(t)
SameWords == {d \in Text \X Text : Words(d[1]) = Words(d[2])}

LEMMA WordsConcat ==
  ASSUME NEW u \in Text, NEW v \in Text
  PROVE  Words(u \o v) = Words(u) \o Words(v)
<1> DEFINE Part(x) == IF x \in Token \ Said THEN <<>> ELSE <<x>>
           a == [i \in 1..Len(u) |-> Part(u[i])]
           b == [i \in 1..Len(v) |-> Part(v[i])]
           w == u \o v
           c == [i \in 1..Len(w) |-> Part(w[i])]
<1>1. Words(u) = FlattenSeq(a) /\ Words(v) = FlattenSeq(b) /\ Words(w) = FlattenSeq(c)
  BY DEF Words, Without
<1>2. /\ Len(u) \in Nat /\ Len(v) \in Nat /\ Len(w) = Len(u) + Len(v)
      /\ \A i \in 1..Len(w) : w[i] = IF i <= Len(u) THEN u[i] ELSE v[i - Len(u)]
      /\ w \in Text
  BY ConcatProperties DEF Text
<1>3. \A x \in Token : Part(x) \in Seq(Token)
  BY EmptySeq
<1>4. \A s \in Text : [i \in 1..Len(s) |-> Part(s[i])] \in Seq(Seq(Token))
  <2> SUFFICES ASSUME NEW s \in Text
               PROVE  [i \in 1..Len(s) |-> Part(s[i])] \in Seq(Seq(Token))
    OBVIOUS
  <2>1. Len(s) \in Nat /\ \A i \in 1..Len(s) : s[i] \in Token
    BY DEF Text
  <2> HIDE DEF Part
  <2>2. \A i \in 1..Len(s) : Part(s[i]) \in Seq(Token)
    BY <1>3, <2>1
  <2> QED
    BY <2>1, <2>2, IsASeq
<1> HIDE DEF Part, w
<1>5. a \in Seq(Seq(Token)) /\ b \in Seq(Seq(Token)) /\ c \in Seq(Seq(Token))
  BY <1>2, <1>4
<1>6. c = a \o b
  <2>1. Len(a) = Len(u) /\ Len(b) = Len(v) /\ Len(c) = Len(w)
    BY <1>2
  <2>2. \A i \in 1..Len(c) : c[i] = (a \o b)[i]
    <3> SUFFICES ASSUME NEW i \in 1..Len(c) PROVE c[i] = (a \o b)[i]
      OBVIOUS
    <3>1. c[i] = IF i <= Len(u) THEN Part(u[i]) ELSE Part(v[i - Len(u)])
      BY <1>2, <2>1
    <3>2. (a \o b)[i] = IF i <= Len(u) THEN a[i] ELSE b[i - Len(u)]
      BY <1>2, <1>5, <2>1, ConcatProperties
    <3>3. IF i <= Len(u) THEN a[i] = Part(u[i])
                         ELSE b[i - Len(u)] = Part(v[i - Len(u)])
      BY <1>2, <2>1
    <3> QED
      BY <3>1, <3>2, <3>3
  <2>3. Len(a \o b) = Len(c) /\ a \o b \in Seq(Seq(Token))
    BY <1>2, <1>5, <2>1, ConcatProperties
  <2> HIDE DEF a, b, c
  <2> QED
    BY <1>5, <2>2, <2>3, SeqEqual
<1>7. FlattenSeq(a \o b) = FlattenSeq(a) \o FlattenSeq(b)
  BY <1>5, FlattenConcat
<1> QED
  BY <1>1, <1>6, <1>7 DEF w

LEMMA WordsOfOne ==
  /\ Words(<<>>) = <<>>
  /\ \A x \in Token \ Said : Words(<<x>>) = <<>>
<1>1. Words(<<>>) = <<>>
  <2>1. Words(<<>>) = FlattenSeq(<<>>)
    BY DEF Words, Without
  <2> QED
    BY <2>1, FlattenFromLeft
<1>2. ASSUME NEW x \in Token \ Said PROVE Words(<<x>>) = <<>>
  <2>1. Words(<<x>>) = FlattenSeq(<<<<>>>>)
    <3>1. [i \in 1..Len(<<x>>) |-> IF <<x>>[i] \in Token \ Said THEN <<>> ELSE <<<<x>>[i]>>]
            = <<<<>>>>
      OBVIOUS
    <3> QED
      BY <3>1 DEF Words, Without
  <2>2. PICK g : Joined(g, <<<<>>>>, 1) /\ FlattenSeq(<<<<>>>>) = g[1]
    <3>1. Len(<<<<>>>>) = 1 /\ 1 \in Nat /\ 1 # 0
      OBVIOUS
    <3> QED
      BY <3>1, FlattenFromLeft
  <2> QED
    BY <2>1, <2>2 DEF Joined
<1> QED
  BY <1>1, <1>2

LEMMA SameWordsCongruence == Congruence(SameWords)
<1>1. <<<<>>, <<>>>> \in SameWords
  BY TextBasics DEF SameWords
<1>2. ASSUME NEW u, NEW v, NEW s, NEW r,
             <<u, s>> \in SameWords, <<v, r>> \in SameWords
      PROVE  <<u \o v, s \o r>> \in SameWords
  <2>1. /\ u \in Text /\ v \in Text /\ s \in Text /\ r \in Text
        /\ Words(u) = Words(s) /\ Words(v) = Words(r)
    BY <1>2 DEF SameWords
  <2>2. /\ Words(u \o v) = Words(u) \o Words(v)
        /\ Words(s \o r) = Words(s) \o Words(r)
    BY <2>1, WordsConcat
  <2>3. u \o v \in Text /\ s \o r \in Text
    BY <2>1, TextBasics
  <2>4. Words(u \o v) = Words(s \o r)
    BY <2>1, <2>2
  <2> QED
    BY <2>3, <2>4 DEF SameWords
<1> QED
  BY <1>1, <1>2 DEF Congruence

\* Tokens that are no words may stand before and behind.
LEMMA WordsWithin ==
  ASSUME NEW x \in Token \ Said, NEW body \in Text, NEW y \in Token \ Said
  PROVE  /\ <<x>> \o body \o <<y>> \in Text
         /\ Words(<<x>> \o body \o <<y>>) = Words(body)
<1> DEFINE o == <<x>>
           c == <<y>>
<1>1. o \in Text /\ c \in Text /\ o \o body \in Text /\ (o \o body) \o c \in Text
  BY TextBasics
<1>2. Words(o) = <<>> /\ Words(c) = <<>>
  BY WordsOfOne
<1>3. Words(body) \in Seq(Token)
  <2>1. Without(body, Token \ Said) \in Seq(Token \ (Token \ Said))
    BY WithoutDerives DEF Text
  <2> QED
    BY <2>1, SeqMonotonic DEF Words
<1> HIDE DEF o, c
<1>4. /\ Words(o \o body) = Words(o) \o Words(body)
      /\ Words((o \o body) \o c) = Words(o \o body) \o Words(c)
  BY <1>1, WordsConcat
<1>5. (<<>> \o Words(body)) \o <<>> = Words(body)
  BY <1>3, ConcatEmptySeq
<1> QED
  BY <1>1, <1>2, <1>4, <1>5 DEF o, c

LEMMA TagsSayNothing ==
  /\ Open \cap Said = {} /\ "[" \notin Said /\ "]" \notin Said
  /\ \A x \in Open : CloseOf[x] \in Token \ Said
  /\ Mark \subseteq Plain /\ Plain \subseteq Token
<1>1. Open \cap Said = {} /\ "[" \notin Said /\ "]" \notin Said
  BY DEF Open, Said, Word
<1>2. \A x \in Open : CloseOf[x] \notin Said
  BY DEF Open, CloseOf, Said, Word
<1>3. Mark \subseteq Plain /\ Plain \subseteq Token
  BY TextBasics DEF Plain, Mark
<1> QED
  BY <1>1, <1>2, <1>3, TextBasics

LEMMA SubKeeps ==
  ASSUME NEW t \in Seq(Plain), NEW tags \in SUBSET Open, NEW rewrite,
         \A x \in tags \cap Plain, body \in Seq(Plain) :
           rewrite[body] \in Text /\ Words(rewrite[body]) = Words(body)
  PROVE  Words(Sub(t, tags, rewrite)) = Words(t)
<1> DEFINE miss == [x \in Token |-> <<x>>]
<1>1. \A x \in Plain : <<miss[x], <<x>>>> \in SameWords
  BY TextBasics, TagsSayNothing DEF SameWords
<1>2. ASSUME NEW x \in tags \cap Plain, NEW body \in Seq(Plain \ {CloseOf[x]})
      PROVE  <<rewrite[body], <<x>> \o body \o <<CloseOf[x]>>>> \in SameWords
  <2>1. body \in Seq(Plain) /\ body \in Text
    BY TagsSayNothing, SeqMonotonic DEF Text
  <2>2. x \in Token \ Said /\ CloseOf[x] \in Token \ Said
    BY TagsSayNothing, TextBasics
  <2>3. /\ <<x>> \o body \o <<CloseOf[x]>> \in Text
        /\ Words(<<x>> \o body \o <<CloseOf[x]>>) = Words(body)
    BY <2>1, <2>2, WordsWithin
  <2>4. rewrite[body] \in Text /\ Words(rewrite[body]) = Words(body)
    BY <2>1
  <2>5. Words(rewrite[body]) = Words(<<x>> \o body \o <<CloseOf[x]>>)
    BY <2>3, <2>4
  <2> QED
    BY <2>3, <2>4, <2>5 DEF SameWords
<1> HIDE DEF miss
<1>3. Plain \in SUBSET Token
  BY TagsSayNothing
<1>4. <<Scan(t, tags, rewrite, miss), t>> \in SameWords
  BY <1>1, <1>2, <1>3, SameWordsCongruence, ScanRelates
<1>5. Sub(t, tags, rewrite) = Scan(t, tags, rewrite, miss)
  BY DEF Sub, miss
<1>6. Words(Scan(t, tags, rewrite, miss)) = Words(t)
  BY <1>4 DEF SameWords
<1> QED
  BY <1>5, <1>6

LEMMA UnwrapKeeps ==
  ASSUME NEW t \in Seq(Plain), NEW tags \in SUBSET Open
  PROVE  Words(Unwrap(t, tags)) = Words(t)
<1> DEFINE same == [body \in Text |-> body]
<1>1. \A body \in Seq(Plain) : body \in Text /\ same[body] = body
  BY TagsSayNothing, SeqMonotonic DEF Text
<1>2. Unwrap(t, tags) = Sub(t, tags, same)
  BY DEF Unwrap
<1> HIDE DEF same
<1>3. \A x \in tags \cap Plain, body \in Seq(Plain) :
        same[body] \in Text /\ Words(same[body]) = Words(body)
  BY <1>1
<1> QED
  BY <1>2, <1>3, SubKeeps

LEMMA WithoutKeeps ==
  ASSUME NEW t \in Text, NEW tokens, tokens \cap Said = {}
  PROVE  Words(Without(t, tokens)) = Words(t)
<1> DEFINE parts == [i \in 1..Len(t) |-> IF t[i] \in tokens THEN <<>> ELSE <<t[i]>>]
<1>1. Len(t) \in Nat /\ \A i \in 1..Len(t) : t[i] \in Token
  BY DEF Text
<1>2. ASSUME NEW i \in 1..Len(t) PROVE <<parts[i], <<t[i]>>>> \in SameWords
  <2>1. parts[i] = IF t[i] \in tokens THEN <<>> ELSE <<t[i]>>
    OBVIOUS
  <2>2. <<t[i]>> \in Text /\ <<>> \in Text
    BY <1>1, TextBasics
  <2>3. CASE t[i] \in tokens
    <3>1. Words(<<>>) = Words(<<t[i]>>)
      BY <1>1, <2>3, WordsOfOne
    <3> QED
      BY <2>1, <2>2, <2>3, <3>1 DEF SameWords
  <2>4. CASE t[i] \notin tokens
    BY <2>1, <2>2, <2>4 DEF SameWords
  <2> QED
    BY <2>3, <2>4
<1>3. Len(parts) = Len(t) /\ (Len(t) = 0 => parts = <<>>)
  BY <1>1
<1>4. Without(t, tokens) = FlattenSeq(parts)
  BY DEF Without
<1> HIDE DEF parts
<1>5. <<FlattenSeq(parts), t>> \in SameWords
  BY <1>2, <1>3, SameWordsCongruence, EachRelates
<1>6. Words(FlattenSeq(parts)) = Words(t)
  BY <1>5 DEF SameWords
<1> QED
  BY <1>4, <1>6

LEMMA MappedKeep ==
  ASSUME NEW t \in Text, NEW u \in Text, Len(u) = Len(t),
         \A i \in 1..Len(t) : u[i] = t[i] \/ (u[i] \notin Said /\ t[i] \notin Said)
  PROVE  Words(u) = Words(t)
<1> DEFINE parts == [i \in 1..Len(u) |-> <<u[i]>>]
<1>1. /\ Len(t) \in Nat /\ \A i \in 1..Len(t) : t[i] \in Token
      /\ \A i \in 1..Len(u) : u[i] \in Token
  BY DEF Text
<1>2. ASSUME NEW i \in 1..Len(t) PROVE <<parts[i], <<t[i]>>>> \in SameWords
  <2>1. parts[i] = <<u[i]>>
    OBVIOUS
  <2>2. <<t[i]>> \in Text /\ <<u[i]>> \in Text
    BY <1>1, TextBasics
  <2>3. CASE u[i] = t[i]
    BY <2>1, <2>2, <2>3 DEF SameWords
  <2>4. CASE u[i] \notin Said /\ t[i] \notin Said
    <3>1. Words(<<u[i]>>) = Words(<<t[i]>>)
      BY <1>1, <2>4, WordsOfOne
    <3> QED
      BY <2>1, <2>2, <3>1 DEF SameWords
  <2> QED
    BY <2>3, <2>4
<1>3. Len(parts) = Len(t) /\ (Len(t) = 0 => parts = <<>>)
  BY <1>1
<1>4. FlattenSeq(parts) = u
  BY FlattenSingles DEF Text
<1> HIDE DEF parts
<1>5. <<FlattenSeq(parts), t>> \in SameWords
  BY <1>2, <1>3, SameWordsCongruence, EachRelates
<1> QED
  BY <1>4, <1>5 DEF SameWords

\* What a pass makes of a plain text is plain.
LEMMA StaysPlain ==
  ASSUME NEW t \in Seq(Plain), NEW u \in Text, Derived(u, t)
  PROVE  u \in Seq(Plain)
<1>1. Plain \cup Mark = Plain
  BY TagsSayNothing
<1> QED
  BY <1>1, DerivedTokens

LEMMA PlainIsText == Seq(Plain) \subseteq Text
BY TagsSayNothing, SeqMonotonic DEF Text

LEMMA BlockPassesKeep ==
  Keeps(StripSvg) /\ Keeps(ConvertCallouts) /\ Keeps(ConvertQuotedDiv)
<1>1. ASSUME NEW t \in Seq(Plain), NEW tag \in {"<svg>", "<cell>", "<q>"}, NEW rewrite
      PROVE  Words(Sub(t, {tag}, rewrite)) = Words(t)
  <2>1. {tag} \in SUBSET Open /\ {tag} \cap Plain = {}
    BY TagsAreOpen DEF Plain
  <2> QED
    BY <2>1, SubKeeps
<1>2. ASSUME NEW t \in Seq(Plain)
      PROVE  /\ Words(StripSvg[t]) = Words(t)
             /\ Words(ConvertCallouts[t]) = Words(t)
             /\ Words(ConvertQuotedDiv[t]) = Words(t)
  <2>1. t \in Text
    BY PlainIsText
  <2>2. /\ StripSvg[t] = Sub(t, {"<svg>"}, [body \in Text |-> <<>>])
        /\ ConvertCallouts[t] = Sub(t, {"<cell>"}, Callout)
        /\ ConvertQuotedDiv[t] = Sub(t, {"<q>"}, QuotedLines)
    BY <2>1 DEF StripSvg, ConvertCallouts, ConvertQuotedDiv
  <2>3. Words(StripSvg[t]) = Words(t)
    BY <1>1, <2>2
  <2>4. Words(ConvertCallouts[t]) = Words(t)
    BY <1>1, <2>2
  <2>5. Words(ConvertQuotedDiv[t]) = Words(t)
    BY <1>1, <2>2
  <2> QED
    BY <2>3, <2>4, <2>5
<1> QED
  BY <1>2 DEF Keeps

LEMMA AnchorsKeep == Keeps(RewriteAnchors)
<1>1. ASSUME NEW t \in Seq(Plain)
      PROVE  TocAnchors[t] \in Seq(Plain) /\ Words(TocAnchors[t]) = Words(t)
  <2>1. t \in Text /\ TocAnchors[t] = Unwrap(t, {"<toc>"}) /\ {"<toc>"} \in SUBSET Open
    BY PlainIsText, TagsAreOpen DEF TocAnchors
  <2> QED
    BY <2>1, UnwrapKeeps, UnwrapDerives, StaysPlain
<1>2. ASSUME NEW t \in Seq(Plain) PROVE Words(OtherAnchors[t]) = Words(t)
  <2>1. /\ OtherAnchors[t] = Unwrap(t, {"<toc>", "<ext>", "<a>"})
        /\ {"<toc>", "<ext>", "<a>"} \in SUBSET Open
    BY PlainIsText, TagsAreOpen DEF OtherAnchors
  <2> QED
    BY <2>1, UnwrapKeeps
<1>3. ASSUME NEW t \in Seq(Plain)
      PROVE  ExternalAnchors[t] \in Seq(Plain) /\ Words(ExternalAnchors[t]) = Words(t)
  <2> DEFINE rewrite == [body \in Text |-> <<"[">> \o body \o <<"]">>]
  <2>1. t \in Text /\ {"<ext>"} \in SUBSET Open
    BY PlainIsText, TagsAreOpen
  <2>2. ExternalAnchors[t] = Sub(t, {"<ext>"}, rewrite)
    BY <2>1 DEF ExternalAnchors
  <2>3. "[" \in Token \ Said /\ "]" \in Token \ Said
    BY TextBasics, TagsSayNothing DEF Mark
  <2>4. ASSUME NEW body \in Seq(Plain)
        PROVE  rewrite[body] \in Text /\ Words(rewrite[body]) = Words(body)
    <3>1. body \in Text
      BY PlainIsText
    <3>2. rewrite[body] = <<"[">> \o body \o <<"]">>
      BY <3>1
    <3>3. /\ <<"[">> \o body \o <<"]">> \in Text
          /\ Words(<<"[">> \o body \o <<"]">>) = Words(body)
      BY <2>3, <3>1, WordsWithin
    <3> HIDE DEF rewrite
    <3> QED
      BY <3>2, <3>3
  <2> HIDE DEF rewrite
  <2>5. Words(ExternalAnchors[t]) = Words(t)
    BY <2>1, <2>2, <2>4, SubKeeps
  <2>6. ExternalAnchors[t] \in Text /\ Derived(ExternalAnchors[t], t)
    BY <2>1, ExternalDerives
  <2> QED
    BY <2>5, <2>6, StaysPlain
<1>4. ASSUME NEW t \in Seq(Plain) PROVE Words(RewriteAnchors[t]) = Words(t)
  <2> DEFINE u == TocAnchors[t]
             v == ExternalAnchors[u]
  <2>1. RewriteAnchors[t] = OtherAnchors[v]
    BY PlainIsText DEF RewriteAnchors
  <2>2. u \in Seq(Plain) /\ Words(u) = Words(t)
    BY <1>1
  <2> HIDE DEF u
  <2>3. v \in Seq(Plain) /\ Words(v) = Words(u)
    BY <1>3, <2>2
  <2> HIDE DEF v
  <2>4. Words(OtherAnchors[v]) = Words(v)
    BY <1>2, <2>3
  <2> QED
    BY <2>1, <2>2, <2>3, <2>4
<1> QED
  BY <1>4 DEF Keeps

LEMMA StepsKeep ==
  ASSUME NEW n \in Nat, NEW t \in Seq(Plain), NEW step,
         \A k \in 1..n : Derives(step[k]) /\ Keeps(step[k]),
         NEW g, Handed(g, n, t, step)
  PROVE  \A k \in 0..n : g[k] \in Seq(Plain) /\ Words(g[k]) = Words(t)
<1> DEFINE Q(k) == g[k] \in Seq(Plain) /\ Words(g[k]) = Words(t)
           T == {k \in 0..n : ~Q(k)}
<1> HIDE DEF Q, T
<1>1. g[0] = t /\ \A k \in 1..n : g[k] = step[k][g[k - 1]]
  <2>1. 0 \in 0..n /\ \A k \in 1..n : k \in 0..n /\ k # 0
    OBVIOUS
  <2>2. \A k \in 0..n : g[k] = IF k = 0 THEN t ELSE step[k][g[k - 1]]
    BY DEF Handed
  <2> QED
    BY <2>1, <2>2
<1>2. Q(0)
  BY <1>1 DEF Q
<1>3. ASSUME NEW k \in 1..n, Q(k - 1) PROVE Q(k)
  <2> DEFINE u == g[k - 1]
             pass == step[k]
  <2>1. g[k] = pass[u]
    BY <1>1
  <2>2. u \in Seq(Plain) /\ u \in Text /\ Words(u) = Words(t)
    BY <1>3, PlainIsText DEF Q
  <2>3. Derives(pass) /\ Keeps(pass)
    OBVIOUS
  <2> HIDE DEF u, pass
  <2>4. pass[u] \in Text /\ Derived(pass[u], u) /\ Words(pass[u]) = Words(u)
    BY <2>2, <2>3 DEF Derives, Keeps
  <2>5. pass[u] \in Seq(Plain)
    BY <2>2, <2>4, StaysPlain
  <2>6. Words(pass[u]) = Words(t)
    BY <2>2, <2>4
  <2> QED
    BY <2>1, <2>5, <2>6 DEF Q, u, pass
<1>4. T = {}
  <2> SUFFICES ASSUME T # {} PROVE FALSE
    OBVIOUS
  <2>1. PICK k \in T : \A l \in T : k <= l
    <3>1. T \in SUBSET Nat
      BY DEF T
    <3> QED
      BY <3>1, LeastNumber
  <2>2. k \in 1..n /\ k - 1 \in 0..n /\ ~(k <= k - 1) /\ ~Q(k)
    BY <1>2, <2>1 DEF T
  <2>3. Q(k - 1)
    BY <2>1, <2>2 DEF T
  <2> QED
    BY <1>3, <2>2, <2>3
<1> QED
  BY <1>4 DEF Q, T

LEMMA SpansKeep == Keeps(StripSpans)
<1> SUFFICES ASSUME NEW t \in Seq(Plain) PROVE Words(StripSpans[t]) = Words(t)
  BY DEF Keeps
<1> DEFINE n == Len(t)
           step == [k \in 1..n |-> SpanRound]
<1>1. n \in Nat /\ n \div 2 \in 0..n
  OBVIOUS
<1>2. PICK after :
        /\ after = [k \in 0..n |-> IF k = 0 THEN t ELSE step[k][after[k - 1]]]
        /\ StripSpans[t] = Without(after[n \div 2], {"<span>", "</span>"})
  BY PlainIsText, SpansInRounds
<1>3. Derives(SpanRound) /\ Keeps(SpanRound)
  BY UnwrapDerives, UnwrapKeeps, PlainIsText, TagsAreOpen DEF Derives, Keeps, SpanRound
<1>4. \A k \in 1..n : step[k] = SpanRound
  OBVIOUS
<1> HIDE DEF step, n
<1>5. \A k \in 0..n : after[k] \in Seq(Plain) /\ Words(after[k]) = Words(t)
  <2>1. Handed(after, n, t, step)
    BY <1>2 DEF Handed
  <2> QED
    BY <1>1, <1>3, <1>4, <2>1, StepsKeep
<1> DEFINE u == after[n \div 2]
<1>6. u \in Text /\ Words(u) = Words(t)
  BY <1>1, <1>5, PlainIsText
<1> HIDE DEF u
<1>7. {"<span>", "</span>"} \cap Said = {}
  BY DEF Said, Word
<1>8. Words(Without(u, {"<span>", "</span>"})) = Words(u)
  BY <1>6, <1>7, WithoutKeeps
<1> QED
  BY <1>2, <1>6, <1>8 DEF u

LEMMA RestKeeps ==
  /\ Keeps(StripTableScaffold) /\ Keeps(StripDivs) /\ Keeps(UnwrapParagraphs)
  /\ Keeps(ConvertImgTags) /\ Keeps(StripResidualHtml)
<1>1. ASSUME NEW t \in Seq(Plain)
      PROVE  /\ Words(StripTableScaffold[t]) = Words(t)
             /\ Words(StripDivs[t]) = Words(t)
  <2>1. t \in Text
    BY PlainIsText
  <2>2. /\ StripTableScaffold[t] = Without(t, {"<cell>", "</cell>"})
        /\ StripDivs[t] = Without(t, {"<q>", "<div>", "</div>"})
    BY <2>1 DEF StripTableScaffold, StripDivs
  <2>3. {"<cell>", "</cell>"} \cap Said = {} /\ {"<q>", "<div>", "</div>"} \cap Said = {}
    BY DEF Said, Word
  <2>4. Words(StripTableScaffold[t]) = Words(t)
    BY <2>1, <2>2, <2>3, WithoutKeeps
  <2>5. Words(StripDivs[t]) = Words(t)
    BY <2>1, <2>2, <2>3, WithoutKeeps
  <2> QED
    BY <2>4, <2>5
<1>2. ASSUME NEW t \in Seq(Plain) PROVE Words(UnwrapParagraphs[t]) = Words(t)
  <2>1. UnwrapParagraphs[t] = Unwrap(t, {"<p>"}) /\ {"<p>"} \in SUBSET Open
    BY PlainIsText, TagsAreOpen DEF UnwrapParagraphs
  <2> QED
    BY <2>1, UnwrapKeeps
<1>3. ASSUME NEW t \in Seq(Plain) PROVE Words(ConvertImgTags[t]) = Words(t)
  <2> DEFINE u == Without(t, {"<img/>"})
             v == Becomes(u, {"<img>"}, "![]")
  <2>1. t \in Text /\ ConvertImgTags[t] = v
    BY PlainIsText DEF ConvertImgTags
  <2>2. v \in Text
    BY <2>1, ImagesDerive
  <2>3. u \in Text
    <3>1. u \in Seq(Token \ {"<img/>"})
      BY <2>1, WithoutDerives DEF Text
    <3> HIDE DEF u
    <3> QED
      BY <3>1, SeqMonotonic DEF Text
  <2>4. "<img>" \notin Said /\ "![]" \notin Said /\ {"<img/>"} \cap Said = {}
    BY DEF Said, Word
  <2>5. Words(u) = Words(t)
    BY <2>1, <2>4, WithoutKeeps
  <2> HIDE DEF u
  <2>6. /\ Len(u) \in Nat /\ Len(v) = Len(u)
        /\ \A i \in 1..Len(u) : v[i] = IF u[i] \in {"<img>"} THEN "![]" ELSE u[i]
    BY <2>3 DEF Becomes, Text
  <2> HIDE DEF v
  <2>7. Words(v) = Words(u)
    BY <2>2, <2>3, <2>4, <2>6, MappedKeep
  <2> QED
    BY <2>1, <2>5, <2>7
<1>4. ASSUME NEW t \in Seq(Plain) PROVE Words(StripResidualHtml[t]) = Words(t)
  <2>1. t \in Text
    BY PlainIsText
  <2>2. PICK u \in Text :
          /\ Len(u) = Len(t)
          /\ \A i \in 1..Len(t) : u[i] = t[i] \/ (u[i] \notin Said /\ t[i] \notin Said)
          /\ StripResidualHtml[t] = Without(u, {"<br>", "<u>", "</u>"})
    BY <2>1, ResidualMaps
  <2>3. Words(u) = Words(t)
    BY <2>1, <2>2, MappedKeep
  <2>4. {"<br>", "<u>", "</u>"} \cap Said = {}
    BY DEF Said, Word
  <2>5. Words(Without(u, {"<br>", "<u>", "</u>"})) = Words(u)
    BY <2>4, WithoutKeeps
  <2> QED
    BY <2>2, <2>3, <2>5
<1> QED
  BY <1>1, <1>2, <1>3, <1>4 DEF Keeps

\* Whatever the converter wrote, tags nested or not: a text without drawings,
\* one-cell tables and quoted passages keeps all its words, in their order, and
\* no quotation is made of any of them.
THEOREM CleanKeepsWords == \A t \in Seq(Plain) : Words(Clean(t)) = Words(t)
<1> SUFFICES ASSUME NEW t \in Seq(Plain) PROVE Words(Clean(t)) = Words(t)
  OBVIOUS
<1>1. PICK g : Clean(t) = g[10] /\ Handed(g, 10, t, Passes)
  BY PlainIsText, CleanedInPasses
<1>2. /\ Keeps(Passes[1]) /\ Keeps(Passes[2]) /\ Keeps(Passes[4]) /\ Keeps(Passes[5])
      /\ Keeps(Passes[6])
  BY BlockPassesKeep, AnchorsKeep, SpansKeep DEF Passes
<1>3. /\ Keeps(Passes[3]) /\ Keeps(Passes[7]) /\ Keeps(Passes[8])
      /\ Keeps(Passes[9]) /\ Keeps(Passes[10])
  BY RestKeeps DEF Passes
<1>4. \A i \in 1..10 : Derives(Passes[i]) /\ Keeps(Passes[i])
  BY <1>2, <1>3, PassesDerive
<1>5. \A i \in 0..10 : g[i] \in Seq(Plain) /\ Words(g[i]) = Words(t)
  <2> DEFINE n == 10
  <2>1. n \in Nat /\ Handed(g, n, t, Passes)
    BY <1>1
  <2>2. \A i \in 1..n : Derives(Passes[i]) /\ Keeps(Passes[i])
    BY <1>4
  <2> HIDE DEF n
  <2>3. \A i \in 0..n : g[i] \in Seq(Plain) /\ Words(g[i]) = Words(t)
    BY <2>1, <2>2, StepsKeep
  <2> QED
    BY <2>3 DEF n
<1> QED
  BY <1>1, <1>5

=============================================================================
