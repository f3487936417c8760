-------------------------- MODULE AgentFilesProofs --------------------------
(***************************************************************************)
(* For any setup, any paths and contents, any number of calls and          *)
(* machines: where a path leads, what the tools answer, what becomes of    *)
(* what they acknowledged, and that it is all one file system.             *)
(***************************************************************************)
EXTENDS AgentFiles, SequenceTheorems, WellFoundedInduction, TLAPS

(***************************************************************************)
(* Selection                                                               *)
(***************************************************************************)

LEMMA LeastNat ==
  ASSUME NEW S, S \subseteq Nat, S # {}
  PROVE  \E m \in S : \A k \in S : m <= k
<1>1. PICK m \in S : \A k \in S : ~ (<<k, m>> \in OpToRel(<, Nat))
  BY NatLessThanWellFounded, WFMin
<1>2. \A k \in S : <<k, m>> \in OpToRel(<, Nat) <=> k < m
  BY DEF OpToRel
<1>3. \A k \in S : ~ (k < m)
  BY <1>1, <1>2 DEF OpToRel
<1> QED
  BY <1>3

LEMMA SetInduction ==
  ASSUME NEW n \in Nat, NEW S, 0 \in S, \A i \in 0..n : i < n /\ i \in S => i + 1 \in S
  PROVE  \A i \in 0..n : i \in S
<1>1. SUFFICES ASSUME NEW j \in 0..n, j \notin S PROVE FALSE
  OBVIOUS
<1>2. PICK m \in {i \in 0..n : i \notin S} : \A k \in {i \in 0..n : i \notin S} : m <= k
  <2>1. {i \in 0..n : i \notin S} # {} /\ {i \in 0..n : i \notin S} \subseteq Nat
    BY <1>1
  <2> QED
    BY <2>1, LeastNat
<1>3. m \in 0..n /\ m # 0 /\ m - 1 \in 0..n /\ m - 1 < n
  OBVIOUS
<1>4. m - 1 \in S
  BY <1>2, <1>3
<1> QED
  BY <1>3, <1>4

\* g picks the members of S from the first n of s.
Picks(s, S, g, n) ==
  g = [i \in 0..n |->
         IF i = 0 THEN <<>>
         ELSE IF s[i] \in S THEN Append(g[i - 1], s[i]) ELSE g[i - 1]]

LEMMA PicksOneMore ==
  ASSUME NEW s, NEW S, NEW n \in Nat, NEW g, Picks(s, S, g, n)
  PROVE  \E h : Picks(s, S, h, n + 1)
<1>1. PICK h : h = [i \in 0..n + 1 |->
                      IF i = n + 1 THEN (IF s[i] \in S THEN Append(g[n], s[i]) ELSE g[n])
                      ELSE g[i]]
  OBVIOUS
<1>2. \A i \in 0..n : h[i] = g[i]
  BY <1>1
<1>3. \A i \in 0..n + 1 :
        h[i] = IF i = 0 THEN <<>>
               ELSE IF s[i] \in S THEN Append(h[i - 1], s[i]) ELSE h[i - 1]
  <2>1. SUFFICES ASSUME NEW i \in 0..n + 1
                 PROVE  h[i] = IF i = 0 THEN <<>>
                               ELSE IF s[i] \in S THEN Append(h[i - 1], s[i]) ELSE h[i - 1]
    OBVIOUS
  <2>2. CASE i = n + 1
    <3>1. n \in 0..n /\ i - 1 = n /\ i # 0
      BY <2>2
    <3> QED
      BY <1>1, <1>2, <2>2, <3>1
  <2>3. CASE i # n + 1
    <3>1. i \in 0..n /\ (i # 0 => i - 1 \in 0..n)
      BY <2>3
    <3>2. g[i] = IF i = 0 THEN <<>>
                 ELSE IF s[i] \in S THEN Append(g[i - 1], s[i]) ELSE g[i - 1]
      BY <3>1 DEF Picks
    <3> QED
      BY <1>2, <3>1, <3>2
  <2> QED
    BY <2>2, <2>3
<1>4. PICK h2 : h2 = [i \in 0..n + 1 |->
                        IF i = 0 THEN <<>>
                        ELSE IF s[i] \in S THEN Append(h[i - 1], s[i]) ELSE h[i - 1]]
  OBVIOUS
<1>5. h = h2
  BY <1>1, <1>3, <1>4
<1> QED
  BY <1>4, <1>5 DEF Picks

LEMMA PicksExist ==
  ASSUME NEW s, NEW S, NEW n \in Nat
  PROVE  \E g : Picks(s, S, g, n)
<1>1. PICK T : T = {k \in 0..n : \E g : Picks(s, S, g, k)}
  OBVIOUS
<1>2. 0 \in T
  <2>1. PICK g : g = [i \in 0..0 |-> <<>>]
    OBVIOUS
  <2>2. PICK h : h = [i \in 0..0 |->
                        IF i = 0 THEN <<>>
                        ELSE IF s[i] \in S THEN Append(g[i - 1], s[i]) ELSE g[i - 1]]
    OBVIOUS
  <2>3. g = h
    BY <2>1, <2>2
  <2> QED
    BY <1>1, <2>2, <2>3 DEF Picks
<1>3. ASSUME NEW k \in 0..n, k < n, k \in T
      PROVE  k + 1 \in T
  <2>1. PICK g : Picks(s, S, g, k)
    BY <1>1, <1>3
  <2>2. \E h : Picks(s, S, h, k + 1)
    BY <2>1, PicksOneMore
  <2>3. k + 1 \in 0..n
    BY <1>3
  <2> QED
    BY <1>1, <2>2, <2>3
<1>4. n \in T
  BY <1>2, <1>3, SetInduction
<1> QED
  BY <1>1, <1>4

\* A selection is a sequence of members of both, and none of them is left out.
NoneLost(b, s, S) == \A i \in DOMAIN s : s[i] \in S => \E k \in DOMAIN b : b[k] = s[i]

IsSelection(b, s, X, S) == b \in Seq(X \intersect S) /\ NoneLost(b, s, S)

LEMMA SelectionIs ==
  ASSUME NEW X, NEW s \in Seq(X), NEW S
  PROVE  IsSelection(Selection(s, S), s, X, S)
<1>1. PICK g : g = CHOOSE h : Picks(s, S, h, Len(s))
  OBVIOUS
<1>0. Len(s) \in Nat /\ DOMAIN s = 1..Len(s)
  OBVIOUS
<1>2. Picks(s, S, g, Len(s))
  <2>1. \E h : Picks(s, S, h, Len(s))
    BY <1>0, PicksExist
  <2> QED
    BY <1>1, <2>1
<1>3. Selection(s, S) = g[Len(s)]
  BY <1>1 DEF Selection, Picks
<1>4. g[0] = <<>>
  BY <1>0, <1>2 DEF Picks
<1>5. \A i \in 1..Len(s) : g[i] = IF s[i] \in S THEN Append(g[i - 1], s[i]) ELSE g[i - 1]
  <2>1. \A i \in 1..Len(s) : i \in 0..Len(s) /\ i # 0
    OBVIOUS
  <2> QED
    BY <1>2, <2>1 DEF Picks
<1>6. PICK T : T = {n \in 0..Len(s) :
                      /\ g[n] \in Seq(X \intersect S)
                      /\ \A i \in 1..n : s[i] \in S => \E k \in DOMAIN g[n] : g[n][k] = s[i]}
  OBVIOUS
<1>7. 0 \in T
  <2>1. <<>> \in Seq(X \intersect S)
    BY EmptySeq
  <2>2. 0 \in 0..Len(s) /\ 1..0 = {}
    BY <1>0
  <2> QED
    BY <1>4, <1>6, <2>1, <2>2
<1>8. ASSUME NEW n \in 0..Len(s), n < Len(s), n \in T
      PROVE  n + 1 \in T
  <2>1. n + 1 \in 1..Len(s) /\ (n + 1) - 1 = n /\ n + 1 \in 0..Len(s)
    BY <1>0, <1>8
  <2>2. g[n] \in Seq(X \intersect S)
    BY <1>6, <1>8
  <2>3. ASSUME NEW i \in 1..n, s[i] \in S
        PROVE  \E k \in DOMAIN g[n] : g[n][k] = s[i]
    BY <1>6, <1>8, <2>3
  <2>4. CASE s[n + 1] \in S
    <3>1. g[n + 1] = Append(g[n], s[n + 1])
      BY <1>5, <2>1, <2>4
    <3>2. s[n + 1] \in X \intersect S
      BY <2>1, <2>4
    <3>3. /\ g[n + 1] \in Seq(X \intersect S)
          /\ Len(g[n + 1]) = Len(g[n]) + 1
          /\ \A k \in 1..Len(g[n]) : g[n + 1][k] = g[n][k]
          /\ g[n + 1][Len(g[n]) + 1] = s[n + 1]
      BY <2>2, <3>1, <3>2, AppendProperties
    <3>4. DOMAIN g[n] = 1..Len(g[n]) /\ DOMAIN g[n + 1] = 1..Len(g[n]) + 1 /\ Len(g[n]) \in Nat
      BY <2>2, <3>3
    <3>5. ASSUME NEW i \in 1..n + 1, s[i] \in S
          PROVE  \E k \in DOMAIN g[n + 1] : g[n + 1][k] = s[i]
      <4>1. CASE i = n + 1
        <5>1. Len(g[n]) + 1 \in DOMAIN g[n + 1]
          BY <3>4
        <5> QED
          BY <3>3, <4>1, <5>1
      <4>2. CASE i # n + 1
        <5>1. i \in 1..n
          BY <4>2
        <5>2. PICK k \in DOMAIN g[n] : g[n][k] = s[i]
          BY <2>3, <3>5, <5>1
        <5>3. k \in DOMAIN g[n + 1] /\ g[n + 1][k] = g[n][k]
          BY <3>3, <3>4
        <5> QED
          BY <5>2, <5>3
      <4> QED
        BY <4>1, <4>2
    <3> QED
      BY <1>6, <2>1, <3>3, <3>5
  <2>5. CASE s[n + 1] \notin S
    <3>1. g[n + 1] = g[n]
      BY <1>5, <2>1, <2>5
    <3>2. \A i \in 1..n + 1 : s[i] \in S => i \in 1..n
      BY <2>5
    <3> QED
      BY <1>6, <2>1, <2>2, <2>3, <3>1, <3>2
  <2> QED
    BY <2>4, <2>5
<1>9. Len(s) \in T
  <2>1. \A i \in 0..Len(s) : i \in T
    BY <1>0, <1>7, <1>8, SetInduction
  <2> QED
    BY <1>0, <2>1
<1> QED
  BY <1>0, <1>3, <1>6, <1>9 DEF IsSelection, NoneLost

LEMMA Selected ==
  ASSUME NEW X, NEW s \in Seq(X), NEW S
  PROVE  Selection(s, S) \in Seq(X \intersect S)
<1>1. PICK b : b = Selection(s, S)
  OBVIOUS
<1>2. IsSelection(b, s, X, S)
  BY <1>1, SelectionIs
<1> QED
  BY <1>1, <1>2 DEF IsSelection

LEMMA NoneLeftOut ==
  ASSUME NEW X, NEW s \in Seq(X), NEW S
  PROVE  NoneLost(Selection(s, S), s, S)
BY SelectionIs DEF IsSelection

(***************************************************************************)
(* Paths                                                                   *)
(***************************************************************************)

LEMMA PrefixIs ==
  ASSUME NEW S, NEW d \in Seq(S), NEW p \in Seq(S)
  PROVE  IsPrefix(d, p) <=> Len(d) <= Len(p) /\ \A i \in 1..Len(d) : d[i] = p[i]
<1>1. SubSeq(d, 1, Len(d)) = d /\ Len(d) \in Nat /\ Len(p) \in Nat
  BY SubSeqFull
<1>2. CASE Len(d) <= Len(p)
  <2>1. /\ SubSeq(p, 1, Len(d)) \in Seq(S)
        /\ Len(SubSeq(p, 1, Len(d))) = Len(d)
        /\ \A i \in 1..Len(d) : SubSeq(p, 1, Len(d))[i] = p[i]
    BY <1>1, <1>2
  <2>2. (\A i \in 1..Len(d) : d[i] = SubSeq(p, 1, Len(d))[i]) => d = SubSeq(p, 1, Len(d))
    BY <2>1, SeqEqual
  <2> QED
    BY <1>1, <1>2, <2>1, <2>2 DEF IsPrefix
<1>3. CASE ~(Len(d) <= Len(p))
  BY <1>3 DEF IsPrefix
<1> QED
  BY <1>2, <1>3

LEMMA StrictPrefixIs ==
  ASSUME NEW S, NEW d \in Seq(S), NEW p \in Seq(S)
  PROVE  IsStrictPrefix(d, p) <=> IsPrefix(d, p) /\ Len(d) < Len(p)
<1>1. IsPrefix(d, p) /\ Len(d) = Len(p) => d = p
  <2>1. SUFFICES ASSUME IsPrefix(d, p), Len(d) = Len(p) PROVE d = p
    OBVIOUS
  <2>2. \A i \in 1..Len(d) : d[i] = p[i]
    BY <2>1, PrefixIs
  <2> QED
    BY <2>1, <2>2, SeqEqual
<1>2. IsPrefix(d, p) => Len(d) <= Len(p)
  BY DEF IsPrefix
<1>3. Len(d) \in Nat /\ Len(p) \in Nat
  OBVIOUS
<1> QED
  BY <1>1, <1>2, <1>3 DEF IsStrictPrefix

\* What follows a prefix.
LEMMA Split ==
  ASSUME NEW S, NEW d \in Seq(S), NEW p \in Seq(S), IsPrefix(d, p)
  PROVE  /\ SubSeq(p, Len(d) + 1, Len(p)) \in Seq(S)
         /\ Len(SubSeq(p, Len(d) + 1, Len(p))) = Len(p) - Len(d)
         /\ p = d \o SubSeq(p, Len(d) + 1, Len(p))
<1>1. Len(d) \in Nat /\ Len(p) \in Nat /\ Len(d) <= Len(p)
  BY DEF IsPrefix
<1>2. SubSeq(p, 1, Len(d)) = d
  BY SubSeqFull DEF IsPrefix
<1>3. SubSeq(p, 1, Len(d)) \o SubSeq(p, Len(d) + 1, Len(p)) = SubSeq(p, 1, Len(p))
  <2>1. 1 \in 1..Len(p) + 1 /\ Len(d) \in 1 - 1..Len(p) /\ Len(p) \in Len(d)..Len(p)
    BY <1>1
  <2> QED
    BY <2>1, ConcatAdjacentSubSeq
<1>4. SubSeq(p, 1, Len(p)) = p
  BY SubSeqFull
<1>5. SubSeq(p, Len(d) + 1, Len(p)) \in Seq(S)
  BY <1>1
<1>6. Len(SubSeq(p, Len(d) + 1, Len(p))) = Len(p) - Len(d)
  BY <1>1
<1> QED
  BY <1>2, <1>3, <1>4, <1>5, <1>6

LEMMA Join ==
  ASSUME NEW S, NEW d \in Seq(S), NEW q \in Seq(S)
  PROVE  /\ d \o q \in Seq(S)
         /\ Len(d \o q) = Len(d) + Len(q)
         /\ IsPrefix(d, d \o q)
         /\ SubSeq(d \o q, Len(d) + 1, Len(d \o q)) = q
<1>1. /\ d \o q \in Seq(S)
      /\ Len(d \o q) = Len(d) + Len(q)
      /\ \A i \in 1..Len(d) + Len(q) :
           (d \o q)[i] = IF i <= Len(d) THEN d[i] ELSE q[i - Len(d)]
  BY ConcatProperties
<1>2. Len(d) \in Nat /\ Len(q) \in Nat
  OBVIOUS
<1>3. IsPrefix(d, d \o q)
  <2>1. \A i \in 1..Len(d) : d[i] = (d \o q)[i]
    BY <1>1, <1>2
  <2>2. Len(d) <= Len(d \o q)
    BY <1>1, <1>2
  <2> QED
    BY <1>1, <2>1, <2>2, PrefixIs
<1>4. d \o q = d \o SubSeq(d \o q, Len(d) + 1, Len(d \o q))
      /\ SubSeq(d \o q, Len(d) + 1, Len(d \o q)) \in Seq(S)
  BY <1>1, <1>3, Split
<1>5. q = SubSeq(d \o q, Len(d) + 1, Len(d \o q))
  BY <1>4, ConcatSimplifications
<1> QED
  BY <1>1, <1>3, <1>5

LEMMA PrefixTrans ==
  ASSUME NEW S, NEW a \in Seq(S), NEW b \in Seq(S), NEW c \in Seq(S),
         IsPrefix(a, b), IsPrefix(b, c)
  PROVE  IsPrefix(a, c)
<1>1. Len(a) \in Nat /\ Len(b) \in Nat /\ Len(c) \in Nat
  OBVIOUS
<1>2. Len(a) <= Len(b) /\ \A i \in 1..Len(a) : a[i] = b[i]
  BY PrefixIs
<1>3. Len(b) <= Len(c) /\ \A i \in 1..Len(b) : b[i] = c[i]
  BY PrefixIs
<1>4. Len(a) <= Len(c) /\ \A i \in 1..Len(a) : a[i] = c[i]
  BY <1>1, <1>2, <1>3
<1> QED
  BY <1>4, PrefixIs

\* The same path has no two prefixes of a length.
LEMMA PrefixesOfOne ==
  ASSUME NEW S, NEW a \in Seq(S), NEW b \in Seq(S), NEW c \in Seq(S),
         IsPrefix(a, c), IsPrefix(b, c), Len(a) <= Len(b)
  PROVE  IsPrefix(a, b)
<1>1. Len(a) \in Nat /\ Len(b) \in Nat /\ Len(c) \in Nat
  OBVIOUS
<1>2. Len(a) <= Len(c) /\ \A i \in 1..Len(a) : a[i] = c[i]
  BY PrefixIs
<1>3. Len(b) <= Len(c) /\ \A i \in 1..Len(b) : b[i] = c[i]
  BY PrefixIs
<1>4. \A i \in 1..Len(a) : a[i] = b[i]
  BY <1>1, <1>2, <1>3
<1> QED
  BY <1>4, PrefixIs

\* A prefix put before two paths changes nothing between them.
LEMMA PrefixUnder ==
  ASSUME NEW S, NEW a \in Seq(S), NEW d \in Seq(S), NEW p \in Seq(S)
  PROVE  /\ IsPrefix(a \o d, a \o p) <=> IsPrefix(d, p)
         /\ IsStrictPrefix(a \o d, a \o p) <=> IsStrictPrefix(d, p)
<1>1. Len(a) \in Nat /\ Len(d) \in Nat /\ Len(p) \in Nat
  OBVIOUS
<1>2. /\ a \o d \in Seq(S)
      /\ Len(a \o d) = Len(a) + Len(d)
      /\ \A i \in 1..Len(a) + Len(d) :
           (a \o d)[i] = IF i <= Len(a) THEN a[i] ELSE d[i - Len(a)]
  BY ConcatProperties
<1>3. /\ a \o p \in Seq(S)
      /\ Len(a \o p) = Len(a) + Len(p)
      /\ \A i \in 1..Len(a) + Len(p) :
           (a \o p)[i] = IF i <= Len(a) THEN a[i] ELSE p[i - Len(a)]
  BY ConcatProperties
<1>4. ASSUME IsPrefix(d, p) PROVE IsPrefix(a \o d, a \o p)
  <2>1. Len(d) <= Len(p) /\ \A i \in 1..Len(d) : d[i] = p[i]
    BY <1>4, PrefixIs
  <2>2. Len(a \o d) <= Len(a \o p)
    BY <1>1, <1>2, <1>3, <2>1
  <2>3. ASSUME NEW i \in 1..Len(a \o d) PROVE (a \o d)[i] = (a \o p)[i]
    <3>1. i \in 1..Len(a) + Len(d) /\ i \in 1..Len(a) + Len(p)
      BY <1>1, <1>2, <2>1
    <3>2. ~(i <= Len(a)) => i - Len(a) \in 1..Len(d)
      BY <1>1, <3>1
    <3> QED
      BY <1>2, <1>3, <2>1, <3>1, <3>2
  <2> QED
    BY <1>2, <1>3, <2>2, <2>3, PrefixIs
<1>5. ASSUME IsPrefix(a \o d, a \o p) PROVE IsPrefix(d, p)
  <2>1. Len(a \o d) <= Len(a \o p) /\ \A i \in 1..Len(a \o d) : (a \o d)[i] = (a \o p)[i]
    BY <1>2, <1>3, <1>5, PrefixIs
  <2>2. Len(d) <= Len(p)
    BY <1>1, <1>2, <1>3, <2>1
  <2>3. ASSUME NEW i \in 1..Len(d) PROVE d[i] = p[i]
    <3>1. PICK j : j = i + Len(a)
      OBVIOUS
    <3>2. j \in 1..Len(a) + Len(d) /\ j \in 1..Len(a) + Len(p) /\ ~(j <= Len(a)) /\ j - Len(a) = i
      BY <1>1, <2>2, <3>1
    <3>3. (a \o d)[j] = d[i] /\ (a \o p)[j] = p[i]
      BY <1>2, <1>3, <3>2
    <3> QED
      BY <1>2, <2>1, <3>2, <3>3
  <2> QED
    BY <2>2, <2>3, PrefixIs
<1>6. IsStrictPrefix(a \o d, a \o p)
        <=> IsPrefix(a \o d, a \o p) /\ Len(a \o d) < Len(a \o p)
  BY <1>2, <1>3, StrictPrefixIs
<1>7. IsStrictPrefix(d, p) <=> IsPrefix(d, p) /\ Len(d) < Len(p)
  BY StrictPrefixIs
<1>8. Len(a \o d) < Len(a \o p) <=> Len(d) < Len(p)
  BY <1>1, <1>2, <1>3
<1> QED
  BY <1>4, <1>5, <1>6, <1>7, <1>8

LEMMA TowardIs ==
  ASSUME NEW S, NEW d \in Seq(S), NEW p \in Seq(S), IsStrictPrefix(d, p)
  PROVE  /\ Toward(d, p) \in Seq(S)
         /\ Len(Toward(d, p)) = Len(d) + 1
         /\ IsStrictPrefix(d, Toward(d, p))
         /\ IsPrefix(Toward(d, p), p)
<1>1. Len(d) \in Nat /\ Len(p) \in Nat /\ IsPrefix(d, p) /\ Len(d) < Len(p)
  BY StrictPrefixIs
<1>2. /\ Toward(d, p) \in Seq(S)
      /\ Len(Toward(d, p)) = Len(d) + 1
      /\ \A i \in 1..Len(d) + 1 : Toward(d, p)[i] = p[i]
  BY <1>1 DEF Toward
<1>3. IsPrefix(Toward(d, p), p)
  BY <1>1, <1>2, PrefixIs
<1>4. IsPrefix(d, Toward(d, p))
  BY <1>1, <1>2, <1>3, PrefixesOfOne
<1> QED
  BY <1>1, <1>2, <1>3, <1>4, StrictPrefixIs

LEMMA TowardUnder ==
  ASSUME NEW S, NEW a \in Seq(S), NEW d \in Seq(S), NEW p \in Seq(S), IsStrictPrefix(d, p)
  PROVE  Toward(a \o d, a \o p) = a \o Toward(d, p)
<1>1. Len(a) \in Nat /\ Len(d) \in Nat
  OBVIOUS
<1>2. /\ Toward(d, p) \in Seq(S)
      /\ Len(Toward(d, p)) = Len(d) + 1
      /\ IsPrefix(Toward(d, p), p)
  BY TowardIs
<1>3. PICK x, y, z : x = a \o d /\ y = a \o p /\ z = a \o Toward(d, p)
  OBVIOUS
<1>4. IsStrictPrefix(x, y) /\ IsPrefix(z, y)
  BY <1>2, <1>3, PrefixUnder
<1>5. x \in Seq(S) /\ y \in Seq(S) /\ Len(x) = Len(a) + Len(d)
  BY <1>3, Join
<1>6. z \in Seq(S) /\ Len(z) = Len(a) + (Len(d) + 1)
  BY <1>2, <1>3, Join
<1>7. /\ Toward(x, y) \in Seq(S)
      /\ Len(Toward(x, y)) = Len(x) + 1
      /\ IsPrefix(Toward(x, y), y)
  BY <1>4, <1>5, TowardIs
<1>8. Len(Toward(x, y)) = Len(z)
  BY <1>1, <1>5, <1>6, <1>7
<1>9. Len(z) \in Nat
  BY <1>6
<1>10. IsPrefix(Toward(x, y), z)
  BY <1>4, <1>5, <1>6, <1>7, <1>8, <1>9, PrefixesOfOne
<1>11. Toward(x, y) = z
  BY <1>6, <1>7, <1>8, <1>9, <1>10, StrictPrefixIs DEF IsStrictPrefix
<1> QED
  BY <1>3, <1>11

(***************************************************************************)
(* Routes                                                                  *)
(***************************************************************************)

LEMMA PathFacts ==
  /\ Paths \subseteq Seq(Names) /\ Home \in Seq(Names)
  /\ NoPath \notin Paths /\ NoPath \notin Seq(Names)
<1>1. Args \subseteq Seq(Names) /\ Home \in Seq(Names)
  BY AFAssumption
<1>2. ASSUME NEW a \in Args PROVE ValidPath(a) \in Seq(Names)
  <2>1. a \in Seq(Names)
    BY <1>1
  <2>2. ValidPath(a) \in Seq(Names \intersect (ToSet(a) \ {"."}))
    BY <2>1, Selected DEF ValidPath
  <2> QED
    BY <2>2, SeqMonotonic
<1> QED
  BY <1>1, <1>2, NobodyAssumption DEF Paths

LEMMA SetupFacts ==
  ASSUME setup \in Setups
  PROVE  /\ setup.default \in Kinds
         /\ \A r \in setup.routes :
              /\ r.at \in Seq(Names) /\ r.at # <<>> /\ r # Default /\ r.slash \in BOOLEAN
              /\ r.to \in Kinds /\ r.to # "sandbox" /\ r.to # setup.default
              /\ \A x \in setup.routes : r.to = x.to => r = x
              /\ \A x \in setup.routes : r.at = x.at => r = x
BY AFAssumption DEF Default

\* A path has a longest route.
LEMMA LongestRoute ==
  ASSUME setup \in Setups, NEW p \in Seq(Names),
         NEW fit, fit = {r \in setup.routes : IsPrefix(r.at, p)}, fit # {}
  PROVE  \E x \in fit : \A y \in fit : Len(y.at) <= Len(x.at)
<1>1. \A x \in fit : Len(x.at) \in Nat /\ Len(x.at) <= Len(p)
  BY SetupFacts DEF IsPrefix
<1>2. PICK T : T = {Len(p) - Len(x.at) : x \in fit}
  OBVIOUS
<1>3. T \subseteq Nat /\ T # {} /\ Len(p) \in Nat
  BY <1>1, <1>2
<1>4. PICK m \in T : \A k \in T : m <= k
  BY <1>3, LeastNat
<1>5. PICK x \in fit : m = Len(p) - Len(x.at)
  BY <1>2
<1>6. \A y \in fit : Len(p) - Len(x.at) <= Len(p) - Len(y.at)
  BY <1>2, <1>4, <1>5
<1> QED
  BY <1>1, <1>3, <1>6

\* _route_for_path: the backend of the longest prefix, and the rest of the path.
LEMMA RouteFacts ==
  ASSUME setup \in Setups, NEW p \in Seq(Names), p # NoPath
  PROVE  /\ RouteFor(p).via \in setup.routes \union {Default}
         /\ RouteFor(p).to = RouteFor(p).via.to
         /\ RouteFor(p).via.at \in Seq(Names)
         /\ RouteFor(p).path \in Seq(Names)
         /\ IsPrefix(RouteFor(p).via.at, p)
         /\ p = RouteFor(p).via.at \o RouteFor(p).path
         /\ Len(p) = Len(RouteFor(p).via.at) + Len(RouteFor(p).path)
         /\ RouteFor(p).path = SubSeq(p, Len(RouteFor(p).via.at) + 1, Len(p))
         /\ \A x \in setup.routes : IsPrefix(x.at, p) =>
              RouteFor(p).via \in setup.routes /\ Len(x.at) <= Len(RouteFor(p).via.at)
<1>1. PICK fit : fit = {r \in setup.routes : IsPrefix(r.at, p)}
  OBVIOUS
<1>2. PICK r : r = IF fit = {} THEN Default
                   ELSE CHOOSE x \in fit : \A y \in fit : Len(y.at) <= Len(x.at)
  OBVIOUS
<1>3. RouteFor(p) = [to |-> r.to, via |-> r, path |-> SubSeq(p, Len(r.at) + 1, Len(p))]
  BY <1>1, <1>2 DEF RouteFor
<1>4. /\ r \in setup.routes \union {Default}
      /\ IsPrefix(r.at, p)
      /\ \A x \in fit : r \in setup.routes /\ Len(x.at) <= Len(r.at)
  <2>1. CASE fit = {}
    <3>1. r = Default /\ Default.at = <<>>
      BY <1>2, <2>1 DEF Default
    <3>2. IsPrefix(<<>>, p)
      <4>1. <<>> \in Seq(Names) /\ Len(<<>>) = 0 /\ Len(p) \in Nat /\ 1..0 = {}
        BY EmptySeq
      <4>2. Len(<<>>) <= Len(p) /\ \A i \in 1..Len(<<>>) : <<>>[i] = p[i]
        BY <4>1
      <4> QED
        BY <4>1, <4>2, PrefixIs
    <3> QED
      BY <2>1, <3>1, <3>2
  <2>2. CASE fit # {}
    <3>1. \E x \in fit : \A y \in fit : Len(y.at) <= Len(x.at)
      BY <1>1, <2>2, LongestRoute
    <3>2. r \in fit /\ \A y \in fit : Len(y.at) <= Len(r.at)
      BY <1>2, <2>2, <3>1
    <3> QED
      BY <1>1, <3>2
  <2> QED
    BY <2>1, <2>2
<1>5. r.at \in Seq(Names)
  <2>1. CASE r = Default
    BY <2>1, EmptySeq DEF Default
  <2> QED
    BY <1>4, <2>1, SetupFacts
<1>6. PICK q : q = SubSeq(p, Len(r.at) + 1, Len(p))
  OBVIOUS
<1>7. q \in Seq(Names) /\ Len(q) = Len(p) - Len(r.at) /\ p = r.at \o q
  BY <1>4, <1>5, <1>6, Split
<1>8. RouteFor(p).to = r.to /\ RouteFor(p).via = r /\ RouteFor(p).path = q
  BY <1>3, <1>6
<1>9. Len(p) = Len(r.at) + Len(q)
  BY <1>5, <1>7
<1> QED
  BY <1>1, <1>4, <1>5, <1>6, <1>7, <1>8, <1>9

LEMMA NoRoute ==
  ASSUME setup \in Setups
  PROVE  /\ RouteFor(NoPath).to = setup.default
         /\ RouteFor(NoPath).via = Default
         /\ RouteFor(NoPath).path = NoPath
BY DEF RouteFor, Default

\* Two paths that lead to the same place are the same path.
LEMMA OnePathEach ==
  ASSUME setup \in Setups, NEW p \in Paths, NEW q \in Paths,
         RouteFor(p).to = RouteFor(q).to, RouteFor(p).path = RouteFor(q).path
  PROVE  p = q
<1>1. p \in Seq(Names) /\ q \in Seq(Names) /\ p # NoPath /\ q # NoPath
  BY PathFacts
<1>2. RouteFor(p).via.to = RouteFor(q).via.to
  BY <1>1, RouteFacts
<1>3. Default.to = setup.default
  BY DEF Default
<1>4. /\ RouteFor(p).via \in setup.routes \union {Default}
      /\ RouteFor(q).via \in setup.routes \union {Default}
  BY <1>1, RouteFacts
<1>5. RouteFor(p).via = RouteFor(q).via
  BY <1>2, <1>3, <1>4, SetupFacts
<1>6. p = RouteFor(p).via.at \o RouteFor(p).path /\ q = RouteFor(q).via.at \o RouteFor(q).path
  BY <1>1, RouteFacts
<1> QED
  BY <1>5, <1>6

LEMMA SameRoutes ==
  ASSUME UNCHANGED setup, NEW p
  PROVE  RouteFor(p)' = RouteFor(p)
BY DEF RouteFor, Default

(***************************************************************************)
(* The inductive invariant                                                 *)
(***************************************************************************)

\* Where in a backend of this kind paths lead.
Places(kind) == {RouteFor(p).path : p \in {x \in Paths : RouteFor(x).to = kind}}

\* The files that may be at these places.
FilesAt(places) == UNION {[D -> Seq(Words) \ {<<>>}] : D \in SUBSET places}

HeldInv ==
  /\ held = [k \in Kinds \ {"sandbox"} |-> held[k]]
  /\ \A k \in Kinds \ {"sandbox"} : held[k] \in FilesAt(Places(k))

BoxesInv ==
  /\ boxes \in [Boxes -> [state : {"none", "started", "gone"},
                          files : FilesAt(Places("sandbox"))]]
  /\ handle \in Boxes
  /\ \A b \in Boxes : boxes[b].state # "started" => boxes[b].files = NoFiles

\* A call puts a file that is not empty, made of words.
CallOK(call) ==
  /\ call \in Calls
  /\ call.file # <<>>
  /\ call.op = "edit" => call.word \in Words

CallsInv ==
  /\ calls = [c \in Callers |-> calls[c]]
  /\ \A c \in InProgress : CallOK(calls[c])

IInv ==
  /\ setup \in Setups
  /\ HeldInv
  /\ BoxesInv
  /\ CallsInv
  /\ DOMAIN promised \subseteq Paths
  /\ AcknowledgedStays

LEMMA PlacesStay ==
  ASSUME UNCHANGED setup, NEW k
  PROVE  Places(k)' = Places(k)
BY SameRoutes DEF Places

LEMMA FilesAtIs ==
  ASSUME NEW S, NEW f
  PROVE  f \in FilesAt(S) <=> DOMAIN f \subseteq S /\ f \in [DOMAIN f -> Seq(Words) \ {<<>>}]
<1>1. f \in FilesAt(S) => \E D \in SUBSET S : f \in [D -> Seq(Words) \ {<<>>}]
  BY DEF FilesAt
<1>2. ASSUME DOMAIN f \subseteq S, f \in [DOMAIN f -> Seq(Words) \ {<<>>}]
      PROVE  f \in FilesAt(S)
  BY <1>2 DEF FilesAt
<1> QED
  BY <1>1, <1>2

LEMMA NoFilesAt ==
  ASSUME NEW S
  PROVE  NoFiles \in FilesAt(S)
BY FilesAtIs DEF NoFiles

LEMMA WithIs ==
  ASSUME NEW f, NEW g, NEW h, h = With(f, g)
  PROVE  /\ DOMAIN h = DOMAIN g \union DOMAIN f
         /\ \A q \in DOMAIN g : h[q] = g[q]
         /\ \A q \in DOMAIN f \ DOMAIN g : h[q] = f[q]
         /\ h = [q \in DOMAIN g \union DOMAIN f |-> h[q]]
BY DEF With

LEMMA WithFilesAt ==
  ASSUME NEW S, NEW f \in FilesAt(S), NEW g \in FilesAt(S)
  PROVE  With(f, g) \in FilesAt(S)
<1>1. DOMAIN f \subseteq S /\ f \in [DOMAIN f -> Seq(Words) \ {<<>>}]
  BY FilesAtIs
<1>2. DOMAIN g \subseteq S /\ g \in [DOMAIN g -> Seq(Words) \ {<<>>}]
  BY FilesAtIs
<1>3. PICK h : h = With(f, g)
  OBVIOUS
<1>4. /\ DOMAIN h = DOMAIN g \union DOMAIN f /\ h = [q \in DOMAIN h |-> h[q]]
      /\ \A q \in DOMAIN g : h[q] = g[q]
      /\ \A q \in DOMAIN f \ DOMAIN g : h[q] = f[q]
  BY <1>3 DEF With
<1>5. \A q \in DOMAIN h : h[q] \in Seq(Words) \ {<<>>}
  BY <1>1, <1>2, <1>4
<1>6. DOMAIN h \subseteq S /\ h \in [DOMAIN h -> Seq(Words) \ {<<>>}]
  BY <1>1, <1>2, <1>4, <1>5
<1> QED
  BY <1>3, <1>6, FilesAtIs

LEMMA OneFileAt ==
  ASSUME NEW p \in Paths, NEW file \in Seq(Words), file # <<>>
  PROVE  One(RouteFor(p).path, file) \in FilesAt(Places(RouteFor(p).to))
<1>1. RouteFor(p).path \in Places(RouteFor(p).to)
  BY DEF Places
<1>2. PICK q, f : q = RouteFor(p).path /\ f = One(q, file)
  OBVIOUS
<1>3. f \in [{q} -> Seq(Words) \ {<<>>}] /\ DOMAIN f = {q}
  BY <1>2 DEF One
<1> QED
  BY <1>1, <1>2, <1>3, FilesAtIs

LEMMA KindOf ==
  ASSUME setup \in Setups, NEW p \in Paths
  PROVE  RouteFor(p).to \in Kinds
<1>1. p \in Seq(Names) /\ p # NoPath
  BY PathFacts
<1>2. RouteFor(p).to = RouteFor(p).via.to /\ RouteFor(p).via \in setup.routes \union {Default}
  BY <1>1, RouteFacts
<1> QED
  BY <1>2, SetupFacts DEF Default

LEMMA FilesTyped ==
  ASSUME HeldInv, BoxesInv, NEW k \in Kinds
  PROVE  FilesOf(k) \in FilesAt(Places(k))
BY DEF HeldInv, BoxesInv, FilesOf

\* PutFile changes one file of one backend.
LEMMA PutFileOK ==
  ASSUME IInv, UNCHANGED <<setup, handle>>, NEW p \in Paths,
         NEW file \in Seq(Words), file # <<>>,
         NEW k \in Kinds, NEW q, k = RouteFor(p).to, q = RouteFor(p).path,
         k = "sandbox" => Reachable(k),
         PutFile(k, q, file)
  PROVE  /\ HeldInv' /\ BoxesInv'
         /\ \A x \in Kinds :
              FilesOf(x)' = IF x = k THEN With(FilesOf(k), One(q, file)) ELSE FilesOf(x)
<1>1. One(q, file) \in FilesAt(Places(k))
  BY OneFileAt
<1>2. FilesOf(k) \in FilesAt(Places(k))
  BY FilesTyped DEF IInv
<1>3. PICK new : new = With(FilesOf(k), One(q, file))
  OBVIOUS
<1>4. new \in FilesAt(Places(k))
  BY <1>1, <1>2, <1>3, WithFilesAt
<1>5. \A x : Places(x)' = Places(x)
  BY PlacesStay
<1>6. CASE k = "sandbox"
  <2>1. /\ boxes' = [boxes EXCEPT ![handle].files = new]
        /\ held' = held /\ handle' = handle
    BY <1>3, <1>6 DEF PutFile, FilesOf
  <2>2. boxes[handle].state = "started"
    BY <1>6 DEF Reachable
  <2>3. PICK F, B : F = FilesAt(Places("sandbox"))
                    /\ B = [state : {"none", "started", "gone"}, files : F]
    OBVIOUS
  <2>4. boxes \in [Boxes -> B] /\ handle \in Boxes /\ new \in F
    BY <1>4, <1>6, <2>3 DEF IInv, BoxesInv
  <2>5. boxes' \in [Boxes -> B]
    BY <2>1, <2>3, <2>4
  <2>6. \A b \in Boxes : /\ boxes'[b].state = boxes[b].state
                         /\ boxes'[b].files = IF b = handle THEN new ELSE boxes[b].files
    BY <2>1, <2>3, <2>4
  <2>7. FilesAt(Places("sandbox"))' = F
    BY <1>5, <2>3 DEF FilesAt
  <2>8. BoxesInv'
    <3>1. \A b \in Boxes : boxes'[b].state # "started" => boxes'[b].files = NoFiles
      BY <2>2, <2>6 DEF IInv, BoxesInv
    <3> QED
      BY <2>1, <2>3, <2>4, <2>5, <2>7, <3>1 DEF BoxesInv, NoFiles
  <2>9. HeldInv'
    BY <1>5, <2>1 DEF IInv, HeldInv, FilesAt
  <2>10. ASSUME NEW x \in Kinds
         PROVE  FilesOf(x)' = IF x = k THEN new ELSE FilesOf(x)
    BY <1>6, <2>1, <2>4, <2>6 DEF FilesOf
  <2> QED
    BY <1>3, <2>8, <2>9, <2>10
<1>7. CASE k # "sandbox"
  <2>1. /\ held' = [held EXCEPT ![k] = new]
        /\ boxes' = boxes /\ handle' = handle
    BY <1>3, <1>7 DEF PutFile, FilesOf
  <2>2. /\ held' = [x \in Kinds \ {"sandbox"} |-> held'[x]]
        /\ \A x \in Kinds \ {"sandbox"} : held'[x] = IF x = k THEN new ELSE held[x]
    BY <1>7, <2>1 DEF IInv, HeldInv
  <2>3. HeldInv'
    <3>1. \A x \in Kinds \ {"sandbox"} : held'[x] \in FilesAt(Places(x))
      BY <1>4, <2>2 DEF IInv, HeldInv
    <3> QED
      BY <1>5, <2>2, <3>1 DEF HeldInv, FilesAt
  <2>4. BoxesInv'
    BY <1>5, <2>1 DEF IInv, BoxesInv, FilesAt, NoFiles
  <2>5. ASSUME NEW x \in Kinds
        PROVE  FilesOf(x)' = IF x = k THEN new ELSE FilesOf(x)
    BY <1>7, <2>1, <2>2 DEF FilesOf
  <2> QED
    BY <1>3, <2>3, <2>4, <2>5
<1> QED
  BY <1>6, <1>7

\* What was promised holds after a step that keeps the file of each promise or
\* has put the file it promises.
SameFile(p) ==
  LET r == RouteFor(p) IN
  r.path \in DOMAIN FilesOf(r.to) =>
    /\ r.path \in DOMAIN FilesOf(r.to)'
    /\ FilesOf(r.to)'[r.path] = FilesOf(r.to)[r.path]

HasFile(p) ==
  LET r == RouteFor(p) IN
  /\ r.path \in DOMAIN FilesOf(r.to)'
  /\ FilesOf(r.to)'[r.path] = promised'[p]

LEMMA PromisesKept ==
  ASSUME AcknowledgedStays, UNCHANGED setup,
         \A p \in DOMAIN promised' :
           \/ p \in DOMAIN promised /\ promised'[p] = promised[p] /\ SameFile(p)
           \/ HasFile(p)
  PROVE  AcknowledgedStays'
<1>1. SUFFICES ASSUME NEW p \in DOMAIN promised'
               PROVE  /\ RouteFor(p)'.path \in DOMAIN FilesOf(RouteFor(p).to)'
                      /\ FilesOf(RouteFor(p).to)'[RouteFor(p)'.path] = promised'[p]
  BY DEF AcknowledgedStays
<1>2. RouteFor(p)' = RouteFor(p)
  BY SameRoutes
<1> QED
  BY <1>1, <1>2 DEF AcknowledgedStays, SameFile, HasFile, FilesOf

(***************************************************************************)
(* Calls                                                                   *)
(***************************************************************************)

LEMMA CallAccompanied ==
  ASSUME NEW call, CallOK(call)
  PROVE  CallOK([call EXCEPT !.alone = FALSE])
BY DEF CallOK, Calls

LEMMA CallPuts ==
  ASSUME NEW call \in Calls, NEW file \in Seq(Words), file # <<>>,
         call.op = "edit" => call.word \in Words
  PROVE  CallOK([call EXCEPT !.file = file])
BY DEF CallOK, Calls

LEMMA CallPutsAgain ==
  ASSUME NEW call, CallOK(call), NEW file \in Seq(Words), file # <<>>, NEW b \in Boxes
  PROVE  CallOK([call EXCEPT !.step = "put", !.file = file, !.box = b])
BY DEF CallOK, Calls

LEMMA CallLooks ==
  ASSUME NEW call, CallOK(call)
  PROVE  CallOK([call EXCEPT !.step = "look", !.again = TRUE])
BY DEF CallOK, Calls

LEMMA InProgressAre ==
  ASSUME CallsInv, NEW c \in Callers
  PROVE  calls[c] # Nobody => CallOK(calls[c]) /\ At(c) \in Paths
BY DEF CallsInv, InProgress, CallOK, Calls, At

LEMMA AccompaniedOK ==
  ASSUME CallsInv, NEW ps, NEW as, as = Accompanied(ps)
  PROVE  /\ as = [c \in Callers |-> as[c]]
         /\ \A c \in Callers : as[c] = Nobody \/ CallOK(as[c])
<1>1. as = [c \in Callers |-> IF c \in InProgress /\ At(c) \in ps
                              THEN [calls[c] EXCEPT !.alone = FALSE] ELSE calls[c]]
  BY DEF Accompanied
<1>2. ASSUME NEW c \in Callers
      PROVE  as[c] = Nobody \/ CallOK(as[c])
  <2>1. CASE c \in InProgress /\ At(c) \in ps
    <3>1. CallOK(calls[c])
      BY <2>1 DEF CallsInv
    <3>2. as[c] = [calls[c] EXCEPT !.alone = FALSE]
      BY <1>1, <2>1
    <3> QED
      BY <3>1, <3>2, CallAccompanied
  <2>2. CASE ~(c \in InProgress /\ At(c) \in ps)
    <3>1. as[c] = calls[c]
      BY <1>1, <2>2
    <3> QED
      BY <3>1 DEF CallsInv, InProgress
  <2> QED
    BY <2>1, <2>2
<1> QED
  BY <1>1, <1>2

LEMMA CallsNow ==
  ASSUME calls' = [c \in Callers |-> calls'[c]],
         \A c \in Callers : calls'[c] = Nobody \/ CallOK(calls'[c])
  PROVE  CallsInv'
BY DEF CallsInv, InProgress, CallOK

\* What a look at the file finds to be put is a file of words, not empty.
LEMMA OutcomeOK ==
  ASSUME IInv, NEW call \in Calls,
         call.op = "write" => call.file # <<>>, call.op = "edit" => call.word \in Words,
         NEW file \in Outcome(call)
  PROVE  file \in Seq(Words) /\ file # <<>>
<1>1. PICK k, q, files : k = RouteFor(call.at).to /\ q = RouteFor(call.at).path
                         /\ files = FilesOf(k)
  OBVIOUS
<1>2. call.op \in {"write", "edit"} /\ call.file \in Seq(Words) /\ call.at \in Paths
  BY DEF Calls
<1>3. CASE call.op = "write"
  <2>1. file = call.file
    BY <1>3 DEF Outcome
  <2> QED
    BY <1>2, <1>3, <2>1
<1>4. CASE call.op = "edit"
  <2>1. q \in DOMAIN files /\ file = Replacement(files[q], call.old, call.word)
    BY <1>1, <1>4 DEF Outcome, CanEdit
  <2>2. files \in FilesAt(Places(k))
    BY <1>1, <1>2, KindOf, FilesTyped DEF IInv
  <2>3. PICK old : old = files[q]
    OBVIOUS
  <2>4. old \in Seq(Words) /\ old # <<>>
    BY <2>1, <2>2, <2>3, FilesAtIs
  <2>5. file = [i \in 1..Len(old) |-> IF old[i] = call.old THEN call.word ELSE old[i]]
    BY <2>1, <2>3 DEF Replacement, ReplaceAll
  <2>6. Len(old) \in Nat /\ Len(old) # 0
    BY <2>4
  <2>7. \A i \in 1..Len(old) : old[i] \in Words
    BY <2>4
  <2>8. file \in [1..Len(old) -> Words]
    BY <1>4, <2>5, <2>7
  <2>9. file \in Seq(Words) /\ DOMAIN file = 1..Len(old)
    BY <2>6, <2>8
  <2>10. file # <<>>
    BY <2>6, <2>9
  <2> QED
    BY <2>9, <2>10
<1> QED
  BY <1>2, <1>3, <1>4

(***************************************************************************)
(* What the steps keep                                                     *)
(***************************************************************************)

\* Steps that leave the files and the promises alone.
LEMMA OnlyCalls ==
  ASSUME IInv, UNCHANGED <<setup, held, boxes, handle, promised>>, CallsInv'
  PROVE  IInv'
<1>1. \A x : Places(x)' = Places(x)
  BY PlacesStay
<1>2. HeldInv' /\ BoxesInv'
  BY <1>1 DEF IInv, HeldInv, BoxesInv, FilesAt, NoFiles
<1>3. AcknowledgedStays'
  <2>1. ASSUME NEW p \in DOMAIN promised' PROVE SameFile(p)
    BY SameRoutes DEF SameFile, FilesOf
  <2> QED
    BY <2>1, PromisesKept DEF IInv
<1> QED
  BY <1>2, <1>3 DEF IInv

LEMMA BeginOK ==
  ASSUME IInv, NEW c \in Callers, NEW call \in Calls, Begin(c, call),
         call.op = "write" => call.file # <<>>, call.op = "edit" => call.word \in Words
  PROVE  IInv'
<1>1. UNCHANGED <<setup, held, boxes, handle, promised>>
  BY DEF Begin, storeVars
<1>2. IInv'
  <2>1. PICK file \in Outcome(call) :
          calls' = [Accompanied({call.at}) EXCEPT ![c] = [call EXCEPT !.file = file]]
    BY DEF Begin
  <2>2. file \in Seq(Words) /\ file # <<>>
    BY OutcomeOK
  <2>3. PICK as, new : as = Accompanied({call.at}) /\ new = [call EXCEPT !.file = file]
    OBVIOUS
  <2>4. CallOK(new)
    BY <2>2, <2>3, CallPuts
  <2>5. as = [x \in Callers |-> as[x]] /\ \A x \in Callers : as[x] = Nobody \/ CallOK(as[x])
    BY <2>3, AccompaniedOK DEF IInv
  <2>6. calls' = [as EXCEPT ![c] = new]
    BY <2>1, <2>3
  <2>7. calls' = [x \in Callers |-> calls'[x]]
        /\ \A x \in Callers : calls'[x] = IF x = c THEN new ELSE as[x]
    BY <2>5, <2>6
  <2>8. CallsInv'
    BY <2>4, <2>5, <2>7, CallsNow
  <2> QED
    BY <1>1, <2>8, OnlyCalls
<1> QED
  BY <1>2

LEMMA WriteFileOK ==
  ASSUME IInv, NEW c \in Callers, NEW arg \in Args, NEW f \in Contents, WriteFile(c, arg, f)
  PROVE  IInv'
<1>1. PICK call : call = Call("write", ValidPath(arg), "", "", FALSE, f)
  OBVIOUS
<1>2. ValidPath(arg) \in Paths /\ handle \in Boxes /\ f \in Seq(Words) /\ f # <<>>
  BY AFAssumption DEF WriteFile, Paths, IInv, BoxesInv
<1>3. call \in Calls /\ call.op = "write" /\ call.file # <<>>
  BY <1>1, <1>2 DEF Call, Calls
<1> QED
  BY <1>1, <1>3, BeginOK DEF WriteFile

LEMMA EditFileOK ==
  ASSUME IInv, NEW c \in Callers, NEW arg \in Args, NEW old \in Words, NEW word \in Words,
         NEW all \in BOOLEAN, EditFile(c, arg, old, word, all)
  PROVE  IInv'
<1>1. PICK call : call = Call("edit", ValidPath(arg), old, word, all, <<>>)
  OBVIOUS
<1>2. ValidPath(arg) \in Paths /\ handle \in Boxes /\ <<>> \in Seq(Words)
  BY EmptySeq DEF EditFile, Paths, IInv, BoxesInv
<1>3. call \in Calls /\ call.op = "edit" /\ call.word \in Words
  BY <1>1, <1>2 DEF Call, Calls
<1> QED
  BY <1>1, <1>3, BeginOK DEF EditFile

\* One file put: it is there, and the files of all other paths are the same.
LEMMA OneFilePut ==
  ASSUME setup \in Setups, UNCHANGED setup, NEW p \in Paths, NEW file,
         NEW k, NEW q, k = RouteFor(p).to, q = RouteFor(p).path,
         \A x \in Kinds :
           FilesOf(x)' = IF x = k THEN With(FilesOf(k), One(q, file)) ELSE FilesOf(x)
  PROVE  /\ \A o \in Paths \ {p} : SameFile(o)
         /\ q \in DOMAIN FilesOf(k)' /\ FilesOf(k)'[q] = file
<1>1. PICK f : f = One(q, file)
  OBVIOUS
<1>2. DOMAIN f = {q} /\ f[q] = file
  BY <1>1 DEF One
<1>3. k \in Kinds
  BY KindOf
<1>4. ASSUME NEW o \in Paths, o # p
      PROVE  SameFile(o)
  <2>1. PICK x, r : x = RouteFor(o).to /\ r = RouteFor(o).path
    OBVIOUS
  <2>2. RouteFor(o)' = RouteFor(o)
    BY SameRoutes
  <2>3. x \in Kinds /\ ~(x = k /\ r = q)
    BY <1>4, <2>1, KindOf, OnePathEach
  <2>4. r \in DOMAIN FilesOf(x) =>
          r \in DOMAIN FilesOf(x)' /\ FilesOf(x)'[r] = FilesOf(x)[r]
    <3>1. CASE x = k
      <4>1. FilesOf(x)' = With(FilesOf(x), f)
        BY <1>1, <1>3, <3>1
      <4>2. r \notin DOMAIN f
        BY <1>2, <2>3, <3>1
      <4>3. PICK old, new : old = FilesOf(x) /\ new = FilesOf(x)'
        OBVIOUS
      <4>4. new = With(old, f)
        BY <4>1, <4>3
      <4>5. r \in DOMAIN old => r \in DOMAIN new /\ new[r] = old[r]
        BY <4>2, <4>4 DEF With
      <4> QED
        BY <4>3, <4>5
    <3>2. CASE x # k
      BY <2>3, <3>2
    <3> QED
      BY <3>1, <3>2
  <2> QED
    BY <2>1, <2>2, <2>4 DEF SameFile, FilesOf
<1>5. PICK old, new : old = FilesOf(k) /\ new = FilesOf(k)'
  OBVIOUS
<1>6. new = With(old, f)
  BY <1>1, <1>3, <1>5
<1>7. q \in DOMAIN new /\ new[q] = file
  BY <1>2, <1>6 DEF With
<1> QED
  BY <1>4, <1>5, <1>7

LEMMA CallsDone ==
  ASSUME CallsInv, NEW c \in Callers, calls' = [calls EXCEPT ![c] = Nobody]
  PROVE  CallsInv'
<1>1. calls' = [x \in Callers |-> IF x = c THEN Nobody ELSE calls[x]]
  BY DEF CallsInv
<1>2. \A x \in Callers : calls[x] = Nobody \/ CallOK(calls[x])
  BY DEF CallsInv, InProgress
<1> QED
  BY <1>1, <1>2, CallsNow

LEMMA ForgetIs ==
  ASSUME NEW ps
  PROVE  /\ DOMAIN Forget(ps) = DOMAIN promised \ ps
         /\ \A p \in DOMAIN promised \ ps : Forget(ps)[p] = promised[p]
BY DEF Forget

LEMMA PutOK ==
  ASSUME IInv, NEW c \in Callers, Put(c)
  PROVE  IInv'
<1>1. PICK p, k, q, file : /\ p = At(c) /\ k = RouteFor(p).to /\ q = RouteFor(p).path
                           /\ file = calls[c].file
  OBVIOUS
<1>2. UNCHANGED <<setup, handle>> /\ calls[c] # Nobody
      /\ calls' = [calls EXCEPT ![c] = Nobody]
  BY DEF Put, storeVars
<1>3. p \in Paths /\ file \in Seq(Words) /\ file # <<>>
  BY <1>1, <1>2, InProgressAre DEF IInv, CallOK, Calls
<1>4. CallsInv'
  BY <1>2, CallsDone DEF IInv
<1>5. CASE UNCHANGED <<storeVars, promised>>
  BY <1>2, <1>4, <1>5, OnlyCalls DEF storeVars
<1>6. CASE /\ PutFile(k, q, file)
           /\ promised' = IF calls[c].alone THEN With(promised, One(p, file))
                          ELSE Forget({p})
  <2>1. k \in Kinds /\ (k = "sandbox" => Reachable(k))
    BY <1>1, <1>3, KindOf DEF Put, IInv
  <2>2. /\ HeldInv' /\ BoxesInv'
        /\ \A x \in Kinds :
             FilesOf(x)' = IF x = k THEN With(FilesOf(k), One(q, file)) ELSE FilesOf(x)
    BY <1>1, <1>2, <1>3, <1>6, <2>1, PutFileOK
  <2>3. /\ \A o \in Paths \ {p} : SameFile(o)
        /\ q \in DOMAIN FilesOf(k)' /\ FilesOf(k)'[q] = file
    <3>1. setup \in Setups /\ UNCHANGED setup
      BY <1>2 DEF IInv
    <3>2. p \in Paths /\ k = RouteFor(p).to /\ q = RouteFor(p).path
      BY <1>1, <1>3
    <3>3. \A x \in Kinds :
            FilesOf(x)' = IF x = k THEN With(FilesOf(k), One(q, file)) ELSE FilesOf(x)
      BY <2>2
    <3> QED
      BY <3>1, <3>2, <3>3, OneFilePut
  <2>4. /\ DOMAIN promised' \subseteq DOMAIN promised \union {p}
        /\ \A o \in DOMAIN promised' \ {p} : o \in DOMAIN promised /\ promised'[o] = promised[o]
        /\ p \in DOMAIN promised' => promised'[p] = file
    <3>1. PICK f : f = One(p, file)
      OBVIOUS
    <3>2. DOMAIN f = {p} /\ f[p] = file
      BY <3>1 DEF One
    <3>3. CASE promised' = With(promised, f)
      <4>1. PICK new : new = promised'
        OBVIOUS
      <4>2. new = With(promised, f)
        BY <3>3, <4>1
      <4> QED
        BY <3>2, <4>1, <4>2 DEF With
    <3>4. CASE promised' = Forget({p})
      BY <3>4, ForgetIs
    <3> QED
      BY <1>6, <3>1, <3>3, <3>4
  <2>5. p \in DOMAIN promised' => HasFile(p)
    <3>1. RouteFor(p)' = RouteFor(p)
      BY <1>2, SameRoutes
    <3> QED
      BY <1>1, <2>3, <2>4, <3>1 DEF HasFile, FilesOf
  <2>6. DOMAIN promised' \subseteq Paths
    BY <1>3, <2>4 DEF IInv
  <2>7. AcknowledgedStays'
    BY <1>2, <2>3, <2>4, <2>5, <2>6, PromisesKept DEF IInv
  <2> QED
    BY <1>2, <1>4, <2>2, <2>6, <2>7 DEF IInv
<1> QED
  BY <1>1, <1>5, <1>6 DEF Put

LEMMA ExecuteOK ==
  ASSUME IInv, NEW p \in Paths, NEW w \in Words, Execute(p, w)
  PROVE  IInv'
<1>1. PICK file : file = <<w>>
  OBVIOUS
<1>2. file \in Seq(Words) /\ file # <<>>
  BY <1>1
<1>3. UNCHANGED <<setup, handle>> /\ calls' = Accompanied({p}) /\ promised' = Forget({p})
  BY DEF Execute
<1>4. PICK k, q : k = RouteFor(p).to /\ q = RouteFor(p).path
  OBVIOUS
<1>5. k = "sandbox" /\ q = p
  <2>1. p \in Seq(Names) /\ p # NoPath /\ setup \in Setups
    BY PathFacts DEF IInv
  <2>4. RouteFor(p).via = Default /\ setup.default = "sandbox"
    BY DEF Execute, CanExecute
  <2>5. Default.to = setup.default /\ Default.at = <<>>
    BY DEF Default
  <2>2. RouteFor(p).to = setup.default
    BY <2>1, <2>4, <2>5, RouteFacts
  <2>3. p = <<>> \o RouteFor(p).path /\ RouteFor(p).path \in Seq(Names)
    BY <2>1, <2>4, <2>5, RouteFacts
  <2> QED
    BY <1>4, <2>2, <2>3, <2>4, ConcatEmptySeq
<1>6. PutFile(k, q, file) /\ Reachable(k)
  BY <1>1, <1>5 DEF Execute, CompositeExecute
<1>7. /\ HeldInv' /\ BoxesInv'
      /\ \A x \in Kinds :
           FilesOf(x)' = IF x = k THEN With(FilesOf(k), One(q, file)) ELSE FilesOf(x)
  BY <1>2, <1>3, <1>4, <1>5, <1>6, PutFileOK DEF Kinds
<1>8. \A o \in Paths \ {p} : SameFile(o)
  BY <1>3, <1>4, <1>7, OneFilePut DEF IInv
<1>9. DOMAIN promised' \subseteq Paths
  BY <1>3, ForgetIs DEF IInv
<1>10. AcknowledgedStays'
  BY <1>3, <1>8, <1>9, ForgetIs, PromisesKept DEF IInv
<1>11. CallsInv'
  BY <1>3, AccompaniedOK, CallsNow DEF IInv
<1> QED
  BY <1>3, <1>7, <1>9, <1>10, <1>11 DEF IInv

\* The files of one machine change, which is started or keeps what it has.
LEMMA BoxFiles ==
  ASSUME BoxesInv, UNCHANGED <<setup, handle>>, NEW b \in Boxes,
         NEW new \in FilesAt(Places("sandbox")),
         boxes[b].state = "started" \/ new = boxes[b].files,
         boxes' = [boxes EXCEPT ![b].files = new]
  PROVE  /\ BoxesInv'
         /\ \A x \in Boxes : boxes'[x].files = IF x = b THEN new ELSE boxes[x].files
<1>1. PICK F, B : F = FilesAt(Places("sandbox"))
                  /\ B = [state : {"none", "started", "gone"}, files : F]
  OBVIOUS
<1>2. boxes \in [Boxes -> B]
  BY <1>1 DEF BoxesInv
<1>3. boxes' \in [Boxes -> B]
      /\ \A x \in Boxes : /\ boxes'[x].state = boxes[x].state
                          /\ boxes'[x].files = IF x = b THEN new ELSE boxes[x].files
  BY <1>1, <1>2
<1>4. FilesAt(Places("sandbox"))' = F
  BY <1>1, PlacesStay DEF FilesAt
<1>5. \A x \in Boxes : boxes'[x].state # "started" => boxes'[x].files = NoFiles
  BY <1>3 DEF BoxesInv
<1> QED
  BY <1>1, <1>3, <1>4, <1>5 DEF BoxesInv, NoFiles

LEMMA HeldStays ==
  ASSUME HeldInv, UNCHANGED <<setup, held>>
  PROVE  /\ HeldInv'
         /\ \A o : RouteFor(o).to # "sandbox" => SameFile(o)
<1>1. HeldInv'
  BY PlacesStay DEF HeldInv, FilesAt
<1>2. ASSUME NEW o, RouteFor(o).to # "sandbox" PROVE SameFile(o)
  BY <1>2, SameRoutes DEF SameFile, FilesOf
<1> QED
  BY <1>1, <1>2

\* A command that failed may have put the file of its own path, no other.
LEMMA PerhapsOK ==
  ASSUME IInv, UNCHANGED <<setup, held, handle>>, NEW c \in Callers, InSandbox(c), Perhaps(c)
  PROVE  /\ HeldInv' /\ BoxesInv'
         /\ \A o \in Paths \ {At(c)} : SameFile(o)
<1>1. CallOK(calls[c]) /\ At(c) \in Paths /\ RouteFor(At(c)).to = "sandbox"
  BY InProgressAre DEF InSandbox, IInv, InProgress
<1>2. PICK p, q, file, b : /\ p = At(c) /\ q = RouteFor(p).path
                           /\ file = calls[c].file /\ b = calls[c].box
  OBVIOUS
<1>3. file \in Seq(Words) /\ file # <<>> /\ b \in Boxes
  BY <1>1, <1>2 DEF CallOK, Calls
<1>4. HeldInv' /\ \A o : RouteFor(o).to # "sandbox" => SameFile(o)
  BY HeldStays DEF IInv
<1>5. CASE UNCHANGED boxes
  <2>1. BoxesInv'
    BY <1>5, PlacesStay DEF IInv, BoxesInv, FilesAt, NoFiles
  <2>2. ASSUME NEW o PROVE SameFile(o)
    BY <1>5, SameRoutes DEF SameFile, FilesOf
  <2> QED
    BY <1>4, <2>1, <2>2
<1>6. CASE /\ boxes[b].state = "started"
           /\ boxes' = [boxes EXCEPT ![b].files = With(@, One(q, file))]
  <2>1. PICK f, old, new : f = One(q, file) /\ old = boxes[b].files /\ new = With(old, f)
    OBVIOUS
  <2>2. f \in FilesAt(Places("sandbox"))
    BY <1>1, <1>2, <1>3, <2>1, OneFileAt
  <2>3. old \in FilesAt(Places("sandbox"))
    BY <1>3, <2>1 DEF IInv, BoxesInv
  <2>4. new \in FilesAt(Places("sandbox"))
    BY <2>1, <2>2, <2>3, WithFilesAt
  <2>5. boxes' = [boxes EXCEPT ![b].files = new]
    BY <1>6, <2>1
  <2>6. /\ BoxesInv'
        /\ \A x \in Boxes : boxes'[x].files = IF x = b THEN new ELSE boxes[x].files
    BY <1>3, <1>6, <2>4, <2>5, BoxFiles DEF IInv
  <2>7. ASSUME NEW o \in Paths, o # p, RouteFor(o).to = "sandbox"
        PROVE  SameFile(o)
    <3>1. PICK r : r = RouteFor(o).path
      OBVIOUS
    <3>2. RouteFor(o)' = RouteFor(o)
      BY SameRoutes
    <3>3. r # q
      BY <1>1, <1>2, <2>7, <3>1, OnePathEach DEF IInv
    <3>4. r \in DOMAIN old => r \in DOMAIN new /\ new[r] = old[r]
      <4>1. DOMAIN f = {q}
        BY <2>1 DEF One
      <4> QED
        BY <2>1, <3>3, <4>1 DEF With
    <3>5. handle \in Boxes /\ handle' = handle
      BY DEF IInv, BoxesInv
    <3> QED
      BY <2>1, <2>6, <2>7, <3>1, <3>2, <3>4, <3>5 DEF SameFile, FilesOf
  <2> QED
    BY <1>2, <1>4, <2>6, <2>7
<1> QED
  BY <1>2, <1>5, <1>6 DEF Perhaps

\* A step after which some promises are forgotten, and the files of the others
\* are the same.
LEMMA Forgetting ==
  ASSUME IInv, UNCHANGED setup, HeldInv', BoxesInv', CallsInv',
         NEW ps, promised' = Forget(ps),
         \A o \in DOMAIN promised \ ps : SameFile(o)
  PROVE  IInv'
<1>1. /\ DOMAIN promised' = DOMAIN promised \ ps
      /\ \A p \in DOMAIN promised' : promised'[p] = promised[p]
  BY ForgetIs
<1>2. AcknowledgedStays'
  BY <1>1, PromisesKept DEF IInv
<1> QED
  BY <1>1, <1>2 DEF IInv

LEMMA CommandFailsOK ==
  ASSUME IInv, NEW c \in Callers, CommandFails(c)
  PROVE  IInv'
<1>1. /\ UNCHANGED <<setup, held, handle>> /\ InSandbox(c) /\ Perhaps(c)
      /\ promised' = Forget({At(c)})
      /\ calls' = [calls EXCEPT ![c] = IF @.again THEN Nobody
                                       ELSE [@ EXCEPT !.step = "look", !.again = TRUE]]
  BY DEF CommandFails
<1>2. /\ HeldInv' /\ BoxesInv'
      /\ \A o \in Paths \ {At(c)} : SameFile(o)
  BY <1>1, PerhapsOK
<1>3. CallsInv'
  <2>1. PICK new : new = IF calls[c].again THEN Nobody
                         ELSE [calls[c] EXCEPT !.step = "look", !.again = TRUE]
    OBVIOUS
  <2>2. calls' = [calls EXCEPT ![c] = new]
    BY <1>1, <2>1
  <2>3. CallOK(calls[c])
    BY <1>1, InProgressAre DEF InSandbox, InProgress, IInv
  <2>4. new = Nobody \/ CallOK(new)
    BY <2>1, <2>3, CallLooks
  <2>5. calls' = [x \in Callers |-> calls'[x]]
        /\ \A x \in Callers : calls'[x] = IF x = c THEN new ELSE calls[x]
    BY <2>2 DEF IInv, CallsInv
  <2>6. \A x \in Callers : calls[x] = Nobody \/ CallOK(calls[x])
    BY DEF IInv, CallsInv, InProgress
  <2> QED
    BY <2>4, <2>5, <2>6, CallsNow
<1>4. \A o \in DOMAIN promised \ {At(c)} : SameFile(o)
  BY <1>2 DEF IInv
<1> QED
  BY <1>1, <1>2, <1>3, <1>4, Forgetting

LEMMA CommandTimesOutOK ==
  ASSUME IInv, NEW c \in Callers, CommandTimesOut(c)
  PROVE  IInv'
<1>1. /\ UNCHANGED <<setup, held, handle>> /\ InSandbox(c) /\ Perhaps(c)
      /\ promised' = Forget({At(c)})
      /\ calls' = [calls EXCEPT ![c] = Nobody]
  BY DEF CommandTimesOut
<1>2. /\ HeldInv' /\ BoxesInv'
      /\ \A o \in Paths \ {At(c)} : SameFile(o)
  BY <1>1, PerhapsOK
<1>3. CallsInv'
  BY <1>1, CallsDone DEF IInv
<1>4. \A o \in DOMAIN promised \ {At(c)} : SameFile(o)
  BY <1>2 DEF IInv
<1> QED
  BY <1>1, <1>2, <1>3, <1>4, Forgetting

LEMMA RunAgainOK ==
  ASSUME IInv, NEW c \in Callers, RunAgain(c)
  PROVE  IInv'
<1>1. UNCHANGED <<setup, held, boxes, handle, promised>> /\ calls[c] # Nobody
  BY DEF RunAgain, storeVars
<1>2. CASE calls' = [calls EXCEPT ![c] = Nobody]
  BY <1>1, <1>2, CallsDone, OnlyCalls DEF IInv
<1>3. CASE \E file \in Outcome(calls[c]) :
             calls' = [calls EXCEPT ![c] =
                         [@ EXCEPT !.step = "put", !.file = file, !.box = handle]]
  <2>1. PICK file \in Outcome(calls[c]) :
          calls' = [calls EXCEPT ![c] =
                      [@ EXCEPT !.step = "put", !.file = file, !.box = handle]]
    BY <1>3
  <2>2. CallOK(calls[c])
    BY <1>1, InProgressAre DEF IInv
  <2>3. file \in Seq(Words) /\ file # <<>> /\ handle \in Boxes
    BY <2>2, OutcomeOK DEF CallOK, IInv, BoxesInv
  <2>4. PICK new : new = [calls[c] EXCEPT !.step = "put", !.file = file, !.box = handle]
    OBVIOUS
  <2>5. CallOK(new)
    BY <2>2, <2>3, <2>4, CallPutsAgain
  <2>6. calls' = [calls EXCEPT ![c] = new]
    BY <2>1, <2>4
  <2>7. calls' = [x \in Callers |-> calls'[x]]
        /\ \A x \in Callers : calls'[x] = IF x = c THEN new ELSE calls[x]
    BY <2>6 DEF IInv, CallsInv
  <2>8. \A x \in Callers : calls[x] = Nobody \/ CallOK(calls[x])
    BY DEF IInv, CallsInv, InProgress
  <2>9. CallsInv'
    BY <2>5, <2>7, <2>8, CallsNow
  <2> QED
    BY <1>1, <2>9, OnlyCalls
<1> QED
  BY <1>2, <1>3 DEF RunAgain

\* Machines come and go: the files of one that goes are gone, and so are the
\* promises if it was the one in use.
LEMMA MachinesOK ==
  ASSUME IInv, UNCHANGED <<setup, held, calls>>, handle' \in Boxes,
         boxes' \in [Boxes -> [state : {"none", "started", "gone"},
                               files : FilesAt(Places("sandbox"))]],
         \A b \in Boxes : boxes'[b].state # "started" => boxes'[b].files = NoFiles,
         \/ UNCHANGED <<handle, promised>> /\ boxes'[handle].files = boxes[handle].files
         \/ promised' = Forget({x \in DOMAIN promised : RouteFor(x).to = "sandbox"})
  PROVE  IInv'
<1>1. HeldInv' /\ \A o : RouteFor(o).to # "sandbox" => SameFile(o)
  BY HeldStays DEF IInv
<1>2. BoxesInv'
  BY PlacesStay DEF BoxesInv, FilesAt, NoFiles
<1>3. CallsInv'
  BY DEF IInv, CallsInv, InProgress, CallOK
<1>4. CASE UNCHANGED <<handle, promised>> /\ boxes'[handle].files = boxes[handle].files
  <2>1. \A o : SameFile(o)
    BY <1>1, <1>4, SameRoutes DEF SameFile, FilesOf
  <2>2. AcknowledgedStays'
    BY <1>4, <2>1, PromisesKept DEF IInv
  <2> QED
    BY <1>1, <1>2, <1>3, <1>4, <2>2 DEF IInv
<1>5. CASE promised' = Forget({x \in DOMAIN promised : RouteFor(x).to = "sandbox"})
  <2>1. PICK ps : ps = {x \in DOMAIN promised : RouteFor(x).to = "sandbox"}
    OBVIOUS
  <2>2. \A o \in DOMAIN promised \ ps : SameFile(o)
    BY <1>1, <2>1
  <2> QED
    BY <1>1, <1>2, <1>3, <1>5, <2>1, <2>2, Forgetting
<1> QED
  BY <1>4, <1>5

LEMMA ReattachOK ==
  ASSUME IInv, Reattach
  PROVE  IInv'
<1>1. PICK b \in Boxes :
        /\ \/ boxes[b].state = "started" /\ UNCHANGED boxes
           \/ boxes[b].state = "none" /\ boxes' = [boxes EXCEPT ![b].state = "started"]
        /\ handle' = b
        /\ promised' = IF b = handle THEN promised
                       ELSE Forget({x \in DOMAIN promised : RouteFor(x).to = "sandbox"})
  BY DEF Reattach
<1>2. UNCHANGED <<setup, held, calls>>
  BY DEF Reattach
<1>3. PICK F, B : F = FilesAt(Places("sandbox"))
                  /\ B = [state : {"none", "started", "gone"}, files : F]
  OBVIOUS
<1>4. boxes \in [Boxes -> B]
  BY <1>3 DEF IInv, BoxesInv
<1>5. /\ boxes' \in [Boxes -> B]
      /\ \A x \in Boxes : /\ boxes'[x].files = boxes[x].files
                          /\ boxes'[x].state = boxes[x].state \/ boxes'[x].state = "started"
  BY <1>1, <1>3, <1>4
<1>6. \A x \in Boxes : boxes'[x].state # "started" => boxes'[x].files = NoFiles
  BY <1>5 DEF IInv, BoxesInv
<1>7. handle \in Boxes
  BY DEF IInv, BoxesInv
<1>8. CASE b = handle
  <2>1. UNCHANGED <<handle, promised>> /\ boxes'[handle].files = boxes[handle].files
    BY <1>1, <1>5, <1>7, <1>8
  <2> QED
    BY <1>2, <1>3, <1>5, <1>6, <1>7, <2>1, MachinesOK
<1>9. CASE b # handle
  <2>1. promised' = Forget({x \in DOMAIN promised : RouteFor(x).to = "sandbox"})
    BY <1>1, <1>9
  <2> QED
    BY <1>1, <1>2, <1>3, <1>5, <1>6, <2>1, MachinesOK
<1> QED
  BY <1>8, <1>9

LEMMA CreateBoxOK ==
  ASSUME IInv, NEW b \in Boxes, CreateBox(b)
  PROVE  IInv'
<1>1. UNCHANGED <<setup, held, handle, calls, promised>>
      /\ boxes' = [boxes EXCEPT ![b].state = "started"]
  BY DEF CreateBox
<1>2. PICK F, B : F = FilesAt(Places("sandbox"))
                  /\ B = [state : {"none", "started", "gone"}, files : F]
  OBVIOUS
<1>3. boxes \in [Boxes -> B] /\ handle \in Boxes
  BY <1>2 DEF IInv, BoxesInv
<1>4. /\ boxes' \in [Boxes -> B]
      /\ \A x \in Boxes : /\ boxes'[x].files = boxes[x].files
                          /\ boxes'[x].state = boxes[x].state \/ boxes'[x].state = "started"
  BY <1>1, <1>2, <1>3
<1>5. \A x \in Boxes : boxes'[x].state # "started" => boxes'[x].files = NoFiles
  BY <1>4 DEF IInv, BoxesInv
<1> QED
  BY <1>1, <1>2, <1>3, <1>4, <1>5, MachinesOK

LEMMA DestroyBoxOK ==
  ASSUME IInv, NEW b \in Boxes, DestroyBox(b)
  PROVE  IInv'
<1>1. /\ UNCHANGED <<setup, held, handle, calls>>
      /\ boxes' = [boxes EXCEPT ![b] = [state |-> "gone", files |-> NoFiles]]
      /\ promised' = IF b # handle THEN promised
                     ELSE Forget({x \in DOMAIN promised : RouteFor(x).to = "sandbox"})
  BY DEF DestroyBox
<1>2. PICK F, B : F = FilesAt(Places("sandbox"))
                  /\ B = [state : {"none", "started", "gone"}, files : F]
  OBVIOUS
<1>3. boxes \in [Boxes -> B] /\ handle \in Boxes
  BY <1>2 DEF IInv, BoxesInv
<1>4. PICK gone : gone = [state |-> "gone", files |-> NoFiles]
  OBVIOUS
<1>5. gone \in B
  BY <1>2, <1>4, NoFilesAt
<1>6. /\ boxes' \in [Boxes -> B]
      /\ \A x \in Boxes : boxes'[x] = IF x = b THEN gone ELSE boxes[x]
  BY <1>1, <1>3, <1>4, <1>5
<1>7. \A x \in Boxes : boxes'[x].state # "started" => boxes'[x].files = NoFiles
  BY <1>4, <1>6 DEF IInv, BoxesInv
<1>8. CASE b = handle
  BY <1>1, <1>2, <1>3, <1>6, <1>7, <1>8, MachinesOK
<1>9. CASE b # handle
  <2>1. UNCHANGED <<handle, promised>> /\ boxes'[handle].files = boxes[handle].files
    BY <1>1, <1>3, <1>6, <1>9
  <2> QED
    BY <1>1, <1>2, <1>3, <1>6, <1>7, <2>1, MachinesOK
<1> QED
  BY <1>8, <1>9

\* An upload puts the file at some of its paths, all of them reachable: a
\* backend gets those that lead to it.
UploadsTo(touched, f, new) ==
  /\ touched \subseteq Paths
  /\ \A o \in touched : Reachable(RouteFor(o).to)
  /\ new = [k \in Kinds |->
              [r \in {RouteFor(o).path : o \in {x \in touched : RouteFor(x).to = k}} |-> f]]

LEMMA UploadIs ==
  ASSUME NEW ps \in Seq(Paths), NEW f, Upload(ps, f), HeldInv
  PROVE  \E touched, new :
           /\ UploadsTo(touched, f, new)
           /\ held' = [k \in DOMAIN held |-> With(held[k], new[k])]
           /\ boxes' = [boxes EXCEPT ![handle].files = With(@, new["sandbox"])]
           /\ calls' = Accompanied(touched)
           /\ promised' = Forget(touched) \/ promised' = With(promised, [q \in touched |-> f])
           /\ UNCHANGED <<setup, handle>>
<1> DEFINE kind == [i \in DOMAIN ps |-> RouteFor(ps[i]).to]
           first(k) == CHOOSE i \in DOMAIN ps :
                         kind[i] = k /\ \A j \in DOMAIN ps : kind[j] = k => i <= j
           sent == {i \in DOMAIN ps : \A j \in DOMAIN ps :
                      first(kind[j]) <= first(kind[i]) => kind[j] # "state"}
           done == {i \in sent : ~Blocked(kind[i], RouteFor(ps[i]).path)}
           put(k) == [q \in {RouteFor(ps[i]).path : i \in {j \in done : kind[j] = k}} |-> f]
           touched == {ps[i] : i \in done}
           new == [k \in Kinds |->
                     [r \in {RouteFor(o).path : o \in {x \in touched : RouteFor(x).to = k}} |-> f]]
<1>1. /\ \A i \in DOMAIN ps : Reachable(kind[i])
      /\ held' = [k \in DOMAIN held |-> With(held[k], put(k))]
      /\ boxes' = [boxes EXCEPT ![handle].files = With(@, put("sandbox"))]
      /\ calls' = Accompanied(touched)
      /\ promised' = Forget(touched) \/ promised' = With(promised, [q \in touched |-> f])
      /\ UNCHANGED <<setup, handle>>
  BY DEF Upload
<1>2. done \subseteq DOMAIN ps
  OBVIOUS
<1>3. UploadsTo(touched, f, new)
  <2>1. \A i \in DOMAIN ps : ps[i] \in Paths
    OBVIOUS
  <2> HIDE DEF sent
  <2>2. \A o \in touched : o \in Paths /\ Reachable(RouteFor(o).to)
    BY <1>1, <1>2, <2>1
  <2> QED
    BY <2>2 DEF UploadsTo
<1>4. ASSUME NEW k \in Kinds
      PROVE  put(k) = new[k]
  <2>1. {RouteFor(ps[i]).path : i \in {j \in done : kind[j] = k}}
          = {RouteFor(o).path : o \in {x \in touched : RouteFor(x).to = k}}
    <3>1. \A i \in done : kind[i] = RouteFor(ps[i]).to
      BY <1>2
    <3> HIDE DEF done, kind
    <3> QED
      BY <3>1
  <2> QED
    BY <2>1
<1>5. DOMAIN held = Kinds \ {"sandbox"} /\ "sandbox" \in Kinds
  BY DEF HeldInv, Kinds
<1>6. held' = [k \in DOMAIN held |-> With(held[k], new[k])]
  BY <1>1, <1>4, <1>5
<1>7. boxes' = [boxes EXCEPT ![handle].files = With(@, new["sandbox"])]
  BY <1>1, <1>4, <1>5
<1>8. PICK t, n : t = touched /\ n = new
  OBVIOUS
<1> HIDE DEF touched, new
<1> QED
  BY <1>1, <1>3, <1>6, <1>7, <1>8

LEMMA UploadOK ==
  ASSUME IInv, NEW ps \in Seq(Paths), NEW f \in Contents, Upload(ps, f)
  PROVE  IInv'
<1>1. PICK touched, new :
        /\ UploadsTo(touched, f, new)
        /\ held' = [k \in DOMAIN held |-> With(held[k], new[k])]
        /\ boxes' = [boxes EXCEPT ![handle].files = With(@, new["sandbox"])]
        /\ calls' = Accompanied(touched)
        /\ promised' = Forget(touched) \/ promised' = With(promised, [q \in touched |-> f])
        /\ UNCHANGED <<setup, handle>>
  BY UploadIs DEF IInv
<1>2. f \in Seq(Words) /\ f # <<>>
  BY AFAssumption
<1>3. touched \subseteq Paths
  BY <1>1 DEF UploadsTo
<1>4. ASSUME NEW k \in Kinds
      PROVE  /\ new[k] \in FilesAt(Places(k))
             /\ DOMAIN new[k] = {RouteFor(o).path : o \in {x \in touched : RouteFor(x).to = k}}
             /\ \A r \in DOMAIN new[k] : new[k][r] = f
  <2>1. PICK D, g : D = {RouteFor(o).path : o \in {x \in touched : RouteFor(x).to = k}}
                    /\ g = new[k]
    OBVIOUS
  <2>2. g = [r \in D |-> f]
    BY <1>1, <2>1 DEF UploadsTo
  <2>3. D \subseteq Places(k)
    BY <1>3, <2>1 DEF Places
  <2>4. DOMAIN g = D /\ g \in [D -> Seq(Words) \ {<<>>}] /\ \A r \in D : g[r] = f
    BY <1>2, <2>2
  <2> QED
    BY <2>1, <2>3, <2>4, FilesAtIs
<1>5. ASSUME NEW k \in Kinds
      PROVE  With(FilesOf(k), new[k]) \in FilesAt(Places(k))
  BY <1>4, FilesTyped, WithFilesAt DEF IInv
<1>6. BoxesInv' /\ FilesOf("sandbox")' = With(FilesOf("sandbox"), new["sandbox"])
  <2>1. PICK old, now : old = boxes[handle].files /\ now = With(old, new["sandbox"])
    OBVIOUS
  <2>2. "sandbox" \in Kinds /\ handle \in Boxes /\ FilesOf("sandbox") = old
    BY <2>1 DEF Kinds, IInv, BoxesInv, FilesOf
  <2>3. now \in FilesAt(Places("sandbox"))
    BY <1>5, <2>1, <2>2
  <2>4. boxes' = [boxes EXCEPT ![handle].files = now]
    BY <1>1, <2>1
  <2>5. boxes[handle].state = "started" \/ now = old
    <3>1. CASE \E o \in touched : RouteFor(o).to = "sandbox"
      BY <1>1, <3>1 DEF UploadsTo, Reachable
    <3>2. CASE \A o \in touched : RouteFor(o).to # "sandbox"
      <4>1. PICK g : g = new["sandbox"]
        OBVIOUS
      <4>2. DOMAIN g = {}
        BY <1>4, <2>2, <3>2, <4>1
      <4>3. old = [r \in DOMAIN old |-> old[r]]
        BY <2>1, <2>2 DEF IInv, BoxesInv, FilesAt
      <4>4. With(old, g) = [r \in DOMAIN old |-> old[r]]
        BY <4>2 DEF With
      <4> QED
        BY <2>1, <4>1, <4>3, <4>4
    <3> QED
      BY <3>1, <3>2
  <2>6. /\ BoxesInv'
        /\ \A x \in Boxes : boxes'[x].files = IF x = handle THEN now ELSE boxes[x].files
    <3>1. BoxesInv /\ UNCHANGED <<setup, handle>>
      BY <1>1 DEF IInv
    <3>2. boxes[handle].state = "started" \/ now = boxes[handle].files
      BY <2>1, <2>5
    <3> QED
      BY <2>2, <2>3, <2>4, <3>1, <3>2, BoxFiles
  <2> QED
    BY <1>1, <2>1, <2>2, <2>6 DEF FilesOf
<1>7. /\ held' = [k \in Kinds \ {"sandbox"} |-> held'[k]]
      /\ \A k \in Kinds \ {"sandbox"} : held'[k] = With(held[k], new[k])
  BY <1>1 DEF IInv, HeldInv
<1>8. HeldInv'
  <2>1. \A k \in Kinds \ {"sandbox"} : held'[k] \in FilesAt(Places(k))
    BY <1>5, <1>7 DEF FilesOf
  <2> QED
    BY <1>1, <1>7, <2>1, PlacesStay DEF HeldInv, FilesAt
<1>9. ASSUME NEW k \in Kinds
      PROVE  FilesOf(k)' = With(FilesOf(k), new[k])
  BY <1>6, <1>7 DEF FilesOf
<1>10. ASSUME NEW o \in Paths
       PROVE  IF o \in touched
              THEN /\ RouteFor(o).path \in DOMAIN FilesOf(RouteFor(o).to)'
                   /\ FilesOf(RouteFor(o).to)'[RouteFor(o).path] = f
              ELSE SameFile(o)
  <2>1. PICK k, r : k = RouteFor(o).to /\ r = RouteFor(o).path
    OBVIOUS
  <2>2. k \in Kinds /\ RouteFor(o)' = RouteFor(o)
    BY <1>1, <2>1, KindOf, SameRoutes DEF IInv
  <2>3. PICK old, g, now : old = FilesOf(k) /\ g = new[k] /\ now = FilesOf(k)'
    OBVIOUS
  <2>4. now = With(old, g)
    BY <1>9, <2>2, <2>3
  <2>5. o \in touched <=> r \in DOMAIN g
    <3>1. ASSUME r \in DOMAIN g PROVE o \in touched
      <4>1. PICK x \in touched : RouteFor(x).to = k /\ RouteFor(x).path = r
        BY <1>4, <2>2, <2>3, <3>1
      <4>2. x = o
        BY <1>3, <2>1, <4>1, OnePathEach DEF IInv
      <4> QED
        BY <4>1, <4>2
    <3> QED
      BY <1>4, <2>1, <2>2, <2>3, <3>1
  <2>6. r \in DOMAIN g => g[r] = f
    BY <1>4, <2>2, <2>3
  <2>7. CASE o \in touched
    <3>1. r \in DOMAIN now /\ now[r] = f
      BY <2>4, <2>5, <2>6, <2>7 DEF With
    <3> QED
      BY <2>1, <2>2, <2>3, <2>7, <3>1 DEF FilesOf
  <2>8. CASE o \notin touched
    <3>1. r \in DOMAIN old => r \in DOMAIN now /\ now[r] = old[r]
      BY <2>4, <2>5, <2>8 DEF With
    <3> QED
      BY <2>1, <2>2, <2>3, <2>8, <3>1 DEF SameFile, FilesOf
  <2> QED
    BY <2>7, <2>8
<1>11. CallsInv'
  BY <1>1, AccompaniedOK, CallsNow DEF IInv
<1>12. CASE promised' = Forget(touched)
  <2>1. \A o \in DOMAIN promised \ touched : SameFile(o)
    BY <1>10 DEF IInv
  <2> QED
    BY <1>1, <1>6, <1>8, <1>11, <1>12, <2>1, Forgetting
<1>13. CASE promised' = With(promised, [q \in touched |-> f])
  <2>1. PICK g, now : g = [q \in touched |-> f] /\ now = promised'
    OBVIOUS
  <2>2. now = With(promised, g) /\ DOMAIN g = touched /\ \A q \in touched : g[q] = f
    BY <1>13, <2>1
  <2>3. /\ DOMAIN now = touched \union DOMAIN promised
        /\ \A o \in touched : now[o] = f
        /\ \A o \in DOMAIN promised \ touched : now[o] = promised[o]
    BY <2>2 DEF With
  <2>4. DOMAIN promised' \subseteq Paths
    BY <1>3, <2>1, <2>3 DEF IInv
  <2>5. ASSUME NEW o \in DOMAIN promised'
        PROVE  \/ o \in DOMAIN promised /\ promised'[o] = promised[o] /\ SameFile(o)
               \/ HasFile(o)
    <3>1. CASE o \in touched
      <4>1. RouteFor(o)' = RouteFor(o)
        BY <1>1, SameRoutes
      <4>2. /\ RouteFor(o).path \in DOMAIN FilesOf(RouteFor(o).to)'
            /\ FilesOf(RouteFor(o).to)'[RouteFor(o).path] = f
        BY <1>3, <1>10, <3>1
      <4>3. promised'[o] = f
        BY <2>1, <2>3, <3>1
      <4> QED
        BY <4>1, <4>2, <4>3 DEF HasFile, FilesOf
    <3>2. CASE o \notin touched
      BY <1>10, <2>1, <2>3, <2>4, <3>2
    <3> QED
      BY <3>1, <3>2
  <2>6. AcknowledgedStays'
    BY <1>1, <2>5, PromisesKept DEF IInv
  <2> QED
    BY <1>1, <1>6, <1>8, <1>11, <2>4, <2>6 DEF IInv
<1> QED
  BY <1>1, <1>12, <1>13

(***************************************************************************)
(* The theorems                                                            *)
(***************************************************************************)

LEMMA InitOK ==
  ASSUME Init
  PROVE  IInv
<1>1. \A k : NoFiles \in FilesAt(Places(k))
  BY NoFilesAt
<1>2. HeldInv
  BY <1>1 DEF Init, HeldInv
<1>3. BoxesInv
  BY <1>1 DEF Init, BoxesInv
<1>4. CallsInv
  BY DEF Init, CallsInv, InProgress
<1>5. DOMAIN promised = {}
  BY DEF Init, NoFiles
<1>6. AcknowledgedStays
  BY <1>5 DEF AcknowledgedStays
<1> QED
  BY <1>2, <1>3, <1>4, <1>5, <1>6 DEF Init, IInv

LEMMA NextOK ==
  ASSUME IInv, Next
  PROVE  IInv'
<1>1. CASE \E c \in Callers, arg \in Args, f \in Contents : WriteFile(c, arg, f)
  BY <1>1, WriteFileOK
<1>2. CASE \E c \in Callers, arg \in Args, v, w \in Words, all \in BOOLEAN :
             v # w /\ EditFile(c, arg, v, w, all)
  BY <1>2, EditFileOK
<1>3. CASE \E c \in Callers : Put(c)
  BY <1>3, PutOK
<1>4. CASE \E p, q \in Paths, f \in Contents : p # q /\ Upload(<<p, q>>, f)
  <2>1. PICK p, q \in Paths, f \in Contents : Upload(<<p, q>>, f)
    BY <1>4
  <2>2. <<p, q>> \in Seq(Paths)
    OBVIOUS
  <2> QED
    BY <2>1, <2>2, UploadOK
<1>5. CASE \E p \in Paths, w \in Words : Execute(p, w)
  BY <1>5, ExecuteOK
<1>6. CASE \E c \in Callers : CommandFails(c) \/ CommandTimesOut(c) \/ RunAgain(c)
  BY <1>6, CommandFailsOK, CommandTimesOutOK, RunAgainOK
<1>7. CASE Reattach
  BY <1>7, ReattachOK
<1>8. CASE \E b \in Boxes : CreateBox(b) \/ DestroyBox(b)
  BY <1>8, CreateBoxOK, DestroyBoxOK
<1> QED
  BY <1>1, <1>2, <1>3, <1>4, <1>5, <1>6, <1>7, <1>8 DEF Next, Update, Sandbox

LEMMA StutterOK ==
  ASSUME IInv, UNCHANGED vars
  PROVE  IInv'
<1>1. UNCHANGED <<setup, held, boxes, handle, calls, promised>>
  BY DEF vars, storeVars
<1>2. CallsInv'
  BY <1>1 DEF IInv, CallsInv, InProgress, CallOK
<1> QED
  BY <1>1, <1>2, OnlyCalls

\* In every state the files are where paths lead, calls are well formed, and
\* every promise is kept.
THEOREM Invariant == Spec => []IInv
<1>1. Init => IInv
  BY InitOK
<1>2. IInv /\ [Next]_vars => IInv'
  BY NextOK, StutterOK
<1> QED
  BY <1>1, <1>2, PTL DEF Spec

LEMMA FileMapOK ==
  ASSUME setup \in Setups, NEW k, NEW f \in FilesAt(Places(k))
  PROVE  FileMap(f)
<1>1. DOMAIN f \subseteq Places(k) /\ f \in [DOMAIN f -> Seq(Words) \ {<<>>}]
  BY FilesAtIs
<1>2. ASSUME NEW q \in DOMAIN f
      PROVE  q \in UNION {{SubSeq(p, j, Len(p)) : j \in 1..(Len(p) + 1)} : p \in Paths}
  <2>1. PICK p \in Paths : q = RouteFor(p).path
    BY <1>1, <1>2 DEF Places
  <2>2. p \in Seq(Names) /\ p # NoPath
    BY PathFacts
  <2>3. PICK at : at = RouteFor(p).via.at
    OBVIOUS
  <2>4. /\ at \in Seq(Names)
        /\ q = SubSeq(p, Len(at) + 1, Len(p))
        /\ Len(p) = Len(at) + Len(q) /\ q \in Seq(Names)
    BY <2>1, <2>2, <2>3, RouteFacts
  <2>5. Len(at) + 1 \in 1..(Len(p) + 1)
    BY <2>4
  <2> QED
    BY <2>4, <2>5
<1>3. ASSUME NEW q \in DOMAIN f
      PROVE  f[q] # <<>> /\ ToSet(f[q]) \subseteq Words
  <2>1. f[q] \in Seq(Words) \ {<<>>}
    BY <1>1
  <2> QED
    BY <2>1 DEF ToSet
<1> QED
  BY <1>2, <1>3 DEF FileMap

\* Everything has its shape, and a machine that is not started has no files.
THEOREM TypeCorrect == Spec => []TypeOK
<1>1. IInv => TypeOK
  <2>1. SUFFICES ASSUME IInv PROVE TypeOK
    OBVIOUS
  <2>2. \A k \in DOMAIN held : FileMap(held[k])
    BY <2>1, FileMapOK DEF IInv, HeldInv
  <2>3. \A b \in Boxes : /\ FileMap(boxes[b].files)
                         /\ boxes[b].state # "started" => boxes[b].files = NoFiles
    BY <2>1, FileMapOK DEF IInv, BoxesInv
  <2>4. \A c \in InProgress : calls[c] \in Calls /\ calls[c].file # <<>>
    BY <2>1 DEF IInv, CallsInv, CallOK
  <2> QED
    BY <2>1, <2>2, <2>3, <2>4 DEF TypeOK, IInv, BoxesInv
<1> QED
  BY <1>1, Invariant, PTL

\* What the tools acknowledged is in the files until the next write, edit or
\* upload at that very path, whatever calls at other paths, of whatever
\* backend, do in between: _route_for_path never sends two paths to one place.
THEOREM AcknowledgedAlwaysStays == Spec => []AcknowledgedStays
<1>1. IInv => AcknowledgedStays
  BY DEF IInv
<1> QED
  BY <1>1, Invariant, PTL

(***************************************************************************)
(* Reading and downloading                                                 *)
(***************************************************************************)

\* The reply to a path that leads to a file, and to one that does not.
ReplyOf(p) ==
  LET r == RouteFor(p) IN
  IF r.path \in DOMAIN FilesOf(r.to)
  THEN [status |-> "ok", lines |-> FilesOf(r.to)[r.path]] ELSE Missing

\* download_files: however many paths, and whatever backends they go to, the
\* reply at each place is about the path at that place.
LEMMA DownloadIs ==
  ASSUME NEW X, NEW ps \in Seq(X), NEW i \in DOMAIN ps
  PROVE  CompositeDownload(ps)[i] = ReplyOf(ps[i])
<1>1. PICK kind, b, files :
        /\ kind = RouteFor(ps[i]).to /\ files = FilesOf(kind)
        /\ b = Selection([j \in DOMAIN ps |-> j], {j \in DOMAIN ps : RouteFor(ps[j]).to = kind})
  OBVIOUS
<1> DEFINE replies ==
             [k \in DOMAIN b |->
                LET key == RouteFor(ps[b[k]]).path
                IN  IF key \in DOMAIN files
                    THEN [status |-> "ok", lines |-> files[key]] ELSE Missing]
<1>2. CompositeDownload(ps)[i] = replies[CHOOSE k \in DOMAIN b : b[k] = i]
  BY <1>1 DEF CompositeDownload
<1>3. \E k \in DOMAIN b : b[k] = i
  <2>1. PICK s, S : s = [j \in DOMAIN ps |-> j]
                    /\ S = {j \in DOMAIN ps : RouteFor(ps[j]).to = kind}
    OBVIOUS
  <2>2. b = Selection(s, S) /\ i \in S
    BY <1>1, <2>1
  <2>3. DOMAIN ps = 1..Len(ps) /\ Len(ps) \in Nat
    OBVIOUS
  <2>4. s \in Seq(Nat) /\ i \in DOMAIN s /\ s[i] = i
    BY <2>1, <2>3
  <2>5. NoneLost(Selection(s, S), s, S)
    BY <2>4, NoneLeftOut
  <2> QED
    BY <2>2, <2>4, <2>5 DEF NoneLost
<1>4. PICK k : k = CHOOSE x \in DOMAIN b : b[x] = i
  OBVIOUS
<1>5. k \in DOMAIN b /\ b[k] = i
  BY <1>3, <1>4
<1>6. replies[k] = ReplyOf(ps[i])
  BY <1>1, <1>5 DEF ReplyOf
<1> QED
  BY <1>2, <1>4, <1>6

LEMMA OneLine ==
  ASSUME NEW file \in Seq(Words), NEW offset \in 0..(Len(file) - 1)
  PROVE  /\ Lines(file, offset, 1) = <<file[offset + 1]>>
         /\ file # <<>> /\ ~(offset >= Len(file))
<1>1. Len(file) \in Nat /\ offset + 1 \in 1..Len(file) /\ file # <<>> /\ ~(offset >= Len(file))
  OBVIOUS
<1>2. (IF offset + 1 < Len(file) THEN offset + 1 ELSE Len(file)) = offset + 1
  BY <1>1
<1>3. SubSeq(file, offset + 1, offset + 1) = <<file[offset + 1]>>
  <2>1. PICK n, x, y : n = offset + 1 /\ x = SubSeq(file, n, n) /\ y = <<file[n]>>
    OBVIOUS
  <2>2. n \in 1..Len(file) /\ n \in Nat
    BY <1>1, <2>1
  <2>3. x \in Seq(Words) /\ Len(x) = 1 /\ x[1] = file[n]
    BY <2>1, <2>2
  <2>4. y \in Seq(Words) /\ Len(y) = 1 /\ y[1] = file[n]
    BY <2>1, <2>2
  <2>5. x = y
    BY <2>3, <2>4, SeqEqual
  <2> QED
    BY <2>1, <2>5
<1> QED
  BY <1>1, <1>2, <1>3 DEF Lines

LEMMA ReadIs ==
  ASSUME IInv, NEW arg, ValidPath(arg) \in Paths, ~IsRefused(arg),
         NEW r, r = RouteFor(ValidPath(arg)), NEW files, files = FilesOf(r.to),
         NEW fails \in BOOLEAN
  PROVE  /\ r.path \notin DOMAIN files => ToolRead(arg, 0, 1, fails) = Missing
         /\ r.path \in DOMAIN files /\ ~(fails /\ r.to = "sandbox") =>
              \A offset \in 0..(Len(files[r.path]) - 1) :
                ToolRead(arg, offset, 1, fails).lines = <<files[r.path][offset + 1]>>
<1>1. r.to \in Kinds
  BY KindOf DEF IInv
<1>2. files \in FilesAt(Places(r.to))
  BY <1>1, FilesTyped DEF IInv
<1>3. \A o : ToolRead(arg, o, 1, fails) = ReadOf(r.to, files, r.path, o, 1, fails)
  BY DEF ToolRead, CompositeRead
<1>4. CASE r.path \notin DOMAIN files
  BY <1>1, <1>3, <1>4 DEF Kinds, ReadOf, StateRead, StoreRead, DiskRead, SandboxRead
<1>5. CASE r.path \in DOMAIN files /\ ~(fails /\ r.to = "sandbox")
  <2>1. PICK file : file = files[r.path]
    OBVIOUS
  <2>2. file \in Seq(Words)
    BY <1>2, <1>5, <2>1, FilesAtIs
  <2>3. ASSUME NEW offset \in 0..(Len(file) - 1)
        PROVE  ToolRead(arg, offset, 1, fails).lines = <<file[offset + 1]>>
    <3>1. /\ Lines(file, offset, 1) = <<file[offset + 1]>>
          /\ file # <<>> /\ ~(offset >= Len(file))
      BY <2>2, <2>3, OneLine
    <3>2. ReadResponse(file, offset, 1) = [status |-> "ok", lines |-> Lines(file, offset, 1)]
      BY <3>1 DEF ReadResponse
    <3>3. ReadOf(r.to, files, r.path, offset, 1, fails)
            = [status |-> "ok", lines |-> Lines(file, offset, 1)]
      BY <1>1, <1>5, <2>1, <3>1, <3>2
         DEF Kinds, ReadOf, StateRead, StoreRead, DiskRead, SandboxRead
    <3> QED
      BY <1>3, <3>1, <3>3
  <2> QED
    BY <1>5, <2>1, <2>3
<1> QED
  BY <1>4, <1>5

\* Reading and downloading tell the truth, whatever the setup: each reply is
\* about its own path, and is the text of the file there or says there is none;
\* only a read whose command fails in the sandbox may say so of a file that is.
THEOREM RepliesAreAlwaysTrue == Spec => []RepliesAreTrue
<1>1. IInv => RepliesAreTrue
  <2>1. SUFFICES ASSUME IInv PROVE RepliesAreTrue
    OBVIOUS
  <2>2. ASSUME NEW arg \in AskableArgs, NEW q \in Askable
        PROVE  CompositeDownload(<<q, ValidPath(arg)>>)[2] = ReplyOf(ValidPath(arg))
    <3>1. PICK ps : ps = <<q, ValidPath(arg)>>
      OBVIOUS
    <3>2. ps \in Seq(Paths) /\ 2 \in DOMAIN ps /\ ps[2] = ValidPath(arg)
      BY <2>2, <3>1 DEF AskableArgs, Askable
    <3> QED
      BY <3>1, <3>2, DownloadIs
  <2>3. ASSUME NEW arg \in AskableArgs, NEW fails \in BOOLEAN,
               NEW r, r = RouteFor(ValidPath(arg)), NEW files, files = FilesOf(r.to)
        PROVE  /\ r.path \notin DOMAIN files => ToolRead(arg, 0, 1, fails) = Missing
               /\ r.path \in DOMAIN files /\ ~(fails /\ r.to = "sandbox") =>
                    \A offset \in 0..(Len(files[r.path]) - 1) :
                      ToolRead(arg, offset, 1, fails).lines = <<files[r.path][offset + 1]>>
    BY <2>1, <2>3, ReadIs DEF AskableArgs, Askable
  <2> QED
    BY <2>2, <2>3 DEF RepliesAreTrue, ReplyOf
<1> QED
  BY <1>1, Invariant, PTL

(***************************************************************************)
(* Where the files are                                                     *)
(***************************************************************************)

\* A file of a backend is where the path with the prefix of its route leads.
LEMMA Located ==
  ASSUME IInv, NEW v \in setup.routes \union {Default}, NEW q \in DOMAIN FilesOf(v.to)
  PROVE  /\ q \in Seq(Names) /\ v.at \in Seq(Names) /\ v.to \in Kinds
         /\ v.at \o q \in Paths
         /\ v.at \o q \in AllPaths
         /\ RouteFor(v.at \o q).via = v
         /\ RouteFor(v.at \o q).to = v.to
         /\ RouteFor(v.at \o q).path = q
<1>1. setup \in Setups /\ Default.to = setup.default /\ Default.at = <<>>
  BY DEF IInv, Default
<1>2. v.to \in Kinds
  BY <1>1, SetupFacts
<1>3. FilesOf(v.to) \in FilesAt(Places(v.to))
  BY <1>2, FilesTyped DEF IInv
<1>4. PICK files, S : files = FilesOf(v.to) /\ S = Places(v.to)
  OBVIOUS
<1>5. q \in S
  BY <1>3, <1>4, FilesAtIs
<1>6. PICK p \in Paths : RouteFor(p).to = v.to /\ RouteFor(p).path = q
  BY <1>4, <1>5 DEF Places
<1>7. p \in Seq(Names) /\ p # NoPath
  BY PathFacts
<1>8. /\ RouteFor(p).via \in setup.routes \union {Default}
      /\ RouteFor(p).to = RouteFor(p).via.to
      /\ RouteFor(p).via.at \in Seq(Names)
      /\ RouteFor(p).path \in Seq(Names)
      /\ p = RouteFor(p).via.at \o RouteFor(p).path
  BY <1>1, <1>7, RouteFacts
<1>9. RouteFor(p).via = v
  BY <1>1, <1>6, <1>8, SetupFacts
<1>10. p = v.at \o q
  BY <1>6, <1>8, <1>9
<1>11. p \in AllPaths
  <2>1. CASE v = Default
    <3>1. p = q
      BY <1>1, <1>6, <1>8, <1>10, <2>1, ConcatEmptySeq
    <3> QED
      BY <1>1, <1>9, <2>1, <3>1 DEF AllPaths
  <2>2. CASE v \in setup.routes
    <3>1. PICK T : T = {v.at \o x : x \in DOMAIN FilesOf(v.to)}
      OBVIOUS
    <3>2. p \in T
      BY <1>10, <3>1
    <3>3. T \in {{r.at \o x : x \in DOMAIN FilesOf(r.to)} : r \in setup.routes}
      BY <2>2, <3>1
    <3> QED
      BY <3>2, <3>3 DEF AllPaths
  <2> QED
    BY <2>1, <2>2
<1> QED
  BY <1>2, <1>6, <1>8, <1>9, <1>10, <1>11

\* And there is a file where a path of AllPaths leads.
LEMMA AllLocated ==
  ASSUME IInv, NEW p \in AllPaths
  PROVE  /\ p \in Paths
         /\ RouteFor(p).path \in DOMAIN FilesOf(RouteFor(p).to)
<1>1. CASE p \in DOMAIN FilesOf(setup.default)
  <2>1. PICK v : v = Default
    OBVIOUS
  <2>4. v.to = setup.default /\ v.at = <<>>
    BY <2>1 DEF Default
  <2>2. /\ p \in Seq(Names)
        /\ <<>> \o p \in Paths
        /\ RouteFor(<<>> \o p).to = setup.default
        /\ RouteFor(<<>> \o p).path = p
    <3>1. v \in setup.routes \union {Default} /\ p \in DOMAIN FilesOf(v.to)
      BY <1>1, <2>1, <2>4
    <3>2. /\ p \in Seq(Names)
          /\ v.at \o p \in Paths
          /\ RouteFor(v.at \o p).to = v.to
          /\ RouteFor(v.at \o p).path = p
      BY <3>1, Located
    <3> QED
      BY <2>4, <3>2
  <2>3. <<>> \o p = p
    BY <2>2, ConcatEmptySeq
  <2> QED
    BY <1>1, <2>2, <2>3
<1>2. CASE \E r \in setup.routes : \E q \in DOMAIN FilesOf(r.to) : p = r.at \o q
  BY <1>2, Located
<1> QED
  BY <1>1, <1>2 DEF AllPaths

\* The file a path of Paths leads to is among all, if it is there.
LEMMA LeadsToAll ==
  ASSUME IInv, NEW p \in Paths
  PROVE  p \in AllPaths <=> RouteFor(p).path \in DOMAIN FilesOf(RouteFor(p).to)
<1>1. p \in Seq(Names) /\ p # NoPath
  BY PathFacts
<1>2. /\ RouteFor(p).via \in setup.routes \union {Default}
      /\ RouteFor(p).to = RouteFor(p).via.to
      /\ p = RouteFor(p).via.at \o RouteFor(p).path
  BY <1>1, RouteFacts DEF IInv
<1>3. ASSUME RouteFor(p).path \in DOMAIN FilesOf(RouteFor(p).to) PROVE p \in AllPaths
  <2>1. PICK v, q : v = RouteFor(p).via /\ q = RouteFor(p).path
    OBVIOUS
  <2>2. q \in DOMAIN FilesOf(v.to) /\ p = v.at \o q
    BY <1>2, <1>3, <2>1
  <2>3. v.at \o q \in AllPaths
    BY <1>2, <2>1, <2>2, Located
  <2> QED
    BY <2>2, <2>3
<1> QED
  BY <1>3, AllLocated

(***************************************************************************)
(* What the backends answer                                                *)
(***************************************************************************)

LEMMA LsIs ==
  ASSUME NEW k \in Kinds, NEW files, NEW d
  PROVE  /\ LsOf(k, files, d) \subseteq Listing(files, d)
         /\ d \notin DOMAIN files => LsOf(k, files, d) = Listing(files, d)
BY DEF Kinds, LsOf, StateLs, StoreLs, DiskLs, SandboxLs

\* The kind of a backend other than the sandbox's says how it globs.
LEMMA GlobKind ==
  ASSUME NEW k \in Kinds, k # "sandbox", NEW files, NEW d, NEW deep \in BOOLEAN
  PROVE  GlobOf(k, files, deep, d) = IF k = "disk" THEN DiskGlob(files, deep, d)
                                     ELSE StateGlob(files, deep, d)
BY DEF Kinds, GlobOf, StoreGlob

IsAFile(e, files) == \E q \in DOMAIN files : e = Entry(q, FALSE)

\* It answers with files, and with all that are asked for and not hidden.
LEMMA GlobIsFiles ==
  ASSUME NEW k \in Kinds, k # "sandbox", NEW files, NEW d, NEW deep \in BOOLEAN,
         NEW e \in GlobOf(k, files, deep, d)
  PROVE  IsAFile(e, files)
<1>1. CASE e \in StateGlob(files, deep, d)
  BY <1>1 DEF StateGlob, Without, AtLevel, Beneath, IsAFile
<1>2. CASE e \in DiskGlob(files, deep, d)
  BY <1>2 DEF DiskGlob, Beneath, IsAFile
<1> QED
  BY <1>1, <1>2, GlobKind

LEMMA GlobHas ==
  ASSUME NEW k \in Kinds, k # "sandbox", NEW files, NEW d, NEW deep \in BOOLEAN,
         d \notin DOMAIN files, NEW q \in Beneath(files, d), deep \/ Len(q) = Len(d) + 1,
         k = "disk" \/ Clear(Hidden, d, q)
  PROVE  Entry(q, FALSE) \in GlobOf(k, files, deep, d)
<1>1. Clear(Hidden, d, q) => Entry(q, FALSE) \in StateGlob(files, deep, d)
  BY DEF StateGlob, Without, AtLevel
<1>2. Entry(q, FALSE) \in DiskGlob(files, deep, d)
  BY DEF DiskGlob
<1>3. CASE k = "disk"
  BY <1>2, <1>3, GlobKind
<1>4. CASE k # "disk"
  <2>1. Clear(Hidden, d, q)
    BY <1>4
  <2>2. Entry(q, FALSE) \in StateGlob(files, deep, d)
    BY <1>1, <2>1
  <2>3. GlobOf(k, files, deep, d) = StateGlob(files, deep, d)
    BY <1>4, GlobKind
  <2> QED
    BY <2>2, <2>3
<1> QED
  BY <1>3, <1>4

Match(q, i) == [path |-> q, line |-> i, dir |-> FALSE, rel |-> FALSE]

LEMMA HitsAre ==
  ASSUME NEW ps, NEW files, NEW word, NEW e
  PROVE  e \in Hits(ps, files, word)
           <=> \E q \in ps : \E i \in DOMAIN files[q] :
                 files[q][i] = word /\ e = Match(q, i)
BY DEF Hits, Match

\* What rg does not pass over in a backend of kind k.
Searched(k, rg, d, q) == k = "disk" /\ rg => Clear(Hidden \union Ignored, d, q)

\* The files a grep at p looks into.
LEMMA GrepIs ==
  ASSUME NEW k \in Kinds, NEW files, NEW word, NEW p, NEW home, NEW rg \in BOOLEAN,
         k = "sandbox" => p # NoPath
  PROVE  \E ps \in SUBSET DOMAIN files :
           /\ GrepOf(k, files, word, p, home, rg) = Hits(ps, files, word)
           /\ p # NoPath /\ p \notin DOMAIN files =>
                \A q \in Beneath(files, p) : Searched(k, rg, p, q) => q \in ps
<1>1. CASE k \in {"state", "store"}
  <2>1. PICK ps : ps = FilteredByPath(files, IF p = NoPath THEN <<>> ELSE p)
    OBVIOUS
  <2>2. GrepOf(k, files, word, p, home, rg) = Hits(ps, files, word)
    BY <1>1, <2>1 DEF GrepOf, StoreGrep, StateGrep
  <2>3. ps \subseteq DOMAIN files
    BY <2>1 DEF FilteredByPath, Beneath
  <2>4. p # NoPath /\ p \notin DOMAIN files => ps = Beneath(files, p)
    BY <2>1 DEF FilteredByPath
  <2> QED
    BY <2>2, <2>3, <2>4
<1>2. CASE k = "sandbox"
  <2>1. PICK ps : ps = {f \in DOMAIN files : IsPrefix(p, f)}
    OBVIOUS
  <2>2. GrepOf(k, files, word, p, home, rg) = Hits(ps, files, word)
    BY <1>2, <2>1 DEF GrepOf, SandboxGrep
  <2>3. Beneath(files, p) \subseteq ps
    BY <2>1 DEF Beneath, IsStrictPrefix
  <2> QED
    BY <2>1, <2>2, <2>3
<1>3. CASE k = "disk"
  <2>1. PICK base, under, all, ps :
          /\ base = IF p = NoPath THEN <<>> ELSE p
          /\ under = {f \in DOMAIN files : IsPrefix(base, f)}
          /\ all = IF base \in DOMAIN files THEN Beneath(files, Front(base)) ELSE under
          /\ ps = IF rg THEN Without(Hidden \union Ignored, under, base) ELSE all
    OBVIOUS
  <2>2. GrepOf(k, files, word, p, home, rg) = Hits(ps, files, word)
    BY <1>3, <2>1 DEF GrepOf, DiskGrep
  <2>3. ps \subseteq DOMAIN files
    BY <2>1 DEF Without, Beneath
  <2>4. ASSUME p # NoPath, p \notin DOMAIN files, NEW q \in Beneath(files, p),
               Searched(k, rg, p, q)
        PROVE  q \in ps
    <3>1. q \in under /\ base = p
      BY <2>1, <2>4 DEF Beneath, IsStrictPrefix
    <3> QED
      BY <1>3, <2>1, <2>4, <3>1 DEF Without, Searched
  <2> QED
    BY <2>2, <2>3, <2>4
<1> QED
  BY <1>1, <1>2, <1>3 DEF Kinds

\* What has none of some names in it has none of them in a part of it.
LEMMA ClearWithin ==
  ASSUME NEW a \in Seq(Names), NEW c \in Seq(Names), NEW q \in Seq(Names), NEW names
  PROVE  /\ Clear(names, a \o c, a \o q) => Clear(names, c, q)
         /\ Clear(names, <<>>, a \o q) => Clear(names, <<>>, q)
<1>1. /\ Len(a \o c) = Len(a) + Len(c) /\ Len(a \o q) = Len(a) + Len(q)
      /\ \A i \in 1..Len(a) + Len(q) :
           (a \o q)[i] = IF i <= Len(a) THEN a[i] ELSE q[i - Len(a)]
  BY ConcatProperties
<1>2. Len(a) \in Nat /\ Len(c) \in Nat /\ Len(q) \in Nat /\ Len(<<>>) = 0
  BY EmptySeq
<1>3. \A i \in 1..Len(q) : (a \o q)[Len(a) + i] = q[i]
  <2>1. SUFFICES ASSUME NEW i \in 1..Len(q) PROVE (a \o q)[Len(a) + i] = q[i]
    OBVIOUS
  <2>2. Len(a) + i \in 1..Len(a) + Len(q) /\ ~(Len(a) + i <= Len(a)) /\ Len(a) + i - Len(a) = i
    BY <1>2, <2>1
  <2> QED
    BY <1>1, <2>2
<1>4. ASSUME Clear(names, a \o c, a \o q), NEW i \in (Len(c) + 1)..Len(q)
      PROVE  q[i] \notin names
  <2>1. i \in 1..Len(q) /\ Len(a) + i \in (Len(a \o c) + 1)..Len(a \o q)
    BY <1>1, <1>2, <1>4
  <2>2. (a \o q)[Len(a) + i] \notin names
    BY <1>4, <2>1 DEF Clear
  <2> QED
    BY <1>3, <2>1, <2>2
<1>5. ASSUME Clear(names, <<>>, a \o q), NEW i \in (Len(<<>>) + 1)..Len(q)
      PROVE  q[i] \notin names
  <2>1. i \in 1..Len(q) /\ Len(a) + i \in (Len(<<>>) + 1)..Len(a \o q)
    BY <1>1, <1>2, <1>5
  <2>2. (a \o q)[Len(a) + i] \notin names
    BY <1>5, <2>1 DEF Clear
  <2> QED
    BY <1>3, <2>1, <2>2
<1> QED
  BY <1>4, <1>5 DEF Clear

(***************************************************************************)
(* The paths of an answer lead back                                        *)
(***************************************************************************)

\* What stands for the prefix of the route comes before the path of each entry.
Moved(x, v) == [x EXCEPT !.path = Restored(v) \o @]

StandsFor(e, x, v) == IF v = Default THEN e = x ELSE e = Moved(x, v)

LEMMA RemapIs ==
  ASSUME NEW v, NEW es, NEW all, all = Remap(es, v)
  PROVE  /\ \A e \in all : \E x \in es : StandsFor(e, x, v)
         /\ \A x \in es : \E e \in all : StandsFor(e, x, v)
<1>1. CASE v = Default
  <2>1. all = es
    BY <1>1 DEF Remap
  <2> QED
    BY <1>1, <2>1 DEF StandsFor
<1>2. CASE v # Default
  <2>1. all = {Moved(x, v) : x \in es}
    BY <1>2 DEF Remap, Moved
  <2> QED
    BY <1>2, <2>1 DEF StandsFor
<1> QED
  BY <1>1, <1>2

\* A prefix without a closing slash loses its last name.
LEMMA RestoredIs ==
  ASSUME setup \in Setups, NEW v \in setup.routes \union {Default}, NEW t \in Seq(Names)
  PROVE  /\ v.slash => Restored(v) = v.at
         /\ ~v.slash => v # Default /\ Garbled \in ToSet(Restored(v) \o t)
<1>1. v.slash => Restored(v) = v.at
  BY DEF Restored
<1>2. ASSUME ~v.slash PROVE v # Default /\ Garbled \in ToSet(Restored(v) \o t)
  <2>1. v # Default
    BY <1>2 DEF Default
  <2>2. v.at \in Seq(Names) /\ v.at # <<>>
    BY <2>1, SetupFacts
  <2>3. PICK f, a : f = Front(v.at) /\ a = Append(f, Garbled)
    OBVIOUS
  <2>4. f \in Seq(Names)
    BY <2>2, <2>3 DEF Front
  <2>5. Garbled \in Names
    BY DEF Names
  <2>6. a \in Seq(Names) /\ Len(f) \in Nat /\ Len(a) = Len(f) + 1 /\ a[Len(f) + 1] = Garbled
    BY <2>3, <2>4, <2>5
  <2>7. /\ Len(a \o t) = Len(a) + Len(t) /\ a \o t \in Seq(Names)
        /\ \A i \in 1..Len(a) + Len(t) : (a \o t)[i] = IF i <= Len(a) THEN a[i] ELSE t[i - Len(a)]
    BY <2>6, ConcatProperties
  <2>8. Len(t) \in Nat /\ Len(f) + 1 \in 1..Len(a) + Len(t) /\ Len(f) + 1 <= Len(a)
    BY <2>6
  <2>9. Len(f) + 1 \in DOMAIN (a \o t) /\ (a \o t)[Len(f) + 1] = Garbled
    BY <2>6, <2>7, <2>8
  <2>10. Restored(v) = a
    BY <1>2, <2>3 DEF Restored
  <2> QED
    BY <2>1, <2>9, <2>10 DEF ToSet
<1> QED
  BY <1>1, <1>2

LEMMA EntryMoved ==
  ASSUME setup \in Setups, NEW v \in setup.routes \union {Default}, NEW t \in Seq(Names),
         NEW dir, NEW e, StandsFor(e, Entry(t, dir), v)
  PROVE  IF v.slash THEN e = Entry(v.at \o t, dir) ELSE Garbled \in ToSet(e.path)
<1>1. CASE v = Default
  <2>1. v.at \o t = t /\ v.slash
    BY <1>1, ConcatEmptySeq DEF Default
  <2> QED
    BY <1>1, <2>1 DEF StandsFor
<1>2. CASE v # Default
  <2>1. e = Entry(Restored(v) \o t, dir)
    BY <1>2 DEF StandsFor, Moved, Entry
  <2> QED
    BY <2>1, RestoredIs DEF Entry
<1> QED
  BY <1>1, <1>2

LEMMA MatchMoved ==
  ASSUME setup \in Setups, NEW v \in setup.routes \union {Default}, NEW t \in Seq(Names),
         NEW i, NEW e, StandsFor(e, Match(t, i), v)
  PROVE  IF v.slash THEN e = Match(v.at \o t, i) ELSE Garbled \in ToSet(e.path)
<1>1. CASE v = Default
  <2>1. v.at \o t = t /\ v.slash
    BY <1>1, ConcatEmptySeq DEF Default
  <2> QED
    BY <1>1, <2>1 DEF StandsFor
<1>2. CASE v # Default
  <2>1. e = Match(Restored(v) \o t, i)
    BY <1>2 DEF StandsFor, Moved, Match
  <2> QED
    BY <2>1, RestoredIs DEF Match
<1> QED
  BY <1>1, <1>2

Roots == {r.at : r \in setup.routes}

Back(e) ==
  IF e.dir THEN \E q \in AllPaths \union Roots : IsPrefix(e.path, q)
  ELSE e.path \in AllPaths

LeadsBack(e, place) == Astray(e, place) \/ Back(e)

LEMMA LsLeadsBack ==
  ASSUME IInv, NEW p \in Paths, NEW e \in CompositeLs(p)
  PROVE  LeadsBack(e, p)
<1>1. setup \in Setups /\ p \in Seq(Names) /\ p # NoPath
  BY PathFacts DEF IInv
<1>2. PICK v, d, files : v = RouteFor(p).via /\ d = RouteFor(p).path /\ files = FilesOf(v.to)
  OBVIOUS
<1>3. v \in setup.routes \union {Default} /\ RouteFor(p).to = v.to /\ d \in Seq(Names)
  BY <1>1, <1>2, RouteFacts
<1>4. CASE e \in Remap(LsOf(v.to, files, d), v)
  <2>1. v.to \in Kinds
    BY <1>1, <1>3, SetupFacts DEF Default
  <2>2. PICK x \in LsOf(v.to, files, d) : StandsFor(e, x, v)
    BY <1>3, <1>4, RemapIs
  <2>3. x \in Listing(files, d)
    BY <2>1, LsIs
  <2>4. PICK q \in Beneath(files, d) : x = Entry(Toward(d, q), Toward(d, q) # q)
    BY <2>3 DEF Listing
  <2>5. PICK t : t = Toward(d, q)
    OBVIOUS
  <2>6. q \in DOMAIN FilesOf(v.to) /\ IsStrictPrefix(d, q)
    BY <1>2, <2>4 DEF Beneath
  <2>7. v.at \o q \in AllPaths /\ q \in Seq(Names) /\ v.at \in Seq(Names)
    BY <1>3, <2>6, Located
  <2>8. t \in Seq(Names) /\ IsPrefix(t, q)
    BY <1>3, <2>5, <2>6, <2>7, TowardIs
  <2>9. IF v.slash THEN e = Entry(v.at \o t, t # q) ELSE Garbled \in ToSet(e.path)
    BY <1>1, <1>3, <2>2, <2>4, <2>5, <2>8, EntryMoved
  <2>10. IsPrefix(v.at \o t, v.at \o q)
    BY <2>7, <2>8, PrefixUnder
  <2>11. CASE v.slash
    <3>1. e = Entry(v.at \o t, t # q)
      BY <2>9, <2>11
    <3>2. Back(e)
      BY <2>7, <2>10, <3>1 DEF Back, Entry
    <3> QED
      BY <3>2 DEF LeadsBack
  <2>12. CASE ~v.slash
    BY <2>9, <2>12 DEF LeadsBack, Astray
  <2> QED
    BY <2>11, <2>12
<1>5. CASE \E x \in setup.routes : e = Entry(x.at, TRUE)
  <2>1. PICK x \in setup.routes : e = Entry(x.at, TRUE)
    BY <1>5
  <2>2. x.at \in Roots /\ x.at \in Seq(Names)
    BY <1>1, SetupFacts DEF Roots
  <2>3. IsPrefix(x.at, x.at)
    BY <2>2, PrefixIs
  <2> QED
    BY <2>1, <2>2, <2>3 DEF LeadsBack, Back, Astray, Entry
<1> QED
  BY <1>2, <1>3, <1>4, <1>5 DEF CompositeLs

\* All of the files of one backend but the sandbox, and what is found there.
LEMMA GlobOfOneLeadsBack ==
  ASSUME IInv, NEW v \in setup.routes \union {Default}, v.to # "sandbox",
         NEW d, NEW deep \in BOOLEAN, NEW place,
         NEW e \in Remap(GlobOf(v.to, FilesOf(v.to), deep, d), v)
  PROVE  LeadsBack(e, place)
<1>1. v.to \in Kinds
  BY SetupFacts DEF IInv, Default
<1>2. PICK x \in GlobOf(v.to, FilesOf(v.to), deep, d) : StandsFor(e, x, v)
  BY RemapIs
<1>3. PICK q \in DOMAIN FilesOf(v.to) : x = Entry(q, FALSE)
  <2>1. IsAFile(x, FilesOf(v.to))
    BY <1>1, <1>2, GlobIsFiles
  <2> QED
    BY <2>1 DEF IsAFile
<1>4. v.at \o q \in AllPaths /\ q \in Seq(Names)
  BY Located
<1>5. IF v.slash THEN e = Entry(v.at \o q, FALSE) ELSE Garbled \in ToSet(e.path)
  BY <1>2, <1>3, <1>4, EntryMoved DEF IInv
<1>6. CASE v.slash
  <2>1. e = Entry(v.at \o q, FALSE)
    BY <1>5, <1>6
  <2>2. Back(e)
    BY <1>4, <2>1 DEF Back, Entry
  <2> QED
    BY <2>2 DEF LeadsBack
<1>7. CASE ~v.slash
  BY <1>5, <1>7 DEF LeadsBack, Astray
<1> QED
  BY <1>6, <1>7

\* The sandbox's glob goes by paths relative to the directory searched.
LEMMA SandboxGlobLeadsBack ==
  ASSUME IInv, setup.default = "sandbox", NEW d \in Seq(Names), NEW deep \in BOOLEAN,
         NEW e \in SandboxGlob(FilesOf("sandbox"), deep, d)
  PROVE  LeadsBack(e, d)
<1>1. PICK files : files = FilesOf("sandbox")
  OBVIOUS
<1>2. PICK q, k, t :
        /\ q \in Beneath(files, d) /\ k \in Nat
        /\ k \in (Len(d) + 1)..Len(q)
        /\ t = SubSeq(q, 1, k)
        /\ e = [path |-> SubSeq(t, Len(d) + 1, Len(t)), dir |-> t \notin DOMAIN files,
                rel |-> TRUE]
  <2>1. PICK found : found = UNION {{SubSeq(p, 1, k) : k \in (Len(d) + 1)..Len(p)} :
                                      p \in Beneath(files, d)}
    OBVIOUS
  <2>2. PICK t \in found :
          e = [path |-> SubSeq(t, Len(d) + 1, Len(t)), dir |-> t \notin DOMAIN files,
               rel |-> TRUE]
    BY <1>1, <2>1 DEF SandboxGlob, Without, AtLevel
  <2>3. PICK q \in Beneath(files, d) : \E k \in (Len(d) + 1)..Len(q) : t = SubSeq(q, 1, k)
    BY <2>1, <2>2
  <2>4. PICK k \in (Len(d) + 1)..Len(q) : t = SubSeq(q, 1, k)
    BY <2>3
  <2>5. k \in Nat
    <3>1. Len(d) \in Nat
      OBVIOUS
    <3> QED
      BY <3>1
  <2> QED
    BY <2>2, <2>4, <2>5
<1>3. PICK v : v = Default
  OBVIOUS
<1>4. v.to = "sandbox" /\ v.at = <<>>
  BY <1>3 DEF Default
<1>5. ASSUME NEW x \in DOMAIN files
      PROVE  x \in Seq(Names) /\ x \in AllPaths
  <2>1. x \in Seq(Names) /\ v.at \o x \in AllPaths
    BY <1>1, <1>3, <1>4, <1>5, Located
  <2> QED
    BY <1>4, <2>1, ConcatEmptySeq
<1>6. q \in DOMAIN files /\ IsStrictPrefix(d, q) /\ q \in Seq(Names) /\ q \in AllPaths
  BY <1>2, <1>5 DEF Beneath
<1>7. Len(q) \in Nat /\ Len(d) \in Nat /\ k \in Nat /\ k <= Len(q) /\ Len(d) <= k
  BY <1>2, <1>6
<1>8. t \in Seq(Names) /\ Len(t) = k /\ \A i \in 1..k : t[i] = q[i]
  BY <1>2, <1>6, <1>7
<1>9. IsPrefix(t, q)
  BY <1>6, <1>7, <1>8, PrefixIs
<1>10. CASE d # <<>>
  BY <1>2, <1>10 DEF LeadsBack, Astray
<1>11. CASE d = <<>>
  <2>1. Len(d) + 1 = 1
    BY <1>11, EmptySeq
  <2>2. SubSeq(t, Len(d) + 1, Len(t)) = t
    BY <1>8, <2>1, SubSeqFull
  <2>3. e.path = t /\ (e.dir <=> t \notin DOMAIN files)
    BY <1>2, <2>2
  <2> QED
    BY <1>5, <1>6, <1>9, <2>3 DEF LeadsBack, Back
<1> QED
  BY <1>10, <1>11

LEMMA GlobLeadsBack ==
  ASSUME IInv, NEW p \in Paths, NEW deep \in BOOLEAN, NEW e \in CompositeGlob(deep, p)
  PROVE  LeadsBack(e, p)
<1>1. setup \in Setups /\ p \in Seq(Names) /\ p # NoPath
  BY PathFacts DEF IInv
<1>2. PICK v, d : v = RouteFor(p).via /\ d = RouteFor(p).path
  OBVIOUS
<1>3. /\ v \in setup.routes \union {Default}
      /\ RouteFor(p).to = v.to
      /\ d \in Seq(Names)
      /\ v.at \in Seq(Names)
      /\ p = v.at \o d
  BY <1>1, <1>2, RouteFacts
<1>4. CASE e \in Remap(GlobOf(v.to, FilesOf(v.to), deep, d), v)
  <2>1. CASE v.to # "sandbox"
    BY <1>3, <1>4, <2>1, GlobOfOneLeadsBack
  <2>2. CASE v.to = "sandbox"
    <3>1. v = Default
      BY <1>1, <1>3, <2>2, SetupFacts
    <3>2. v.at = <<>> /\ v.to = setup.default
      BY <3>1 DEF Default
    <3>3. p = d
      BY <1>3, <3>2, ConcatEmptySeq
    <3>4. e \in SandboxGlob(FilesOf("sandbox"), deep, d)
      BY <1>4, <2>2, <3>1 DEF Remap, GlobOf
    <3> QED
      BY <1>3, <2>2, <3>2, <3>3, <3>4, SandboxGlobLeadsBack
  <2> QED
    BY <2>1, <2>2
<1>5. CASE \E x \in setup.routes : e \in Remap(GlobOf(x.to, FilesOf(x.to), deep, <<>>), x)
  BY <1>1, <1>5, SetupFacts, GlobOfOneLeadsBack
<1> QED
  BY <1>2, <1>3, <1>4, <1>5 DEF CompositeGlob

\* A match quotes a line of a file that is there.
Quotes(e, w) == Astray(e, Home) \/ (Back(e) /\ HasLine(e.path, e.line, w))

LEMMA GrepOfOneQuotes ==
  ASSUME IInv, NEW v \in setup.routes \union {Default}, NEW d, NEW w,
         v.to = "sandbox" => d # NoPath, NEW rg \in BOOLEAN,
         NEW e \in Remap(GrepOf(v.to, FilesOf(v.to), w, d, Home, rg), v)
  PROVE  Quotes(e, w)
<1>1. v.to \in Kinds
  BY SetupFacts DEF IInv, Default
<1>2. PICK x \in GrepOf(v.to, FilesOf(v.to), w, d, Home, rg) : StandsFor(e, x, v)
  BY RemapIs
<1>3. PICK files : files = FilesOf(v.to)
  OBVIOUS
<1>4. PICK ps \in SUBSET DOMAIN files : x \in Hits(ps, files, w)
  BY <1>1, <1>2, <1>3, GrepIs
<1>5. PICK q, i : /\ q \in ps /\ i \in DOMAIN files[q] /\ files[q][i] = w
                  /\ x = Match(q, i)
  BY <1>4, HitsAre
<1>6. q \in DOMAIN FilesOf(v.to)
  BY <1>3, <1>4, <1>5
<1>7. /\ v.at \o q \in AllPaths /\ q \in Seq(Names)
      /\ RouteFor(v.at \o q).to = v.to
      /\ RouteFor(v.at \o q).path = q
  BY <1>6, Located
<1>8. IF v.slash THEN e = Match(v.at \o q, i) ELSE Garbled \in ToSet(e.path)
  BY <1>2, <1>5, <1>7, MatchMoved DEF IInv
<1>9. HasLine(v.at \o q, i, w)
  BY <1>3, <1>5, <1>7 DEF HasLine
<1>10. CASE v.slash
  <2>1. e = Match(v.at \o q, i)
    BY <1>8, <1>10
  <2>2. Back(e) /\ HasLine(e.path, e.line, w)
    BY <1>7, <1>9, <2>1 DEF Back, Match
  <2> QED
    BY <2>2 DEF Quotes
<1>11. CASE ~v.slash
  BY <1>8, <1>11 DEF Quotes, Astray
<1> QED
  BY <1>10, <1>11

\* Without a path the sandbox is searched from the home directory on, and what
\* is found is relative to it.
LEMMA GrepAtHomeQuotes ==
  ASSUME IInv, setup.default = "sandbox", NEW w,
         NEW e \in SandboxGrep(FilesOf("sandbox"), w, NoPath, Home)
  PROVE  Quotes(e, w)
<1>1. PICK files, v : files = FilesOf("sandbox") /\ v = Default
  OBVIOUS
<1>2. v.to = "sandbox" /\ v.at = <<>>
  BY <1>1 DEF Default
<1>3. PICK h \in Hits(Beneath(files, Home), files, w) :
        e = [h EXCEPT !.path = SubSeq(@, Len(Home) + 1, Len(@)), !.rel = TRUE]
  BY <1>1 DEF SandboxGrep
<1>4. PICK q, i :
        q \in Beneath(files, Home) /\ i \in DOMAIN files[q] /\ files[q][i] = w /\ h = Match(q, i)
  BY <1>3, HitsAre
<1>5. e = [path |-> SubSeq(q, Len(Home) + 1, Len(q)), line |-> i, dir |-> FALSE, rel |-> TRUE]
  BY <1>3, <1>4 DEF Match
<1>6. q \in DOMAIN FilesOf(v.to) /\ IsStrictPrefix(Home, q)
  BY <1>1, <1>2, <1>4 DEF Beneath
<1>7. /\ q \in Seq(Names)
      /\ v.at \o q \in AllPaths
      /\ RouteFor(v.at \o q).to = "sandbox"
      /\ RouteFor(v.at \o q).path = q
  BY <1>1, <1>2, <1>6, Located
<1>8. v.at \o q = q
  BY <1>2, <1>7, ConcatEmptySeq
<1>9. HasLine(q, i, w)
  BY <1>1, <1>4, <1>7, <1>8 DEF HasLine
<1>10. CASE Home # <<>>
  BY <1>5, <1>10 DEF Quotes, Astray
<1>11. CASE Home = <<>>
  <2>1. Len(Home) + 1 = 1
    BY <1>11, EmptySeq
  <2>2. SubSeq(q, Len(Home) + 1, Len(q)) = q
    BY <1>7, <2>1, SubSeqFull
  <2> QED
    BY <1>5, <1>7, <1>8, <1>9, <2>2 DEF Quotes, Back
<1> QED
  BY <1>10, <1>11

LEMMA GrepQuotes ==
  ASSUME IInv, NEW p \in Paths \union {NoPath}, NEW w, NEW rg \in BOOLEAN,
         NEW e \in CompositeGrep(w, p, rg)
  PROVE  Quotes(e, w)
<1>1. setup \in Setups
  BY DEF IInv
<1>2. PICK v, d : v = RouteFor(p).via /\ d = RouteFor(p).path
  OBVIOUS
<1>3. /\ v \in setup.routes \union {Default}
      /\ RouteFor(p).to = v.to
      /\ IF p = NoPath THEN v = Default /\ d = NoPath ELSE d \in Seq(Names)
  <2>1. CASE p = NoPath
    BY <1>1, <1>2, <2>1, NoRoute DEF Default
  <2>2. CASE p # NoPath
    BY <1>1, <1>2, <2>2, PathFacts, RouteFacts
  <2> QED
    BY <2>1, <2>2
<1>4. CASE e \in Remap(GrepOf(v.to, FilesOf(v.to), w, d, Home, rg), v)
  <2>1. CASE v.to = "sandbox" => d # NoPath
    BY <1>3, <1>4, <2>1, GrepOfOneQuotes
  <2>2. CASE v.to = "sandbox" /\ d = NoPath
    <3>1. v = Default /\ setup.default = "sandbox"
      BY <1>1, <1>3, <2>2, SetupFacts DEF Default
    <3>2. e \in SandboxGrep(FilesOf("sandbox"), w, NoPath, Home)
      BY <1>4, <2>2, <3>1 DEF Remap, GrepOf
    <3> QED
      BY <3>1, <3>2, GrepAtHomeQuotes
  <2> QED
    BY <2>1, <2>2
<1>5. CASE \E x \in setup.routes : e \in Remap(GrepOf(x.to, FilesOf(x.to), w, <<>>, Home, rg), x)
  <2>1. PICK x \in setup.routes : e \in Remap(GrepOf(x.to, FilesOf(x.to), w, <<>>, Home, rg), x)
    BY <1>5
  <2>2. x.to # "sandbox"
    BY <1>1, SetupFacts
  <2> QED
    BY <2>1, <2>2, GrepOfOneQuotes
<1> QED
  BY <1>2, <1>3, <1>4, <1>5 DEF CompositeGrep

\* Whatever the routes are: what ls, glob and grep answer with leads back to the
\* files, unless it lost the end of a route without a closing slash or is
\* relative to a place other than the root.
THEOREM PathsAlwaysLeadBack == Spec => []PathsLeadBack
<1>1. IInv => PathsLeadBack
  <2>1. SUFFICES ASSUME IInv PROVE PathsLeadBack
    OBVIOUS
  <2>2. ASSUME NEW arg \in AskableArgs, NEW e \in ToolLs(arg)
        PROVE  LeadsBack(e, ValidPath(arg))
    BY <2>1, <2>2, LsLeadsBack DEF AskableArgs, Askable, ToolLs
  <2>3. ASSUME NEW arg \in AskableArgs, NEW deep \in BOOLEAN, NEW e \in ToolGlob(deep, arg)
        PROVE  LeadsBack(e, ValidPath(arg))
    BY <2>1, <2>3, GlobLeadsBack DEF AskableArgs, Askable, ToolGlob
  <2>4. ASSUME NEW p \in Askable \union {NoPath}, NEW w \in Words, NEW rg \in BOOLEAN,
               NEW e \in ToolGrep(w, p, rg)
        PROVE  Quotes(e, w)
    BY <2>1, <2>4, GrepQuotes DEF Askable, ToolGrep
  <2> QED
    BY <2>2, <2>3, <2>4 DEF PathsLeadBack, LeadsBack, Back, Quotes, Roots
<1> QED
  BY <1>1, Invariant, PTL

(***************************************************************************)
(* Nothing is missed                                                       *)
(***************************************************************************)

Sought(d, p) ==
  /\ p \in AllPaths
  /\ IsStrictPrefix(d, p)
  /\ d \notin AllPaths
  /\ d = <<>> => RouteFor(p).via.at \notin AllPaths
  /\ d = <<>> \/ IsPrefix(RouteFor(p).via.at, d)
  /\ RouteFor(p).via.slash

\* A file that is sought below a directory is in the directory's own backend,
\* below it, or the directory is the root and the file in the backend of a route.
LEMMA WhereSought ==
  ASSUME IInv, NEW d \in Paths, NEW p, Sought(d, p),
         NEW u, NEW v, u = RouteFor(d).via, v = RouteFor(p).via
  PROVE  \/ u = v /\ IsStrictPrefix(RouteFor(d).path, RouteFor(p).path)
         \/ d = <<>> /\ u = Default /\ v \in setup.routes
<1>0. p \in AllPaths /\ IsStrictPrefix(d, p) /\ (d = <<>> \/ IsPrefix(v.at, d))
  BY DEF Sought
<1>1. setup \in Setups /\ p \in Paths
  BY <1>0, AllLocated DEF IInv
<1>2. d \in Seq(Names) /\ d # NoPath /\ p \in Seq(Names) /\ p # NoPath
  BY <1>1, PathFacts
<1>3. /\ u \in setup.routes \union {Default} /\ u.at \in Seq(Names) /\ IsPrefix(u.at, d)
      /\ d = u.at \o RouteFor(d).path /\ RouteFor(d).path \in Seq(Names)
      /\ \A x \in setup.routes : IsPrefix(x.at, d) =>
           u \in setup.routes /\ Len(x.at) <= Len(u.at)
  BY <1>1, <1>2, RouteFacts
<1>4. /\ v \in setup.routes \union {Default} /\ v.at \in Seq(Names) /\ IsPrefix(v.at, p)
      /\ p = v.at \o RouteFor(p).path /\ RouteFor(p).path \in Seq(Names)
      /\ \A x \in setup.routes : IsPrefix(x.at, p) =>
           v \in setup.routes /\ Len(x.at) <= Len(v.at)
  BY <1>1, <1>2, RouteFacts
<1>5. IsPrefix(d, p) /\ Len(d) < Len(p)
  BY <1>0, <1>2, StrictPrefixIs
<1>6. IsPrefix(u.at, p)
  BY <1>2, <1>3, <1>5, PrefixTrans
<1>7. Len(d) \in Nat /\ Len(u.at) \in Nat /\ Len(v.at) \in Nat
  BY <1>2, <1>3, <1>4
<1>8. CASE u = v
  <2>1. PICK x, y : x = RouteFor(d).path /\ y = RouteFor(p).path
    OBVIOUS
  <2>2. IsStrictPrefix(v.at \o x, v.at \o y)
    BY <1>0, <1>3, <1>4, <1>8, <2>1
  <2>3. IsStrictPrefix(x, y)
    BY <1>3, <1>4, <2>1, <2>2, PrefixUnder
  <2> QED
    BY <1>8, <2>1, <2>3
<1>9. CASE u # v
  <2>1. v \in setup.routes
    BY <1>3, <1>4, <1>6, <1>9
  <2>2. ~IsPrefix(v.at, d)
    <3>1. SUFFICES ASSUME IsPrefix(v.at, d) PROVE FALSE
      OBVIOUS
    <3>2. u \in setup.routes /\ Len(v.at) <= Len(u.at)
      BY <1>3, <2>1, <3>1
    <3>3. Len(u.at) <= Len(v.at)
      BY <1>4, <1>6, <3>2
    <3>4. Len(u.at) = Len(v.at) /\ IsPrefix(u.at, v.at)
      BY <1>3, <1>4, <1>6, <1>7, <1>2, <3>2, <3>3, PrefixesOfOne
    <3>5. u.at = v.at
      BY <1>3, <1>4, <1>7, <3>4, StrictPrefixIs DEF IsStrictPrefix
    <3> QED
      BY <1>1, <1>9, <2>1, <3>2, <3>5, SetupFacts
  <2>3. d = <<>>
    BY <1>0, <2>2
  <2>4. Len(u.at) <= 0
    BY <1>3, <2>3 DEF IsPrefix
  <2>5. u \notin setup.routes
    <3>1. u.at = <<>>
      BY <1>3, <1>7, <2>4, EmptySeq
    <3> QED
      BY <1>1, <3>1, SetupFacts
  <2> QED
    BY <1>3, <2>1, <2>3, <2>5
<1> QED
  BY <1>8, <1>9

\* The backend of the directory has no file under the directory's name.
LEMMA NotAFile ==
  ASSUME IInv, NEW d \in Paths, d \notin AllPaths
  PROVE  RouteFor(d).path \notin DOMAIN FilesOf(RouteFor(d).via.to)
<1>1. d \in Seq(Names) /\ d # NoPath
  BY PathFacts
<1>2. RouteFor(d).to = RouteFor(d).via.to
  BY <1>1, RouteFacts DEF IInv
<1> QED
  BY <1>2, LeadsToAll

\* Where the directory and the file are: in u the one at c, in v the other at q.
Where(d, p, u, v, c, q) ==
  /\ p \in Seq(Names) /\ d \in Seq(Names) /\ c \in Seq(Names) /\ q \in Seq(Names)
  /\ u \in setup.routes \union {Default} /\ v \in setup.routes \union {Default}
  /\ u.at \in Seq(Names) /\ v.at \in Seq(Names)
  /\ d = u.at \o c /\ p = v.at \o q
  /\ u.to \in Kinds /\ v.to \in Kinds
  /\ RouteFor(d).to = u.to /\ RouteFor(p).to = v.to
  /\ q \in DOMAIN FilesOf(v.to) /\ c \notin DOMAIN FilesOf(u.to)
  /\ IsPrefix(v.at, p) /\ v.slash

LEMMA SoughtFacts ==
  ASSUME IInv, NEW d \in Paths, NEW p, Sought(d, p)
  PROVE  Where(d, p, RouteFor(d).via, RouteFor(p).via, RouteFor(d).path, RouteFor(p).path)
<1>0. PICK u, v, c, q : /\ u = RouteFor(d).via /\ v = RouteFor(p).via
                        /\ c = RouteFor(d).path /\ q = RouteFor(p).path
  OBVIOUS
<1>1. setup \in Setups
  BY DEF IInv
<1>2. p \in AllPaths /\ d \notin AllPaths /\ v.slash
  BY <1>0 DEF Sought
<1>3. p \in Paths /\ q \in DOMAIN FilesOf(RouteFor(p).to)
  BY <1>0, <1>2, AllLocated
<1>4. c \notin DOMAIN FilesOf(u.to)
  BY <1>0, <1>2, NotAFile
<1>5. d \in Seq(Names) /\ d # NoPath /\ p \in Seq(Names) /\ p # NoPath
  BY <1>3, PathFacts
<1>6. /\ u \in setup.routes \union {Default} /\ u.at \in Seq(Names)
      /\ d = u.at \o c /\ c \in Seq(Names) /\ RouteFor(d).to = u.to
  BY <1>0, <1>1, <1>5, RouteFacts
<1>7. /\ v \in setup.routes \union {Default} /\ v.at \in Seq(Names)
      /\ p = v.at \o q /\ q \in Seq(Names) /\ RouteFor(p).to = v.to
      /\ IsPrefix(v.at, p)
  BY <1>0, <1>1, <1>5, RouteFacts
<1>8. u.to \in Kinds /\ v.to \in Kinds
  BY <1>3, <1>1, <1>6, <1>7, KindOf
<1> QED
  BY <1>0, <1>2, <1>3, <1>4, <1>5, <1>6, <1>7, <1>8 DEF Where

\* At the root, a backend of a route has no file without a name.
LEMMA NoNamelessFile ==
  ASSUME IInv, NEW v \in setup.routes, v.at \notin AllPaths
  PROVE  <<>> \notin DOMAIN FilesOf(v.to)
<1>1. SUFFICES ASSUME <<>> \in DOMAIN FilesOf(v.to) PROVE FALSE
  OBVIOUS
<1>2. v.at \o <<>> \in AllPaths /\ v.at \in Seq(Names)
  BY <1>1, Located
<1> QED
  BY <1>2, ConcatEmptySeq

LEMMA Below ==
  ASSUME NEW q \in Seq(Names), q # <<>>
  PROVE  IsStrictPrefix(<<>>, q)
<1>1. <<>> \in Seq(Names) /\ Len(<<>>) = 0 /\ 1..0 = {} /\ Len(q) \in Nat
  BY EmptySeq
<1>2. Len(<<>>) <= Len(q) /\ \A i \in 1..Len(<<>>) : <<>>[i] = q[i]
  BY <1>1
<1>3. IsPrefix(<<>>, q)
  BY <1>1, <1>2, PrefixIs
<1> QED
  BY <1>3 DEF IsStrictPrefix

LEMMA LsFinds ==
  ASSUME IInv, NEW d \in Paths, NEW p, Sought(d, p)
  PROVE  \E e \in CompositeLs(d) : IsStrictPrefix(d, e.path) /\ IsPrefix(e.path, p)
<1>1. PICK u, v, c, q : /\ u = RouteFor(d).via /\ v = RouteFor(p).via
                        /\ c = RouteFor(d).path /\ q = RouteFor(p).path
  OBVIOUS
<1>2. /\ p \in Seq(Names) /\ d \in Seq(Names) /\ c \in Seq(Names) /\ q \in Seq(Names)
      /\ u \in setup.routes \union {Default} /\ v \in setup.routes \union {Default}
      /\ u.at \in Seq(Names) /\ v.at \in Seq(Names)
      /\ d = u.at \o c /\ p = v.at \o q
      /\ u.to \in Kinds
      /\ RouteFor(d).to = u.to
      /\ q \in DOMAIN FilesOf(v.to) /\ c \notin DOMAIN FilesOf(u.to)
      /\ IsPrefix(v.at, p) /\ v.slash
  <2>1. Where(d, p, u, v, c, q)
    BY <1>1, SoughtFacts
  <2> QED
    BY <2>1 DEF Where
<1>3. IsStrictPrefix(d, p) /\ setup \in Setups
  BY DEF Sought, IInv
<1>4. CASE u = v /\ IsStrictPrefix(c, q)
  <2>1. PICK es, files : files = FilesOf(u.to) /\ es = LsOf(u.to, files, c)
    OBVIOUS
  <2>2. PICK t : t = Toward(c, q)
    OBVIOUS
  <2>3. q \in Beneath(files, c) /\ c \notin DOMAIN files
    BY <1>2, <1>4, <2>1 DEF Beneath
  <2>4. es = Listing(files, c)
    BY <1>2, <2>1, <2>3, LsIs
  <2>5. Entry(t, t # q) \in es
    BY <2>2, <2>3, <2>4 DEF Listing
  <2>6. t \in Seq(Names)
    BY <1>2, <1>4, <2>2, TowardIs
  <2>7. PICK e \in Remap(es, u) : StandsFor(e, Entry(t, t # q), u)
    BY <1>2, <2>5, RemapIs
  <2>8. e = Entry(u.at \o t, t # q)
    BY <1>2, <1>3, <1>4, <2>6, <2>7, EntryMoved
  <2>9. u.at \o t = Toward(d, p)
    <3>1. PICK a : a = u.at
      OBVIOUS
    <3>2. a \in Seq(Names) /\ c \in Seq(Names) /\ q \in Seq(Names) /\ IsStrictPrefix(c, q)
      BY <1>2, <1>4, <3>1
    <3>3. Toward(a \o c, a \o q) = a \o Toward(c, q)
      BY <3>2, TowardUnder
    <3> QED
      BY <1>2, <1>4, <2>2, <3>1, <3>3
  <2>10. e \in CompositeLs(d)
    BY <1>1, <1>2, <2>1, <2>7 DEF CompositeLs
  <2>11. IsStrictPrefix(d, Toward(d, p)) /\ IsPrefix(Toward(d, p), p)
    BY <1>2, <1>3, TowardIs
  <2> QED
    BY <2>8, <2>9, <2>10, <2>11 DEF Entry
<1>5. CASE d = <<>> /\ u = Default /\ v \in setup.routes
  <2>1. Entry(v.at, TRUE) \in CompositeLs(d)
    BY <1>5 DEF CompositeLs
  <2>2. IsStrictPrefix(d, v.at)
    BY <1>2, <1>3, <1>5, SetupFacts, Below
  <2> QED
    BY <1>2, <2>1, <2>2 DEF Entry
<1> QED
  BY <1>1, <1>4, <1>5, WhereSought

\* The sandbox's glob finds each file itself, by its path below the directory.
LEMMA SandboxGlobHas ==
  ASSUME NEW d \in Seq(Names), NEW q \in Seq(Names), NEW files, q \in Beneath(files, d),
         NEW deep \in BOOLEAN, deep \/ Len(q) = Len(d) + 1, Clear(Hidden, d, q)
  PROVE  [path |-> SubSeq(q, Len(d) + 1, Len(q)), dir |-> FALSE, rel |-> TRUE]
           \in SandboxGlob(files, deep, d)
<1>1. PICK found : found = UNION {{SubSeq(p, 1, k) : k \in (Len(d) + 1)..Len(p)} :
                                    p \in Beneath(files, d)}
  OBVIOUS
<1>2. q \in DOMAIN files /\ IsStrictPrefix(d, q)
  BY DEF Beneath
<1>3. Len(q) \in (Len(d) + 1)..Len(q)
  BY <1>2, StrictPrefixIs
<1>4. SubSeq(q, 1, Len(q)) = q
  BY SubSeqFull
<1>5. q \in found
  <2>1. PICK S : S = {SubSeq(q, 1, k) : k \in (Len(d) + 1)..Len(q)}
    OBVIOUS
  <2>2. q \in S
    BY <1>3, <1>4, <2>1
  <2> QED
    BY <1>1, <2>1, <2>2
<1>6. q \in Without(Hidden, AtLevel(found, d, deep), d)
  BY <1>5 DEF AtLevel, Without
<1>7. (q \notin DOMAIN files) = FALSE
  BY <1>2
<1> QED
  BY <1>1, <1>6, <1>7 DEF SandboxGlob

\* A glob of one backend but the sandbox finds the file, which gets its prefix.
LEMMA GlobOfOneFinds ==
  ASSUME IInv, NEW v \in setup.routes \union {Default}, v.to # "sandbox", v.to \in Kinds,
         NEW c, NEW q \in Seq(Names), v.slash, v.to = "disk" \/ Clear(Hidden, c, q),
         q \in Beneath(FilesOf(v.to), c), c \notin DOMAIN FilesOf(v.to), NEW deep \in BOOLEAN, deep \/ Len(q) = Len(c) + 1
  PROVE  Entry(v.at \o q, FALSE) \in Remap(GlobOf(v.to, FilesOf(v.to), deep, c), v)
<1>1. PICK files, es : files = FilesOf(v.to) /\ es = GlobOf(v.to, files, deep, c)
  OBVIOUS
<1>2. Entry(q, FALSE) \in es
  BY <1>1, GlobHas
<1>3. PICK e \in Remap(es, v) : StandsFor(e, Entry(q, FALSE), v)
  BY <1>2, RemapIs
<1>4. e = Entry(v.at \o q, FALSE)
  BY <1>3, EntryMoved DEF IInv
<1> QED
  BY <1>1, <1>3, <1>4

LEMMA GlobFinds ==
  ASSUME IInv, NEW d \in Paths, NEW p, Sought(d, p),
         NEW deep \in BOOLEAN, deep \/ Len(p) = Len(d) + 1,
         RouteFor(d).to # "sandbox" \/ d = <<>>,
         RouteFor(p).to = "disk" \/ Clear(Hidden, d, p)
  PROVE  \E e \in CompositeGlob(deep, d) : e.path = p
<1>1. PICK u, v, c, q : /\ u = RouteFor(d).via /\ v = RouteFor(p).via
                        /\ c = RouteFor(d).path /\ q = RouteFor(p).path
  OBVIOUS
<1>2. /\ p \in Seq(Names) /\ d \in Seq(Names) /\ c \in Seq(Names) /\ q \in Seq(Names)
      /\ u \in setup.routes \union {Default} /\ v \in setup.routes \union {Default}
      /\ u.at \in Seq(Names) /\ v.at \in Seq(Names)
      /\ d = u.at \o c /\ p = v.at \o q
      /\ u.to \in Kinds /\ v.to \in Kinds
      /\ RouteFor(d).to = u.to /\ RouteFor(p).to = v.to /\ v.slash
      /\ q \in DOMAIN FilesOf(v.to) /\ c \notin DOMAIN FilesOf(u.to)
  <2>1. Where(d, p, u, v, c, q)
    BY <1>1, SoughtFacts
  <2> QED
    BY <2>1 DEF Where
<1>3. setup \in Setups
  BY DEF IInv
<1>4. CASE u = v /\ IsStrictPrefix(c, q)
  <2>1. q \in Beneath(FilesOf(u.to), c)
    BY <1>2, <1>4 DEF Beneath
  <2>2. deep \/ Len(q) = Len(c) + 1
    <3>1. Len(d) = Len(u.at) + Len(c) /\ Len(p) = Len(u.at) + Len(q)
      BY <1>2, <1>4, Join
    <3>2. Len(u.at) \in Nat /\ Len(c) \in Nat /\ Len(q) \in Nat
      BY <1>2
    <3> QED
      BY <3>1, <3>2
  <2>3. CASE u.to # "sandbox"
    <3>0. u.to = "disk" \/ Clear(Hidden, c, q)
      BY <1>2, <1>4, ClearWithin
    <3>1. Entry(u.at \o q, FALSE) \in Remap(GlobOf(u.to, FilesOf(u.to), deep, c), u)
      BY <1>2, <1>4, <2>1, <2>2, <2>3, <3>0, GlobOfOneFinds
    <3>2. Entry(p, FALSE) \in CompositeGlob(deep, d)
      BY <1>1, <1>2, <1>4, <3>1 DEF CompositeGlob
    <3> QED
      BY <3>2 DEF Entry
  <2>4. CASE u.to = "sandbox"
    <3>1. u = Default
      BY <1>2, <1>3, <2>4, SetupFacts
    <3>2. c = d /\ q = p
      BY <1>2, <1>4, <3>1, ConcatEmptySeq DEF Default
    <3>3. PICK e : e = [path |-> SubSeq(q, Len(d) + 1, Len(q)), dir |-> FALSE, rel |-> TRUE]
      OBVIOUS
    <3>4. e \in SandboxGlob(FilesOf(u.to), deep, d)
      <4>1. Clear(Hidden, d, q)
        BY <1>2, <1>4, <2>4, <3>2
      <4> QED
        BY <1>2, <2>1, <2>2, <3>2, <3>3, <4>1, SandboxGlobHas
    <3>5. e \in CompositeGlob(deep, d)
      BY <1>1, <1>2, <2>4, <3>1, <3>2, <3>4 DEF CompositeGlob, Remap, GlobOf
    <3>6. e.path = p
      <4>1. d = <<>> /\ Len(d) + 1 = 1
        BY <1>2, <2>4, EmptySeq
      <4>2. SubSeq(q, Len(d) + 1, Len(q)) = q
        BY <1>2, <4>1, SubSeqFull
      <4> QED
        BY <3>2, <3>3, <4>2
    <3> QED
      BY <3>5, <3>6
  <2> QED
    BY <2>3, <2>4
<1>5. CASE d = <<>> /\ u = Default /\ v \in setup.routes
  <2>1. <<>> \notin DOMAIN FilesOf(v.to)
    BY <1>1, <1>5, NoNamelessFile DEF Sought
  <2>2. q # <<>>
    BY <1>2, <2>1
  <2>3. q \in Beneath(FilesOf(v.to), <<>>)
    BY <1>2, <2>2, Below DEF Beneath
  <2>4. deep
    <3>1. Len(p) = Len(v.at) + Len(q)
      BY <1>2, Join
    <3>2. /\ Len(q) \in Nat /\ Len(q) # 0 /\ Len(d) = 0
          /\ Len(v.at) \in Nat /\ Len(v.at) # 0
      BY <1>2, <1>3, <1>5, <2>2, SetupFacts, EmptySeq
    <3> QED
      BY <3>1, <3>2
  <2>5. v.to # "sandbox"
    BY <1>3, <1>5, SetupFacts
  <2>8. v.to = "disk" \/ Clear(Hidden, <<>>, q)
    BY <1>2, <1>5, ClearWithin
  <2>6. Entry(v.at \o q, FALSE) \in Remap(GlobOf(v.to, FilesOf(v.to), deep, <<>>), v)
    BY <1>2, <2>1, <2>3, <2>4, <2>5, <2>8, GlobOfOneFinds
  <2>7. Entry(p, FALSE) \in CompositeGlob(deep, d)
    BY <1>1, <1>2, <1>5, <2>6 DEF CompositeGlob
  <2> QED
    BY <2>7 DEF Entry
<1> QED
  BY <1>1, <1>4, <1>5, WhereSought

\* A grep of one backend finds the line, and the file gets its prefix.
LEMMA GrepOfOneFinds ==
  ASSUME IInv, NEW v \in setup.routes \union {Default}, v.to \in Kinds, v.slash,
         NEW rg \in BOOLEAN, NEW c, c # NoPath, NEW q \in Seq(Names), q \in Beneath(FilesOf(v.to), c),
         c \notin DOMAIN FilesOf(v.to), Searched(v.to, rg, c, q),
         NEW w, NEW i \in DOMAIN FilesOf(v.to)[q], FilesOf(v.to)[q][i] = w
  PROVE  Match(v.at \o q, i) \in Remap(GrepOf(v.to, FilesOf(v.to), w, c, Home, rg), v)
<1>1. PICK files, es : files = FilesOf(v.to) /\ es = GrepOf(v.to, files, w, c, Home, rg)
  OBVIOUS
<1>2. PICK ps \in SUBSET DOMAIN files :
        es = Hits(ps, files, w) /\ q \in ps
  BY <1>1, GrepIs
<1>3. Match(q, i) \in es
  BY <1>1, <1>2, HitsAre
<1>4. PICK e \in Remap(es, v) : StandsFor(e, Match(q, i), v)
  BY <1>3, RemapIs
<1>5. e = Match(v.at \o q, i)
  BY <1>4, MatchMoved DEF IInv
<1> QED
  BY <1>1, <1>4, <1>5

LEMMA GrepFinds ==
  ASSUME IInv, NEW d \in Paths, NEW p, Sought(d, p),
         NEW w, NEW i \in 1..LengthOf(p), HasLine(p, i, w), NEW rg \in BOOLEAN,
         RouteFor(p).to = "disk" /\ rg => Clear(Hidden \union Ignored, d, p)
  PROVE  \E e \in CompositeGrep(w, d, rg) : e.path = p /\ e.line = i
<1>1. PICK u, v, c, q : /\ u = RouteFor(d).via /\ v = RouteFor(p).via
                        /\ c = RouteFor(d).path /\ q = RouteFor(p).path
  OBVIOUS
<1>2. /\ p \in Seq(Names) /\ d \in Seq(Names) /\ c \in Seq(Names) /\ q \in Seq(Names)
      /\ u \in setup.routes \union {Default} /\ v \in setup.routes \union {Default}
      /\ u.at \in Seq(Names) /\ v.at \in Seq(Names)
      /\ d = u.at \o c /\ p = v.at \o q
      /\ u.to \in Kinds /\ v.to \in Kinds
      /\ RouteFor(d).to = u.to /\ RouteFor(p).to = v.to /\ v.slash
      /\ q \in DOMAIN FilesOf(v.to) /\ c \notin DOMAIN FilesOf(u.to)
  <2>1. Where(d, p, u, v, c, q)
    BY <1>1, SoughtFacts
  <2> QED
    BY <2>1 DEF Where
<1>4. i \in DOMAIN FilesOf(v.to)[q] /\ FilesOf(v.to)[q][i] = w
  <2>1. PICK files : files = FilesOf(v.to)
    OBVIOUS
  <2>2. files \in FilesAt(Places(v.to))
    BY <1>2, <2>1, FilesTyped DEF IInv
  <2>3. files[q] \in Seq(Words)
    BY <1>2, <2>1, <2>2, FilesAtIs
  <2>4. DOMAIN files[q] = 1..Len(files[q])
    BY <2>3
  <2> QED
    BY <1>1, <1>2, <2>1, <2>4 DEF LengthOf, HasLine
<1>5. Match(p, i) \in CompositeGrep(w, d, rg)
  <2>1. CASE u = v /\ IsStrictPrefix(c, q)
    <3>1. q \in Beneath(FilesOf(v.to), c)
      BY <1>2, <2>1 DEF Beneath
    <3>2. c # NoPath
      BY <1>2, PathFacts
    <3>3. Match(v.at \o q, i) \in Remap(GrepOf(v.to, FilesOf(v.to), w, c, Home, rg), v)
      <4>1. Searched(v.to, rg, c, q)
        BY <1>2, <2>1, ClearWithin DEF Searched
      <4> QED
        BY <1>2, <1>4, <2>1, <3>1, <3>2, <4>1, GrepOfOneFinds
    <3> QED
      BY <1>1, <1>2, <2>1, <3>3 DEF CompositeGrep
  <2>2. CASE d = <<>> /\ u = Default /\ v \in setup.routes
    <3>1. <<>> \notin DOMAIN FilesOf(v.to)
      BY <1>1, <2>2, NoNamelessFile DEF Sought
    <3>2. q # <<>>
      BY <1>2, <3>1
    <3>3. q \in Beneath(FilesOf(v.to), <<>>)
      BY <1>2, <3>2, Below DEF Beneath
    <3>4. NoPath # <<>>
      BY PathFacts, EmptySeq
    <3>5. Match(v.at \o q, i) \in Remap(GrepOf(v.to, FilesOf(v.to), w, <<>>, Home, rg), v)
      <4>1. Searched(v.to, rg, <<>>, q)
        BY <1>2, <2>2, ClearWithin DEF Searched
      <4> QED
        BY <1>2, <1>4, <3>1, <3>3, <3>4, <4>1, GrepOfOneFinds
    <3> QED
      BY <1>1, <1>2, <2>2, <3>5 DEF CompositeGrep
  <2> QED
    BY <1>1, <2>1, <2>2, WhereSought
<1> QED
  BY <1>5 DEF Match

\* Whatever the routes are: nothing below a directory is missed by ls, glob and
\* grep that they are held to.
THEOREM NothingIsMissed == Spec => []NothingMissed
<1>1. IInv => NothingMissed
  <2>1. SUFFICES ASSUME IInv PROVE NothingMissed
    OBVIOUS
  <2>2. ASSUME NEW arg \in AskableArgs, NEW p, Sought(ValidPath(arg), p)
        PROVE  \E e \in ToolLs(arg) :
                 IsStrictPrefix(ValidPath(arg), e.path) /\ IsPrefix(e.path, p)
    BY <2>1, <2>2, LsFinds DEF AskableArgs, Askable, ToolLs
  <2>3. ASSUME NEW arg \in AskableArgs, NEW p, Sought(ValidPath(arg), p), NEW deep \in BOOLEAN,
               deep \/ Len(p) = Len(ValidPath(arg)) + 1,
               RouteFor(ValidPath(arg)).to # "sandbox" \/ ValidPath(arg) = <<>>,
               RouteFor(p).to = "disk" \/ Clear(Hidden, ValidPath(arg), p)
        PROVE  \E e \in ToolGlob(deep, arg) : e.path = p
    BY <2>1, <2>3, GlobFinds DEF AskableArgs, Askable, ToolGlob
  <2>4. ASSUME NEW arg \in AskableArgs, NEW p, Sought(ValidPath(arg), p), NEW w \in Words,
               NEW i \in 1..LengthOf(p), HasLine(p, i, w), NEW rg \in BOOLEAN,
               RouteFor(p).to = "disk" /\ rg => Clear(Hidden \union Ignored, ValidPath(arg), p)
        PROVE  \E e \in ToolGrep(w, ValidPath(arg), rg) : e.path = p /\ e.line = i
    BY <2>1, <2>4, GrepFinds DEF AskableArgs, Askable, ToolGrep
  <2> DEFINE sought(d) == {p \in AllPaths : Sought(d, p)}
  <2>5. ASSUME NEW arg \in AskableArgs, NEW deep \in BOOLEAN,
               RouteFor(ValidPath(arg)).to # "sandbox" \/ ValidPath(arg) = <<>>
        PROVE  {p \in sought(ValidPath(arg)) :
                  /\ RouteFor(p).to = "disk" \/ Clear(Hidden, ValidPath(arg), p)
                  /\ deep \/ Len(p) = Len(ValidPath(arg)) + 1}
                 \subseteq {e.path : e \in ToolGlob(deep, arg)}
    BY <2>3, <2>5
  <2>6. ASSUME NEW arg \in AskableArgs, NEW w \in Words, NEW rg \in BOOLEAN
        PROVE  UNION {{<<p, i>> : i \in {j \in 1..LengthOf(p) : HasLine(p, j, w)}} :
                        p \in {x \in sought(ValidPath(arg)) :
                                 RouteFor(x).to = "disk" /\ rg =>
                                   Clear(Hidden \union Ignored, ValidPath(arg), x)}}
                 \subseteq {<<e.path, e.line>> : e \in ToolGrep(w, ValidPath(arg), rg)}
    <3>1. SUFFICES ASSUME NEW p \in AllPaths, Sought(ValidPath(arg), p),
                          RouteFor(p).to = "disk" /\ rg =>
                            Clear(Hidden \union Ignored, ValidPath(arg), p),
                          NEW i \in 1..LengthOf(p), HasLine(p, i, w)
                   PROVE  <<p, i>> \in {<<e.path, e.line>> : e \in ToolGrep(w, ValidPath(arg), rg)}
      OBVIOUS
    <3>2. PICK e \in ToolGrep(w, ValidPath(arg), rg) : e.path = p /\ e.line = i
      BY <2>4, <2>6, <3>1
    <3> QED
      BY <3>2
  <2>7. \A d : sought(d) = {p \in AllPaths :
                 /\ IsStrictPrefix(d, p)
                 /\ d \notin AllPaths /\ (d = <<>> => RouteFor(p).via.at \notin AllPaths)
                 /\ d = <<>> \/ IsPrefix(RouteFor(p).via.at, d)
                 /\ RouteFor(p).via.slash}
    BY DEF Sought
  <2> HIDE DEF sought
  <2> QED
    BY <2>2, <2>5, <2>6, <2>7 DEF NothingMissed, Sought, Clear
<1> QED
  BY <1>1, Invariant, PTL

(***************************************************************************)
(* One file system                                                         *)
(***************************************************************************)

\* The files of a backend; for a machine, those of this machine.
FilesIn(k, b) == IF k = "sandbox" THEN boxes[b].files ELSE held[k]

\* The call would still find what it found when it looked.
StillTrue(call, files, q) ==
  IF call.op = "write" THEN q \notin DOMAIN files
  ELSE /\ q \in DOMAIN files
       /\ CanReplace(files[q], call.old, call.all)
       /\ call.file = Replacement(files[q], call.old, call.word)

\* There is something to look at: not a machine that is gone.
There(call) == RouteFor(call.at).to = "sandbox" => boxes[call.box].state = "started"

Fresh(c) ==
  LET call == calls[c]
      r == RouteFor(call.at)
  IN  /\ r.to = "sandbox" => boxes[call.box].state # "none"
      /\ call.alone /\ call.step = "put" /\ There(call)
           => StillTrue(call, FilesIn(r.to, call.box), r.path)

\* Two calls at one path disturb each other.
Apart ==
  \A c, d \in InProgress : c # d /\ At(c) = At(d) => ~calls[c].alone

LookInv == Apart /\ \A c \in InProgress : Fresh(c)

\* In this step, the file at o is the same on machine b.
SameIn(o, b) ==
  LET r == RouteFor(o) IN
  /\ r.path \in DOMAIN FilesIn(r.to, b)' <=> r.path \in DOMAIN FilesIn(r.to, b)
  /\ r.path \in DOMAIN FilesIn(r.to, b) =>
       FilesIn(r.to, b)'[r.path] = FilesIn(r.to, b)[r.path]

\* After this step, this is the file at o on machine b.
NowIn(o, b, file) ==
  LET r == RouteFor(o) IN
  /\ r.path \in DOMAIN FilesIn(r.to, b)'
  /\ FilesIn(r.to, b)'[r.path] = file

LEMMA FilesOfIs ==
  ASSUME NEW k
  PROVE  FilesOf(k) = FilesIn(k, handle)
BY DEF FilesOf, FilesIn

LEMMA WithOne ==
  ASSUME NEW old, NEW new, NEW q, NEW file, new = With(old, One(q, file))
  PROVE  /\ q \in DOMAIN new /\ new[q] = file
         /\ \A r : r # q => /\ r \in DOMAIN new <=> r \in DOMAIN old
                            /\ r \in DOMAIN old => new[r] = old[r]
<1>1. PICK f : f = One(q, file)
  OBVIOUS
<1>2. DOMAIN f = {q} /\ f[q] = file
  BY <1>1 DEF One
<1> QED
  BY <1>1, <1>2 DEF With

\* One file put, on machine a if its path leads to the machines: the files of
\* all other paths are the same, and so is this one on all other machines.
PutIn(k, a, q, file) ==
  IF k = "sandbox"
  THEN /\ boxes' = [boxes EXCEPT ![a].files = With(@, One(q, file))]
       /\ UNCHANGED held
  ELSE /\ held' = [held EXCEPT ![k] = With(@, One(q, file))]
       /\ UNCHANGED boxes

LEMMA PutInIs ==
  ASSUME IInv, NEW k \in Kinds, NEW a \in Boxes, NEW q, NEW file, PutIn(k, a, q, file)
  PROVE  /\ \A x \in Kinds, b \in Boxes :
              FilesIn(x, b)' = IF x = k /\ (x = "sandbox" => a = b)
                               THEN With(FilesIn(x, b), One(q, file)) ELSE FilesIn(x, b)
         /\ \A b \in Boxes : boxes'[b].state = boxes[b].state
<1>1. PICK F, B : F = FilesAt(Places("sandbox"))
                  /\ B = [state : {"none", "started", "gone"}, files : F]
  OBVIOUS
<1>2. boxes \in [Boxes -> B]
  BY <1>1 DEF IInv, BoxesInv
<1>3. CASE k = "sandbox"
  <2>1. PICK new : new = With(boxes[a].files, One(q, file))
    OBVIOUS
  <2>2. boxes' = [boxes EXCEPT ![a].files = new] /\ held' = held
    BY <1>3, <2>1 DEF PutIn
  <2>3. \A b \in Boxes : /\ boxes'[b].state = boxes[b].state
                         /\ boxes'[b].files = IF b = a THEN new ELSE boxes[b].files
    BY <1>1, <1>2, <2>2
  <2> QED
    BY <1>3, <2>1, <2>2, <2>3 DEF FilesIn
<1>4. CASE k # "sandbox"
  <2>1. PICK new : new = With(held[k], One(q, file))
    OBVIOUS
  <2>2. held' = [held EXCEPT ![k] = new] /\ boxes' = boxes
    BY <1>4, <2>1 DEF PutIn
  <2>3. \A x \in Kinds \ {"sandbox"} : held'[x] = IF x = k THEN new ELSE held[x]
    BY <2>2 DEF IInv, HeldInv
  <2> QED
    BY <1>4, <2>1, <2>2, <2>3 DEF FilesIn
<1> QED
  BY <1>3, <1>4

LEMMA OnlyThere ==
  ASSUME IInv, UNCHANGED setup, NEW p \in Paths, NEW a \in Boxes, NEW k, NEW q, NEW file,
         k = RouteFor(p).to, q = RouteFor(p).path, PutIn(k, a, q, file)
  PROVE  /\ \A o \in Paths, b \in Boxes :
              o # p \/ (k = "sandbox" /\ a # b) => SameIn(o, b)
         /\ \A b \in Boxes : (k = "sandbox" => a = b) => NowIn(p, b, file)
<1>1. setup \in Setups
  BY DEF IInv
<1>2. \A x \in Kinds, b \in Boxes :
        FilesIn(x, b)' = IF x = k /\ (x = "sandbox" => a = b)
                         THEN With(FilesIn(x, b), One(q, file)) ELSE FilesIn(x, b)
  BY <1>1, KindOf, PutInIs
<1>5. \A o : RouteFor(o)' = RouteFor(o)
  BY SameRoutes
<1>3. ASSUME NEW o \in Paths, NEW b \in Boxes, o # p \/ (k = "sandbox" /\ a # b)
      PROVE  SameIn(o, b)
  <2>1. PICK x, r, old, new : /\ x = RouteFor(o).to /\ r = RouteFor(o).path
                              /\ old = FilesIn(x, b) /\ new = FilesIn(x, b)'
    OBVIOUS
  <2>2. x \in Kinds
    BY <1>1, <2>1, KindOf
  <2>3. CASE x = k /\ (x = "sandbox" => a = b)
    <3>1. r # q
      BY <1>1, <1>3, <2>1, <2>3, OnePathEach
    <3>2. new = With(old, One(q, file))
      BY <1>2, <2>1, <2>2, <2>3
    <3>3. r \in DOMAIN new <=> r \in DOMAIN old
      BY <3>1, <3>2, WithOne
    <3>4. r \in DOMAIN old => new[r] = old[r]
      BY <3>1, <3>2, WithOne
    <3> QED
      BY <1>5, <2>1, <3>3, <3>4 DEF SameIn, FilesIn
  <2>4. CASE ~(x = k /\ (x = "sandbox" => a = b))
    <3>1. new = old
      BY <1>2, <2>1, <2>2, <2>4
    <3> QED
      BY <1>5, <2>1, <3>1 DEF SameIn, FilesIn
  <2> QED
    BY <2>3, <2>4
<1>4. ASSUME NEW b \in Boxes, k = "sandbox" => a = b
      PROVE  NowIn(p, b, file)
  <2>1. PICK old, new : old = FilesIn(k, b) /\ new = FilesIn(k, b)'
    OBVIOUS
  <2>2. new = With(old, One(q, file))
    BY <1>1, <1>2, <1>4, <2>1, KindOf
  <2>3. q \in DOMAIN new /\ new[q] = file
    BY <2>2, WithOne
  <2> QED
    BY <1>5, <2>1, <2>3 DEF NowIn, FilesIn
<1> QED
  BY <1>3, <1>4

\* An upload puts the file at the paths it has touched, and no other.
HasUploaded(touched, f) ==
  /\ touched \subseteq Paths
  /\ \A o \in touched : NowIn(o, handle, f)
  /\ \A o \in Paths \ touched, b \in Boxes : SameIn(o, b)
  /\ \A o \in Paths, b \in Boxes :
       RouteFor(o).to = "sandbox" /\ b # handle => SameIn(o, b)
  /\ \A b \in Boxes : boxes'[b].state = boxes[b].state
  /\ calls' = Accompanied(touched)
  /\ UNCHANGED <<setup, handle>>

LEMMA UploadPuts ==
  ASSUME IInv, NEW ps \in Seq(Paths), NEW f, Upload(ps, f)
  PROVE  \E touched : HasUploaded(touched, f)
<1>1. PICK touched, new :
        /\ UploadsTo(touched, f, new)
        /\ held' = [k \in DOMAIN held |-> With(held[k], new[k])]
        /\ boxes' = [boxes EXCEPT ![handle].files = With(@, new["sandbox"])]
        /\ calls' = Accompanied(touched)
        /\ UNCHANGED <<setup, handle>>
  BY UploadIs DEF IInv
<1>2. touched \subseteq Paths
  BY <1>1 DEF UploadsTo
<1>3. setup \in Setups /\ \A o : RouteFor(o)' = RouteFor(o)
  BY <1>1, SameRoutes DEF IInv
<1>4. ASSUME NEW k \in Kinds
      PROVE  /\ DOMAIN new[k] = {RouteFor(o).path : o \in {x \in touched : RouteFor(x).to = k}}
             /\ \A r \in DOMAIN new[k] : new[k][r] = f
  <2>1. PICK D, g : D = {RouteFor(o).path : o \in {x \in touched : RouteFor(x).to = k}}
                    /\ g = new[k]
    OBVIOUS
  <2>2. g = [r \in D |-> f]
    BY <1>1, <2>1 DEF UploadsTo
  <2> QED
    BY <2>1, <2>2
<1>5. /\ \A b \in Boxes : boxes'[b].state = boxes[b].state
      /\ \A k \in Kinds, b \in Boxes :
           FilesIn(k, b)' = IF k = "sandbox" => b = handle
                            THEN With(FilesIn(k, b), new[k]) ELSE FilesIn(k, b)
  <2>1. PICK F, B : F = FilesAt(Places("sandbox"))
                    /\ B = [state : {"none", "started", "gone"}, files : F]
    OBVIOUS
  <2>2. boxes \in [Boxes -> B] /\ handle \in Boxes
    BY <2>1 DEF IInv, BoxesInv
  <2>3. PICK now : now = With(boxes[handle].files, new["sandbox"])
    OBVIOUS
  <2>4. boxes' = [boxes EXCEPT ![handle].files = now]
    BY <1>1, <2>3
  <2>5. \A b \in Boxes : /\ boxes'[b].state = boxes[b].state
                         /\ boxes'[b].files = IF b = handle THEN now ELSE boxes[b].files
    BY <2>1, <2>2, <2>4
  <2>6. \A k \in Kinds \ {"sandbox"} : held'[k] = With(held[k], new[k])
    BY <1>1 DEF IInv, HeldInv
  <2> QED
    BY <2>3, <2>5, <2>6 DEF FilesIn
<1>6. ASSUME NEW o \in Paths, NEW b \in Boxes
      PROVE  /\ o \in touched /\ (RouteFor(o).to = "sandbox" => b = handle) => NowIn(o, b, f)
             /\ o \notin touched \/ (RouteFor(o).to = "sandbox" /\ b # handle) => SameIn(o, b)
  <2>1. PICK k, r, old, g, now : /\ k = RouteFor(o).to /\ r = RouteFor(o).path
                                 /\ old = FilesIn(k, b) /\ g = new[k]
                                 /\ now = FilesIn(k, b)'
    OBVIOUS
  <2>2. k \in Kinds
    BY <1>3, <2>1, KindOf
  <2>3. o \in touched <=> r \in DOMAIN g
    <3>1. ASSUME r \in DOMAIN g PROVE o \in touched
      <4>1. PICK x \in touched : RouteFor(x).to = k /\ RouteFor(x).path = r
        BY <1>4, <2>1, <2>2, <3>1
      <4>2. x = o
        BY <1>2, <1>3, <2>1, <4>1, OnePathEach
      <4> QED
        BY <4>1, <4>2
    <3> QED
      BY <1>4, <2>1, <2>2, <3>1
  <2>4. r \in DOMAIN g => g[r] = f
    BY <1>4, <2>1, <2>2
  <2>5. CASE k = "sandbox" => b = handle
    <3>1. now = With(old, g)
      BY <1>5, <2>1, <2>2, <2>5
    <3>2. CASE o \in touched
      <4>1. r \in DOMAIN now /\ now[r] = f
        BY <2>3, <2>4, <3>1, <3>2 DEF With
      <4> QED
        BY <1>3, <2>1, <2>5, <3>2, <4>1 DEF NowIn, FilesIn
    <3>3. CASE o \notin touched
      <4>1. /\ r \in DOMAIN now <=> r \in DOMAIN old
            /\ r \in DOMAIN old => now[r] = old[r]
        BY <2>3, <3>1, <3>3 DEF With
      <4> QED
        BY <1>3, <2>1, <3>3, <4>1 DEF SameIn, FilesIn
    <3> QED
      BY <3>2, <3>3
  <2>6. CASE ~(k = "sandbox" => b = handle)
    <3>1. now = old
      BY <1>5, <2>1, <2>2, <2>6
    <3> QED
      BY <1>3, <2>1, <2>6, <3>1 DEF SameIn, FilesIn
  <2> QED
    BY <2>5, <2>6
<1>7. handle \in Boxes
  BY DEF IInv, BoxesInv
<1>8. HasUploaded(touched, f)
  BY <1>1, <1>2, <1>5, <1>6, <1>7 DEF HasUploaded
<1> QED
  BY <1>8

(***************************************************************************)
(* A look stays true                                                       *)
(***************************************************************************)

\* The call is what it was, up to the number of tries and who disturbed it.
SameCall(x, y) ==
  /\ x.op = y.op /\ x.at = y.at /\ x.old = y.old /\ x.word = y.word /\ x.all = y.all
  /\ x.file = y.file /\ x.box = y.box /\ x.step = y.step
  /\ x.alone => y.alone

\* A machine that once was started is not made again.
MachinesLast ==
  \A b \in Boxes :
    boxes[b].state # "none" =>
      /\ boxes'[b].state # "none"
      /\ boxes'[b].state = "started" => boxes[b].state = "started"

LEMMA FreshStays ==
  ASSUME UNCHANGED setup, MachinesLast, NEW c, Fresh(c),
         calls[c].box \in Boxes, SameCall(calls'[c], calls[c]),
         \/ ~calls'[c].alone
         \/ RouteFor(At(c)).to = "sandbox" /\ boxes'[calls[c].box].state # "started"
         \/ SameIn(At(c), calls[c].box)
  PROVE  Fresh(c)'
<1>1. PICK old, new, b : old = calls[c] /\ new = calls'[c] /\ b = old.box
  OBVIOUS
<1>2. PICK p, k, q : p = old.at /\ k = RouteFor(p).to /\ q = RouteFor(p).path
  OBVIOUS
<1>3. RouteFor(p)' = RouteFor(p)
  BY SameRoutes
<1>4. SameCall(new, old) /\ b \in Boxes
  BY <1>1
<1>5. new.at = p /\ new.box = b /\ new.step = old.step /\ (new.alone => old.alone)
  BY <1>1, <1>2, <1>4 DEF SameCall
<1>6. Fresh(c)' <=> /\ k = "sandbox" => boxes'[b].state # "none"
                    /\ /\ new.alone /\ new.step = "put"
                       /\ k = "sandbox" => boxes'[b].state = "started"
                       => StillTrue(new, FilesIn(k, b)', q)
  BY <1>1, <1>2, <1>3, <1>5 DEF Fresh, There, StillTrue, FilesIn
<1>7. Fresh(c) <=> /\ k = "sandbox" => boxes[b].state # "none"
                   /\ /\ old.alone /\ old.step = "put"
                      /\ k = "sandbox" => boxes[b].state = "started"
                      => StillTrue(old, FilesIn(k, b), q)
  BY <1>1, <1>2 DEF Fresh, There
<1>8. k = "sandbox" => boxes[b].state # "none" /\ boxes'[b].state # "none"
  BY <1>4, <1>7 DEF MachinesLast
<1>9. ASSUME new.alone, new.step = "put", k = "sandbox" => boxes'[b].state = "started"
      PROVE  StillTrue(new, FilesIn(k, b)', q)
  <2>1. StillTrue(old, FilesIn(k, b), q)
    BY <1>4, <1>5, <1>7, <1>8, <1>9 DEF MachinesLast
  <2>2. SameIn(p, b)
    BY <1>1, <1>2, <1>9 DEF At
  <2>3. PICK f, g : f = FilesIn(k, b) /\ g = FilesIn(k, b)'
    OBVIOUS
  <2>4. /\ q \in DOMAIN g <=> q \in DOMAIN f
        /\ q \in DOMAIN f => g[q] = f[q]
    BY <1>2, <1>3, <2>2, <2>3 DEF SameIn, FilesIn
  <2>5. StillTrue(new, g, q)
    BY <1>4, <2>1, <2>3, <2>4 DEF StillTrue, SameCall
  <2> QED
    BY <2>3, <2>5
<1> QED
  BY <1>6, <1>8, <1>9

LEMMA InProgressNow ==
  ASSUME CallsInv, NEW c \in InProgress
  PROVE  /\ c \in Callers /\ CallOK(calls[c]) /\ calls[c] \in Calls
         /\ calls[c].box \in Boxes /\ At(c) \in Paths /\ calls[c].at = At(c)
<1>1. c \in Callers /\ CallOK(calls[c])
  BY DEF CallsInv, InProgress
<1> QED
  BY <1>1 DEF CallOK, Calls, At

\* How a call in progress can go through a step with its look still true: it
\* is the same, or it has looked anew.
LooksOn(c) ==
  /\ c \in InProgress
  /\ calls'[c].at = calls[c].at
  /\ calls'[c].alone => calls[c].alone
  /\ \/ Fresh(c)'
     \/ /\ SameCall(calls'[c], calls[c])
        /\ \/ ~calls'[c].alone
           \/ RouteFor(At(c)).to = "sandbox" /\ boxes'[calls[c].box].state # "started"
           \/ SameIn(At(c), calls[c].box)

LEMMA LookStays ==
  ASSUME IInv, LookInv, UNCHANGED setup, MachinesLast, \A c \in InProgress' : LooksOn(c)
  PROVE  LookInv'
<1>1. ASSUME NEW c \in InProgress'
      PROVE  Fresh(c)'
  <2>1. LooksOn(c)
    OBVIOUS
  <2>2. c \in InProgress
    BY <2>1 DEF LooksOn
  <2>3. calls[c].box \in Boxes /\ Fresh(c)
    BY <2>2, InProgressNow DEF IInv, LookInv
  <2> QED
    BY <2>1, <2>3, FreshStays DEF LooksOn
<1>2. Apart'
  <2>1. SUFFICES ASSUME NEW c \in InProgress', NEW d \in InProgress', c # d, At(c)' = At(d)'
                 PROVE  ~calls'[c].alone
    BY DEF Apart
  <2>2. LooksOn(c) /\ LooksOn(d)
    OBVIOUS
  <2>3. c \in InProgress /\ d \in InProgress /\ At(c) = At(d)
    BY <2>1, <2>2 DEF LooksOn, At
  <2>4. ~calls[c].alone
    BY <2>1, <2>3 DEF LookInv, Apart
  <2> QED
    BY <2>2, <2>4 DEF LooksOn
<1> QED
  BY <1>1, <1>2 DEF LookInv

(***************************************************************************)
(* The one file system, step by step                                       *)
(***************************************************************************)

FlatStep == FF!Next \/ UNCHANGED FF!vars

SameSeen(o) ==
  /\ IsThere(o)' <=> IsThere(o)
  /\ IsThere(o) => TextAt(o)' = TextAt(o)

LEMMA SeenIn ==
  ASSUME UNCHANGED <<setup, handle>>, NEW o
  PROVE  /\ SameIn(o, handle) => SameSeen(o)
         /\ \A file : NowIn(o, handle, file) => IsThere(o)' /\ TextAt(o)' = file
<1>1. RouteFor(o)' = RouteFor(o)
  BY SameRoutes
<1> QED
  BY <1>1 DEF SameIn, NowIn, SameSeen, IsThere, TextAt, FilesOf, FilesIn

LEMMA SeenStays ==
  ASSUME \A o \in Paths : SameSeen(o)
  PROVE  Seen' = Seen
<1>1. {x \in Paths : IsThere(x)}' = {x \in Paths : IsThere(x)}
  BY DEF SameSeen
<1>2. \A p \in {x \in Paths : IsThere(x)} : TextAt(p)' = TextAt(p)
  BY DEF SameSeen
<1> QED
  BY <1>1, <1>2 DEF Seen

LEMMA RemoteStays ==
  ASSUME UNCHANGED setup
  PROVE  Remote' = Remote
BY SameRoutes DEF Remote

LEMMA SeenIs ==
  /\ DOMAIN Seen \subseteq Paths
  /\ \A p \in Paths : /\ p \in DOMAIN Seen <=> IsThere(p)
                      /\ p \in DOMAIN Seen => Seen[p] = TextAt(p)
BY DEF Seen

LEMMA SeenNow ==
  /\ DOMAIN Seen' \subseteq Paths
  /\ \A p \in Paths : /\ p \in DOMAIN Seen' <=> IsThere(p)'
                      /\ p \in DOMAIN Seen' => Seen'[p] = TextAt(p)'
BY DEF Seen

LEMMA SeenPut ==
  ASSUME NEW S \in SUBSET Paths, NEW text,
         \A o \in S : IsThere(o)' /\ TextAt(o)' = text,
         \A o \in Paths \ S : SameSeen(o)
  PROVE  FF!Store(S, text)
<1>1. {x \in Paths : IsThere(x)}' = DOMAIN Seen \union S
  BY SeenIs DEF SameSeen
<1>2. \A p \in DOMAIN Seen \union S :
        TextAt(p)' = IF p \in S THEN text ELSE Seen[p]
  BY SeenIs DEF SameSeen
<1>3. Seen' = [p \in {x \in Paths : IsThere(x)}' |-> TextAt(p)']
  BY DEF Seen
<1>4. Seen' = [p \in DOMAIN Seen \union S |-> IF p \in S THEN text ELSE Seen[p]]
  BY <1>1, <1>2, <1>3
<1> QED
  BY <1>4 DEF FF!Store, FF!Stored

LEMMA AccompaniedIs ==
  ASSUME CallsInv, NEW ps, NEW as, as = Accompanied(ps), NEW c \in Callers
  PROVE  /\ as[c] = Nobody <=> calls[c] = Nobody
         /\ calls[c] # Nobody =>
              /\ SameCall(as[c], calls[c])
              /\ Asked(as[c]) = Asked(calls[c])
              /\ as[c].alone <=> calls[c].alone /\ At(c) \notin ps
<1>1. as[c] = IF c \in InProgress /\ At(c) \in ps
              THEN [calls[c] EXCEPT !.alone = FALSE] ELSE calls[c]
  BY DEF Accompanied
<1>2. PICK old, new : old = calls[c] /\ new = as[c]
  OBVIOUS
<1>3. CASE c \in InProgress /\ At(c) \in ps
  <2>1. old \in Calls /\ new = [old EXCEPT !.alone = FALSE]
    BY <1>1, <1>2, <1>3, InProgressNow
  <2>2. new \in Calls
    BY <2>1 DEF Calls
  <2>3. new # Nobody /\ old # Nobody
    BY <2>1, <2>2, NobodyAssumption
  <2>4. SameCall(new, old) /\ ~new.alone
    BY <2>1 DEF SameCall, Calls
  <2>5. Asked(new) = Asked(old)
    BY <2>4 DEF Asked, SameCall
  <2> QED
    BY <1>2, <1>3, <2>3, <2>4, <2>5
<1>4. CASE ~(c \in InProgress /\ At(c) \in ps)
  <2>1. new = old
    BY <1>1, <1>2, <1>4
  <2>2. old # Nobody => c \in InProgress
    BY <1>2 DEF InProgress
  <2> QED
    BY <1>2, <1>4, <2>1, <2>2 DEF SameCall
<1> QED
  BY <1>3, <1>4

LEMMA AskingIs ==
  /\ DOMAIN Asking = InProgress /\ FF!Open = InProgress
  /\ \A c \in InProgress : Asking[c] = Asked(calls[c]) /\ Asking[c].at = At(c)
BY DEF Asking, Asked, At, FF!Open

LEMMA AskingNow ==
  /\ DOMAIN Asking' = InProgress'
  /\ \A c \in InProgress' : Asking'[c] = Asked(calls'[c])
  /\ Asking' = [c \in InProgress' |-> Asked(calls'[c])]
BY DEF Asking, Asked

LEMMA AskingStays ==
  ASSUME InProgress' = InProgress, \A c \in InProgress : Asked(calls'[c]) = Asked(calls[c])
  PROVE  Asking' = Asking
BY AskingNow DEF Asking

LEMMA MachinesKept ==
  ASSUME \A b \in Boxes : boxes'[b].state = boxes[b].state
  PROVE  MachinesLast
BY DEF MachinesLast

LEMMA FilesKept ==
  ASSUME UNCHANGED <<setup, held, boxes, handle>>
  PROVE  /\ \A o, b : SameIn(o, b)
         /\ Seen' = Seen /\ Remote' = Remote /\ MachinesLast
<1>1. ASSUME NEW o, NEW b PROVE SameIn(o, b)
  BY SameRoutes DEF SameIn, FilesIn
<1>2. Seen' = Seen
  BY <1>1, SeenIn, SeenStays
<1> QED
  BY <1>1, <1>2, RemoteStays, MachinesKept

LEMMA NothingHappens ==
  ASSUME IInv, LookInv, UNCHANGED <<setup, held, boxes, handle, calls>>
  PROVE  LookInv' /\ FlatStep
<1>1. InProgress' = InProgress
  BY DEF InProgress
<1>2. \A c \in InProgress' : LooksOn(c)
  BY <1>1, FilesKept DEF LooksOn, SameCall
<1>3. LookInv'
  BY <1>2, FilesKept, LookStays
<1>4. Asking' = Asking
  BY <1>1, AskingStays
<1>5. Disturbed' = Disturbed
  BY <1>1 DEF Disturbed
<1> QED
  BY <1>3, <1>4, <1>5, FilesKept DEF FlatStep, FF!vars

LEMMA CanWriteIs ==
  ASSUME NEW k \in Kinds, NEW files, NEW q, CanWrite(k, files, q)
  PROVE  q \notin DOMAIN files
BY DEF CanWrite, Kinds, StateCanWrite, StoreCanWrite, DiskCanWrite, SandboxCanWrite

\* What a call puts is true to what it has just looked at.
LEMMA OutcomeTrue ==
  ASSUME IInv, NEW call \in Calls, NEW file \in Outcome(call), NEW new,
         new.op = call.op, new.old = call.old, new.word = call.word, new.all = call.all,
         new.file = file
  PROVE  /\ StillTrue(new, FilesOf(RouteFor(call.at).to), RouteFor(call.at).path)
         /\ call.op = "write" => file = call.file
<1>1. PICK k, q, files : k = RouteFor(call.at).to /\ q = RouteFor(call.at).path
                         /\ files = FilesOf(k)
  OBVIOUS
<1>2. k \in Kinds /\ call.op \in {"write", "edit"}
  BY <1>1, KindOf DEF Calls, IInv
<1>3. CASE call.op = "write"
  <2>1. file = call.file /\ CanWrite(k, files, q)
    BY <1>1, <1>3 DEF Outcome
  <2> QED
    BY <1>1, <1>2, <1>3, <2>1, CanWriteIs DEF StillTrue
<1>4. CASE call.op = "edit"
  <2>1. /\ q \in DOMAIN files /\ CanReplace(files[q], call.old, call.all)
        /\ file = Replacement(files[q], call.old, call.word)
    BY <1>1, <1>4 DEF Outcome, CanEdit
  <2> QED
    BY <1>1, <1>4, <2>1 DEF StillTrue
<1> QED
  BY <1>2, <1>3, <1>4

LEMMA BeginFlat ==
  ASSUME IInv, LookInv, NEW c \in Callers, NEW call \in Calls, Begin(c, call),
         call.op = "write" => call.file # <<>>, call.op = "edit" => call.word \in Words,
         call.box = handle, call.step = "put",
         call.alone <=> \A d \in InProgress : At(d) # call.at
  PROVE  LookInv' /\ FlatStep
<1>1. UNCHANGED <<setup, held, boxes, handle>> /\ calls[c] = Nobody
      /\ Reachable(RouteFor(call.at).to)
  BY DEF Begin, storeVars
<1>2. LookInv' /\ FlatStep
  <2>1. PICK file \in Outcome(call) :
          calls' = [Accompanied({call.at}) EXCEPT ![c] = [call EXCEPT !.file = file]]
    BY DEF Begin
  <2>2. file \in Seq(Words)
    BY OutcomeOK
  <2>3. PICK as, new, p : /\ as = Accompanied({call.at}) /\ new = [call EXCEPT !.file = file]
                          /\ p = call.at
    OBVIOUS
  <2>4. /\ new \in Calls /\ new # Nobody /\ new.file = file
        /\ new.op = call.op /\ new.at = p /\ new.old = call.old /\ new.word = call.word
        /\ new.all = call.all /\ new.box = handle /\ new.step = "put"
        /\ new.alone <=> call.alone
    BY <2>2, <2>3, NobodyAssumption DEF Calls
  <2>5. as = [x \in Callers |-> as[x]]
    BY <2>3 DEF Accompanied
  <2>6. /\ calls'[c] = new
        /\ \A x \in Callers \ {c} : calls'[x] = as[x]
    BY <2>1, <2>3, <2>5
  <2>7. InProgress' = InProgress \union {c} /\ c \notin InProgress
    BY <1>1, <2>3, <2>4, <2>6, AccompaniedIs DEF IInv, InProgress
  <2>8. ASSUME NEW d \in InProgress
        PROVE  /\ SameCall(calls'[d], calls[d])
               /\ Asked(calls'[d]) = Asked(calls[d])
               /\ calls'[d].alone <=> calls[d].alone /\ At(d) # p
               /\ calls'[d].at = At(d)
    <3>1. d \in Callers /\ d # c /\ calls[d] # Nobody
      BY <2>7 DEF InProgress
    <3>2. calls'[d] = as[d]
      BY <2>6, <3>1
    <3> QED
      BY <2>3, <3>1, <3>2, AccompaniedIs DEF IInv, SameCall, At
  <2>9. Fresh(c)'
    <3>1. PICK k, q : k = RouteFor(p).to /\ q = RouteFor(p).path
      OBVIOUS
    <3>2. RouteFor(p)' = RouteFor(p)
      BY <1>1, SameRoutes
    <3>3. StillTrue(new, FilesOf(k), q)
      BY <2>3, <2>4, <3>1, OutcomeTrue
    <3>4. FilesOf(k) = FilesIn(k, handle) /\ FilesIn(k, handle)' = FilesIn(k, handle)
      BY <1>1 DEF FilesOf, FilesIn
    <3>5. k = "sandbox" => boxes'[handle].state = "started"
      BY <1>1, <2>3, <3>1 DEF Reachable
    <3> QED
      BY <1>1, <2>4, <2>6, <3>1, <3>2, <3>3, <3>4, <3>5
      DEF Fresh, There, StillTrue, FilesIn
  <2>10. LookInv'
    <3>1. ASSUME NEW d \in InProgress'
          PROVE  Fresh(d)'
      <4>1. CASE d = c
        BY <2>9, <4>1
      <4>2. CASE d \in InProgress
        <5>1. Fresh(d) /\ calls[d].box \in Boxes
          BY <4>2, InProgressNow DEF LookInv, IInv
        <5>2. SameCall(calls'[d], calls[d]) /\ SameIn(At(d), calls[d].box) /\ MachinesLast
          BY <1>1, <2>8, <4>2, FilesKept
        <5> QED
          BY <1>1, <5>1, <5>2, FreshStays
      <4> QED
        BY <2>7, <4>1, <4>2
    <3>2. \A x, y \in InProgress' : x # y /\ calls'[x].at = calls'[y].at => ~calls'[x].alone
      <4>1. \A x, y \in InProgress : x # y /\ At(x) = At(y) => ~calls[x].alone
        BY DEF LookInv, Apart
      <4>2. SUFFICES ASSUME NEW x \in InProgress', NEW y \in InProgress', x # y,
                            calls'[x].at = calls'[y].at
                     PROVE  ~calls'[x].alone
        OBVIOUS
      <4>3. CASE x = c
        <5>1. y \in InProgress /\ At(y) = p
          BY <2>4, <2>6, <2>7, <2>8, <4>2, <4>3
        <5>2. ~call.alone
          BY <2>3, <5>1
        <5> QED
          BY <2>4, <2>6, <4>3, <5>2
      <4>4. CASE x # c
        <5>1. x \in InProgress /\ calls'[x].at = At(x) /\ (calls'[x].alone => calls[x].alone /\ At(x) # p)
          BY <2>7, <2>8, <4>2, <4>4
        <5>2. CASE y = c
          BY <2>4, <2>6, <4>2, <5>1, <5>2
        <5>3. CASE y # c
          <6>1. y \in InProgress /\ calls'[y].at = At(y)
            BY <2>7, <2>8, <4>2, <5>3
          <6> QED
            BY <4>1, <4>2, <5>1, <6>1
        <5> QED
          BY <5>2, <5>3
      <4> QED
        BY <4>3, <4>4
    <3>3. Apart'
      BY <3>2 DEF Apart, At
    <3> QED
      BY <3>1, <3>3 DEF LookInv
  <2>11. FF!Begin(c)
    <3>1. Asking' = [d \in InProgress \union {c} |-> IF d = c THEN Asking'[c] ELSE Asking[d]]
      BY <2>7, <2>8, AskingNow, AskingIs
    <3>2. Asking'[c].at = p
      BY <2>4, <2>6, <2>7, AskingNow DEF Asked
    <3>3. PICK others : others = {d \in InProgress : At(d) = p}
      OBVIOUS
    <3>4. Disturbed' = Disturbed \union others \union {d \in {c} : others # {}}
      <4>1. new.alone <=> others = {}
        BY <2>3, <2>4, <3>3
      <4>2. Disturbed' = {d \in InProgress \union {c} : ~calls'[d].alone}
        BY <2>7 DEF Disturbed
      <4>3. \A d \in InProgress : calls'[d].alone <=> calls[d].alone /\ d \notin others
        BY <2>8, <3>3
      <4>4. Disturbed = {d \in InProgress : ~calls[d].alone}
        BY DEF Disturbed
      <4> QED
        BY <2>6, <2>7, <3>3, <4>1, <4>2, <4>3, <4>4
    <3>5. FF!CallsAt({Asking'[c].at}) = others
      BY <3>2, <3>3, AskingIs DEF FF!CallsAt
    <3>6. Seen' = Seen /\ Remote' = Remote
      BY <1>1, FilesKept
    <3> QED
      BY <2>7, <3>1, <3>4, <3>5, <3>6, AskingIs DEF FF!Begin
  <2>12. c \in DOMAIN Asking'
    BY <2>7, AskingNow
  <2> QED
    BY <2>10, <2>11, <2>12 DEF FlatStep, FF!Next
<1> QED
  BY <1>2

LEMMA WriteFileFlat ==
  ASSUME IInv, LookInv, NEW c \in Callers, NEW arg \in Args, NEW f \in Contents,
         WriteFile(c, arg, f)
  PROVE  LookInv' /\ FlatStep
<1>1. PICK call : call = Call("write", ValidPath(arg), "", "", FALSE, f)
  OBVIOUS
<1>2. ValidPath(arg) \in Paths /\ handle \in Boxes /\ f \in Seq(Words) /\ f # <<>>
  BY AFAssumption DEF WriteFile, Paths, IInv, BoxesInv
<1>3. /\ call \in Calls /\ call.op = "write" /\ call.file # <<>>
      /\ call.box = handle /\ call.step = "put"
      /\ call.alone <=> \A d \in InProgress : At(d) # call.at
  BY <1>1, <1>2 DEF Call, Calls
<1> QED
  BY <1>1, <1>3, BeginFlat DEF WriteFile

LEMMA EditFileFlat ==
  ASSUME IInv, LookInv, NEW c \in Callers, NEW arg \in Args, NEW old \in Words,
         NEW word \in Words, NEW all \in BOOLEAN, EditFile(c, arg, old, word, all)
  PROVE  LookInv' /\ FlatStep
<1>1. PICK call : call = Call("edit", ValidPath(arg), old, word, all, <<>>)
  OBVIOUS
<1>2. ValidPath(arg) \in Paths /\ handle \in Boxes /\ <<>> \in Seq(Words)
  BY EmptySeq DEF EditFile, Paths, IInv, BoxesInv
<1>3. /\ call \in Calls /\ call.op = "edit" /\ call.word \in Words
      /\ call.box = handle /\ call.step = "put"
      /\ call.alone <=> \A d \in InProgress : At(d) # call.at
  BY <1>1, <1>2 DEF Call, Calls
<1> QED
  BY <1>1, <1>3, BeginFlat DEF EditFile

LEMMA EndsIs ==
  ASSUME CallsInv, NEW c \in InProgress, calls' = [calls EXCEPT ![c] = Nobody]
  PROVE  /\ InProgress' = InProgress \ {c}
         /\ \A d \in InProgress \ {c} : calls'[d] = calls[d]
         /\ FF!Ends(c)
<1>1. \A d \in Callers : calls'[d] = IF d = c THEN Nobody ELSE calls[d]
  BY DEF CallsInv
<1>2. InProgress' = InProgress \ {c} /\ \A d \in InProgress \ {c} : calls'[d] = calls[d]
  BY <1>1 DEF InProgress
<1>3. Asking' = [d \in InProgress \ {c} |-> Asking[d]]
  BY <1>2, AskingNow, AskingIs
<1>4. Disturbed' = Disturbed \ {c}
  BY <1>2 DEF Disturbed
<1> QED
  BY <1>2, <1>3, <1>4, AskingIs DEF FF!Ends

\* A call that puts its file at its path does what was asked for.
LEMMA TakesEffectIs ==
  ASSUME IInv, LookInv, UNCHANGED <<setup, handle>>, NEW c \in InProgress, NEW p, NEW k, NEW q,
         p = At(c), k = RouteFor(p).to, q = RouteFor(p).path,
         calls[c].step = "put", PutIn(k, handle, q, calls[c].file),
         k = "sandbox" => calls[c].box = handle /\ boxes[handle].state = "started"
  PROVE  FF!Write(c) \/ FF!Edit(c)
<1>1. PICK call : call = calls[c]
  OBVIOUS
<1>2. /\ call \in Calls /\ call.box \in Boxes /\ p \in Paths /\ call.at = p
      /\ call.op \in {"write", "edit"} /\ call.alone \in BOOLEAN /\ handle \in Boxes
  BY <1>1, InProgressNow DEF IInv, Calls, BoxesInv
<1>3. /\ \A o \in Paths \ {p} : SameSeen(o)
      /\ IsThere(p)' /\ TextAt(p)' = call.file
  <2>1. \A o \in Paths \ {p} : SameIn(o, handle)
    BY <1>2, OnlyThere
  <2>2. NowIn(p, handle, call.file)
    BY <1>1, <1>2, OnlyThere
  <2> QED
    BY <2>1, <2>2, SeenIn
<1>4. FF!Store({p}, call.file)
  BY <1>2, <1>3, SeenPut
<1>5. /\ Asking[c].op = call.op /\ Asking[c].at = p /\ Asking[c].old = call.old
      /\ Asking[c].word = call.word /\ Asking[c].all = call.all
      /\ call.op = "write" => Asking[c].text = call.file
  BY <1>1, <1>2, AskingIs DEF Asked
<1>6. p \in DOMAIN Seen' /\ Seen'[p] = call.file
  BY <1>2, <1>3, SeenNow
<1>7. call.alone => StillTrue(call, FilesOf(k), q)
  <2>1. Fresh(c)
    BY DEF LookInv
  <2>2. FilesIn(k, call.box) = FilesOf(k)
    BY <1>1 DEF FilesIn, FilesOf
  <2> QED
    BY <1>1, <1>2, <2>1, <2>2 DEF Fresh, There
<1>8. ~call.alone => c \in Disturbed
  BY <1>1 DEF Disturbed
<1>9. CASE call.op = "write"
  <2>1. c \in Disturbed \/ p \notin DOMAIN Seen
    BY <1>2, <1>7, <1>8, <1>9, SeenIs DEF StillTrue, IsThere
  <2> QED
    BY <1>4, <1>5, <1>9, <2>1 DEF FF!Write
<1>10. CASE call.op = "edit"
  <2>1. \/ c \in Disturbed
        \/ /\ p \in DOMAIN Seen
           /\ CanReplace(Seen[p], call.old, call.all)
           /\ Seen'[p] = Replacement(Seen[p], call.old, call.word)
    <3>1. CASE call.alone
      <4>1. /\ q \in DOMAIN FilesOf(k) /\ CanReplace(FilesOf(k)[q], call.old, call.all)
            /\ call.file = Replacement(FilesOf(k)[q], call.old, call.word)
        BY <1>7, <1>10, <3>1 DEF StillTrue
      <4>2. p \in DOMAIN Seen /\ Seen[p] = FilesOf(k)[q]
        BY <1>2, <4>1, SeenIs DEF IsThere, TextAt
      <4> QED
        BY <1>6, <4>1, <4>2
    <3>2. CASE ~call.alone
      BY <1>8, <3>2
    <3> QED
      BY <3>1, <3>2
  <2> QED
    BY <1>4, <1>5, <1>6, <1>10, <2>1 DEF FF!Edit
<1> QED
  BY <1>2, <1>9, <1>10

\* Whoever else is at the path was disturbed before.
LEMMA OthersLookOn ==
  ASSUME IInv, LookInv, UNCHANGED setup, NEW c \in InProgress, NEW a \in Boxes, NEW file,
         PutIn(RouteFor(At(c)).to, a, RouteFor(At(c)).path, file),
         InProgress' \subseteq InProgress,
         \A d \in InProgress' \ {c} : calls'[d] = calls[d],
         c \in InProgress' => LooksOn(c)
  PROVE  LookInv'
<1>1. PICK p : p = At(c)
  OBVIOUS
<1>2. p \in Paths /\ RouteFor(p).to \in Kinds
  BY <1>1, InProgressNow, KindOf DEF IInv
<1>3. MachinesLast
  BY <1>1, <1>2, PutInIs, MachinesKept
<1>4. \A o \in Paths \ {p}, b \in Boxes : SameIn(o, b)
  BY <1>1, <1>2, OnlyThere
<1>5. ASSUME NEW d \in InProgress' \ {c}
      PROVE  LooksOn(d)
  <2>1. d \in InProgress /\ calls'[d] = calls[d]
    OBVIOUS
  <2>2. At(d) \in Paths /\ calls[d].box \in Boxes
    BY <2>1, InProgressNow DEF IInv
  <2>3. ~calls[d].alone \/ SameIn(At(d), calls[d].box)
    BY <1>1, <1>4, <2>1, <2>2 DEF LookInv, Apart
  <2> QED
    BY <2>1, <2>3 DEF LooksOn, SameCall
<1> QED
  BY <1>3, <1>5, LookStays

LEMMA PutFlat ==
  ASSUME IInv, LookInv, NEW c \in Callers, Put(c)
  PROVE  LookInv' /\ FlatStep
<1>1. PICK p, k, q : p = At(c) /\ k = RouteFor(p).to /\ q = RouteFor(p).path
  OBVIOUS
<1>2. /\ c \in InProgress /\ calls[c].step = "put" /\ UNCHANGED setup
      /\ k = "sandbox" => boxes[handle].state = "started" /\ calls[c].box = handle
      /\ calls' = [calls EXCEPT ![c] = Nobody]
  BY <1>1 DEF Put, Reachable, InProgress
<1>3. /\ InProgress' = InProgress \ {c}
      /\ \A d \in InProgress \ {c} : calls'[d] = calls[d]
      /\ FF!Ends(c)
  BY <1>2, EndsIs DEF IInv
<1>4. Remote' = Remote /\ c \in FF!Open
  BY <1>2, RemoteStays, AskingIs
<1>5. CASE UNCHANGED storeVars
  <2>1. Seen' = Seen /\ MachinesLast /\ \A o, b : SameIn(o, b)
    BY <1>2, <1>5, FilesKept DEF storeVars
  <2>2. LookInv'
    BY <1>2, <1>3, <2>1, LookStays DEF LooksOn, SameCall
  <2>3. FF!Fails(c)
    BY <1>3, <1>4, <2>1 DEF FF!Fails
  <2> QED
    BY <1>4, <2>2, <2>3 DEF FlatStep, FF!Next
<1>6. CASE PutFile(k, q, calls[c].file) /\ UNCHANGED handle
  <2>1. PutIn(k, handle, q, calls[c].file) /\ handle \in Boxes
    BY <1>6 DEF PutFile, PutIn, IInv, BoxesInv
  <2>2. LookInv'
    BY <1>1, <1>2, <1>3, <2>1, OthersLookOn
  <2>3. FF!Write(c) \/ FF!Edit(c)
    BY <1>1, <1>2, <1>6, <2>1, TakesEffectIs
  <2>4. FF!TakesEffect(c)
    BY <1>3, <1>4, <2>3 DEF FF!TakesEffect
  <2> QED
    BY <1>4, <2>2, <2>4 DEF FlatStep, FF!Next
<1> QED
  BY <1>1, <1>5, <1>6 DEF Put

\* A command that failed has done what it was asked for, or nothing.
LEMMA PerhapsFlat ==
  ASSUME IInv, LookInv, UNCHANGED <<setup, held, handle>>, NEW c \in InProgress,
         InSandbox(c), Perhaps(c), InProgress' \subseteq InProgress,
         \A d \in InProgress' \ {c} : calls'[d] = calls[d],
         c \in InProgress' => /\ calls'[c].at = calls[c].at /\ calls'[c].box = calls[c].box
                              /\ calls'[c].step = "look"
                              /\ calls'[c].alone => calls[c].alone
  PROVE  /\ LookInv'
         /\ Seen' = Seen \/ FF!Write(c) \/ FF!Edit(c)
<1>1. PICK p, q, b, file : /\ p = At(c) /\ q = RouteFor(p).path
                           /\ b = calls[c].box /\ file = calls[c].file
  OBVIOUS
<1>2. /\ RouteFor(p).to = "sandbox" /\ calls[c].step = "put" /\ p \in Paths
      /\ b \in Boxes /\ calls[c].at = p /\ "sandbox" \in Kinds /\ handle \in Boxes
  BY <1>1, InProgressNow DEF InSandbox, IInv, BoxesInv, Kinds
<1>3. ASSUME \A x \in Boxes : boxes'[x].state = boxes[x].state, c \in InProgress'
      PROVE  LooksOn(c)
  <2>1. RouteFor(p)' = RouteFor(p)
    BY SameRoutes
  <2>2. Fresh(c)
    BY DEF LookInv
  <2>3. boxes'[b].state # "none"
    BY <1>1, <1>2, <1>3, <2>2 DEF Fresh
  <2>4. Fresh(c)'
    BY <1>1, <1>2, <1>3, <2>3 DEF Fresh
  <2> QED
    BY <1>3, <2>4 DEF LooksOn
<1>4. CASE UNCHANGED boxes
  <2>1. Seen' = Seen /\ MachinesLast /\ \A o, x : SameIn(o, x)
    BY <1>4, FilesKept
  <2>2. \A d \in InProgress' : LooksOn(d)
    BY <1>3, <1>4, <2>1 DEF LooksOn, SameCall
  <2> QED
    BY <2>1, <2>2, LookStays
<1>5. CASE /\ boxes[b].state = "started"
           /\ boxes' = [boxes EXCEPT ![b].files = With(@, One(q, file))]
  <2>1. PutIn("sandbox", b, q, file)
    BY <1>5 DEF PutIn
  <2>2. \A x \in Boxes : boxes'[x].state = boxes[x].state
    BY <1>2, <2>1, PutInIs
  <2>3. LookInv'
    BY <1>1, <1>2, <1>3, <2>1, <2>2, OthersLookOn
  <2>4. CASE b = handle
    BY <1>1, <1>2, <1>5, <2>1, <2>3, <2>4, TakesEffectIs
  <2>5. CASE b # handle
    <3>1. PICK k : k = RouteFor(p).to
      OBVIOUS
    <3>2. k = "sandbox" /\ PutIn(k, b, q, file)
      BY <1>2, <2>1, <3>1
    <3>3. q = RouteFor(p).path /\ IInv /\ UNCHANGED setup
      BY <1>1
    <3>4. ASSUME NEW o \in Paths PROVE SameIn(o, handle)
      BY <1>2, <2>5, <3>1, <3>2, <3>3, OnlyThere
    <3> QED
      BY <2>3, <3>4, SeenIn, SeenStays
  <2> QED
    BY <2>4, <2>5
<1> QED
  BY <1>1, <1>4, <1>5 DEF Perhaps

LEMMA TimesOutFlat ==
  ASSUME IInv, LookInv, NEW c \in Callers, CommandTimesOut(c)
  PROVE  LookInv' /\ FlatStep
<1>1. /\ UNCHANGED <<setup, held, handle>> /\ InSandbox(c) /\ Perhaps(c)
      /\ calls' = [calls EXCEPT ![c] = Nobody] /\ c \in InProgress
  BY DEF CommandTimesOut, InSandbox
<1>2. /\ InProgress' = InProgress \ {c}
      /\ \A d \in InProgress \ {c} : calls'[d] = calls[d]
      /\ FF!Ends(c)
  BY <1>1, EndsIs DEF IInv
<1>3. LookInv' /\ (Seen' = Seen \/ FF!Write(c) \/ FF!Edit(c))
  BY <1>1, <1>2, PerhapsFlat
<1>4. Remote' = Remote /\ c \in FF!Open
  BY <1>1, RemoteStays, AskingIs
<1>5. FF!Fails(c) \/ FF!TakesEffect(c)
  BY <1>2, <1>3, <1>4 DEF FF!Fails, FF!TakesEffect
<1> QED
  BY <1>3, <1>4, <1>5 DEF FlatStep, FF!Next

LEMMA FailsFlat ==
  ASSUME IInv, LookInv, NEW c \in Callers, CommandFails(c)
  PROVE  LookInv' /\ FlatStep
<1>1. /\ UNCHANGED <<setup, held, handle>> /\ InSandbox(c) /\ Perhaps(c) /\ c \in InProgress
      /\ calls' = [calls EXCEPT ![c] = IF @.again THEN Nobody
                                       ELSE [@ EXCEPT !.step = "look", !.again = TRUE]]
  BY DEF CommandFails, InSandbox
<1>2. Remote' = Remote /\ c \in FF!Open
  BY <1>1, RemoteStays, AskingIs
<1>3. CASE calls[c].again
  <2>1. calls' = [calls EXCEPT ![c] = Nobody]
    BY <1>1, <1>3
  <2>2. /\ InProgress' = InProgress \ {c}
        /\ \A d \in InProgress \ {c} : calls'[d] = calls[d]
        /\ FF!Ends(c)
    BY <1>1, <2>1, EndsIs DEF IInv
  <2>3. LookInv' /\ (Seen' = Seen \/ FF!Write(c) \/ FF!Edit(c))
    BY <1>1, <2>2, PerhapsFlat
  <2>4. FF!Fails(c) \/ FF!TakesEffect(c)
    BY <1>2, <2>2, <2>3 DEF FF!Fails, FF!TakesEffect
  <2> QED
    BY <1>2, <2>3, <2>4 DEF FlatStep, FF!Next
<1>4. CASE ~calls[c].again
  <2>1. PICK old, new : old = calls[c] /\ new = [old EXCEPT !.step = "look", !.again = TRUE]
    OBVIOUS
  <2>2. calls' = [calls EXCEPT ![c] = new]
    BY <1>1, <1>4, <2>1
  <2>3. old \in Calls
    BY <1>1, <2>1, InProgressNow DEF IInv
  <2>4. /\ new \in Calls /\ new # Nobody
        /\ new.at = old.at /\ new.box = old.box /\ new.step = "look"
        /\ new.alone = old.alone
        /\ Asked(new) = Asked(old)
    BY <2>1, <2>3, NobodyAssumption DEF Calls, Asked
  <2>5. \A d \in Callers : calls'[d] = IF d = c THEN new ELSE calls[d]
    BY <2>2 DEF IInv, CallsInv
  <2>6. InProgress' = InProgress /\ \A d \in InProgress \ {c} : calls'[d] = calls[d]
    BY <1>1, <2>4, <2>5 DEF InProgress
  <2>7. calls'[c] = new
    BY <2>5
  <2>8. LookInv' /\ (Seen' = Seen \/ FF!Write(c) \/ FF!Edit(c))
    BY <1>1, <2>1, <2>4, <2>6, <2>7, PerhapsFlat
  <2>9. Asking' = Asking
    BY <2>1, <2>4, <2>6, <2>7, AskingStays
  <2>10. Disturbed' = Disturbed
    BY <2>1, <2>4, <2>6, <2>7 DEF Disturbed
  <2>11. Asking[c].at \in Remote
    BY <1>1, AskingIs, InProgressNow DEF InSandbox, Remote, IInv
  <2>12. CASE Seen' = Seen
    BY <1>2, <2>8, <2>9, <2>10, <2>12 DEF FlatStep, FF!vars
  <2>13. CASE FF!Write(c) \/ FF!Edit(c)
    <3>1. FF!TakesEffect(c)
      BY <1>2, <2>9, <2>10, <2>11, <2>13 DEF FF!TakesEffect
    <3> QED
      BY <1>2, <2>8, <3>1 DEF FlatStep, FF!Next
  <2> QED
    BY <2>8, <2>12, <2>13
<1> QED
  BY <1>3, <1>4

LEMMA RunAgainFlat ==
  ASSUME IInv, LookInv, NEW c \in Callers, RunAgain(c)
  PROVE  LookInv' /\ FlatStep
<1>1. /\ UNCHANGED <<setup, held, boxes, handle>> /\ c \in InProgress
      /\ calls[c].step = "look" /\ Reachable("sandbox")
  BY DEF RunAgain, storeVars, InProgress
<1>2. Remote' = Remote /\ Seen' = Seen /\ MachinesLast /\ \A o, x : SameIn(o, x)
  BY <1>1, FilesKept
<1>3. CASE calls' = [calls EXCEPT ![c] = Nobody]
  <2>1. /\ InProgress' = InProgress \ {c}
        /\ \A d \in InProgress \ {c} : calls'[d] = calls[d]
        /\ FF!Ends(c)
    BY <1>1, <1>3, EndsIs DEF IInv
  <2>2. LookInv'
    BY <1>1, <1>2, <2>1, LookStays DEF LooksOn, SameCall
  <2>3. FF!Fails(c) /\ c \in FF!Open
    BY <1>1, <1>2, <2>1, AskingIs DEF FF!Fails
  <2> QED
    BY <2>2, <2>3 DEF FlatStep, FF!Next
<1>4. CASE \E file \in Outcome(calls[c]) :
             calls' = [calls EXCEPT ![c] =
                         [@ EXCEPT !.step = "put", !.file = file, !.box = handle]]
  <2>1. PICK file \in Outcome(calls[c]) :
          calls' = [calls EXCEPT ![c] =
                      [@ EXCEPT !.step = "put", !.file = file, !.box = handle]]
    BY <1>4
  <2>2. PICK old, new : /\ old = calls[c]
                        /\ new = [old EXCEPT !.step = "put", !.file = file, !.box = handle]
    OBVIOUS
  <2>3. old \in Calls /\ CallOK(old) /\ handle \in Boxes
    BY <1>1, <2>2, InProgressNow DEF IInv, BoxesInv
  <2>15. /\ file \in Outcome(old) /\ old.file # <<>>
         /\ old.op = "edit" => old.word \in Words
    BY <2>1, <2>2, <2>3 DEF CallOK
  <2>4. file \in Seq(Words) /\ (old.op = "write" => file = old.file)
    <3>1. file \in Seq(Words)
      BY <2>3, <2>15, OutcomeOK
    <3>2. old.op = "write" => file = old.file
      BY <2>3, <2>15 DEF Outcome
    <3> QED
      BY <3>1, <3>2
  <2>5. /\ new \in Calls /\ new # Nobody
        /\ new.op = old.op /\ new.at = old.at /\ new.old = old.old /\ new.word = old.word
        /\ new.all = old.all /\ new.file = file /\ new.box = handle
        /\ new.alone = old.alone
    BY <2>2, <2>3, <2>4, NobodyAssumption DEF Calls
  <2>6. Asked(new) = Asked(old)
    BY <2>4, <2>5 DEF Asked
  <2>7. calls' = [calls EXCEPT ![c] = new]
    BY <2>1, <2>2
  <2>8. \A d \in Callers : calls'[d] = IF d = c THEN new ELSE calls[d]
    BY <2>7 DEF IInv, CallsInv
  <2>9. /\ InProgress' = InProgress /\ \A d \in InProgress \ {c} : calls'[d] = calls[d]
        /\ calls'[c] = new
    BY <1>1, <2>5, <2>8 DEF InProgress
  <2>10. Fresh(c)'
    <3>1. PICK p, k, q : p = old.at /\ k = RouteFor(p).to /\ q = RouteFor(p).path
      OBVIOUS
    <3>2. RouteFor(p)' = RouteFor(p)
      BY <1>1, SameRoutes
    <3>3. StillTrue(new, FilesOf(k), q)
      BY <2>3, <2>5, <2>15, <3>1, OutcomeTrue
    <3>4. FilesOf(k) = FilesIn(k, handle) /\ FilesIn(k, handle)' = FilesIn(k, handle)
      BY <1>1 DEF FilesOf, FilesIn
    <3>5. boxes'[handle].state = "started"
      BY <1>1 DEF Reachable
    <3> QED
      BY <1>1, <2>5, <2>9, <3>1, <3>2, <3>3, <3>4, <3>5
      DEF Fresh, There, StillTrue, FilesIn
  <2>11. LooksOn(c)
    BY <1>1, <2>2, <2>5, <2>9, <2>10 DEF LooksOn
  <2>12. LookInv'
    BY <1>1, <1>2, <2>9, <2>11, LookStays DEF LooksOn, SameCall
  <2>13. Asking' = Asking
    BY <2>2, <2>6, <2>9, AskingStays
  <2>14. Disturbed' = Disturbed
    BY <2>2, <2>5, <2>9 DEF Disturbed
  <2> QED
    BY <1>2, <2>12, <2>13, <2>14 DEF FlatStep, FF!vars
<1> QED
  BY <1>3, <1>4 DEF RunAgain

\* Machines come, go and take each other's place: to the one file system the
\* files on them are others now.
LEMMA MachinesFlat ==
  ASSUME IInv, LookInv, UNCHANGED <<setup, held, calls>>, MachinesLast,
         \A b \in Boxes : boxes'[b].state = "started" => boxes'[b].files = boxes[b].files
  PROVE  LookInv' /\ FlatStep
<1>1. InProgress' = InProgress /\ \A o : RouteFor(o)' = RouteFor(o)
  BY SameRoutes DEF InProgress
<1>2. ASSUME NEW c \in InProgress'
      PROVE  LooksOn(c)
  <2>1. c \in InProgress /\ calls'[c] = calls[c]
    BY <1>1
  <2>2. calls[c].box \in Boxes
    BY <2>1, InProgressNow DEF IInv
  <2>3. \/ RouteFor(At(c)).to = "sandbox" /\ boxes'[calls[c].box].state # "started"
        \/ SameIn(At(c), calls[c].box)
    <3>1. PICK o, b, k, q : o = At(c) /\ b = calls[c].box
                            /\ k = RouteFor(o).to /\ q = RouteFor(o).path
      OBVIOUS
    <3>2. RouteFor(o)' = RouteFor(o)
      BY <1>1
    <3>3. CASE k # "sandbox"
      BY <2>1, <3>1, <3>2, <3>3 DEF SameIn, FilesIn, At
    <3>4. CASE k = "sandbox" /\ boxes'[b].state = "started"
      <4>1. boxes'[b].files = boxes[b].files
        BY <2>2, <3>1, <3>4
      <4> QED
        BY <2>1, <3>1, <3>2, <3>4, <4>1 DEF SameIn, FilesIn, At
    <3>5. CASE k = "sandbox" /\ boxes'[b].state # "started"
      BY <3>1, <3>5
    <3> QED
      BY <3>3, <3>4, <3>5
  <2> QED
    BY <2>1, <2>3 DEF LooksOn, SameCall
<1>3. LookInv'
  BY <1>2, LookStays
<1>4. Asking' = Asking /\ Disturbed' = Disturbed /\ Remote' = Remote
  BY <1>1, AskingStays, RemoteStays DEF Disturbed
<1>5. ASSUME NEW p \in Paths \ Remote
      PROVE  SameSeen(p)
  BY <1>1, <1>5 DEF Remote, SameSeen, IsThere, TextAt, FilesOf
<1>6. FF!Lose(Seen')
  BY <1>4, <1>5, SeenIs, SeenNow DEF FF!Lose, SameSeen
<1>7. \E new \in {Seen'} : FF!Besides(new)
  BY <1>6 DEF FF!Besides
<1> QED
  BY <1>3, <1>4, <1>7 DEF FlatStep, FF!Next

LEMMA ReattachFlat ==
  ASSUME IInv, LookInv, Reattach
  PROVE  LookInv' /\ FlatStep
<1>1. PICK b \in Boxes :
        \/ boxes[b].state = "started" /\ UNCHANGED boxes
        \/ boxes[b].state = "none" /\ boxes' = [boxes EXCEPT ![b].state = "started"]
  BY DEF Reattach
<1>2. UNCHANGED <<setup, held, calls>>
  BY DEF Reattach
<1>3. PICK F, B : F = FilesAt(Places("sandbox"))
                  /\ B = [state : {"none", "started", "gone"}, files : F]
  OBVIOUS
<1>4. boxes \in [Boxes -> B]
  BY <1>3 DEF IInv, BoxesInv
<1>5. \A x \in Boxes : /\ boxes'[x].files = boxes[x].files
                       /\ \/ boxes'[x].state = boxes[x].state
                          \/ boxes[x].state = "none" /\ boxes'[x].state = "started"
  BY <1>1, <1>3, <1>4
<1>6. MachinesLast
  BY <1>5 DEF MachinesLast
<1> QED
  BY <1>2, <1>5, <1>6, MachinesFlat

LEMMA CreateBoxFlat ==
  ASSUME IInv, LookInv, NEW b \in Boxes, CreateBox(b)
  PROVE  LookInv' /\ FlatStep
<1>1. /\ UNCHANGED <<setup, held, calls>> /\ boxes[b].state = "none"
      /\ boxes' = [boxes EXCEPT ![b].state = "started"]
  BY DEF CreateBox
<1>2. PICK F, B : F = FilesAt(Places("sandbox"))
                  /\ B = [state : {"none", "started", "gone"}, files : F]
  OBVIOUS
<1>3. boxes \in [Boxes -> B]
  BY <1>2 DEF IInv, BoxesInv
<1>4. \A x \in Boxes : /\ boxes'[x].files = boxes[x].files
                       /\ \/ boxes'[x].state = boxes[x].state
                          \/ boxes[x].state = "none" /\ boxes'[x].state = "started"
  BY <1>1, <1>2, <1>3
<1>5. MachinesLast
  BY <1>4 DEF MachinesLast
<1> QED
  BY <1>1, <1>4, <1>5, MachinesFlat

LEMMA DestroyBoxFlat ==
  ASSUME IInv, LookInv, NEW b \in Boxes, DestroyBox(b)
  PROVE  LookInv' /\ FlatStep
<1>1. /\ UNCHANGED <<setup, held, calls>> /\ boxes[b].state = "started"
      /\ boxes' = [boxes EXCEPT ![b] = [state |-> "gone", files |-> NoFiles]]
  BY DEF DestroyBox
<1>2. PICK F, B : F = FilesAt(Places("sandbox"))
                  /\ B = [state : {"none", "started", "gone"}, files : F]
  OBVIOUS
<1>3. boxes \in [Boxes -> B]
  BY <1>2 DEF IInv, BoxesInv
<1>4. \A x \in Boxes : IF x = b THEN boxes'[x].state = "gone" ELSE boxes'[x] = boxes[x]
  BY <1>1, <1>3
<1>5. MachinesLast
  BY <1>4 DEF MachinesLast
<1> QED
  BY <1>1, <1>4, <1>5, MachinesFlat

\* What replaces the files at some paths disturbs the calls at these paths.
LEMMA ReplaceFlat ==
  ASSUME IInv, LookInv, UNCHANGED <<setup, handle>>, NEW S \in SUBSET Paths,
         NEW text \in Contents \union {<<w>> : w \in Words},
         calls' = Accompanied(S), MachinesLast,
         \A o \in S : NowIn(o, handle, text),
         \A o \in Paths \ S, b \in Boxes : SameIn(o, b)
  PROVE  LookInv' /\ FlatStep
<1>1. ASSUME NEW c \in Callers
      PROVE  /\ calls'[c] = Nobody <=> calls[c] = Nobody
             /\ calls[c] # Nobody =>
                  /\ SameCall(calls'[c], calls[c])
                  /\ Asked(calls'[c]) = Asked(calls[c])
                  /\ calls'[c].alone <=> calls[c].alone /\ At(c) \notin S
  BY AccompaniedIs DEF IInv
<1>2. InProgress' = InProgress
  BY <1>1 DEF InProgress
<1>3. ASSUME NEW c \in InProgress
      PROVE  /\ c \in Callers /\ calls[c] # Nobody /\ At(c) \in Paths /\ calls[c].box \in Boxes
  BY InProgressNow DEF IInv, InProgress
<1>4. ASSUME NEW c \in InProgress'
      PROVE  LooksOn(c)
  <2>1. c \in InProgress /\ SameCall(calls'[c], calls[c])
        /\ (calls'[c].alone => calls[c].alone /\ At(c) \notin S)
    BY <1>1, <1>2, <1>3
  <2>2. ~calls'[c].alone \/ SameIn(At(c), calls[c].box)
    BY <1>3, <2>1
  <2> QED
    BY <2>1, <2>2 DEF LooksOn, SameCall
<1>5. LookInv'
  BY <1>4, LookStays
<1>6. handle \in Boxes
  BY DEF IInv, BoxesInv
<1>7. FF!Store(S, text)
  <2>1. \A o \in S : IsThere(o)' /\ TextAt(o)' = text
    BY SeenIn
  <2>2. \A o \in Paths \ S : SameSeen(o)
    BY <1>6, SeenIn
  <2> QED
    BY <2>1, <2>2, SeenPut
<1>8. Asking' = Asking
  BY <1>1, <1>2, <1>3, AskingStays
<1>9. Disturbed' = Disturbed \union FF!CallsAt(S)
  <2>1. FF!CallsAt(S) = {c \in InProgress : At(c) \in S}
    BY AskingIs DEF FF!CallsAt
  <2>2. Disturbed' = {c \in InProgress : ~calls'[c].alone}
    BY <1>2 DEF Disturbed
  <2>3. \A c \in InProgress : calls'[c].alone <=> calls[c].alone /\ At(c) \notin S
    BY <1>1, <1>3
  <2> QED
    BY <2>1, <2>2, <2>3 DEF Disturbed
<1>10. FF!Replace(S, text, Seen')
  BY <1>7, <1>9 DEF FF!Replace, FF!Store
<1>11. S \subseteq {p \in DOMAIN Seen' : Seen'[p] = text}
  BY <1>7 DEF FF!Store, FF!Stored
<1>12. \E new \in {Seen'} : FF!Besides(new)
  BY <1>10, <1>11 DEF FF!Besides
<1>13. Remote' = Remote
  BY RemoteStays
<1> QED
  BY <1>5, <1>8, <1>12, <1>13 DEF FlatStep, FF!Next

LEMMA UploadFlat ==
  ASSUME IInv, LookInv, NEW ps \in Seq(Paths), NEW f \in Contents, Upload(ps, f)
  PROVE  LookInv' /\ FlatStep
<1>1. PICK S : HasUploaded(S, f)
  BY UploadPuts
<1>2. MachinesLast
  BY <1>1, MachinesKept DEF HasUploaded
<1> QED
  BY <1>1, <1>2, ReplaceFlat DEF HasUploaded

LEMMA ExecuteFlat ==
  ASSUME IInv, LookInv, NEW p \in Paths, NEW w \in Words, Execute(p, w)
  PROVE  LookInv' /\ FlatStep
<1>1. PICK k, q, file : /\ k = RouteFor(p).to /\ q = RouteFor(p).path /\ file = <<w>>
  OBVIOUS
<1>2. UNCHANGED <<setup, handle>> /\ calls' = Accompanied({p})
  BY DEF Execute
<1>3. k = "sandbox" /\ q = p
  <2>1. p \in Seq(Names) /\ p # NoPath /\ setup \in Setups
    BY PathFacts DEF IInv
  <2>2. RouteFor(p).via = Default /\ setup.default = "sandbox"
    BY DEF Execute, CanExecute
  <2>3. Default.to = setup.default /\ Default.at = <<>>
    BY DEF Default
  <2>4. RouteFor(p).to = setup.default
    BY <2>1, <2>2, <2>3, RouteFacts
  <2>5. p = <<>> \o RouteFor(p).path /\ RouteFor(p).path \in Seq(Names)
    BY <2>1, <2>2, <2>3, RouteFacts
  <2> QED
    BY <1>1, <2>2, <2>4, <2>5, ConcatEmptySeq
<1>4. PutIn(k, handle, q, file) /\ handle \in Boxes /\ k \in Kinds
  BY <1>1, <1>3 DEF Execute, CompositeExecute, PutFile, PutIn, IInv, BoxesInv, Kinds
<1>5. MachinesLast
  BY <1>4, PutInIs, MachinesKept
<1>6. \A o \in Paths \ {p}, b \in Boxes : SameIn(o, b)
  BY <1>1, <1>2, <1>4, OnlyThere
<1>7. NowIn(p, handle, file)
  BY <1>1, <1>2, <1>4, OnlyThere
<1>8. file \in Contents \union {<<x>> : x \in Words}
  BY <1>1
<1> QED
  BY <1>2, <1>5, <1>6, <1>7, <1>8, ReplaceFlat

LEMMA InitFlat ==
  ASSUME Init
  PROVE  LookInv /\ FF!Init
<1>1. InProgress = {}
  BY DEF Init, InProgress
<1>2. LookInv
  BY <1>1 DEF LookInv, Apart
<1>3. DOMAIN Asking = {} /\ Disturbed = {} /\ Remote \subseteq Paths
  BY <1>1 DEF Asking, Disturbed, Remote
<1>4. ASSUME NEW p \in Paths
      PROVE  ~IsThere(p)
  <2>1. PICK k, files : k = RouteFor(p).to /\ files = FilesOf(k)
    OBVIOUS
  <2>2. k \in Kinds /\ DOMAIN NoFiles = {}
    BY <2>1, KindOf DEF Init, NoFiles
  <2>3. files = NoFiles
    BY <2>1, <2>2 DEF Init, FilesOf
  <2> QED
    BY <2>1, <2>2, <2>3 DEF IsThere
<1>5. DOMAIN Seen = {}
  BY <1>4 DEF Seen
<1> QED
  BY <1>2, <1>3, <1>5 DEF FF!Init, FF!Open

LEMMA NextFlat ==
  ASSUME IInv, LookInv, Next
  PROVE  LookInv' /\ FlatStep
<1>1. CASE \E c \in Callers, arg \in Args, f \in Contents : WriteFile(c, arg, f)
  BY <1>1, WriteFileFlat
<1>2. CASE \E c \in Callers, arg \in Args, v, w \in Words, all \in BOOLEAN :
             v # w /\ EditFile(c, arg, v, w, all)
  BY <1>2, EditFileFlat
<1>3. CASE \E c \in Callers : Put(c)
  BY <1>3, PutFlat
<1>4. CASE \E p, q \in Paths, f \in Contents : p # q /\ Upload(<<p, q>>, f)
  <2>1. PICK p, q \in Paths, f \in Contents : Upload(<<p, q>>, f)
    BY <1>4
  <2>2. <<p, q>> \in Seq(Paths)
    OBVIOUS
  <2> QED
    BY <2>1, <2>2, UploadFlat
<1>5. CASE \E p \in Paths, w \in Words : Execute(p, w)
  BY <1>5, ExecuteFlat
<1>6. CASE \E c \in Callers : CommandFails(c) \/ CommandTimesOut(c) \/ RunAgain(c)
  BY <1>6, FailsFlat, TimesOutFlat, RunAgainFlat
<1>7. CASE Reattach
  BY <1>7, ReattachFlat
<1>8. CASE \E b \in Boxes : CreateBox(b) \/ DestroyBox(b)
  BY <1>8, CreateBoxFlat, DestroyBoxFlat
<1> QED
  BY <1>1, <1>2, <1>3, <1>4, <1>5, <1>6, <1>7, <1>8 DEF Next, Update, Sandbox

\* Whatever the routes and backends are, and whichever calls run side by side,
\* fail, time out and are run again: to the tools the files are one file
\* system, in which each write and edit takes effect in one step unless
\* something else touched its file meanwhile.
THEOREM FilesAreFlat == Spec => FlatSpec
<1>1. Init => LookInv /\ FF!Init
  BY InitFlat
<1>2. IInv /\ LookInv /\ [Next]_vars => LookInv' /\ [FF!Next]_FF!vars
  <2>1. CASE UNCHANGED vars
    BY <2>1, NothingHappens DEF vars, storeVars, FlatStep
  <2> QED
    BY <2>1, NextFlat DEF FlatStep
<1> QED
  BY <1>1, <1>2, Invariant, PTL DEF Spec, FlatSpec, FF!Spec
=============================================================================
