---------------------------- MODULE AgentsProofs ----------------------------
(***************************************************************************)
(* For any plans of the models, any number of sub-agents, any bounds: what *)
(* the models are given is well formed, what they no longer see is in the  *)
(* history or was lost to a failure, and the results, records and events   *)
(* of the tool calls agree.                                                *)
(***************************************************************************)
EXTENDS Agents, SequenceTheorems, WellFoundedInduction, TLAPS

(***************************************************************************)
(* Induction over numbers, by the least element of a set                   *)
(***************************************************************************)

LEMMA LeastNat ==
  ASSUME NEW S, S \subseteq Nat, S # {}
  PROVE  \E m \in S : \A k \in S : m <= k
<1>1. PICK m \in S : \A k \in S : ~ (<<k, m>> \in OpToRel(<, Nat))
  BY NatLessThanWellFounded, WFMin
<1>2. \A k \in S : <<k, m>> \in OpToRel(<, Nat) <=> k < m
  BY DEF OpToRel
<1>3. \A k \in S : ~ (k < m)
  BY <1>1, <1>2 DEF OpToRel
<1> QED
  BY <1>3

LEMMA SetInduction ==
  ASSUME NEW n \in Nat, NEW S, 0 \in S, \A i \in 0..n : i < n /\ i \in S => i + 1 \in S
  PROVE  \A i \in 0..n : i \in S
<1>1. SUFFICES ASSUME NEW j \in 0..n, j \notin S PROVE FALSE
  OBVIOUS
<1>2. PICK m \in {i \in 0..n : i \notin S} : \A k \in {i \in 0..n : i \notin S} : m <= k
  <2>1. {i \in 0..n : i \notin S} # {} /\ {i \in 0..n : i \notin S} \subseteq Nat
    BY <1>1
  <2> QED
    BY <2>1, LeastNat
<1>3. m \in 0..n /\ m # 0 /\ m - 1 \in 0..n /\ m - 1 < n
  OBVIOUS
<1>4. m - 1 \in S
  BY <1>2, <1>3
<1> QED
  BY <1>3, <1>4

(***************************************************************************)
(* FlattenSeq                                                              *)
(***************************************************************************)

\* g adds the sequences up, as far as n.
AddsUp(seqs, g, n) ==
  g = [i \in 1..n |-> IF i = 1 THEN seqs[i] ELSE g[i - 1] \o seqs[i]]

LEMMA AddsUpOneMore ==
  ASSUME NEW seqs, NEW n \in Nat, NEW g, AddsUp(seqs, g, n)
  PROVE  \E h : AddsUp(seqs, h, n + 1)
<1>1. PICK h : h = [i \in 1..n + 1 |->
                      IF i = n + 1 THEN (IF i = 1 THEN seqs[i] ELSE g[n] \o seqs[i])
                      ELSE g[i]]
  OBVIOUS
<1>2. \A i \in 1..n : h[i] = g[i]
  BY <1>1
<1>3. \A i \in 1..n + 1 : i # 1 /\ i <= n => h[i] = g[i - 1] \o seqs[i]
  <2>1. SUFFICES ASSUME NEW i \in 1..n + 1, i # 1, i <= n PROVE h[i] = g[i - 1] \o seqs[i]
    OBVIOUS
  <2>2. i \in 1..n
    BY <2>1
  <2>3. g[i] = (IF i = 1 THEN seqs[i] ELSE g[i - 1] \o seqs[i])
    BY <2>2 DEF AddsUp
  <2> QED
    BY <1>2, <2>1, <2>2, <2>3
<1>4. \A i \in 1..n + 1 : h[i] = IF i = 1 THEN seqs[i] ELSE h[i - 1] \o seqs[i]
  <2>1. SUFFICES ASSUME NEW i \in 1..n + 1
                 PROVE h[i] = IF i = 1 THEN seqs[i] ELSE h[i - 1] \o seqs[i]
    OBVIOUS
  <2>2. CASE i = 1 /\ n = 0
    BY <1>1, <2>2
  <2>3. CASE i = 1 /\ n # 0
    <3>1. 1 \in 1..n
      BY <2>3
    <3>2. g[1] = seqs[1]
      BY <3>1 DEF AddsUp
    <3> QED
      BY <1>2, <2>3, <3>1, <3>2
  <2>4. CASE i # 1 /\ i <= n
    <3>1. i - 1 \in 1..n
      BY <2>4
    <3> QED
      BY <1>2, <1>3, <2>4, <3>1
  <2>5. CASE i # 1 /\ i = n + 1
    <3>1. n \in 1..n /\ n \in 1..n + 1 /\ i - 1 = n
      BY <2>5
    <3>2. h[i] = g[n] \o seqs[i]
      BY <1>1, <2>5
    <3> QED
      BY <1>2, <2>5, <3>1, <3>2
  <2> QED
    BY <2>2, <2>3, <2>4, <2>5
<1>5. AddsUp(seqs, h, n + 1)
  <2>1. PICK h2 : h2 = [i \in 1..n + 1 |-> IF i = 1 THEN seqs[i] ELSE h[i - 1] \o seqs[i]]
    OBVIOUS
  <2>2. h = [i \in 1..n + 1 |-> h[i]]
    BY <1>1
  <2>3. h = h2
    BY <1>4, <2>1, <2>2
  <2> QED
    BY <2>1, <2>3 DEF AddsUp
<1> QED
  BY <1>5

LEMMA AddsUpExists ==
  ASSUME NEW seqs, NEW n \in Nat
  PROVE  \E g : AddsUp(seqs, g, n)
<1>1. PICK T : T = {k \in 0..n : \E g : AddsUp(seqs, g, k)}
  OBVIOUS
<1>2. 0 \in T
  <2>1. AddsUp(seqs, [i \in 1..0 |-> i], 0)
    BY DEF AddsUp
  <2> QED
    BY <1>1, <2>1
<1>3. ASSUME NEW k \in 0..n, k < n, k \in T
      PROVE  k + 1 \in T
  <2>1. PICK g : AddsUp(seqs, g, k)
    BY <1>1, <1>3
  <2>2. \E h : AddsUp(seqs, h, k + 1)
    BY <2>1, AddsUpOneMore
  <2>3. k + 1 \in 0..n
    BY <1>3
  <2> QED
    BY <1>1, <2>2, <2>3
<1>4. n \in T
  BY <1>2, <1>3, SetInduction
<1> QED
  BY <1>1, <1>4

\* What FlattenSeq computes, sequence by sequence.
LEMMA Flattening ==
  ASSUME NEW S, NEW seqs \in Seq(Seq(S))
  PROVE  \E f \in [0..Len(seqs) -> Seq(S)] :
           /\ f[0] = <<>>
           /\ \A i \in 1..Len(seqs) : f[i] = f[i - 1] \o seqs[i]
           /\ FlattenSeq(seqs) = f[Len(seqs)]
<1>1. CASE Len(seqs) = 0
  <2>1. FlattenSeq(seqs) = <<>> /\ seqs = <<>>
    BY <1>1 DEF FlattenSeq
  <2>2. PICK f : f = [i \in 0..0 |-> <<>>]
    OBVIOUS
  <2>3. f \in [0..Len(seqs) -> Seq(S)] /\ f[0] = <<>>
    BY <1>1, <2>2
  <2> QED
    BY <1>1, <2>1, <2>3
<1>2. CASE Len(seqs) # 0
  <2>1. PICK g : g = CHOOSE h : AddsUp(seqs, h, Len(seqs))
    OBVIOUS
  <2>2. AddsUp(seqs, g, Len(seqs))
    <3>1. Len(seqs) \in Nat
      OBVIOUS
    <3>2. \E h : AddsUp(seqs, h, Len(seqs))
      BY <3>1, AddsUpExists
    <3> QED
      BY <2>1, <3>2
  <2>3. FlattenSeq(seqs) = g[Len(seqs)]
    BY <1>2, <2>1 DEF FlattenSeq, AddsUp
  <2>5. PICK f : f = [i \in 0..Len(seqs) |-> IF i = 0 THEN <<>> ELSE g[i]]
    OBVIOUS
  <2>6. f[0] = <<>> /\ f[Len(seqs)] = g[Len(seqs)]
    BY <1>2, <2>5
  <2>7. \A i \in 1..Len(seqs) : f[i] = f[i - 1] \o seqs[i]
    <3>1. SUFFICES ASSUME NEW i \in 1..Len(seqs) PROVE f[i] = f[i - 1] \o seqs[i]
      OBVIOUS
    <3>2. seqs[i] \in Seq(S)
      OBVIOUS
    <3>3. <<>> \o seqs[i] = seqs[i]
      BY <3>2
    <3>4. g[i] = (IF i = 1 THEN seqs[i] ELSE g[i - 1] \o seqs[i])
      BY <2>2 DEF AddsUp
    <3>5. f[i] = g[i] /\ (i # 1 => f[i - 1] = g[i - 1]) /\ (i = 1 => f[i - 1] = <<>>)
      BY <2>5
    <3> QED
      BY <3>3, <3>4, <3>5
  <2>8. \A i \in 0..Len(seqs) : f[i] \in Seq(S)
    <3>0. PICK T : T = {i \in 0..Len(seqs) : f[i] \in Seq(S)}
      OBVIOUS
    <3>1. 0 \in T
      <4>1. 0 \in 0..Len(seqs)
        OBVIOUS
      <4>2. <<>> \in Seq(S)
        BY EmptySeq
      <4>3. f[0] \in Seq(S)
        BY <2>6, <4>2
      <4> QED
        BY <3>0, <4>1, <4>3
    <3>2. ASSUME NEW i \in 0..Len(seqs), i < Len(seqs), i \in T
          PROVE  i + 1 \in T
      <4>1. f[i + 1] = f[i] \o seqs[i + 1]
        <5>1. i + 1 \in 1..Len(seqs) /\ (i + 1) - 1 = i
          BY <3>2
        <5> QED
          BY <2>7, <5>1
      <4>2. f[i] \in Seq(S) /\ seqs[i + 1] \in Seq(S)
        BY <3>0, <3>2
      <4>3. f[i + 1] \in Seq(S)
        BY <4>1, <4>2
      <4> QED
        BY <3>0, <3>2, <4>3
    <3>3. \A i \in 0..Len(seqs) : i \in T
      <4>1. Len(seqs) \in Nat
        OBVIOUS
      <4> QED
        BY <3>1, <3>2, <4>1, SetInduction
    <3> QED
      BY <3>0, <3>3
  <2>9. f \in [0..Len(seqs) -> Seq(S)]
    BY <2>5, <2>8
  <2> QED
    BY <2>3, <2>6, <2>7, <2>9
<1> QED
  BY <1>1, <1>2

LEMMA Concat ==
  ASSUME NEW S, NEW s \in Seq(S), NEW t \in Seq(S)
  PROVE  /\ s \o t \in Seq(S)
         /\ Len(s) \in Nat /\ Len(t) \in Nat /\ Len(s \o t) = Len(s) + Len(t)
         /\ \A i \in 1..Len(s) : (s \o t)[i] = s[i]
         /\ \A k \in 1..Len(t) : (s \o t)[Len(s) + k] = t[k]
OBVIOUS

LEMMA FunIsSeq ==
  ASSUME NEW S, NEW n \in Nat, NEW f, f = [k \in 1..n |-> f[k]], \A k \in 1..n : f[k] \in S
  PROVE  f \in Seq(S) /\ Len(f) = n
OBVIOUS

\* A property of what the first i sequences make, for every i.
LEMMA FlattenInduction ==
  ASSUME NEW S, NEW seqs \in Seq(Seq(S)), NEW P,
         <<>> \in P[0],
         \A i \in 1..Len(seqs) : \A q \in Seq(S) : q \in P[i - 1] => q \o seqs[i] \in P[i]
  PROVE  FlattenSeq(seqs) \in P[Len(seqs)] /\ FlattenSeq(seqs) \in Seq(S)
<1>1. PICK f \in [0..Len(seqs) -> Seq(S)] :
        /\ f[0] = <<>>
        /\ \A i \in 1..Len(seqs) : f[i] = f[i - 1] \o seqs[i]
        /\ FlattenSeq(seqs) = f[Len(seqs)]
  BY Flattening
<1>2. PICK T : T = {i \in 0..Len(seqs) : f[i] \in P[i]}
  OBVIOUS
<1>3. Len(seqs) \in Nat
  OBVIOUS
<1>4. 0 \in T
  BY <1>1, <1>2, <1>3
<1>5. ASSUME NEW i \in 0..Len(seqs), i < Len(seqs), i \in T
      PROVE  i + 1 \in T
  <2>1. i + 1 \in 1..Len(seqs) /\ (i + 1) - 1 = i
    BY <1>3, <1>5
  <2>2. f[i] \in P[i] /\ f[i] \in Seq(S)
    BY <1>2, <1>5
  <2>3. f[i + 1] = f[i] \o seqs[i + 1]
    BY <1>1, <2>1
  <2>4. f[i + 1] \in P[i + 1]
    BY <2>1, <2>2, <2>3
  <2> QED
    BY <1>2, <2>1, <2>4
<1>6. Len(seqs) \in T
  <2>1. \A i \in 0..Len(seqs) : i \in T
    BY <1>3, <1>4, <1>5, SetInduction
  <2> QED
    BY <1>3, <2>1
<1> QED
  BY <1>1, <1>2, <1>3, <1>6

\* Nothing of nothing.
LEMMA FlattenEmpty ==
  ASSUME NEW seqs \in Seq(Seq({})), \A i \in DOMAIN seqs : seqs[i] = <<>>
  PROVE  FlattenSeq(seqs) = <<>>
<1>1. PICK P : P = [i \in 0..Len(seqs) |-> {<<>>}]
  OBVIOUS
<1>2. <<>> \in P[0]
  BY <1>1
<1>3. \A i \in 1..Len(seqs) : \A q \in Seq({}) : q \in P[i - 1] => q \o seqs[i] \in P[i]
  <2>1. SUFFICES ASSUME NEW i \in 1..Len(seqs), NEW q \in Seq({}), q \in P[i - 1]
                 PROVE  q \o seqs[i] \in P[i]
    OBVIOUS
  <2>2. q = <<>> /\ seqs[i] = <<>>
    BY <1>1, <2>1
  <2>3. <<>> \o <<>> = <<>>
    OBVIOUS
  <2> QED
    BY <1>1, <2>2, <2>3
<1>4. FlattenSeq(seqs) \in P[Len(seqs)]
  BY <1>2, <1>3, FlattenInduction
<1> QED
  BY <1>1, <1>4

\* One element of each.
LEMMA FlattenSingles ==
  ASSUME NEW S, NEW seqs \in Seq(Seq(S)), NEW q \in Seq(S), Len(seqs) = Len(q),
         \A i \in 1..Len(q) : seqs[i] = <<q[i]>>
  PROVE  FlattenSeq(seqs) = q
<1>1. PICK P : P = [i \in 0..Len(seqs) |-> {SubSeq(q, 1, i)}]
  OBVIOUS
<1>2. Len(q) \in Nat
  OBVIOUS
<1>3. <<>> \in P[0]
  <2>1. SubSeq(q, 1, 0) = <<>>
    BY SubSeqEmpty
  <2> QED
    BY <1>1, <1>2, <2>1
<1>4. \A i \in 1..Len(seqs) : \A p \in Seq(S) : p \in P[i - 1] => p \o seqs[i] \in P[i]
  <2>1. SUFFICES ASSUME NEW i \in 1..Len(seqs), NEW p \in Seq(S), p \in P[i - 1]
                 PROVE  p \o seqs[i] \in P[i]
    OBVIOUS
  <2>2. p = SubSeq(q, 1, i - 1)
    BY <1>1, <2>1
  <2>3. 1 \in 1..Len(q) /\ i \in 1..Len(q)
    BY <2>1
  <2>4. SubSeq(q, 1, i) = SubSeq(q, 1, i - 1) \o <<q[i]>>
    BY <2>3, SubSeqRecursiveSecond
  <2> QED
    <3>1. P[i] = {SubSeq(q, 1, i)}
      BY <1>1, <2>1
    <3> QED
      BY <2>2, <2>4, <3>1
<1>5. FlattenSeq(seqs) \in P[Len(seqs)]
  BY <1>3, <1>4, FlattenInduction
<1>6. SubSeq(q, 1, Len(q)) = q
  BY SubSeqFull
<1>7. P[Len(seqs)] = {SubSeq(q, 1, Len(seqs))}
  <2>1. Len(seqs) \in 0..Len(seqs)
    BY <1>2
  <2> QED
    BY <1>1, <2>1
<1> QED
  BY <1>5, <1>6, <1>7

\* r has the one element of each that has one, and none twice.
Picks(r, seqs) ==
  /\ \A x \in 1..Len(r) : \E k \in 1..Len(seqs) : seqs[k] = <<r[x]>>
  /\ \A k \in 1..Len(seqs) : seqs[k] = <<>> \/ \E x \in 1..Len(r) : seqs[k] = <<r[x]>>
  /\ \A x, y \in 1..Len(r) : r[x] = r[y] => x = y

\* At most one element of each, no two alike.
LEMMA FlattenOptional ==
  ASSUME NEW S, NEW seqs \in Seq(Seq(S)),
         \A k \in 1..Len(seqs) : seqs[k] = <<>> \/ \E x \in S : seqs[k] = <<x>>,
         \A j, k \in 1..Len(seqs) : seqs[j] = seqs[k] /\ seqs[j] # <<>> => j = k
  PROVE  FlattenSeq(seqs) \in Seq(S) /\ Picks(FlattenSeq(seqs), seqs)
<1>1. PICK n \in Nat : n = Len(seqs)
  OBVIOUS
<1>2. PICK P : P = [i \in 0..n |->
        {q \in Seq(S) :
           /\ \A x \in 1..Len(q) : \E k \in 1..i : seqs[k] = <<q[x]>>
           /\ \A k \in 1..i : seqs[k] = <<>> \/ \E x \in 1..Len(q) : seqs[k] = <<q[x]>>
           /\ \A x, y \in 1..Len(q) : q[x] = q[y] => x = y}]
  OBVIOUS
<1>3. <<>> \in P[0]
  <2>1. <<>> \in Seq(S) /\ 1..Len(<<>>) = {} /\ 1..0 = {}
    BY EmptySeq
  <2> QED
    BY <1>1, <1>2, <2>1
<1>4. ASSUME NEW i \in 1..Len(seqs), NEW q \in Seq(S), q \in P[i - 1]
      PROVE  q \o seqs[i] \in P[i]
  <2>1. i - 1 \in 0..n /\ i \in 0..n /\ i \in 1..n /\ 1..(i - 1) \subseteq 1..i /\ i \notin 1..(i - 1)
        /\ 1..i = 1..(i - 1) \union {i}
    BY <1>1
  <2>2. /\ \A x \in 1..Len(q) : \E k \in 1..(i - 1) : seqs[k] = <<q[x]>>
        /\ \A k \in 1..(i - 1) : seqs[k] = <<>> \/ \E x \in 1..Len(q) : seqs[k] = <<q[x]>>
        /\ \A x, y \in 1..Len(q) : q[x] = q[y] => x = y
    BY <1>2, <1>4, <2>1
  <2>3. SUFFICES ASSUME NEW t, t = q \o seqs[i]
                 PROVE  /\ t \in Seq(S)
                        /\ \A x \in 1..Len(t) : \E k \in 1..i : seqs[k] = <<t[x]>>
                        /\ \A k \in 1..i : seqs[k] = <<>>
                                           \/ \E x \in 1..Len(t) : seqs[k] = <<t[x]>>
                        /\ \A x, y \in 1..Len(t) : t[x] = t[y] => x = y
    BY <1>2, <2>1
  <2>4. CASE seqs[i] = <<>>
    <3>1. t = q
      BY <1>4, <2>3, <2>4, ConcatEmptySeq
    <3> QED
      BY <1>4, <2>1, <2>2, <2>4, <3>1
  <2>5. CASE seqs[i] # <<>>
    <3>1. PICK e \in S : seqs[i] = <<e>>
      BY <2>5
    <3>2. PICK m \in Nat : m = Len(q)
      OBVIOUS
    <3>3. /\ t \in Seq(S) /\ Len(t) = m + 1 /\ t[m + 1] = e
          /\ \A x \in 1..m : t[x] = q[x]
      <4>1. t = Append(q, e)
        BY <2>3, <3>1
      <4> QED
        BY <3>1, <3>2, <4>1
    <3>4. \A x \in 1..m : q[x] # e
      <4>1. SUFFICES ASSUME NEW x \in 1..m, q[x] = e PROVE FALSE
        OBVIOUS
      <4>2. PICK k \in 1..(i - 1) : seqs[k] = <<q[x]>>
        BY <2>2, <3>2
      <4>3. seqs[k] = seqs[i] /\ k \in 1..Len(seqs)
        BY <1>1, <2>1, <3>1, <4>1, <4>2
      <4>4. k = i
        BY <2>5, <4>3
      <4> QED
        BY <2>1, <4>4
    <3>5. ASSUME NEW x \in 1..Len(t) PROVE \E k \in 1..i : seqs[k] = <<t[x]>>
      <4>1. CASE x = m + 1
        BY <2>1, <3>1, <3>3, <4>1
      <4>2. CASE x \in 1..m
        BY <2>1, <2>2, <3>2, <3>3, <4>2
      <4> QED
        BY <3>2, <3>3, <3>5, <4>1, <4>2
    <3>6. ASSUME NEW k \in 1..i
          PROVE  seqs[k] = <<>> \/ \E x \in 1..Len(t) : seqs[k] = <<t[x]>>
      <4>1. CASE k = i
        <5>1. m + 1 \in 1..Len(t)
          BY <3>2, <3>3
        <5> QED
          BY <3>1, <3>3, <4>1, <5>1
      <4>2. CASE k \in 1..(i - 1)
        <5>1. SUFFICES ASSUME seqs[k] # <<>> PROVE \E x \in 1..Len(t) : seqs[k] = <<t[x]>>
          OBVIOUS
        <5>2. PICK x \in 1..m : seqs[k] = <<q[x]>>
          BY <2>2, <3>2, <4>2, <5>1
        <5>3. x \in 1..Len(t) /\ t[x] = q[x]
          BY <3>2, <3>3
        <5> QED
          BY <5>2, <5>3
      <4> QED
        BY <2>1, <3>6, <4>1, <4>2
    <3>7. ASSUME NEW x \in 1..Len(t), NEW y \in 1..Len(t), t[x] = t[y] PROVE x = y
      <4>1. CASE x \in 1..m /\ y \in 1..m
        BY <2>2, <3>2, <3>3, <3>7, <4>1
      <4>2. CASE x = m + 1 /\ y \in 1..m
        BY <3>3, <3>4, <3>7, <4>2
      <4>3. CASE x \in 1..m /\ y = m + 1
        BY <3>3, <3>4, <3>7, <4>3
      <4>4. CASE x = m + 1 /\ y = m + 1
        BY <4>4
      <4> QED
        BY <3>2, <3>3, <3>7, <4>1, <4>2, <4>3, <4>4
    <3> QED
      BY <3>3, <3>5, <3>6, <3>7
  <2> QED
    BY <2>4, <2>5
<1>5. PICK r : r = FlattenSeq(seqs) /\ r \in P[Len(seqs)]
  BY <1>3, <1>4, FlattenInduction
<1>6. n \in 0..n
  BY <1>1
<1>7. r \in Seq(S) /\ Picks(r, seqs)
  BY <1>1, <1>2, <1>5, <1>6 DEF Picks
<1> QED
  BY <1>5, <1>7

-----------------------------------------------------------------------------
(***************************************************************************)
(* Conversations: every message newer than those before it, every answer   *)
(* in its place behind its call, and only the last call may be open.       *)
(***************************************************************************)

LEMMA MsgFields ==
  ASSUME NEW m \in Msg
  PROVE  /\ m.type \in Types /\ m.how \in Hows
         /\ m.id \in Nat \X Nat /\ m.id[1] \in Nat /\ m.id[2] \in Nat
         /\ m.calls \in Seq(STRING) /\ Len(m.calls) \in Nat
BY DEF Msg

Answered(ms, i) ==
  /\ i + Len(ms[i].calls) <= Len(ms)
  /\ \A k \in 1..Len(ms[i].calls) :
       ms[i + k].type = "tool" /\ ms[i + k].id = <<ms[i].id[1], k>>

\* The message ms[i] answers the call of the one that many places before it.
Answers(ms, i) ==
  /\ ms[i].id[2] \in 1..(i - 1)
  /\ ms[i - ms[i].id[2]].type = "ai"
  /\ ms[i - ms[i].id[2]].id[1] = ms[i].id[1]
  /\ ms[i].id[2] <= Len(ms[i - ms[i].id[2]].calls)

MessageOK(ms, i) ==
  /\ ms[i].type \in {"human", "ai", "tool"}
  /\ ms[i].type # "ai" => ms[i].calls = <<>>
  /\ ms[i].type # "tool" => ms[i].id[2] = 0
  /\ ms[i].type = "ai" /\ i < Len(ms) => Answered(ms, i)
  /\ ms[i].type = "tool" => Answers(ms, i)

NewerThanAll(ms, j) == \A i \in 1..(j - 1) : ms[i].id[1] < ms[j].id[1]

Conversation(ms) ==
  \A i \in 1..Len(ms) :
    MessageOK(ms, i) /\ (ms[i].type # "tool" => NewerThanAll(ms, i))

Closed(ms) == \A i \in 1..Len(ms) : ms[i].type = "ai" => Answered(ms, i)

LEMMA IdsDiffer ==
  ASSUME NEW ms \in Seq(Msg), Conversation(ms),
         NEW i \in 1..Len(ms), NEW j \in 1..Len(ms), i < j
  PROVE  ms[i].id # ms[j].id
<1>1. ms[i].id \in Nat \X Nat /\ ms[j].id \in Nat \X Nat
  <2>1. ms[i] \in Msg /\ ms[j] \in Msg
    OBVIOUS
  <2> QED
    BY <2>1, MsgFields
<1>2. MessageOK(ms, i) /\ MessageOK(ms, j)
  BY DEF Conversation
<1>3. CASE ms[j].type # "tool"
  BY <1>1, <1>3 DEF Conversation, NewerThanAll
<1>4. CASE ms[j].type = "tool" /\ ms[i].type # "tool"
  BY <1>1, <1>2, <1>4 DEF MessageOK, Answers
<1>5. CASE ms[j].type = "tool" /\ ms[i].type = "tool"
  <2>1. SUFFICES ASSUME ms[i].id = ms[j].id PROVE FALSE
    OBVIOUS
  <2>2. PICK k : k = ms[i].id[2]
    OBVIOUS
  <2>3. k \in 1..(i - 1) /\ ms[i - k].type = "ai" /\ ms[i - k].id[1] = ms[i].id[1]
    BY <1>2, <1>5, <2>2 DEF MessageOK, Answers
  <2>4. k \in 1..(j - 1) /\ ms[j - k].type = "ai" /\ ms[j - k].id[1] = ms[j].id[1]
    BY <1>2, <1>5, <2>1, <2>2 DEF MessageOK, Answers
  <2>5. j - k \in 1..Len(ms) /\ i - k \in 1..(j - k - 1)
    BY <2>3, <2>4
  <2>6. NewerThanAll(ms, j - k)
    BY <2>4, <2>5 DEF Conversation
  <2>7. ms[i - k].id[1] < ms[j - k].id[1]
    BY <2>5, <2>6 DEF NewerThanAll
  <2>8. ms[i].id[1] \in Nat
    BY <1>1
  <2> QED
    BY <2>1, <2>3, <2>4, <2>7, <2>8
<1> QED
  BY <1>3, <1>4, <1>5

\* A message of a user or of a model behind a conversation with no open call.
LEMMA NextMessage ==
  ASSUME NEW ms \in Seq(Msg), Conversation(ms), Closed(ms),
         NEW m \in Msg, m.type \in {"human", "ai"}, m.id[2] = 0,
         m.type = "human" => m.calls = <<>>,
         \A i \in 1..Len(ms) : ms[i].id[1] < m.id[1]
  PROVE  Conversation(Append(ms, m)) /\ Append(ms, m) \in Seq(Msg)
<1>1. PICK r : r = Append(ms, m)
  OBVIOUS
<1>2. r \in Seq(Msg) /\ Len(r) = Len(ms) + 1 /\ r[Len(ms) + 1] = m
  BY <1>1
<1>3. \A i \in 1..Len(ms) : r[i] = ms[i]
  BY <1>1
<1>4. ASSUME NEW i \in 1..Len(r)
      PROVE MessageOK(r, i) /\ (r[i].type # "tool" => NewerThanAll(r, i))
  <2>1. CASE i = Len(ms) + 1
    <3>1. r[i] = m /\ \A j \in 1..(i - 1) : r[j] = ms[j] /\ j \in 1..Len(ms)
      BY <1>2, <1>3, <2>1
    <3>2. NewerThanAll(r, i)
      BY <3>1 DEF NewerThanAll
    <3> QED
      BY <1>2, <2>1, <3>1, <3>2 DEF MessageOK
  <2>2. CASE i \in 1..Len(ms)
    <3>1. r[i] = ms[i] /\ MessageOK(ms, i) /\ (ms[i].type # "tool" => NewerThanAll(ms, i))
      BY <1>3, <2>2 DEF Conversation
    <3>2. ms[i].type # "tool" => NewerThanAll(r, i)
      BY <1>3, <2>2, <3>1 DEF NewerThanAll
    <3>3. ms[i].type = "ai" => Answered(r, i)
      <4>1. SUFFICES ASSUME ms[i].type = "ai" PROVE Answered(r, i)
        OBVIOUS
      <4>2. Answered(ms, i)
        BY <2>2, <4>1 DEF Closed
      <4>3. Len(ms[i].calls) \in Nat
        BY <2>2, MsgFields
      <4>4. \A k \in 1..Len(ms[i].calls) : i + k \in 1..Len(ms) /\ r[i + k] = ms[i + k]
        BY <1>3, <2>2, <4>2, <4>3 DEF Answered
      <4> QED
        BY <1>2, <3>1, <4>2, <4>4 DEF Answered
    <3>4. ms[i].type = "tool" => Answers(r, i)
      <4>1. SUFFICES ASSUME ms[i].type = "tool" PROVE Answers(r, i)
        OBVIOUS
      <4>2. Answers(ms, i)
        BY <3>1, <4>1 DEF MessageOK
      <4>3. i - ms[i].id[2] \in 1..Len(ms)
        BY <2>2, <4>2 DEF Answers
      <4>4. r[i - ms[i].id[2]] = ms[i - ms[i].id[2]]
        BY <1>3, <4>3
      <4> QED
        BY <3>1, <4>2, <4>4 DEF Answers
    <3> QED
      BY <3>1, <3>2, <3>3, <3>4 DEF MessageOK
  <2> QED
    BY <1>2, <2>1, <2>2
<1> QED
  BY <1>1, <1>2, <1>4 DEF Conversation

\* The answers to the calls of the last message; none if it has no calls.
LEMMA NextAnswers ==
  ASSUME NEW ms \in Seq(Msg), Conversation(ms), ms # <<>>,
         NEW ans \in Seq(Msg), Len(ans) = Len(ms[Len(ms)].calls),
         \A k \in 1..Len(ans) :
           ans[k].type = "tool" /\ ans[k].id = <<ms[Len(ms)].id[1], k>> /\ ans[k].calls = <<>>
  PROVE  Conversation(ms \o ans) /\ Closed(ms \o ans) /\ ms \o ans \in Seq(Msg)
<1>1. PICK r : r = ms \o ans
  OBVIOUS
<1>2. PICK n \in Nat : n = Len(ms)
  OBVIOUS
<1>3. n \in 1..Len(ms)
  BY <1>2
<1>a. ms \o ans \in Seq(Msg) /\ Len(ans) \in Nat
  BY Concat
<1>b. Len(ms \o ans) = Len(ms) + Len(ans)
  BY Concat
<1>c. \A i \in 1..Len(ms) : (ms \o ans)[i] = ms[i]
  BY Concat
<1>d. \A k \in 1..Len(ans) : (ms \o ans)[Len(ms) + k] = ans[k]
  BY Concat
<1>4. r \in Seq(Msg) /\ Len(r) = n + Len(ans) /\ Len(ans) \in Nat
  BY <1>1, <1>2, <1>a, <1>b
<1>5. \A i \in 1..n : r[i] = ms[i]
  BY <1>1, <1>2, <1>c
<1>6. \A k \in 1..Len(ans) : r[n + k] = ans[k]
  BY <1>1, <1>2, <1>d
<1>7. Answered(r, n)
  <2>1. r[n] = ms[n] /\ Len(ans) = Len(r[n].calls)
    BY <1>2, <1>3, <1>5
  <2>2. \A k \in 1..Len(ans) : r[n + k].type = "tool" /\ r[n + k].id = <<r[n].id[1], k>>
    BY <1>2, <1>6, <2>1
  <2>3. n + Len(r[n].calls) <= Len(r)
    BY <1>4, <2>1
  <2>4. \A k \in 1..Len(r[n].calls) : r[n + k].type = "tool" /\ r[n + k].id = <<r[n].id[1], k>>
    BY <2>1, <2>2
  <2> QED
    BY ONLY <2>3, <2>4 DEF Answered
<1>8. Len(ans) > 0 => ms[n].type = "ai"
  BY <1>2, <1>3, EmptySeq DEF Conversation, MessageOK
<1>9. ASSUME NEW i \in 1..Len(r)
      PROVE  /\ MessageOK(r, i) /\ (r[i].type # "tool" => NewerThanAll(r, i))
             /\ r[i].type = "ai" => Answered(r, i)
  <2>1. CASE i \in 1..n
    <3>0. i \in 1..Len(ms)
      BY <1>2, <2>1
    <3>1. r[i] = ms[i] /\ MessageOK(ms, i) /\ (ms[i].type # "tool" => NewerThanAll(ms, i))
      BY <1>5, <2>1, <3>0 DEF Conversation
    <3>2. ms[i].type # "tool" => NewerThanAll(r, i)
      BY <1>5, <2>1, <3>1 DEF NewerThanAll
    <3>3. ms[i].type = "ai" => Answered(r, i)
      <4>1. SUFFICES ASSUME ms[i].type = "ai", i # n PROVE Answered(r, i)
        BY <1>7
      <4>2. Answered(ms, i)
        BY <1>2, <2>1, <3>1, <4>1 DEF MessageOK
      <4>3. Len(ms[i].calls) \in Nat
        BY <3>0, MsgFields
      <4>4. \A k \in 1..Len(ms[i].calls) : i + k \in 1..n /\ r[i + k] = ms[i + k]
        BY <1>2, <1>5, <2>1, <4>2, <4>3 DEF Answered
      <4> QED
        BY <1>2, <1>4, <3>1, <4>2, <4>4 DEF Answered
    <3>4. ms[i].type = "tool" => Answers(r, i)
      <4>1. SUFFICES ASSUME ms[i].type = "tool" PROVE Answers(r, i)
        OBVIOUS
      <4>2. Answers(ms, i)
        BY <3>1, <4>1 DEF MessageOK
      <4>3. i - ms[i].id[2] \in 1..n
        BY <2>1, <4>2 DEF Answers
      <4>4. r[i - ms[i].id[2]] = ms[i - ms[i].id[2]]
        BY <1>5, <4>3
      <4> QED
        BY <3>1, <4>2, <4>4 DEF Answers
    <3> QED
      BY <3>1, <3>2, <3>3, <3>4 DEF MessageOK
  <2>2. CASE i \in n + 1..Len(r)
    <3>1. PICK k \in 1..Len(ans) : i = n + k
      <4>1. i - n \in 1..Len(ans) /\ i = n + (i - n)
        BY <1>4, <2>2
      <4> QED
        BY <4>1
    <3>2. r[i] = ans[k] /\ r[i].type = "tool" /\ r[i].calls = <<>>
      BY <1>6, <3>1
    <3>3. r[i].id = <<ms[n].id[1], k>>
      BY <1>2, <1>6, <3>1
    <3>4. r[i].id[2] = k /\ r[i].id[1] = ms[n].id[1] /\ i - k = n
      BY <3>1, <3>3
    <3>5. r[n] = ms[n] /\ ms[n].type = "ai"
      BY <1>3, <1>5, <1>8, <1>2, <3>1
    <3>6. Answers(r, i)
      BY <1>2, <1>3, <3>1, <3>4, <3>5 DEF Answers
    <3> QED
      BY <3>2, <3>6 DEF MessageOK
  <2> QED
    BY <1>4, <2>1, <2>2
<1> QED
  BY <1>1, <1>4, <1>9 DEF Conversation, Closed

\* The answers PatchToolCallsMiddleware adds to calls of the last message.
Cancelled(ms) ==
  IF ms = <<>> THEN <<>>
  ELSE [k \in 1..Len(ms[Len(ms)].calls) |-> Tool(<<ms[Len(ms)].id[1], k>>, "cancelled")]

LEMMA ToolIsMsg ==
  ASSUME NEW c \in Nat \X Nat, NEW how \in Hows
  PROVE  /\ Tool(c, how) \in Msg
         /\ Tool(c, how).type = "tool" /\ Tool(c, how).id = c
         /\ Tool(c, how).calls = <<>> /\ Tool(c, how).how = how
<1>1. <<>> \in Seq(STRING)
  BY EmptySeq
<1>2. "tool" \in Types
  BY DEF Types
<1> QED
  BY <1>1, <1>2 DEF Tool, Message, Msg

\* No answer is added to a message whose calls have theirs.
LEMMA PatchNothing ==
  ASSUME NEW ms \in Seq(Msg), NEW i \in 1..Len(ms),
         ms[i].calls = <<>> \/ Answered(ms, i)
  PROVE  Patch(ms, i) = <<>>
<1>1. PICK answered : answered = {ms[j].id : j \in {j \in DOMAIN ms : j >= i /\ ms[j].type = "tool"}}
  OBVIOUS
<1>2. PICK K \in Nat : K = Len(ms[i].calls) /\ DOMAIN ms[i].calls = 1..K
  <2>1. ms[i].calls \in Seq(STRING)
    BY MsgFields
  <2>2. Len(ms[i].calls) \in Nat /\ DOMAIN ms[i].calls = 1..Len(ms[i].calls)
    BY <2>1
  <2> QED
    BY <2>2
<1>3. PICK calls : calls = [k \in 1..K |-> <<ms[i].id[1], k>>]
  OBVIOUS
<1>4. PICK seqs : seqs = [k \in 1..K |-> IF calls[k] \in answered THEN <<>>
                                         ELSE <<Tool(calls[k], "cancelled")>>]
  OBVIOUS
<1>5. Patch(ms, i) = FlattenSeq(seqs)
  <2>1. DOMAIN calls = 1..K
    BY <1>3
  <2> QED
    BY <1>1, <1>2, <1>3, <1>4, <2>1 DEF Patch
<1>6. \A k \in 1..K : calls[k] \in answered
  <2>1. SUFFICES ASSUME NEW k \in 1..K PROVE calls[k] \in answered
    OBVIOUS
  <2>2. Answered(ms, i)
    BY <1>2, <2>1, EmptySeq
  <2>3. i + k \in DOMAIN ms /\ i + k >= i
    BY <1>2, <2>1, <2>2 DEF Answered
  <2>4. ms[i + k].type = "tool" /\ ms[i + k].id = calls[k]
    BY <1>2, <1>3, <2>1, <2>2 DEF Answered
  <2> QED
    BY <1>1, <2>3, <2>4
<1>7. seqs = [k \in 1..K |-> <<>>]
  BY <1>4, <1>6
<1>8. seqs \in Seq(Seq({})) /\ \A k \in DOMAIN seqs : seqs[k] = <<>>
  <2>1. <<>> \in Seq({})
    BY EmptySeq
  <2> QED
    BY <1>7, <2>1
<1> QED
  BY <1>5, <1>8, FlattenEmpty

\* Every call of a message that no answer follows is cancelled.
LEMMA PatchOpen ==
  ASSUME NEW ms \in Seq(Msg), NEW i \in 1..Len(ms),
         \A j \in 1..Len(ms) : j >= i => ms[j].type # "tool"
  PROVE  Patch(ms, i) = [k \in 1..Len(ms[i].calls) |-> Tool(<<ms[i].id[1], k>>, "cancelled")]
<1>1. PICK answered : answered = {ms[j].id : j \in {j \in DOMAIN ms : j >= i /\ ms[j].type = "tool"}}
  OBVIOUS
<1>2. PICK K \in Nat : K = Len(ms[i].calls) /\ DOMAIN ms[i].calls = 1..K
  <2>1. ms[i].calls \in Seq(STRING)
    BY MsgFields
  <2>2. Len(ms[i].calls) \in Nat /\ DOMAIN ms[i].calls = 1..Len(ms[i].calls)
    BY <2>1
  <2> QED
    BY <2>2
<1>3. PICK calls : calls = [k \in 1..K |-> <<ms[i].id[1], k>>]
  OBVIOUS
<1>4. PICK seqs : seqs = [k \in 1..K |-> IF calls[k] \in answered THEN <<>>
                                         ELSE <<Tool(calls[k], "cancelled")>>]
  OBVIOUS
<1>5. Patch(ms, i) = FlattenSeq(seqs)
  <2>1. DOMAIN calls = 1..K
    BY <1>3
  <2> QED
    BY <1>1, <1>2, <1>3, <1>4, <2>1 DEF Patch
<1>6. answered = {}
  BY <1>1
<1>7. PICK q : q = [k \in 1..K |-> Tool(<<ms[i].id[1], k>>, "cancelled")]
  OBVIOUS
<1>8. \A k \in 1..K : seqs[k] = <<q[k]>> /\ q[k] \in Msg
  <2>1. SUFFICES ASSUME NEW k \in 1..K PROVE seqs[k] = <<q[k]>> /\ q[k] \in Msg
    OBVIOUS
  <2>2. <<ms[i].id[1], k>> \in Nat \X Nat
    BY MsgFields
  <2>3. "cancelled" \in Hows
    BY DEF Hows
  <2>4. q[k] = Tool(<<ms[i].id[1], k>>, "cancelled")
    BY <1>7
  <2>5. q[k] \in Msg
    BY <2>2, <2>3, <2>4, ToolIsMsg
  <2>6. seqs[k] = <<Tool(<<ms[i].id[1], k>>, "cancelled")>>
    BY <1>3, <1>4, <1>6
  <2> QED
    BY <2>4, <2>5, <2>6
<1>9. q \in Seq(Msg) /\ Len(q) = K
  <2>1. q = [k \in 1..K |-> q[k]]
    BY <1>7
  <2> QED
    BY <1>8, <2>1, FunIsSeq
<1>10. seqs \in Seq(Seq(Msg)) /\ Len(seqs) = K
  <2>1. \A k \in 1..K : <<q[k]>> \in Seq(Msg)
    BY <1>8
  <2>2. \A k \in 1..K : seqs[k] \in Seq(Msg)
    BY <1>8, <2>1
  <2> QED
    <3>1. seqs = [k \in 1..K |-> seqs[k]]
      BY <1>4
    <3> QED
      BY <2>2, <3>1, FunIsSeq
<1>11. FlattenSeq(seqs) = q
  BY <1>8, <1>9, <1>10, FlattenSingles
<1> QED
  BY <1>2, <1>5, <1>7, <1>11

\* A message of the user first closes the call of an interrupted run.
LEMMA PatchedMessages ==
  ASSUME NEW ms \in Seq(Msg), Conversation(ms),
         NEW h \in Msg, h.type = "human", h.calls = <<>>
  PROVE  /\ Patched(Append(ms, h)) = Append(ms \o Cancelled(ms), h)
         /\ Cancelled(ms) \in Seq(Msg)
<1>1. PICK full : full = Append(ms, h)
  OBVIOUS
<1>2. PICK n \in Nat : n = Len(ms)
  OBVIOUS
<1>3. full \in Seq(Msg) /\ Len(full) = n + 1 /\ full[n + 1] = h
  BY <1>1, <1>2
<1>4. \A i \in 1..n : full[i] = ms[i]
  BY <1>1, <1>2
<1>5. PICK C : C = Cancelled(ms)
  OBVIOUS
<1>6. PICK seqs : seqs = [i \in 1..n + 1 |-> <<full[i]>> \o Patch(full, i)]
  OBVIOUS
<1>7. Patched(full) = FlattenSeq(seqs)
  <2>1. DOMAIN full = 1..n + 1
    BY <1>3
  <2> QED
    BY <1>6, <2>1 DEF Patched
<1>8. ASSUME NEW i \in 1..n + 1, i # n
      PROVE  seqs[i] = <<full[i]>> /\ <<full[i]>> \in Seq(Msg)
  <2>1. full[i] \in Msg /\ i \in 1..Len(full)
    BY <1>3, <1>8
  <2>2. full[i].calls = <<>> \/ Answered(full, i)
    <3>1. CASE i = n + 1
      BY <1>3, <3>1
    <3>2. CASE i \in 1..n - 1 /\ ms[i].type # "ai"
      BY <1>2, <1>4, <3>2 DEF Conversation, MessageOK
    <3>3. CASE i \in 1..n - 1 /\ ms[i].type = "ai"
      <4>1. Answered(ms, i) /\ full[i] = ms[i]
        BY <1>2, <1>4, <3>3 DEF Conversation, MessageOK
      <4>2. Len(ms[i].calls) \in Nat
        BY <2>1, <4>1, MsgFields
      <4>3. \A k \in 1..Len(ms[i].calls) : full[i + k] = ms[i + k]
        BY <1>2, <1>4, <3>3, <4>1, <4>2 DEF Answered
      <4> QED
        BY <1>2, <1>3, <4>1, <4>2, <4>3 DEF Answered
    <3> QED
      BY <1>8, <3>1, <3>2, <3>3
  <2>3. Patch(full, i) = <<>>
    BY <1>3, <2>1, <2>2, PatchNothing
  <2>4. <<full[i]>> \in Seq(Msg)
    BY <2>1
  <2>5. <<full[i]>> \o <<>> = <<full[i]>>
    BY <2>4, ConcatEmptySeq
  <2> QED
    BY <1>6, <1>8, <2>3, <2>4, <2>5
<1>9. /\ n = 0 => C = <<>>
      /\ n > 0 => C = Patch(full, n)
      /\ C \in Seq(Msg)
  <2>1. CASE n = 0
    <3>1. ms = <<>>
      BY <1>2, <2>1, EmptySeq
    <3> QED
      BY <1>5, <2>1, <3>1, EmptySeq DEF Cancelled
  <2>2. CASE n > 0
    <3>1. n \in 1..Len(full) /\ full[n] = ms[n] /\ ms # <<>> /\ ms[n] \in Msg
      BY <1>2, <1>3, <1>4, <2>2, EmptySeq
    <3>2. C = [k \in 1..Len(full[n].calls) |-> Tool(<<full[n].id[1], k>>, "cancelled")]
      BY <1>2, <1>5, <3>1 DEF Cancelled
    <3>3. C = Patch(full, n)
      <4>1. CASE full[n].type = "tool"
        <5>1. full[n].calls = <<>>
          BY <1>2, <2>2, <3>1, <4>1 DEF Conversation, MessageOK
        <5>2. Patch(full, n) = <<>>
          BY <1>3, <3>1, <5>1, PatchNothing
        <5>3. C = [k \in 1..0 |-> Tool(<<full[n].id[1], k>>, "cancelled")]
          BY <3>2, <5>1, EmptySeq
        <5>4. C = <<>>
          BY <5>3
        <5> QED
          BY <5>2, <5>4
      <4>2. CASE full[n].type # "tool"
        <5>1. \A j \in 1..Len(full) : j >= n => full[j].type # "tool"
          BY <1>3, <4>2
        <5> QED
          BY <1>3, <3>1, <3>2, <5>1, PatchOpen
      <4> QED
        BY <4>1, <4>2
    <3>4. C \in Seq(Msg)
      <4>1. Len(full[n].calls) \in Nat
        BY <3>1, MsgFields
      <4>2. \A k \in 1..Len(full[n].calls) : C[k] \in Msg
        <5>1. SUFFICES ASSUME NEW k \in 1..Len(full[n].calls) PROVE C[k] \in Msg
          OBVIOUS
        <5>2. <<full[n].id[1], k>> \in Nat \X Nat
          BY <3>1, <4>1, MsgFields
        <5>3. "cancelled" \in Hows
          BY DEF Hows
        <5>4. C[k] = Tool(<<full[n].id[1], k>>, "cancelled")
          BY <3>2, <5>1
        <5> QED
          BY <5>2, <5>3, <5>4, ToolIsMsg
      <4>3. C = [k \in 1..Len(full[n].calls) |-> C[k]]
        BY <3>2
      <4> QED
        BY <4>1, <4>2, <4>3, FunIsSeq
    <3> QED
      BY <2>2, <3>3, <3>4
  <2> QED
    BY <2>1, <2>2
<1>10. \A i \in 1..n + 1 : seqs[i] \in Seq(Msg)
  <2>1. SUFFICES ASSUME NEW i \in 1..n + 1 PROVE seqs[i] \in Seq(Msg)
    OBVIOUS
  <2>2. CASE i # n
    BY <1>8, <2>2
  <2>3. CASE i = n
    <3>1. full[n] \in Msg /\ seqs[n] = <<full[n]>> \o C
      BY <1>3, <1>6, <1>9, <2>3
    <3>2. <<full[n]>> \in Seq(Msg)
      BY <3>1
    <3> QED
      BY <1>9, <2>3, <3>1, <3>2
  <2> QED
    BY <2>2, <2>3
<1>11. seqs \in Seq(Seq(Msg)) /\ Len(seqs) = n + 1
  <2>1. seqs = [i \in 1..n + 1 |-> seqs[i]] /\ n + 1 \in Nat
    BY <1>6
  <2> QED
    BY <1>10, <2>1, FunIsSeq
<1>12. PICK P : P = [i \in 0..n + 1 |->
                       IF i < n THEN {SubSeq(ms, 1, i)}
                       ELSE IF i = n THEN {ms \o C} ELSE {Append(ms \o C, h)}]
  OBVIOUS
<1>13. <<>> \in P[0]
  <2>1. CASE n = 0
    <3>1. ms = <<>> /\ C = <<>>
      BY <1>2, <1>9, <2>1, EmptySeq
    <3>2. ms \o C = <<>>
      <4>1. ms \o <<>> = ms
        BY ConcatEmptySeq
      <4> QED
        BY <3>1, <4>1
    <3> QED
      BY <1>12, <2>1, <3>2
  <2>2. CASE n > 0
    <3>1. SubSeq(ms, 1, 0) = <<>>
      BY SubSeqEmpty
    <3> QED
      BY <1>12, <2>2, <3>1
  <2> QED
    BY <2>1, <2>2
<1>14. ASSUME NEW i \in 1..n + 1, NEW q \in Seq(Msg), q \in P[i - 1]
       PROVE  q \o seqs[i] \in P[i]
  <2>1. CASE i < n
    <3>1. q = SubSeq(ms, 1, i - 1) /\ P[i] = {SubSeq(ms, 1, i)}
      BY <1>12, <1>14, <2>1
    <3>2. seqs[i] = <<ms[i]>>
      BY <1>4, <1>8, <2>1
    <3>3. 1 \in 1..Len(ms) /\ i \in 1..Len(ms)
      BY <1>2, <2>1
    <3>4. SubSeq(ms, 1, i) = SubSeq(ms, 1, i - 1) \o <<ms[i]>>
      BY <3>3, SubSeqRecursiveSecond
    <3> QED
      BY <3>1, <3>2, <3>4
  <2>2. CASE i = n
    <3>1. q = SubSeq(ms, 1, n - 1) /\ P[i] = {ms \o C}
      BY <1>12, <1>14, <2>2
    <3>2. seqs[n] = <<ms[n]>> \o C
      <4>1. n \in 1..n /\ n \in 1..n + 1
        BY <2>2
      <4>2. full[n] = ms[n] /\ C = Patch(full, n)
        BY <1>4, <1>9, <4>1
      <4> QED
        BY <1>6, <4>1, <4>2
    <3>3. 1 \in 1..Len(ms) /\ n \in 1..Len(ms) /\ <<ms[n]>> \in Seq(Msg)
      BY <1>2, <2>2
    <3>4. SubSeq(ms, 1, n) = SubSeq(ms, 1, n - 1) \o <<ms[n]>> /\ SubSeq(ms, 1, n) = ms
      BY <1>2, <3>3, SubSeqRecursiveSecond, SubSeqFull
    <3>5. (q \o <<ms[n]>>) \o C = q \o (<<ms[n]>> \o C)
      BY <1>9, <3>3, ConcatAssociative
    <3> QED
      BY <2>2, <3>1, <3>2, <3>4, <3>5
  <2>3. CASE i = n + 1
    <3>1. q = ms \o C /\ P[i] = {Append(ms \o C, h)}
      BY <1>12, <1>14, <2>3
    <3>2. seqs[i] = <<h>>
      BY <1>3, <1>8, <2>3
    <3>3. q \o <<h>> = Append(q, h)
      OBVIOUS
    <3> QED
      BY <3>1, <3>2, <3>3
  <2> QED
    BY <2>1, <2>2, <2>3
<1>15. FlattenSeq(seqs) \in P[n + 1]
  BY <1>11, <1>13, <1>14, FlattenInduction
<1> QED
  BY <1>1, <1>5, <1>7, <1>9, <1>12, <1>15

-----------------------------------------------------------------------------
(***************************************************************************)
(* Views: what is left of a conversation when its first e messages are     *)
(* replaced by the summary; e = 0 for no summary.  Arguments may be cut.   *)
(***************************************************************************)

Before(e) == IF e = 0 THEN 0 ELSE e - 1

Alike(m, x) == m.type = x.type /\ m.id = x.id /\ m.calls = x.calls

View(Q, ms, e) ==
  /\ Q \in Seq(Msg) /\ Len(Q) = Len(ms) - Before(e)
  /\ e # 0 => Q[1] = Summary
  /\ \A i \in 1..Len(Q) : e = 0 \/ i # 1 => Alike(Q[i], ms[i + Before(e)])

\* No answer is cut off from its call.
Safe(ms, e) == e # 0 => e < Len(ms) /\ ms[e + 1].type # "tool"

SummaryOK == Summary \in Msg /\ Summary.type = "summary" /\ Summary.calls = <<>>

LEMMA SummaryIsMsg == SummaryOK
<1>1. <<>> \in Seq(STRING)
  BY EmptySeq
<1>2. <<0, 0>> \in Nat \X Nat
  OBVIOUS
<1> QED
  BY <1>1, <1>2 DEF SummaryOK, Summary, Message, Msg, Types, Hows

\* The caller of an answer in view is in view.
LEMMA CallerInView ==
  ASSUME NEW ms \in Seq(Msg), Conversation(ms), NEW e \in Nat, Safe(ms, e),
         NEW i \in (e + 1)..Len(ms), ms[i].type = "tool"
  PROVE  i - ms[i].id[2] > e
<1>1. i \in 1..Len(ms)
  OBVIOUS
<1>2. Answers(ms, i)
  BY <1>1 DEF Conversation, MessageOK
<1>3. PICK k : k = ms[i].id[2]
  OBVIOUS
<1>4. /\ k \in 1..(i - 1) /\ ms[i - k].type = "ai" /\ ms[i - k].id[1] = ms[i].id[1]
      /\ k <= Len(ms[i - k].calls)
  BY <1>2, <1>3 DEF Answers
<1>5. SUFFICES ASSUME i - k <= e PROVE FALSE
  BY <1>1, <1>3, <1>4
<1>6. e # 0 /\ ms[e + 1].type # "tool"
  BY <1>1, <1>4, <1>5 DEF Safe
<1>7. Answered(ms, i - k)
  BY <1>1, <1>4 DEF Conversation, MessageOK
<1>8. PICK j : j = e + 1 - (i - k)
  OBVIOUS
<1>9. Len(ms[i - k].calls) \in Nat
  <2>1. i - k \in 1..Len(ms)
    BY <1>1, <1>4
  <2> QED
    BY <2>1, MsgFields
<1>10. j \in 1..Len(ms[i - k].calls)
  BY <1>1, <1>4, <1>5, <1>8, <1>9
<1>11. ms[i - k + j].type = "tool"
  BY <1>7, <1>10 DEF Answered
<1> QED
  BY <1>1, <1>4, <1>6, <1>8, <1>11

\* What the model is given, if the view has no open call.
WellFormed(Q) ==
  \A i \in DOMAIN Q :
    /\ Q[i].type = "ai" =>
         /\ i + Len(Q[i].calls) <= Len(Q)
         /\ {Q[j].id : j \in (i + 1)..(i + Len(Q[i].calls))} = CallsOf(Q[i])
    /\ Q[i].type = "tool" => \E j \in 1..(i - 1) : Q[i].id \in CallsOf(Q[j])

LEMMA ViewWellFormed ==
  ASSUME NEW ms \in Seq(Msg), Conversation(ms), Closed(ms),
         NEW e \in Nat, Safe(ms, e), NEW Q, View(Q, ms, e)
  PROVE  WellFormed(Q)
<1>1. PICK b \in Nat : b = Before(e)
  BY DEF Before
<1>2. /\ Q \in Seq(Msg) /\ Len(Q) = Len(ms) - b /\ DOMAIN Q = 1..Len(Q)
      /\ e # 0 => Q[1] = Summary /\ b = e - 1
      /\ e = 0 => b = 0
      /\ \A i \in 1..Len(Q) : e = 0 \/ i # 1 => Alike(Q[i], ms[i + b])
  BY <1>1 DEF View, Before
<1>3. SUFFICES ASSUME NEW i \in 1..Len(Q)
      PROVE  /\ Q[i].type = "ai" =>
                  /\ i + Len(Q[i].calls) <= Len(Q)
                  /\ {Q[j].id : j \in (i + 1)..(i + Len(Q[i].calls))} = CallsOf(Q[i])
             /\ Q[i].type = "tool" => \E j \in 1..(i - 1) : Q[i].id \in CallsOf(Q[j])
  BY <1>2 DEF WellFormed
<1>4. Q[i] \in Msg
  BY <1>2
<1>5. ASSUME Q[i].type = "ai"
      PROVE  /\ i + Len(Q[i].calls) <= Len(Q)
             /\ {Q[j].id : j \in (i + 1)..(i + Len(Q[i].calls))} = CallsOf(Q[i])
  <2>1. Alike(Q[i], ms[i + b])
    BY <1>2, <1>3, <1>5, SummaryIsMsg DEF SummaryOK
  <2>2. i + b \in 1..Len(ms)
    BY <1>2, <1>3
  <2>3. Answered(ms, i + b)
    BY <1>5, <2>1, <2>2 DEF Closed, Alike
  <2>4. PICK K \in Nat : K = Len(Q[i].calls)
    BY <1>4, MsgFields
  <2>5. i + K <= Len(Q)
    <3>1. Len(ms[i + b].calls) = K
      BY <2>1, <2>4 DEF Alike
    <3>2. i + b + K <= Len(ms) /\ Len(ms) \in Nat
      BY <2>3, <3>1 DEF Answered
    <3> QED
      BY <1>2, <1>3, <3>2
  <2>6. \A k \in 1..K : Q[i + k].id = <<Q[i].id[1], k>>
    <3>1. SUFFICES ASSUME NEW k \in 1..K PROVE Q[i + k].id = <<Q[i].id[1], k>>
      OBVIOUS
    <3>2. i + k \in 1..Len(Q) /\ i + k # 1
      BY <1>3, <2>5
    <3>3. Alike(Q[i + k], ms[i + k + b])
      BY <1>2, <3>2
    <3>4. ms[i + b + k].id = <<ms[i + b].id[1], k>>
      BY <2>1, <2>3, <2>4 DEF Answered, Alike
    <3>5. i + b + k = i + k + b
      BY <1>3
    <3> QED
      BY <2>1, <3>3, <3>4, <3>5 DEF Alike
  <2>7. DOMAIN Q[i].calls = 1..K
    BY <1>4, <2>4, MsgFields
  <2>8. CallsOf(Q[i]) = {<<Q[i].id[1], k>> : k \in 1..K}
    BY <2>7 DEF CallsOf
  <2>9. {Q[j].id : j \in (i + 1)..(i + K)} = {Q[i + k].id : k \in 1..K}
    <3>1. \A j \in (i + 1)..(i + K) : j - i \in 1..K /\ i + (j - i) = j
      BY <1>3
    <3>2. \A k \in 1..K : i + k \in (i + 1)..(i + K)
      BY <1>3
    <3> QED
      BY <3>1, <3>2
  <2>10. {Q[i + k].id : k \in 1..K} = {<<Q[i].id[1], k>> : k \in 1..K}
    BY <2>6
  <2> QED
    BY <2>4, <2>5, <2>8, <2>9, <2>10
<1>6. ASSUME Q[i].type = "tool"
      PROVE  \E j \in 1..(i - 1) : Q[i].id \in CallsOf(Q[j])
  <2>1. PICK x \in Nat : x = i + b
    BY <1>3
  <2>2. Alike(Q[i], ms[x]) /\ (e # 0 => i # 1)
    BY <1>2, <1>3, <1>6, <2>1, SummaryIsMsg DEF SummaryOK
  <2>3. x \in 1..Len(ms) /\ x \in (e + 1)..Len(ms) /\ ms[x].type = "tool"
    <3>1. ms[x].type = "tool"
      BY <1>6, <2>2 DEF Alike
    <3> QED
      BY <1>2, <1>3, <2>1, <2>2, <3>1
  <2>4. Answers(ms, x)
    BY <2>3 DEF Conversation, MessageOK
  <2>5. PICK k \in Nat : k = ms[x].id[2]
    BY <2>3, MsgFields
  <2>6. k = Q[i].id[2]
    BY <2>2, <2>5 DEF Alike
  <2>7. k \in 1..(x - 1) /\ x - k > e
    <3>1. x - ms[x].id[2] > e
      BY <2>3, CallerInView
    <3> QED
      BY <2>4, <2>5, <3>1 DEF Answers
  <2>8. i - k \in 1..(i - 1) /\ i - k \in 1..Len(Q) /\ (e # 0 => i - k # 1)
    <3>1. CASE e = 0
      BY <1>2, <1>3, <2>1, <2>7, <3>1
    <3>2. CASE e # 0
      BY <1>2, <1>3, <2>1, <2>7, <3>2
    <3> QED
      BY <3>1, <3>2
  <2>9. Alike(Q[i - k], ms[x - k])
    <3>1. i - k + b = x - k
      BY <1>3, <2>1
    <3>2. Alike(Q[i - k], ms[i - k + b])
      BY <1>2, <2>8
    <3> QED
      BY <3>1, <3>2
  <2>10. Q[i - k].id[1] = Q[i].id[1] /\ k <= Len(Q[i - k].calls)
    <3>1. ms[x - k].id[1] = ms[x].id[1] /\ k <= Len(ms[x - k].calls)
      BY <2>4, <2>5 DEF Answers
    <3> QED
      BY <2>2, <2>9, <3>1 DEF Alike
  <2>11. Q[i - k] \in Msg
    BY <1>2, <2>8
  <2>12. k \in DOMAIN Q[i - k].calls
    <3>1. Q[i - k].calls \in Seq(STRING)
      BY <2>11, MsgFields
    <3>2. DOMAIN Q[i - k].calls = 1..Len(Q[i - k].calls)
      BY <3>1
    <3> QED
      BY <2>7, <2>10, <3>2
  <2>13. Q[i].id = <<Q[i - k].id[1], k>>
    BY <1>4, <2>6, <2>10, MsgFields
  <2>14. Q[i].id \in CallsOf(Q[i - k])
    BY <2>12, <2>13 DEF CallsOf
  <2> QED
    BY <2>8, <2>14
<1> QED
  BY <1>5, <1>6

LEMMA TruncatedView ==
  ASSUME NEW Q, NEW ms, NEW e, View(Q, ms, e)
  PROVE  View(Truncated(Q), ms, e)
<1>1. SUFFICES ASSUME ~(Len(Q) < CutFrom \/ Len(Q) <= CutKeep)
               PROVE View(Truncated(Q), ms, e)
  BY DEF Truncated
<1>2. Q \in Seq(Msg) /\ Len(Q) \in Nat /\ DOMAIN Q = 1..Len(Q)
  BY DEF View
<1>3. PICK R : R = Truncated(Q)
  OBVIOUS
<1>4. R = [i \in 1..Len(Q) |->
             IF i <= Len(Q) - CutKeep /\ "write_file" \in ToSet(Q[i].calls)
             THEN [Q[i] EXCEPT !.how = "cut"] ELSE Q[i]]
  BY <1>1, <1>2, <1>3 DEF Truncated
<1>5. \A i \in 1..Len(Q) : R[i] \in Msg /\ Alike(R[i], Q[i])
  <2>1. SUFFICES ASSUME NEW i \in 1..Len(Q) PROVE R[i] \in Msg /\ Alike(R[i], Q[i])
    OBVIOUS
  <2>2. PICK m \in Msg : m = Q[i]
    BY <1>2
  <2>3. PICK x : x = [m EXCEPT !.how = "cut"]
    OBVIOUS
  <2>4. x \in Msg /\ x.type = m.type /\ x.id = m.id /\ x.calls = m.calls
    BY <2>3 DEF Msg, Hows
  <2>5. R[i] = x \/ R[i] = m
    BY <1>4, <2>2, <2>3
  <2> QED
    BY <2>2, <2>4, <2>5 DEF Alike
<1>6. R \in Seq(Msg) /\ Len(R) = Len(Q)
  <2>1. R = [i \in 1..Len(Q) |-> R[i]]
    BY <1>4
  <2> QED
    BY <1>2, <1>5, <2>1, FunIsSeq
<1>7. e # 0 => R[1] = Summary
  <2>1. SUFFICES ASSUME e # 0 PROVE R[1] = Summary
    OBVIOUS
  <2>2. Q[1] = Summary
    BY <2>1 DEF View
  <2>3. 1 \in 1..Len(Q)
    BY <1>1, <1>2, AgAssumption DEF AgAssumption
  <2>4. ToSet(Q[1].calls) = {}
    <3>1. Q[1].calls = <<>>
      BY <2>2, SummaryIsMsg DEF SummaryOK
    <3>2. DOMAIN Q[1].calls = {}
      BY <3>1
    <3> QED
      BY <3>2 DEF ToSet
  <2> QED
    BY <1>4, <2>2, <2>3, <2>4
<1> QED
  BY <1>3, <1>5, <1>6, <1>7 DEF View, Alike

LEMMA SummaryView ==
  ASSUME NEW ms, NEW e \in Nat, NEW Q, View(Q, ms, e), Len(ms) \in Nat,
         NEW n \in Nat, 0 < n, n < Len(Q)
  PROVE  View(<<Summary>> \o SubSeq(Q, n + 1, Len(Q)), ms, Before(e) + n)
<1>1. PICK b \in Nat : b = Before(e)
  BY DEF Before
<1>2. /\ Q \in Seq(Msg) /\ Len(Q) = Len(ms) - b /\ Len(Q) \in Nat
      /\ \A i \in 1..Len(Q) : e = 0 \/ i # 1 => Alike(Q[i], ms[i + b])
  BY <1>1 DEF View
<1>3. PICK q : q = SubSeq(Q, n + 1, Len(Q))
  OBVIOUS
<1>4. /\ q \in Seq(Msg) /\ Len(q) = Len(Q) - n
      /\ \A i \in 1..(Len(Q) - n) : q[i] = Q[n + i]
  <2>1. n + 1 \in Int /\ Len(Q) \in Int /\ \A i \in (n + 1)..Len(Q) : Q[i] \in Msg
    BY <1>2
  <2>2. /\ q \in Seq(Msg) /\ Len(q) = Len(Q) - n
        /\ \A i \in 1..(Len(Q) - (n + 1) + 1) : q[i] = Q[(n + 1) + i - 1]
    BY <1>2, <1>3, <2>1, SubSeqProperties
  <2> QED
    BY <1>2, <2>2
<1>5. PICK r : r = <<Summary>> \o q
  OBVIOUS
<1>6. /\ r \in Seq(Msg) /\ Len(r) = 1 + Len(Q) - n /\ r[1] = Summary
      /\ \A i \in 2..Len(r) : r[i] = Q[n + i - 1]
  <2>1. PICK s : s = <<Summary>>
    OBVIOUS
  <2>10. s \in Seq(Msg) /\ Len(s) = 1 /\ s[1] = Summary
    BY <2>1, SummaryIsMsg DEF SummaryOK
  <2>11. /\ s \o q \in Seq(Msg) /\ Len(s \o q) = Len(s) + Len(q)
         /\ \A i \in 1..Len(s) : (s \o q)[i] = s[i]
         /\ \A i \in 1..Len(q) : (s \o q)[Len(s) + i] = q[i]
    <3>1. s \in Seq(Msg) /\ q \in Seq(Msg)
      BY <1>4, <2>10
    <3>2. s \o q \in Seq(Msg)
      BY ONLY <3>1, Concat
    <3>3. Len(s \o q) = Len(s) + Len(q)
      BY ONLY <3>1, Concat
    <3>4. \A i \in 1..Len(s) : (s \o q)[i] = s[i]
      BY ONLY <3>1, Concat
    <3>5. \A i \in 1..Len(q) : (s \o q)[Len(s) + i] = q[i]
      BY ONLY <3>1, Concat
    <3> QED
      BY <3>2, <3>3, <3>4, <3>5
  <2>12. r = s \o q
    BY <1>5, <2>1
  <2>2. r \in Seq(Msg)
    BY <2>11, <2>12
  <2>3. Len(r) = 1 + Len(q)
    BY <2>10, <2>11, <2>12
  <2>4. r[1] = Summary
    BY <2>10, <2>11, <2>12
  <2>5. \A i \in 1..Len(q) : r[1 + i] = q[i]
    BY <2>10, <2>11, <2>12
  <2>6. ASSUME NEW i \in 2..Len(r) PROVE r[i] = Q[n + i - 1]
    <3>1. i - 1 \in 1..Len(q) /\ 1 + (i - 1) = i /\ n + (i - 1) = n + i - 1
      BY <1>2, <1>4, <2>3, <2>6
    <3>2. r[i] = q[i - 1]
      BY <2>1, <2>5, <3>1
    <3> QED
      BY <1>4, <3>1, <3>2
  <2> QED
    BY <1>2, <1>4, <2>2, <2>3, <2>4, <2>6
<1>7. PICK f \in Nat : f = b + n
  OBVIOUS
<1>8. f # 0 /\ Before(f) = f - 1
  BY <1>7 DEF Before
<1>9. \A i \in 1..Len(r) : i # 1 => Alike(r[i], ms[i + Before(f)])
  <2>1. SUFFICES ASSUME NEW i \in 1..Len(r), i # 1 PROVE Alike(r[i], ms[i + Before(f)])
    OBVIOUS
  <2>2. n + i - 1 \in 1..Len(Q) /\ n + i - 1 # 1 /\ (n + i - 1) + b = i + (f - 1)
    BY <1>2, <1>6, <1>7, <2>1
  <2>3. Alike(Q[n + i - 1], ms[(n + i - 1) + b])
    BY <1>2, <2>2
  <2>4. r[i] = Q[n + i - 1]
    BY <1>6, <2>1
  <2> QED
    BY <1>8, <2>2, <2>3, <2>4
<1>10. Len(r) = Len(ms) - (f - 1)
  BY <1>2, <1>6, <1>7
<1> QED
  BY <1>1, <1>3, <1>5, <1>6, <1>7, <1>8, <1>9, <1>10 DEF View

LEMMA MaxOfOne ==
  ASSUME NEW p \in Nat
  PROVE  Max({p}) = p
BY DEF Max

\* A cutoff that is found is safe.
LEMMA SafeCutoffIsSafe ==
  ASSUME NEW ms \in Seq(Msg), Conversation(ms), NEW e \in Nat, Safe(ms, e),
         NEW Q, View(Q, ms, e)
  PROVE  /\ SafeCutoff(Q) \in Nat
         /\ SafeCutoff(Q) > 0 => SafeCutoff(Q) < Len(Q) /\ Safe(ms, Before(e) + SafeCutoff(Q))
<1>1. PICK b \in Nat : b = Before(e)
  BY DEF Before
<1>2. /\ Q \in Seq(Msg) /\ Len(Q) = Len(ms) - b /\ Len(Q) \in Nat
      /\ \A i \in 1..Len(Q) : e = 0 \/ i # 1 => Alike(Q[i], ms[i + b])
      /\ e # 0 => Q[1] = Summary /\ b = e - 1
      /\ e = 0 => b = 0
  BY <1>1 DEF View, Before
<1>3. Keep \in Nat \ {0}
  BY AgAssumption DEF AgAssumption
<1>4. PICK t : t = Len(Q) - Keep
  OBVIOUS
<1>5. PICK callers : callers = {i \in 1..t : Q[i].type = "ai" /\ Q[i].id[1] = Q[t + 1].id[1]}
  OBVIOUS
<1>6. /\ Len(Q) <= Keep => SafeCutoff(Q) = 0
      /\ Len(Q) > Keep /\ Q[t + 1].type # "tool" => SafeCutoff(Q) = t
      /\ Len(Q) > Keep /\ Q[t + 1].type = "tool" => SafeCutoff(Q) = Max(callers) - 1
  <2>1. (Len(Q) <= Keep) # (Len(Q) > Keep)
    BY <1>2, <1>3
  <2> QED
    BY <1>4, <1>5, <2>1 DEF SafeCutoff
<1>7. CASE Len(Q) <= Keep
  BY <1>6, <1>7
<1>8. CASE Len(Q) > Keep /\ Q[t + 1].type # "tool"
  <2>1. SafeCutoff(Q) = t /\ t \in Nat /\ t > 0 /\ t < Len(Q)
    <3>1. t \in Nat /\ t > 0 /\ t < Len(Q)
      BY <1>2, <1>3, <1>4, <1>8
    <3> QED
      BY <1>6, <1>8, <3>1
  <2>2. Alike(Q[t + 1], ms[t + 1 + b])
    BY <1>2, <2>1
  <2>3. Safe(ms, b + t)
    <3>1. b + t + 1 = t + 1 + b /\ b + t < Len(ms)
      BY <1>2, <2>1
    <3> QED
      BY <1>8, <2>2, <3>1 DEF Safe, Alike
  <2> QED
    BY <1>1, <2>1, <2>3
<1>9. CASE Len(Q) > Keep /\ Q[t + 1].type = "tool"
  <2>1. t \in Nat /\ t > 0 /\ t < Len(Q)
    BY <1>2, <1>3, <1>4, <1>9
  <2>2. PICK x \in Nat : x = t + 1 + b
    BY <2>1
  <2>3. Alike(Q[t + 1], ms[x])
    BY <1>2, <2>1, <2>2
  <2>4. x \in 1..Len(ms) /\ x \in (e + 1)..Len(ms) /\ ms[x].type = "tool"
    <3>1. ms[x].type = "tool"
      BY <1>9, <2>3 DEF Alike
    <3> QED
      BY <1>2, <2>1, <2>2, <3>1
  <2>5. Answers(ms, x)
    BY <2>4 DEF Conversation, MessageOK
  <2>6. PICK k \in Nat : k = ms[x].id[2]
    BY <2>4, MsgFields
  <2>7. k \in 1..(x - 1) /\ x - k > e
    <3>1. x - ms[x].id[2] > e
      BY <2>4, CallerInView
    <3> QED
      BY <2>5, <2>6, <3>1 DEF Answers
  <2>8. ms[x - k].type = "ai" /\ ms[x - k].id[1] = ms[x].id[1]
    BY <2>5, <2>6 DEF Answers
  <2>9. PICK p \in Nat : p = t + 1 - k /\ p \in 1..t /\ (e # 0 => p # 1) /\ p + b = x - k
    <3>1. t + 1 - k \in 1..t /\ (e # 0 => t + 1 - k # 1) /\ t + 1 - k + b = x - k
      <4>1. CASE e = 0
        BY <1>2, <2>1, <2>2, <2>7, <4>1
      <4>2. CASE e # 0
        BY <1>2, <2>1, <2>2, <2>7, <4>2
      <4> QED
        BY <4>1, <4>2
    <3> QED
      BY <3>1
  <2>10. Alike(Q[p], ms[p + b])
    BY <1>2, <2>1, <2>9
  <2>11. p \in callers
    BY <1>5, <2>3, <2>8, <2>9, <2>10 DEF Alike
  <2>12. ASSUME NEW y \in callers PROVE y = p
    <3>1. y \in 1..t /\ Q[y].type = "ai" /\ Q[y].id[1] = Q[t + 1].id[1]
      BY <1>5, <2>12
    <3>2. Alike(Q[y], ms[y + b])
      BY <1>2, <2>1, <3>1, SummaryIsMsg DEF SummaryOK
    <3>3. y + b \in 1..Len(ms) /\ p + b \in 1..Len(ms)
      BY <1>2, <2>1, <2>9, <3>1
    <3>4. ms[y + b].type = "ai" /\ ms[p + b].type = "ai" /\ ms[y + b].id[1] = ms[p + b].id[1]
      BY <2>3, <2>8, <2>9, <3>1, <3>2 DEF Alike
    <3>5. ms[y + b].id[1] \in Nat
      BY <3>3, MsgFields
    <3>6. NewerThanAll(ms, y + b) /\ NewerThanAll(ms, p + b)
      BY <3>3, <3>4 DEF Conversation
    <3>7. ~(y + b < p + b) /\ ~(p + b < y + b)
      <4>1. y + b < p + b => ms[y + b].id[1] < ms[p + b].id[1]
        BY <3>3, <3>6 DEF NewerThanAll
      <4>2. p + b < y + b => ms[p + b].id[1] < ms[y + b].id[1]
        BY <3>3, <3>6 DEF NewerThanAll
      <4> QED
        BY <3>4, <3>5, <4>1, <4>2
    <3> QED
      BY <2>9, <3>1, <3>7
  <2>13. Max(callers) = p
    <3>1. callers = {p}
      BY <2>11, <2>12
    <3> QED
      BY <3>1, MaxOfOne
  <2>14. SafeCutoff(Q) = p - 1 /\ p - 1 \in Nat /\ p - 1 < Len(Q)
    BY <1>2, <1>3, <1>6, <1>9, <2>1, <2>9, <2>13
  <2>15. Safe(ms, b + (p - 1))
    <3>1. b + (p - 1) + 1 = x - k /\ b + (p - 1) < Len(ms)
      BY <2>4, <2>7, <2>9
    <3>2. ms[x - k].type # "tool"
      BY <2>8
    <3> QED
      BY <3>1, <3>2 DEF Safe
  <2> QED
    BY <1>1, <2>14, <2>15
<1> QED
  BY <1>2, <1>3, <1>7, <1>8, <1>9

\* What is cut off, but for the summary, is in the section of the file.
LEMMA ViewSection ==
  ASSUME NEW ms \in Seq(Msg), Conversation(ms), NEW e \in Nat,
         NEW Q, View(Q, ms, e), NEW n \in Nat, n <= Len(Q),
         NEW j \in (e + 1)..(Before(e) + n)
  PROVE  \E i \in Section(SubSeq(Q, 1, n)) : i.id = ms[j].id
<1>1. PICK b \in Nat : b = Before(e)
  BY DEF Before
<1>2. /\ Q \in Seq(Msg) /\ Len(Q) = Len(ms) - b /\ Len(Q) \in Nat
      /\ \A i \in 1..Len(Q) : e = 0 \/ i # 1 => Alike(Q[i], ms[i + b])
      /\ e # 0 => b = e - 1
      /\ e = 0 => b = 0
  BY <1>1 DEF View, Before
<1>3. PICK i \in Nat : i = j - b /\ i \in 1..n /\ (e # 0 => i # 1) /\ i + b = j
  <2>1. j \in (e + 1)..(b + n)
    BY <1>1
  <2>2. CASE e = 0
    BY <1>2, <2>1, <2>2
  <2>3. CASE e # 0
    BY <1>2, <2>1, <2>3
  <2> QED
    BY <2>2, <2>3
<1>4. Alike(Q[i], ms[j]) /\ j \in 1..Len(ms)
  BY <1>2, <1>3
<1>5. PICK q : q = SubSeq(Q, 1, n)
  OBVIOUS
<1>6. DOMAIN q = 1..n /\ q[i] = Q[i]
  <2>1. q = [x \in 1..n |-> Q[x]]
    BY <1>2, <1>5
  <2> QED
    BY <1>3, <2>1
<1>7. q[i] \in ToSet(q)
  BY <1>3, <1>6 DEF ToSet
<1>8. q[i] # Summary
  BY <1>4, <1>6, SummaryIsMsg DEF Conversation, MessageOK, Alike, SummaryOK
<1>9. [id |-> q[i].id, how |-> q[i].how] \in Section(q)
  BY <1>7, <1>8 DEF Section
<1> QED
  BY <1>4, <1>5, <1>6, <1>9 DEF Alike

-----------------------------------------------------------------------------
(***************************************************************************)
(* The inductive invariant.  Its parts are about values, not variables, so *)
(* that a step that leaves an agent alone leaves its part alone.           *)
(***************************************************************************)

Events == {None} \union [cutoff : Nat \ {0}, file : BOOLEAN]
Works == {"idle", "model", "summary", "tools", "finished"}
Calls == Nat \X Nat
Items == [id : Calls, how : Hows]
Sections == [key : Nat, items : SUBSET Items]
Appends ==
  [key : Nat, by : Agents \union {None}, call : Calls \union {None},
   items : SUBSET Items, step : {"read", "put", "done"}, old : Seq(Sections), ok : BOOLEAN]

CutoffOf(ev) == IF ev = None THEN 0 ELSE ev.cutoff

\* Effective, of messages and event.
EffectiveOf(ms, ev) ==
  CASE ev = None -> ms
    [] ev # None /\ ev.cutoff > Len(ms) -> <<Summary>>
    [] OTHER -> <<Summary>> \o SubSeq(ms, ev.cutoff + 1, Len(ms))

CompactedAt(ms, ev) == Before(CutoffOf(ev)) + SafeCutoff(EffectiveOf(ms, ev))

\* The messages ms of an agent with event ev that does w, with cutoff k, when
\* n is the next message.
AgentOK(ms, ev, w, k, n) ==
  /\ ms \in Seq(Msg) /\ ev \in Events /\ w \in Works /\ k \in Nat
  /\ Conversation(ms)
  /\ \A i \in 1..Len(ms) : ms[i].id[1] < n
  /\ Safe(ms, CutoffOf(ev))
  /\ w \in {"model", "summary"} => Closed(ms)
  /\ w = "tools" => ms # <<>> /\ ms[Len(ms)].type = "ai"
  /\ IF w = "summary" THEN k = SafeCutoff(Truncated(EffectiveOf(ms, ev))) /\ k > 0 ELSE k = 0

\* What is not in view is written down, and so is what is not in the messages.
KeptOK(ms, ev, gone, files) ==
  /\ \A i \in 1..CutoffOf(ev) : ms[i].id \in gone
  /\ \A i \in 1..Len(ms) : ms[i].how = "evicted" => ms[i].id \in files

\* The update d of the call c.
CommandOK(ms, ev, c, d, gone, files) ==
  /\ c \in CallsOf(Last(ms))
  /\ d.msg \in Msg /\ d.msg.type = "tool" /\ d.msg.id = c /\ d.msg.calls = <<>>
  /\ d.msg.how # "cancelled"
  /\ d.msg.how = "evicted" => c \in files
  /\ d.event # None =>
       /\ d.event \in Events
       /\ SafeCutoff(EffectiveOf(ms, ev)) > 0
       /\ d.event.cutoff = CompactedAt(ms, ev)
       /\ \A i \in 1..CompactedAt(ms, ev) : ms[i].id \in gone
  /\ d.steps # None => d.steps \in Records /\ d.steps.call = c

\* A sub-agent is reported for each call of task that is not refused, and the
\* result of another tool is told.
ReportOK(ms, c, d, heard) ==
  IF Last(ms).calls[c[2]] = "task" THEN d.msg.how = "refused" <=> d.steps = None
  ELSE d.msg.how # "refused" /\ d.steps = None /\ c \in heard

\* The items of an append have all that is cut off by it.
Covers(items, ms, ev, n) ==
  \A j \in (CutoffOf(ev) + 1)..n : \E i \in items : i.id = ms[j].id

AppendOK(p, ms, ev, w, k, d, gone) ==
  /\ p.call = None =>
       /\ w = "summary"
       /\ Covers(p.items, ms, ev, Before(CutoffOf(ev)) + k)
  /\ p.call # None =>
       /\ w = "tools"
       /\ p.call \in CallsOf(Last(ms)) \ DOMAIN d
       /\ Last(ms).calls[p.call[2]] = "compact_conversation"
       /\ SafeCutoff(EffectiveOf(ms, ev)) > 0
       /\ Covers(p.items, ms, ev, CompactedAt(ms, ev))
  /\ p.step = "done" => \A i \in p.items : i.id \in gone

SubOK(ms, ev, w, t, mainMs, mainW, d) ==
  IF w = "idle" THEN ms = <<>> /\ ev = None /\ t = None
  ELSE /\ mainW = "tools"
       /\ t \in CallsOf(Last(mainMs)) \ DOMAIN d
       /\ Last(mainMs).calls[t[2]] = "task"

TypeInv ==
  /\ msgs = [a \in Agents |-> msgs[a]] /\ event = [a \in Agents |-> event[a]]
  /\ pc = [a \in Agents |-> pc[a]] /\ cut = [a \in Agents |-> cut[a]]
  /\ done = [a \in Agents |-> done[a]] /\ fields = [a \in Agents |-> fields[a]]
  /\ \A a \in Agents : DOMAIN fields[a] \subseteq Fields
  /\ task \in [Subs -> Calls \union {None}]
  /\ records \in Seq(Records)
  /\ appends \subseteq Appends /\ history \in Seq(Sections)
  /\ made \in Nat \ {0} /\ offloads \in Nat

Gone == InHistory \union lost
Files == stored \union lost

AgentInv(a) ==
  /\ AgentOK(msgs[a], event[a], pc[a], cut[a], made)
  /\ KeptOK(msgs[a], event[a], Gone, Files)
  /\ pc[a] # "tools" => DOMAIN done[a] = {}
  /\ \A c \in DOMAIN done[a] : CommandOK(msgs[a], event[a], c, done[a][c], Gone, Files)

AgentsInv == \A a \in Agents : AgentInv(a)

ReportInv == \A c \in DOMAIN done[Main] : ReportOK(msgs[Main], c, done[Main][c], told)

AppendInv ==
  /\ \A p \in appends :
       IF p.by = None THEN p.step # "done"
       ELSE AppendOK(p, msgs[p.by], event[p.by], pc[p.by], cut[p.by], done[p.by], Gone)
  /\ \A p, q \in appends : p.by = q.by /\ p.by # None /\ p.call = q.call => p = q

SubInv ==
  /\ \A s \in Subs :
       SubOK(msgs[s], event[s], pc[s], task[s], msgs[Main], pc[Main], done[Main])
  /\ \A s, t \in Subs : s # t /\ task[s] # None => task[s] # task[t]

IInv ==
  TypeInv /\ AgentsInv /\ ReportInv /\ AppendInv /\ SubInv /\ ReportsHaveRecords

-----------------------------------------------------------------------------
(***************************************************************************)
(* The history file only grows, or is lost                                 *)
(***************************************************************************)

LEMMA InsertAddsOne ==
  ASSUME NEW S, NEW s \in Seq(S), NEW x \in 1..Len(s) + 1, NEW e \in S
  PROVE  /\ InsertAt(s, x, e) \in Seq(S)
         /\ ToSet(s) \union {e} \subseteq ToSet(InsertAt(s, x, e))
<1>1. PICK p : p = SubSeq(s, 1, x - 1)
  OBVIOUS
<1>2. PICK q : q = SubSeq(s, x, Len(s))
  OBVIOUS
<1>3. p \in Seq(S) /\ Len(p) = x - 1 /\ \A i \in 1..(x - 1) : p[i] = s[i]
  BY <1>1
<1>4. q \in Seq(S) /\ Len(q) = Len(s) + 1 - x /\ \A i \in 1..(Len(s) + 1 - x) : q[i] = s[x + i - 1]
  BY <1>2
<1>5. PICK r : r = p \o <<e>>
  OBVIOUS
<1>6. r \in Seq(S) /\ Len(r) = x /\ r[x] = e /\ \A i \in 1..(x - 1) : r[i] = s[i]
  BY <1>3, <1>5
<1>7. PICK t : t = r \o q
  OBVIOUS
<1>8. /\ t \in Seq(S) /\ Len(t) = Len(s) + 1
      /\ \A i \in 1..x : t[i] = r[i]
      /\ \A i \in 1..(Len(s) + 1 - x) : t[x + i] = q[i]
  <2>1. t \in Seq(S) /\ Len(t) = Len(r) + Len(q)
    <3>1. r \in Seq(S) /\ q \in Seq(S)
      BY <1>4, <1>6
    <3>2. r \o q \in Seq(S)
      BY <3>1
    <3>3. Len(r \o q) = Len(r) + Len(q)
      BY <3>1
    <3> QED
      BY <1>7, <3>2, <3>3
  <2>2. \A i \in 1..Len(r) : t[i] = r[i]
    BY <1>4, <1>6, <1>7
  <2>3. \A i \in 1..Len(q) : t[Len(r) + i] = q[i]
    <3>1. r \in Seq(S) /\ q \in Seq(S)
      BY <1>4, <1>6
    <3> QED
      BY <1>7, <3>1, Concat
  <2> QED
    BY <1>4, <1>6, <2>1, <2>2, <2>3
<1>9. InsertAt(s, x, e) = t
  BY <1>1, <1>2, <1>5, <1>7 DEF InsertAt
<1>10. e \in ToSet(t)
  <2>1. x \in DOMAIN t /\ t[x] = e
    BY <1>6, <1>8
  <2> QED
    BY <2>1 DEF ToSet
<1>11. ASSUME NEW i \in DOMAIN s PROVE s[i] \in ToSet(t)
  <2>1. i \in 1..Len(s)
    BY <1>11
  <2>2. CASE i < x
    <3>1. i \in DOMAIN t /\ t[i] = s[i]
      BY <1>6, <1>8, <2>1, <2>2
    <3> QED
      BY <3>1 DEF ToSet
  <2>3. CASE i >= x
    <3>1. i + 1 - x \in 1..(Len(s) + 1 - x) /\ x + (i + 1 - x) = i + 1
      BY <2>1, <2>3
    <3>2. t[i + 1] = q[i + 1 - x] /\ q[i + 1 - x] = s[x + (i + 1 - x) - 1]
      BY <1>4, <1>8, <3>1
    <3>3. t[i + 1] = s[i] /\ i + 1 \in DOMAIN t
      BY <1>8, <2>1, <3>1, <3>2
    <3> QED
      BY <3>3 DEF ToSet
  <2> QED
    BY <2>1, <2>2, <2>3
<1> QED
  BY <1>8, <1>9, <1>10, <1>11 DEF ToSet

\* Every section stays, and the new one is in.
LEMMA WrittenGrows ==
  ASSUME NEW p \in Appends, history \in Seq(Sections), NEW h \in Written(p)
  PROVE  /\ h \in Seq(Sections)
         /\ ToSet(history) \union {[key |-> p.key, items |-> p.items]} \subseteq ToSet(h)
<1>1. PICK section : section = [key |-> p.key, items |-> p.items]
  OBVIOUS
<1>2. section \in Sections
  BY <1>1 DEF Appends, Sections
<1>3. CASE p.old = <<>>
  <2>1. h = <<section>> /\ history = <<>>
    BY <1>1, <1>3 DEF Written
  <2>2. ToSet(history) = {} /\ section \in ToSet(h)
    BY <2>1 DEF ToSet
  <2> QED
    BY <1>1, <1>2, <2>1, <2>2
<1>4. CASE p.old # <<>>
  <2>1. PICK i \in Places(p.old) : h = InsertAt(history, i + Len(p.old), section)
    BY <1>1, <1>4 DEF Written
  <2>2. p.old \in Seq(Sections) /\ Len(p.old) \in Nat
    BY DEF Appends
  <2>3. i + Len(p.old) \in 1..Len(history) + 1
    BY <2>1, <2>2 DEF Places
  <2> QED
    BY <1>1, <1>2, <2>1, <2>3, InsertAddsOne
<1> QED
  BY <1>3, <1>4

LEMMA InHistoryGrows ==
  ASSUME ToSet(history) \subseteq ToSet(history')
  PROVE  InHistory \subseteq InHistory'
BY DEF InHistory

\* What no step takes back.
Growth ==
  /\ Gone \subseteq Gone' /\ Files \subseteq Files' /\ told \subseteq told'
  /\ history' \in Seq(Sections) /\ made' \in Nat \ {0} /\ made <= made' /\ offloads' \in Nat
  /\ \A h \in ToSet(history) :
       h \in ToSet(history') \/ {i.id : i \in h.items} \subseteq lost'

LEMMA SameFilesGrow ==
  ASSUME TypeInv, UNCHANGED history, stored \subseteq stored', UNCHANGED lost,
         told \subseteq told', made' = made \/ made' = made + 1,
         offloads' = offloads \/ offloads' = offloads + 1
  PROVE  Growth
<1>1. made \in Nat \ {0} /\ offloads \in Nat /\ history \in Seq(Sections)
  BY DEF TypeInv
<1>2. Gone = Gone' /\ Files \subseteq Files'
  BY DEF Gone, Files, InHistory
<1>3. made' \in Nat \ {0} /\ made <= made' /\ offloads' \in Nat
  BY <1>1
<1>4. \A h \in ToSet(history) : h \in ToSet(history')
  OBVIOUS
<1> QED
  BY <1>1, <1>2, <1>3, <1>4 DEF Growth

LEMMA AppendPutsGrows ==
  ASSUME TypeInv, NEW p \in appends, AppendPuts(p)
  PROVE  Growth /\ \A i \in p.items : i.id \in Gone'
<1>1. /\ made \in Nat \ {0} /\ offloads \in Nat /\ history \in Seq(Sections) /\ p \in Appends
      /\ made' = made /\ offloads' = offloads /\ stored' = stored /\ told' = told
  BY DEF TypeInv, AppendPuts
<1>2. CASE history' \in Written(p) /\ lost' = lost
  <2>1. /\ history' \in Seq(Sections)
        /\ ToSet(history) \union {[key |-> p.key, items |-> p.items]} \subseteq ToSet(history')
    BY <1>1, <1>2, WrittenGrows
  <2>2. InHistory \subseteq InHistory'
    BY <2>1, InHistoryGrows
  <2>3. \A i \in p.items : i.id \in InHistory'
    <3>1. PICK h : h = [key |-> p.key, items |-> p.items]
      OBVIOUS
    <3>2. h \in ToSet(history') /\ h.items = p.items
      BY <2>1, <3>1
    <3> QED
      BY <3>2 DEF InHistory
  <2>4. Gone \subseteq Gone' /\ Files = Files' /\ \A i \in p.items : i.id \in Gone'
    BY <1>1, <1>2, <2>2, <2>3 DEF Gone, Files
  <2> QED
    BY <1>1, <2>1, <2>4 DEF Growth
<1>3. CASE history' = history /\ lost' = lost \union {i.id : i \in p.items}
  <2>1. InHistory' = InHistory
    BY <1>3 DEF InHistory
  <2>2. Gone \subseteq Gone' /\ Files \subseteq Files' /\ \A i \in p.items : i.id \in Gone'
    BY <1>1, <1>3, <2>1 DEF Gone, Files
  <2>3. \A h \in ToSet(history) : h \in ToSet(history')
    BY <1>3
  <2> QED
    BY <1>1, <1>3, <2>2, <2>3 DEF Growth
<1> QED
  BY <1>2, <1>3 DEF AppendPuts

LEMMA FilesLostGrows ==
  ASSUME TypeInv, FilesLost
  PROVE  Growth
<1>1. /\ made \in Nat \ {0} /\ offloads \in Nat
      /\ made' = made /\ offloads' = offloads /\ told' = told
      /\ history' = <<>> /\ stored' = {}
      /\ lost' = lost \union stored \union InHistory
  BY DEF TypeInv, FilesLost, InHistory
<1>2. Gone \subseteq Gone' /\ Files \subseteq Files'
  BY <1>1 DEF Gone, Files
<1>3. history' \in Seq(Sections)
  BY <1>1, EmptySeq
<1>4. \A h \in ToSet(history) : {i.id : i \in h.items} \subseteq lost'
  BY <1>1 DEF InHistory
<1> QED
  BY <1>1, <1>2, <1>3, <1>4 DEF Growth

-----------------------------------------------------------------------------
(***************************************************************************)
(* The agents                                                              *)
(***************************************************************************)

SameAgent(a) ==
  /\ msgs'[a] = msgs[a] /\ event'[a] = event[a] /\ pc'[a] = pc[a]
  /\ cut'[a] = cut[a] /\ done'[a] = done[a]

LEMMA AgentOKLater ==
  ASSUME NEW ms, NEW ev, NEW w, NEW k, NEW n \in Nat, AgentOK(ms, ev, w, k, n),
         NEW n2 \in Nat, n <= n2
  PROVE  AgentOK(ms, ev, w, k, n2)
<1>1. ASSUME NEW i \in 1..Len(ms) PROVE ms[i].id[1] < n2
  <2>1. ms[i] \in Msg /\ ms[i].id[1] < n
    BY <1>1 DEF AgentOK
  <2>2. ms[i].id[1] \in Nat
    BY <2>1, MsgFields
  <2> QED
    BY <2>1, <2>2
<1> QED
  BY <1>1 DEF AgentOK

LEMMA CommandsKept ==
  ASSUME NEW ms, NEW ev, NEW c, NEW d, NEW gone, NEW files, NEW gone2, NEW files2,
         gone \subseteq gone2, files \subseteq files2,
         CommandOK(ms, ev, c, d, gone, files)
  PROVE  CommandOK(ms, ev, c, d, gone2, files2)
BY DEF CommandOK

LEMMA AgentKeeps ==
  ASSUME TypeInv, NEW a \in Agents, AgentInv(a), SameAgent(a), Growth
  PROVE  AgentInv(a)'
<1>1. made \in Nat /\ made' \in Nat /\ made <= made'
  BY DEF TypeInv, Growth
<1>2. AgentOK(msgs'[a], event'[a], pc'[a], cut'[a], made')
  BY <1>1, AgentOKLater DEF AgentInv, SameAgent
<1>3. KeptOK(msgs'[a], event'[a], Gone', Files')
  BY DEF AgentInv, SameAgent, Growth, KeptOK
<1>4. \A c \in DOMAIN done'[a] : CommandOK(msgs'[a], event'[a], c, done'[a][c], Gone', Files')
  <2>1. SUFFICES ASSUME NEW c \in DOMAIN done[a]
                 PROVE CommandOK(msgs[a], event[a], c, done[a][c], Gone', Files')
    BY DEF SameAgent
  <2>2. CommandOK(msgs[a], event[a], c, done[a][c], Gone, Files)
    BY DEF AgentInv
  <2> QED
    BY <2>2, CommandsKept DEF Growth
<1>5. pc'[a] # "tools" => DOMAIN done'[a] = {}
  BY DEF AgentInv, SameAgent
<1> QED
  BY <1>2, <1>3, <1>4, <1>5 DEF AgentInv

\* An agent that is reset.
LEMMA AgentReset ==
  ASSUME NEW a \in Agents, Growth,
         msgs'[a] = <<>>, event'[a] = None, pc'[a] = "idle", cut'[a] = 0, DOMAIN done'[a] = {}
  PROVE  AgentInv(a)'
<1>1. AgentOK(<<>>, None, "idle", 0, made')
  <2>1. <<>> \in Seq(Msg) /\ Len(<<>>) = 0
    BY EmptySeq
  <2>2. Conversation(<<>>) /\ Safe(<<>>, CutoffOf(None))
    BY <2>1 DEF Conversation, Safe, CutoffOf
  <2> QED
    BY <2>1, <2>2 DEF AgentOK, Events, Works
<1>2. KeptOK(<<>>, None, Gone', Files')
  BY EmptySeq DEF KeptOK, CutoffOf
<1> QED
  BY <1>1, <1>2 DEF AgentInv

\* The main agent keeps its messages and its summary when a run ends.
LEMMA AgentStops ==
  ASSUME TypeInv, NEW a \in Agents, AgentInv(a), Growth,
         msgs'[a] = msgs[a], event'[a] = event[a], pc'[a] = "idle", cut'[a] = 0,
         DOMAIN done'[a] = {}
  PROVE  AgentInv(a)'
<1>1. made \in Nat /\ made' \in Nat /\ made <= made'
  BY DEF TypeInv, Growth
<1>2. AgentOK(msgs[a], event[a], "idle", 0, made)
  BY DEF AgentInv, AgentOK, Works
<1>3. AgentOK(msgs'[a], event'[a], pc'[a], cut'[a], made')
  BY <1>1, <1>2, AgentOKLater
<1>4. KeptOK(msgs'[a], event'[a], Gone', Files')
  BY DEF AgentInv, Growth, KeptOK
<1> QED
  BY <1>3, <1>4 DEF AgentInv

LEMMA EffectiveView ==
  ASSUME NEW ms \in Seq(Msg), NEW ev \in Events, Safe(ms, CutoffOf(ev))
  PROVE  CutoffOf(ev) \in Nat /\ View(EffectiveOf(ms, ev), ms, CutoffOf(ev))
<1>1. View(ms, ms, 0)
  BY DEF View, Before, Alike
<1>2. CASE ev = None
  BY <1>1, <1>2 DEF CutoffOf, EffectiveOf
<1>3. CASE ev # None
  <2>1. PICK e \in Nat \ {0} : e = ev.cutoff /\ e = CutoffOf(ev)
    BY <1>3 DEF Events, CutoffOf
  <2>2. e < Len(ms) /\ Len(ms) \in Nat
    BY <2>1 DEF Safe
  <2>3. EffectiveOf(ms, ev) = <<Summary>> \o SubSeq(ms, e + 1, Len(ms))
    BY <1>3, <2>1, <2>2 DEF EffectiveOf
  <2>4. View(<<Summary>> \o SubSeq(ms, e + 1, Len(ms)), ms, Before(0) + e)
    BY <1>1, <2>2, SummaryView
  <2>5. Before(0) + e = e
    BY DEF Before
  <2> QED
    BY <2>1, <2>3, <2>4, <2>5
<1> QED
  BY <1>2, <1>3

\* A new cutoff is behind the one before, and safe.
LEMMA NewCutoff ==
  ASSUME NEW ms \in Seq(Msg), Conversation(ms), NEW e \in Nat, Safe(ms, e),
         NEW Q, View(Q, ms, e), SafeCutoff(Q) > 0
  PROVE  LET c == Before(e) + SafeCutoff(Q)
         IN  c \in Nat \ {0} /\ e <= c /\ c < Len(ms) /\ Safe(ms, c)
<1>1. PICK n \in Nat : n = SafeCutoff(Q)
  BY SafeCutoffIsSafe
<1>2. n > 0 /\ n < Len(Q) /\ Safe(ms, Before(e) + n)
  BY <1>1, SafeCutoffIsSafe
<1>3. PICK b \in Nat : b = Before(e) /\ e <= b + 1
  BY DEF Before
<1>4. b + n \in Nat \ {0} /\ e <= b + n
  BY <1>2, <1>3
<1>5. b + n < Len(ms)
  BY <1>2, <1>3, <1>4 DEF Safe
<1> QED
  BY <1>1, <1>2, <1>3, <1>4, <1>5

LEMMA CompactCutoff ==
  ASSUME NEW ms, NEW ev, NEW w, NEW k, NEW n, AgentOK(ms, ev, w, k, n),
         SafeCutoff(EffectiveOf(ms, ev)) > 0
  PROVE  /\ CompactedAt(ms, ev) \in Nat \ {0} /\ CutoffOf(ev) <= CompactedAt(ms, ev)
         /\ CompactedAt(ms, ev) < Len(ms) /\ Safe(ms, CompactedAt(ms, ev))
<1>1. ms \in Seq(Msg) /\ ev \in Events /\ Conversation(ms) /\ Safe(ms, CutoffOf(ev))
  BY DEF AgentOK
<1>2. CutoffOf(ev) \in Nat /\ View(EffectiveOf(ms, ev), ms, CutoffOf(ev))
  BY <1>1, EffectiveView
<1> QED
  BY <1>1, <1>2, NewCutoff DEF CompactedAt

LEMMA SummaryCutoff ==
  ASSUME NEW ms, NEW ev, NEW k, NEW n, AgentOK(ms, ev, "summary", k, n)
  PROVE  /\ Before(CutoffOf(ev)) + k \in Nat \ {0} /\ CutoffOf(ev) <= Before(CutoffOf(ev)) + k
         /\ Before(CutoffOf(ev)) + k < Len(ms) /\ Safe(ms, Before(CutoffOf(ev)) + k)
<1>1. ms \in Seq(Msg) /\ ev \in Events /\ Conversation(ms) /\ Safe(ms, CutoffOf(ev))
  BY DEF AgentOK
<1>2. CutoffOf(ev) \in Nat /\ View(Truncated(EffectiveOf(ms, ev)), ms, CutoffOf(ev))
  BY <1>1, EffectiveView, TruncatedView
<1>3. k = SafeCutoff(Truncated(EffectiveOf(ms, ev))) /\ k > 0
  BY DEF AgentOK
<1> QED
  BY <1>1, <1>2, <1>3, NewCutoff

\* _compute_state_cutoff is exact.
LEMMA StateCutoffIs ==
  ASSUME NEW a, event[a] \in Events, NEW n \in Nat
  PROVE  StateCutoff(a, n) = Before(CutoffOf(event[a])) + n
<1>1. CASE event[a] = None
  BY <1>1 DEF StateCutoff, Before, CutoffOf
<1>2. CASE event[a] # None
  <2>1. event[a].cutoff \in Nat \ {0}
    BY <1>2 DEF Events
  <2> QED
    BY <1>2, <2>1 DEF StateCutoff, Before, CutoffOf
<1> QED
  BY <1>1, <1>2

\* The conversation goes on with a message of the user or the model ...
LEMMA AppendOneOK ==
  ASSUME NEW ms, NEW ev, NEW n \in Nat, AgentOK(ms, ev, "idle", 0, n), Closed(ms),
         NEW m \in Msg, m.type \in {"human", "ai"}, m.id = <<n, 0>>,
         m.type = "human" => m.calls = <<>>
  PROVE  /\ AgentOK(Append(ms, m), ev, "idle", 0, n + 1)
         /\ m.type = "human" => Closed(Append(ms, m))
<1>1. ms \in Seq(Msg) /\ Conversation(ms) /\ \A i \in 1..Len(ms) : ms[i].id[1] < n
  BY DEF AgentOK
<1>2. m.id[1] = n /\ m.id[2] = 0
  OBVIOUS
<1>3. Conversation(Append(ms, m)) /\ Append(ms, m) \in Seq(Msg)
  BY <1>1, <1>2, NextMessage
<1>4. PICK r \in Seq(Msg) : r = Append(ms, m)
  BY <1>3
<1>5. Len(r) = Len(ms) + 1 /\ r[Len(r)] = m /\ \A i \in 1..Len(ms) : r[i] = ms[i]
  BY <1>1, <1>4
<1>6. \A i \in 1..Len(r) : r[i].id[1] < n + 1
  <2>1. SUFFICES ASSUME NEW i \in 1..Len(r) PROVE r[i].id[1] < n + 1
    OBVIOUS
  <2>2. CASE i = Len(r)
    BY <1>2, <1>5, <2>2
  <2>3. CASE i \in 1..Len(ms)
    <3>1. ms[i].id[1] \in Nat /\ ms[i].id[1] < n
      BY <1>1, <2>3, MsgFields
    <3> QED
      BY <1>5, <2>3, <3>1
  <2> QED
    BY <1>5, <2>2, <2>3
<1>7. Safe(r, CutoffOf(ev))
  <2>1. Safe(ms, CutoffOf(ev)) /\ ev \in Events
    BY DEF AgentOK
  <2>2. CutoffOf(ev) \in Nat
    BY <2>1 DEF CutoffOf, Events
  <2> QED
    BY <1>1, <1>5, <2>1, <2>2 DEF Safe
<1>8. m.type = "human" => Closed(r)
  <2>1. SUFFICES ASSUME m.type = "human", NEW i \in 1..Len(r), r[i].type = "ai"
                 PROVE  Answered(r, i)
    BY DEF Closed
  <2>2. i < Len(r)
    BY <1>5, <2>1
  <2> QED
    BY <1>3, <1>4, <2>1, <2>2 DEF Conversation, MessageOK
<1> QED
  BY <1>3, <1>4, <1>6, <1>7, <1>8 DEF AgentOK

\* ... and with the answers to the last one.
LEMMA AppendAnswersOK ==
  ASSUME NEW ms, NEW ev, NEW n \in Nat, AgentOK(ms, ev, "idle", 0, n), ms # <<>>,
         NEW ans \in Seq(Msg), Len(ans) = Len(ms[Len(ms)].calls),
         \A k \in 1..Len(ans) :
           /\ ans[k].type = "tool" /\ ans[k].id = <<ms[Len(ms)].id[1], k>>
           /\ ans[k].calls = <<>>
  PROVE  AgentOK(ms \o ans, ev, "idle", 0, n) /\ Closed(ms \o ans)
<1>1. ms \in Seq(Msg) /\ Conversation(ms) /\ \A i \in 1..Len(ms) : ms[i].id[1] < n
  BY DEF AgentOK
<1>2. Conversation(ms \o ans) /\ Closed(ms \o ans) /\ ms \o ans \in Seq(Msg)
  BY <1>1, NextAnswers
<1>3. PICK r \in Seq(Msg) : r = ms \o ans
  BY <1>2
<1>4. Len(r) = Len(ms) + Len(ans) /\ Len(ans) \in Nat /\ Len(ms) \in 1..Len(ms)
  <2>1. Len(ms) \in Nat \ {0}
    BY <1>1, EmptySeq
  <2>2. Len(ans) \in Nat
    OBVIOUS
  <2>3. Len(r) = Len(ms) + Len(ans)
    BY <1>1, <1>3, Concat
  <2> QED
    BY <2>1, <2>2, <2>3
<1>5. \A i \in 1..Len(ms) : r[i] = ms[i]
  BY <1>1, <1>3, Concat
<1>6. \A k \in 1..Len(ans) : r[Len(ms) + k] = ans[k]
  BY <1>1, <1>3, Concat
<1>7. \A i \in 1..Len(r) : r[i].id[1] < n
  <2>1. SUFFICES ASSUME NEW i \in 1..Len(r) PROVE r[i].id[1] < n
    OBVIOUS
  <2>2. CASE i \in 1..Len(ms)
    BY <1>1, <1>5, <2>2
  <2>3. CASE i > Len(ms)
    <3>1. PICK k \in 1..Len(ans) : i = Len(ms) + k
      <4>1. i - Len(ms) \in 1..Len(ans) /\ i = Len(ms) + (i - Len(ms))
        BY <1>4, <2>3
      <4> QED
        BY <4>1
    <3>2. r[i].id[1] = ms[Len(ms)].id[1]
      BY <1>6, <3>1
    <3> QED
      BY <1>1, <1>4, <3>2
  <2> QED
    BY <1>1, <2>2, <2>3
<1>8. Safe(r, CutoffOf(ev))
  <2>1. Safe(ms, CutoffOf(ev)) /\ ev \in Events
    BY DEF AgentOK
  <2>2. CutoffOf(ev) \in Nat
    BY <2>1 DEF CutoffOf, Events
  <2> QED
    <3>1. PICK e \in Nat : e = CutoffOf(ev)
      BY <2>2
    <3>2. SUFFICES ASSUME e # 0 PROVE e < Len(r) /\ r[e + 1].type # "tool"
      BY <3>1 DEF Safe
    <3>3. e < Len(ms) /\ ms[e + 1].type # "tool"
      BY <2>1, <3>1, <3>2 DEF Safe
    <3>4. e + 1 \in 1..Len(ms) /\ Len(ms) <= Len(r)
      BY <1>4, <3>3
    <3> QED
      BY <1>4, <1>5, <3>3, <3>4
<1> QED
  BY <1>2, <1>3, <1>7, <1>8 DEF AgentOK

LEMMA KeptLonger ==
  ASSUME NEW ms \in Seq(Msg), NEW ev \in Events, Safe(ms, CutoffOf(ev)),
         NEW gone, NEW files, KeptOK(ms, ev, gone, files),
         NEW r \in Seq(Msg), Len(ms) <= Len(r), \A i \in 1..Len(ms) : r[i] = ms[i],
         \A i \in (Len(ms) + 1)..Len(r) : r[i].how = "evicted" => r[i].id \in files
  PROVE  KeptOK(r, ev, gone, files)
<1>1. PICK e \in Nat : e = CutoffOf(ev)
  BY DEF CutoffOf, Events
<1>2. e <= Len(ms)
  BY <1>1 DEF Safe
<1>3. \A i \in 1..e : r[i].id \in gone
  BY <1>1, <1>2 DEF KeptOK
<1>4. \A i \in 1..Len(r) : r[i].how = "evicted" => r[i].id \in files
  <2>1. SUFFICES ASSUME NEW i \in 1..Len(r), r[i].how = "evicted" PROVE r[i].id \in files
    OBVIOUS
  <2>2. CASE i \in 1..Len(ms)
    BY <2>1, <2>2 DEF KeptOK
  <2>3. CASE i \in (Len(ms) + 1)..Len(r)
    BY <2>1, <2>3
  <2> QED
    BY <2>2, <2>3
<1> QED
  BY <1>1, <1>3, <1>4 DEF KeptOK

LEMMA HumanIsMsg ==
  ASSUME made \in Nat
  PROVE  /\ Human \in Msg /\ Human.type = "human" /\ Human.calls = <<>>
         /\ Human.id = <<made, 0>> /\ Human.how = "whole"
<1>1. <<>> \in Seq(STRING) /\ <<made, 0>> \in Nat \X Nat
  BY EmptySeq
<1> QED
  BY <1>1 DEF Human, Message, Msg, Types, Hows

LEMMA AiIsMsg ==
  ASSUME made \in Nat, NEW plan \in Seq(STRING)
  PROVE  /\ Ai(plan) \in Msg /\ Ai(plan).type = "ai" /\ Ai(plan).calls = plan
         /\ Ai(plan).id = <<made, 0>> /\ Ai(plan).how = "whole"
<1>1. <<made, 0>> \in Nat \X Nat
  OBVIOUS
<1> QED
  BY <1>1 DEF Ai, Message, Msg, Types, Hows

\* The messages after a message of the user.
LEMMA UserMessageOK ==
  ASSUME NEW ms, NEW ev, AgentOK(ms, ev, "idle", 0, made), made \in Nat,
         NEW gone, NEW files, KeptOK(ms, ev, gone, files),
         NEW r, r = Patched(Append(ms, Human))
  PROVE  /\ AgentOK(r, ev, "model", 0, made + 1) /\ KeptOK(r, ev, gone, files)
         /\ Len(ms) < Len(r) /\ \A i \in 1..Len(ms) : r[i] = ms[i]
         /\ \A i \in (Len(ms) + 1)..Len(r) :
              r[i].calls = <<>> /\ (r[i].type = "tool" => r[i].how = "cancelled")
<1>1. /\ ms \in Seq(Msg) /\ Conversation(ms) /\ ev \in Events /\ Safe(ms, CutoffOf(ev))
      /\ Len(ms) \in Nat
  BY DEF AgentOK
<1>2. r = Append(ms \o Cancelled(ms), Human) /\ Cancelled(ms) \in Seq(Msg)
  BY <1>1, HumanIsMsg, PatchedMessages
<1>3. PICK C \in Seq(Msg) : C = Cancelled(ms)
  BY <1>2
<1>4. PICK x : x = ms \o C
  OBVIOUS
<1>5. x \in Seq(Msg) /\ Len(x) = Len(ms) + Len(C) /\ Len(C) \in Nat
  <2>1. x \in Seq(Msg)
    BY <1>1, <1>4
  <2>2. Len(x) = Len(ms) + Len(C)
    BY <1>1, <1>4, Concat
  <2>3. Len(C) \in Nat
    OBVIOUS
  <2> QED
    BY <2>1, <2>2, <2>3
<1>6. \A i \in 1..Len(ms) : x[i] = ms[i]
  BY <1>1, <1>4, Concat
<1>7. \A k \in 1..Len(C) : x[Len(ms) + k] = C[k]
  BY <1>1, <1>4, Concat
<1>8. \A k \in 1..Len(C) :
        /\ C[k].type = "tool" /\ C[k].calls = <<>> /\ C[k].how = "cancelled"
        /\ ms # <<>> /\ C[k].id = <<ms[Len(ms)].id[1], k>>
  <2>1. SUFFICES ASSUME NEW k \in 1..Len(C)
                 PROVE  /\ C[k].type = "tool" /\ C[k].calls = <<>> /\ C[k].how = "cancelled"
                        /\ ms # <<>> /\ C[k].id = <<ms[Len(ms)].id[1], k>>
    OBVIOUS
  <2>2. ms # <<>>
    BY <1>3, EmptySeq DEF Cancelled
  <2>3. C = [j \in 1..Len(ms[Len(ms)].calls) |-> Tool(<<ms[Len(ms)].id[1], j>>, "cancelled")]
    BY <1>3, <2>2 DEF Cancelled
  <2>4. k \in DOMAIN C
    OBVIOUS
  <2>5. C[k] = Tool(<<ms[Len(ms)].id[1], k>>, "cancelled")
    BY <2>3, <2>4
  <2> QED
    BY <2>2, <2>5 DEF Tool, Message
<1>9. AgentOK(x, ev, "idle", 0, made) /\ Closed(x)
  <2>1. CASE ms = <<>>
    <3>1. C = <<>>
      BY <1>3, <2>1 DEF Cancelled
    <3>2. x = <<>>
      <4>1. <<>> \o <<>> = <<>>
        BY <1>1, <2>1, ConcatEmptySeq
      <4> QED
        BY <1>4, <2>1, <3>1, <4>1
    <3>3. Closed(x)
      BY <3>2, EmptySeq DEF Closed
    <3> QED
      BY <2>1, <3>2, <3>3
  <2>2. CASE ms # <<>>
    <3>1. Len(C) = Len(ms[Len(ms)].calls)
      <4>1. C = [j \in 1..Len(ms[Len(ms)].calls) |-> Tool(<<ms[Len(ms)].id[1], j>>, "cancelled")]
        BY <1>3, <2>2 DEF Cancelled
      <4>2. Len(ms) \in 1..Len(ms)
        BY <1>1, <2>2, EmptySeq
      <4>3. Len(ms[Len(ms)].calls) \in Nat
        BY <1>1, <4>2, MsgFields
      <4>4. DOMAIN C = 1..Len(ms[Len(ms)].calls)
        BY <4>1
      <4> QED
        BY <1>5, <4>3, <4>4
    <3> QED
      BY <1>4, <1>8, <2>2, <3>1, AppendAnswersOK
  <2> QED
    BY <2>1, <2>2
<1>10. AgentOK(r, ev, "idle", 0, made + 1) /\ Closed(r)
  BY <1>2, <1>3, <1>4, <1>9, HumanIsMsg, AppendOneOK
<1>11. AgentOK(r, ev, "model", 0, made + 1)
  BY <1>10 DEF AgentOK, Works
<1>12. r \in Seq(Msg) /\ Len(r) = Len(x) + 1 /\ r[Len(r)] = Human /\ \A i \in 1..Len(x) : r[i] = x[i]
  BY <1>2, <1>3, <1>4, <1>5, HumanIsMsg
<1>13. \A i \in 1..Len(ms) : r[i] = ms[i]
  BY <1>1, <1>5, <1>6, <1>12
<1>14. ASSUME NEW i \in (Len(ms) + 1)..Len(r)
       PROVE  /\ r[i].calls = <<>> /\ (r[i].type = "tool" => r[i].how = "cancelled")
              /\ r[i].how # "evicted"
  <2>1. CASE i = Len(r)
    BY <1>12, <2>1, HumanIsMsg
  <2>2. CASE i # Len(r)
    <3>1. PICK k \in 1..Len(C) : i = Len(ms) + k
      <4>1. i - Len(ms) \in 1..Len(C) /\ i = Len(ms) + (i - Len(ms))
        BY <1>1, <1>5, <1>12, <1>14, <2>2
      <4> QED
        BY <4>1
    <3>2. r[i] = C[k]
      BY <1>1, <1>5, <1>7, <1>12, <3>1
    <3> QED
      BY <1>8, <3>2
  <2> QED
    BY <2>1, <2>2
<1>15. Len(ms) < Len(r)
  BY <1>1, <1>5, <1>12
<1>16. KeptOK(r, ev, gone, files)
  BY <1>1, <1>12, <1>13, <1>14, <1>15, KeptLonger
<1> QED
  BY <1>11, <1>13, <1>14, <1>15, <1>16

\* The messages after an answer of the model.
LEMMA AnswerOK ==
  ASSUME NEW ms, NEW ev, AgentOK(ms, ev, "idle", 0, made), made \in Nat, Closed(ms),
         NEW plan \in Seq(STRING), NEW w \in {"idle", "tools", "finished"}
  PROVE  /\ AgentOK(Append(ms, Ai(plan)), ev, w, 0, made + 1)
         /\ Last(Append(ms, Ai(plan))) = Ai(plan)
<1>1. ms \in Seq(Msg)
  BY DEF AgentOK
<1>2. AgentOK(Append(ms, Ai(plan)), ev, "idle", 0, made + 1)
  BY AiIsMsg, AppendOneOK
<1>3. PICK r : r = Append(ms, Ai(plan))
  OBVIOUS
<1>4. r # <<>> /\ r[Len(r)].type = "ai" /\ Last(r) = Ai(plan)
  BY <1>1, <1>3, AiIsMsg, EmptySeq DEF Last
<1>5. AgentOK(r, ev, w, 0, made + 1)
  BY <1>2, <1>3, <1>4 DEF AgentOK, Works
<1> QED
  BY <1>3, <1>4, <1>5

LEMMA AnswerKept ==
  ASSUME NEW ms, NEW ev, AgentOK(ms, ev, "idle", 0, made), made \in Nat,
         NEW gone, NEW files, KeptOK(ms, ev, gone, files), NEW plan \in Seq(STRING)
  PROVE  KeptOK(Append(ms, Ai(plan)), ev, gone, files)
<1>1. ms \in Seq(Msg) /\ ev \in Events /\ Safe(ms, CutoffOf(ev)) /\ Len(ms) \in Nat
  BY DEF AgentOK
<1>2. PICK r : r = Append(ms, Ai(plan))
  OBVIOUS
<1>3. /\ r \in Seq(Msg) /\ Len(r) = Len(ms) + 1 /\ r[Len(r)] = Ai(plan)
      /\ \A i \in 1..Len(ms) : r[i] = ms[i]
  BY <1>1, <1>2, AiIsMsg
<1>4. Len(ms) <= Len(r)
  BY <1>1, <1>3
<1>5. \A i \in (Len(ms) + 1)..Len(r) : r[i].how = "evicted" => r[i].id \in files
  BY <1>1, <1>3, AiIsMsg
<1> QED
  BY <1>1, <1>2, <1>3, <1>4, <1>5, KeptLonger

LEMMA NewEventOK ==
  ASSUME NEW ms, NEW ev, NEW n, AgentOK(ms, ev, "idle", 0, n),
         NEW c \in Nat \ {0}, Safe(ms, c), NEW f \in BOOLEAN,
         NEW ev2, ev2 = [cutoff |-> c, file |-> f]
  PROVE  AgentOK(ms, ev2, "idle", 0, n) /\ CutoffOf(ev2) = c /\ ev2 \in Events /\ ev2 # None
<1>1. ev2 \in [cutoff : Nat, file : BOOLEAN] /\ ev2 \in Events /\ ev2.cutoff = c
  BY DEF Events
<1>2. ev2 # None
  BY <1>1, AgAssumption DEF AgAssumption
<1>3. CutoffOf(ev2) = c
  BY <1>1, <1>2 DEF CutoffOf
<1> QED
  BY <1>1, <1>2, <1>3 DEF AgentOK

LEMMA LastMessage ==
  ASSUME NEW ms, NEW ev, NEW k, NEW n, AgentOK(ms, ev, "tools", k, n)
  PROVE  /\ ms # <<>> /\ Len(ms) \in Nat \ {0} /\ Len(ms) \in 1..Len(ms)
         /\ Last(ms) = ms[Len(ms)] /\ Last(ms) \in Msg /\ Last(ms).type = "ai"
         /\ DOMAIN Last(ms).calls = 1..Len(Last(ms).calls) /\ Len(Last(ms).calls) \in Nat
         /\ Last(ms).id[1] \in Nat /\ Last(ms).id[1] < n
<1>1. ms \in Seq(Msg) /\ ms # <<>> /\ ms[Len(ms)].type = "ai"
  BY DEF AgentOK
<1>2. Len(ms) \in Nat \ {0} /\ Len(ms) \in 1..Len(ms)
  BY <1>1, EmptySeq
<1>3. Last(ms) = ms[Len(ms)] /\ Last(ms) \in Msg
  BY <1>1, <1>2 DEF Last
<1>4. Last(ms).calls \in Seq(STRING) /\ Last(ms).id[1] \in Nat
  BY <1>3, MsgFields
<1> QED
  BY <1>1, <1>2, <1>3, <1>4 DEF AgentOK

\* The messages and the summary after the calls of a step.
LEMMA MergeOK ==
  ASSUME NEW ms, NEW ev, NEW n \in Nat, AgentOK(ms, ev, "tools", 0, n),
         NEW gone, NEW files, KeptOK(ms, ev, gone, files),
         NEW d, DOMAIN d = CallsOf(Last(ms)),
         \A c \in DOMAIN d : CommandOK(ms, ev, c, d[c], gone, files),
         NEW ans,
         ans = [k \in 1..Len(Last(ms).calls) |-> d[<<Last(ms).id[1], k>>].msg],
         NEW ev2, ev2 = ev \/ \E c \in DOMAIN d : d[c].event # None /\ ev2 = d[c].event
  PROVE  /\ AgentOK(ms \o ans, ev2, "model", 0, n) /\ KeptOK(ms \o ans, ev2, gone, files)
         /\ CutoffOf(ev) <= CutoffOf(ev2) /\ (ev # None => ev2 # None)
         /\ ans \in Seq(Msg) /\ Len(ans) = Len(Last(ms).calls)
<1>1. /\ ms \in Seq(Msg) /\ Len(ms) \in Nat /\ ms # <<>> /\ ev \in Events
      /\ Last(ms) = ms[Len(ms)] /\ Len(Last(ms).calls) \in Nat
      /\ DOMAIN Last(ms).calls = 1..Len(Last(ms).calls)
      /\ Safe(ms, CutoffOf(ev))
  BY LastMessage DEF AgentOK
<1>2. \A k \in 1..Len(Last(ms).calls) :
        /\ ans[k] \in Msg /\ ans[k].type = "tool" /\ ans[k].id = <<Last(ms).id[1], k>>
        /\ ans[k].calls = <<>>
        /\ ans[k].how = "evicted" => ans[k].id \in files
  <2>1. SUFFICES ASSUME NEW k \in 1..Len(Last(ms).calls)
                 PROVE  /\ ans[k] \in Msg /\ ans[k].type = "tool"
                        /\ ans[k].id = <<Last(ms).id[1], k>> /\ ans[k].calls = <<>>
                        /\ ans[k].how = "evicted" => ans[k].id \in files
    OBVIOUS
  <2>2. PICK c : c = <<Last(ms).id[1], k>>
    OBVIOUS
  <2>3. c \in DOMAIN d
    BY <1>1, <2>2 DEF CallsOf
  <2>4. CommandOK(ms, ev, c, d[c], gone, files)
    BY <2>3
  <2>5. ans[k] = d[c].msg
    BY <2>2
  <2> QED
    BY <2>2, <2>4, <2>5 DEF CommandOK
<1>3. ans \in Seq(Msg) /\ Len(ans) = Len(Last(ms).calls)
  <2>1. ans = [k \in 1..Len(Last(ms).calls) |-> ans[k]]
    OBVIOUS
  <2> QED
    <3>1. PICK N \in Nat : N = Len(Last(ms).calls)
      BY <1>1
    <3>2. ans = [k \in 1..N |-> ans[k]] /\ \A k \in 1..N : ans[k] \in Msg
      BY <1>2, <2>1, <3>1
    <3>3. ans \in Seq(Msg) /\ Len(ans) = N
      BY ONLY <3>1, <3>2, FunIsSeq
    <3> QED
      BY <3>1, <3>3
<1>4. AgentOK(ms, ev, "idle", 0, n)
  BY DEF AgentOK, Works
<1>5. /\ AgentOK(ms, ev2, "idle", 0, n) /\ KeptOK(ms, ev2, gone, files)
      /\ CutoffOf(ev) <= CutoffOf(ev2) /\ (ev # None => ev2 # None)
      /\ ev2 \in Events /\ Safe(ms, CutoffOf(ev2))
  <2>1. CASE ev2 = ev
    <3>1. CutoffOf(ev) <= CutoffOf(ev)
      BY <1>1, EffectiveView
    <3> QED
      BY <1>1, <1>4, <2>1, <3>1
  <2>2. CASE \E c \in DOMAIN d : d[c].event # None /\ ev2 = d[c].event
    <3>1. PICK c \in DOMAIN d : d[c].event # None /\ ev2 = d[c].event
      BY <2>2
    <3>2. /\ ev2 \in Events /\ ev2 # None /\ SafeCutoff(EffectiveOf(ms, ev)) > 0
          /\ ev2.cutoff = CompactedAt(ms, ev)
          /\ \A i \in 1..CompactedAt(ms, ev) : ms[i].id \in gone
      BY <3>1 DEF CommandOK
    <3>3. PICK x \in Nat \ {0} : x = CompactedAt(ms, ev) /\ CutoffOf(ev) <= x /\ Safe(ms, x)
      BY <1>4, <3>2, CompactCutoff
    <3>4. CutoffOf(ev2) = x
      BY <3>2, <3>3 DEF CutoffOf
    <3>5. AgentOK(ms, ev2, "idle", 0, n)
      BY <1>4, <3>2, <3>3, <3>4 DEF AgentOK
    <3>6. KeptOK(ms, ev2, gone, files)
      BY <3>2, <3>3, <3>4 DEF KeptOK
    <3> QED
      BY <3>2, <3>3, <3>4, <3>5, <3>6
  <2> QED
    BY <2>1, <2>2
<1>6. PICK r : r = ms \o ans
  OBVIOUS
<1>7. AgentOK(r, ev2, "idle", 0, n) /\ Closed(r)
  BY <1>1, <1>2, <1>3, <1>5, <1>6, AppendAnswersOK
<1>8. AgentOK(r, ev2, "model", 0, n)
  BY <1>7 DEF AgentOK, Works
<1>9. r \in Seq(Msg) /\ Len(r) = Len(ms) + Len(ans) /\ Len(ans) \in Nat
  <2>1. r \in Seq(Msg)
    BY <1>7 DEF AgentOK
  <2>2. Len(r) = Len(ms) + Len(ans)
    BY <1>1, <1>3, <1>6, Concat
  <2> QED
    BY <1>1, <1>3, <2>1, <2>2
<1>10. \A i \in 1..Len(ms) : r[i] = ms[i]
  BY <1>1, <1>3, <1>6, Concat
<1>11. \A k \in 1..Len(ans) : r[Len(ms) + k] = ans[k]
  BY <1>1, <1>3, <1>6, Concat
<1>12. ASSUME NEW i \in (Len(ms) + 1)..Len(r)
       PROVE  r[i].how = "evicted" => r[i].id \in files
  <2>1. PICK k \in 1..Len(ans) : i = Len(ms) + k
    <3>1. i - Len(ms) \in 1..Len(ans) /\ i = Len(ms) + (i - Len(ms))
      BY <1>1, <1>9, <1>12
    <3> QED
      BY <3>1
  <2>2. r[i] = ans[k]
    BY <1>11, <2>1
  <2> QED
    BY <1>2, <1>3, <2>1, <2>2
<1>13. KeptOK(r, ev2, gone, files)
  <2>1. Len(ms) <= Len(r)
    BY <1>1, <1>9
  <2>2. \A i \in (Len(ms) + 1)..Len(r) : r[i].how = "evicted" => r[i].id \in files
    BY <1>12
  <2> QED
    BY <1>1, <1>5, <1>9, <1>10, <2>1, <2>2, KeptLonger
<1> QED
  BY <1>3, <1>5, <1>6, <1>8, <1>13

-----------------------------------------------------------------------------
(***************************************************************************)
(* The steps, one by one: types and agents                                 *)
(***************************************************************************)

LEMMA FunctionUpdate ==
  ASSUME NEW A, NEW f, f = [a \in A |-> f[a]], NEW x \in A, NEW e,
         NEW g, g = [f EXCEPT ![x] = e]
  PROVE  /\ g = [a \in A |-> g[a]]
         /\ g[x] = e /\ \A a \in A : a # x => g[a] = f[a]
OBVIOUS

\* All agents but one are as they were.
LEMMA OneAgent ==
  ASSUME TypeInv, AgentsInv, Growth, NEW a \in Agents,
         \A b \in Agents : b # a => SameAgent(b),
         AgentInv(a)'
  PROVE  AgentsInv'
<1>1. ASSUME NEW b \in Agents PROVE AgentInv(b)'
  BY <1>1, AgentKeeps DEF AgentsInv
<1> QED
  BY <1>1 DEF AgentsInv

LEMMA UserMessageAgents ==
  ASSUME TypeInv, AgentsInv, UserMessage
  PROVE  Growth /\ AgentsInv' /\ TypeInv'
<1>1. /\ pc[Main] = "idle" /\ made' = made + 1
      /\ msgs' = [msgs EXCEPT ![Main] = Patched(Append(msgs[Main], Human))]
      /\ pc' = [pc EXCEPT ![Main] = "model"]
      /\ event' = event /\ records' = records /\ cut' = cut /\ done' = done /\ task' = task
      /\ appends' = appends /\ history' = history /\ stored' = stored
      /\ told' = told /\ lost' = lost /\ offloads' = offloads
      /\ \/ fields' = fields
         \/ fields' = [fields EXCEPT ![Main] = [f \in {ErrorLog} |-> Human.id]]
  BY DEF UserMessage, Make, fileVars
<1>2. Growth
  BY <1>1, SameFilesGrow
<1>3. Main \in Agents /\ made \in Nat /\ ErrorLog \in Fields
  BY AgAssumption DEF AgAssumption, Agents, TypeInv
<1>4. AgentInv(Main)
  BY <1>3 DEF AgentsInv
<1>5. /\ msgs' = [a \in Agents |-> msgs'[a]] /\ msgs'[Main] = Patched(Append(msgs[Main], Human))
      /\ \A b \in Agents : b # Main => msgs'[b] = msgs[b]
  BY <1>1, <1>3, FunctionUpdate DEF TypeInv
<1>6. /\ pc' = [a \in Agents |-> pc'[a]] /\ pc'[Main] = "model"
      /\ \A b \in Agents : b # Main => pc'[b] = pc[b]
  BY <1>1, <1>3, FunctionUpdate DEF TypeInv
<1>7. AgentInv(Main)'
  <2>1. AgentOK(msgs[Main], event[Main], "idle", 0, made) /\ cut[Main] = 0
    BY <1>1, <1>4 DEF AgentInv, AgentOK
  <2>2. KeptOK(msgs[Main], event[Main], Gone, Files) /\ DOMAIN done[Main] = {}
    BY <1>1, <1>4 DEF AgentInv
  <2>3. KeptOK(msgs[Main], event[Main], Gone', Files')
    BY <1>2, <2>2 DEF Growth, KeptOK
  <2>4. /\ AgentOK(msgs'[Main], event[Main], "model", 0, made + 1)
        /\ KeptOK(msgs'[Main], event[Main], Gone', Files')
    BY <1>3, <1>5, <2>1, <2>3, UserMessageOK
  <2> QED
    BY <1>1, <1>6, <2>1, <2>2, <2>4 DEF AgentInv
<1>8. \A b \in Agents : b # Main => SameAgent(b)
  BY <1>1, <1>5, <1>6 DEF SameAgent
<1>9. AgentsInv'
  BY <1>2, <1>3, <1>7, <1>8, OneAgent
<1>10. fields' = [a \in Agents |-> fields'[a]] /\ \A a \in Agents : DOMAIN fields'[a] \subseteq Fields
  <2>1. CASE fields' = fields
    BY <2>1 DEF TypeInv
  <2>2. CASE fields' = [fields EXCEPT ![Main] = [f \in {ErrorLog} |-> Human.id]]
    <3>1. /\ fields' = [a \in Agents |-> fields'[a]]
          /\ fields'[Main] = [f \in {ErrorLog} |-> Human.id]
          /\ \A b \in Agents : b # Main => fields'[b] = fields[b]
      BY <1>3, <2>2, FunctionUpdate DEF TypeInv
    <3>2. DOMAIN fields'[Main] \subseteq Fields
      BY <1>3, <3>1
    <3> QED
      BY <3>1, <3>2 DEF TypeInv
  <2> QED
    BY <1>1, <2>1, <2>2
<1>11. TypeInv'
  BY <1>1, <1>2, <1>5, <1>6, <1>10 DEF TypeInv, Growth
<1> QED
  BY <1>2, <1>9, <1>11

\* The model answers, with no new summary.
LEMMA CallModelAgents ==
  ASSUME TypeInv, AgentsInv, NEW a \in Agents, CallModel(a)
  PROVE  Growth /\ AgentsInv' /\ TypeInv'
<1>1. PICK plan \in Plans(a) :
        /\ msgs' = [msgs EXCEPT ![a] = Append(msgs[a], Ai(plan))]
        /\ pc' = [pc EXCEPT ![a] = IF plan # <<>> THEN "tools"
                                   ELSE IF a = Main THEN "idle" ELSE "finished"]
  BY DEF CallModel, Responds
<1>2. /\ pc[a] = "model" /\ made' = made + 1 /\ offloads' = offloads
      /\ event' = event /\ cut' = cut /\ appends' = appends /\ fields' = fields
      /\ records' = records /\ done' = done /\ task' = task /\ history' = history
      /\ stored' = stored /\ told' = told /\ lost' = lost
  BY DEF CallModel, Responds, Make
<1>3. Growth
  BY <1>2, SameFilesGrow
<1>4. plan \in Seq(STRING) /\ made \in Nat
  BY AgAssumption DEF AgAssumption, Plans, TypeInv
<1>5. /\ msgs' = [b \in Agents |-> msgs'[b]] /\ msgs'[a] = Append(msgs[a], Ai(plan))
      /\ \A b \in Agents : b # a => msgs'[b] = msgs[b]
  BY <1>1, FunctionUpdate DEF TypeInv
<1>6. PICK w \in {"idle", "tools", "finished"} :
        w = IF plan # <<>> THEN "tools" ELSE IF a = Main THEN "idle" ELSE "finished"
  OBVIOUS
<1>7. /\ pc' = [b \in Agents |-> pc'[b]] /\ pc'[a] = w
      /\ \A b \in Agents : b # a => pc'[b] = pc[b]
  BY <1>1, <1>6, FunctionUpdate DEF TypeInv
<1>8. AgentInv(a)'
  <2>1. AgentOK(msgs[a], event[a], "idle", 0, made) /\ cut[a] = 0 /\ Closed(msgs[a])
    BY <1>2 DEF AgentsInv, AgentInv, AgentOK, Works
  <2>2. KeptOK(msgs[a], event[a], Gone, Files) /\ DOMAIN done[a] = {}
    BY <1>2 DEF AgentsInv, AgentInv
  <2>3. KeptOK(msgs[a], event[a], Gone', Files')
    BY <1>3, <2>2 DEF Growth, KeptOK
  <2>4. AgentOK(Append(msgs[a], Ai(plan)), event[a], w, 0, made + 1)
    BY <1>4, <2>1, AnswerOK
  <2>5. KeptOK(Append(msgs[a], Ai(plan)), event[a], Gone', Files')
    BY <1>4, <2>1, <2>3, AnswerKept
  <2> QED
    BY <1>2, <1>5, <1>7, <2>1, <2>2, <2>4, <2>5 DEF AgentInv
<1>9. \A b \in Agents : b # a => SameAgent(b)
  BY <1>2, <1>5, <1>7 DEF SameAgent
<1>10. AgentsInv'
  BY <1>3, <1>8, <1>9, OneAgent
<1>11. TypeInv'
  BY <1>2, <1>3, <1>5, <1>7 DEF TypeInv, Growth
<1> QED
  BY <1>3, <1>10, <1>11

LEMMA EffectivelyIs ==
  \A a \in Agents : /\ Effective(a) = EffectiveOf(msgs[a], event[a])
                    /\ Effectively(a) = Truncated(EffectiveOf(msgs[a], event[a]))
BY DEF Effective, Effectively, EffectiveOf

LEMMA SectionItems ==
  ASSUME NEW ms \in Seq(Msg)
  PROVE  Section(ms) \in SUBSET Items
<1>1. ASSUME NEW m \in ToSet(ms) PROVE [id |-> m.id, how |-> m.how] \in Items
  <2>1. m \in Msg
    BY <1>1 DEF ToSet
  <2> QED
    BY <2>1 DEF Msg, Items, Calls
<1> QED
  BY <1>1 DEF Section

\* What an append is begun with.
LEMMA NewAppendOK ==
  ASSUME NEW a \in Agents, NEW call \in Calls \union {None}, NEW n \in Nat,
         NEW Q \in Seq(Msg), n <= Len(Q), offloads \in Nat,
         NEW p, p = NewAppend(a, call, SubSeq(Q, 1, n))
  PROVE  /\ p \in Appends /\ p.by = a /\ p.call = call /\ p.step = "read"
         /\ p.items = Section(SubSeq(Q, 1, n))
<1>1. SubSeq(Q, 1, n) \in Seq(Msg)
  OBVIOUS
<1>2. Section(SubSeq(Q, 1, n)) \in SUBSET Items
  BY <1>1, SectionItems
<1>3. <<>> \in Seq(Sections)
  BY EmptySeq
<1>4. offloads + 1 \in Nat
  OBVIOUS
<1> QED
  BY <1>2, <1>3, <1>4 DEF NewAppend, Appends

\* A summarization begins.
LEMMA SummarizeAgents ==
  ASSUME TypeInv, AgentsInv, NEW a \in Agents, Summarize(a)
  PROVE  Growth /\ AgentsInv' /\ TypeInv'
<1>1. PICK n : n = SafeCutoff(Effectively(a))
  OBVIOUS
<1>2. PICK p : p = NewAppend(a, None, SubSeq(Effectively(a), 1, n))
  OBVIOUS
<1>3. /\ pc[a] = "model" /\ n > 0
      /\ pc' = [pc EXCEPT ![a] = "summary"] /\ cut' = [cut EXCEPT ![a] = n]
      /\ appends' = appends \union {p} /\ offloads' = offloads + 1
      /\ msgs' = msgs /\ event' = event /\ fields' = fields /\ records' = records
      /\ done' = done /\ task' = task /\ history' = history /\ stored' = stored
      /\ told' = told /\ lost' = lost /\ made' = made
  BY <1>1, <1>2 DEF Summarize
<1>4. Growth
  BY <1>3, SameFilesGrow
<1>5. /\ pc' = [b \in Agents |-> pc'[b]] /\ pc'[a] = "summary"
      /\ \A b \in Agents : b # a => pc'[b] = pc[b]
  BY <1>3, FunctionUpdate DEF TypeInv
<1>6. /\ cut' = [b \in Agents |-> cut'[b]] /\ cut'[a] = n
      /\ \A b \in Agents : b # a => cut'[b] = cut[b]
  BY <1>3, FunctionUpdate DEF TypeInv
<1>7. /\ AgentOK(msgs[a], event[a], "model", cut[a], made)
      /\ KeptOK(msgs[a], event[a], Gone, Files) /\ DOMAIN done[a] = {}
  BY <1>3 DEF AgentsInv, AgentInv
<1>8. /\ msgs[a] \in Seq(Msg) /\ event[a] \in Events /\ Safe(msgs[a], CutoffOf(event[a]))
      /\ Conversation(msgs[a]) /\ CutoffOf(event[a]) \in Nat
      /\ View(Effectively(a), msgs[a], CutoffOf(event[a]))
  BY <1>7, EffectiveView, TruncatedView, EffectivelyIs DEF AgentOK
<1>9. n \in Nat /\ n <= Len(Effectively(a)) /\ Effectively(a) \in Seq(Msg)
  <2>1. n \in Nat /\ n < Len(Effectively(a))
    BY <1>1, <1>3, <1>8, SafeCutoffIsSafe
  <2>2. Effectively(a) \in Seq(Msg)
    BY <1>8 DEF View
  <2> QED
    BY <2>1, <2>2
<1>10. AgentInv(a)'
  <2>1. AgentOK(msgs[a], event[a], "summary", n, made)
    BY <1>1, <1>3, <1>7, <1>9, EffectivelyIs DEF AgentOK, Works
  <2>2. KeptOK(msgs[a], event[a], Gone', Files')
    BY <1>4, <1>7 DEF Growth, KeptOK
  <2> QED
    BY <1>3, <1>5, <1>6, <1>7, <2>1, <2>2 DEF AgentInv
<1>11. \A b \in Agents : b # a => SameAgent(b)
  BY <1>3, <1>5, <1>6 DEF SameAgent
<1>12. AgentsInv'
  BY <1>4, <1>10, <1>11, OneAgent
<1>13. p \in Appends
  <2>1. offloads \in Nat /\ None \in Calls \union {None}
    BY DEF TypeInv
  <2> QED
    BY <1>2, <1>9, <2>1, NewAppendOK
<1>14. TypeInv'
  BY <1>3, <1>4, <1>5, <1>6, <1>13 DEF TypeInv, Growth
<1> QED
  BY <1>4, <1>12, <1>14

LEMMA CoveredKept ==
  ASSUME NEW ms, NEW ev \in Events, NEW gone, NEW files, KeptOK(ms, ev, gone, files),
         NEW items, NEW c \in Nat, Covers(items, ms, ev, c), \A i \in items : i.id \in gone
  PROVE  \A i \in 1..c : ms[i].id \in gone
<1>1. PICK e \in Nat : e = CutoffOf(ev)
  BY DEF CutoffOf, Events
<1>2. SUFFICES ASSUME NEW i \in 1..c PROVE ms[i].id \in gone
  OBVIOUS
<1>3. CASE i \in 1..e
  BY <1>1, <1>3 DEF KeptOK
<1>4. CASE i \in (e + 1)..c
  <2>1. PICK x \in items : x.id = ms[i].id
    BY <1>1, <1>4 DEF Covers
  <2> QED
    BY <2>1
<1> QED
  BY <1>1, <1>3, <1>4

\* The model answers, and the summary is kept.
LEMMA SummarizedAgents ==
  ASSUME TypeInv, AgentsInv, AppendInv, NEW a \in Agents, Summarized(a)
  PROVE  Growth /\ AgentsInv' /\ TypeInv'
<1>1. PICK p \in appends :
        /\ pc[a] = "summary" /\ p.by = a /\ p.call = None /\ p.step = "done"
        /\ event' = [event EXCEPT ![a] = [cutoff |-> StateCutoff(a, cut[a]), file |-> p.ok]]
        /\ appends' = appends \ {p}
        /\ cut' = [cut EXCEPT ![a] = 0]
        /\ Responds(a) /\ offloads' = offloads /\ faults' = faults
  BY DEF Summarized
<1>2. PICK plan \in Plans(a) :
        /\ msgs' = [msgs EXCEPT ![a] = Append(msgs[a], Ai(plan))]
        /\ pc' = [pc EXCEPT ![a] = IF plan # <<>> THEN "tools"
                                   ELSE IF a = Main THEN "idle" ELSE "finished"]
  BY <1>1 DEF Responds
<1>3. /\ made' = made + 1 /\ fields' = fields /\ records' = records /\ done' = done
      /\ task' = task /\ history' = history /\ stored' = stored /\ told' = told /\ lost' = lost
  BY <1>1 DEF Responds, Make
<1>4. Growth
  BY <1>1, <1>3, SameFilesGrow
<1>5. plan \in Seq(STRING) /\ made \in Nat /\ p \in Appends /\ a # None
  BY AgAssumption DEF AgAssumption, Plans, TypeInv, Agents
<1>6. /\ msgs' = [b \in Agents |-> msgs'[b]] /\ msgs'[a] = Append(msgs[a], Ai(plan))
      /\ \A b \in Agents : b # a => msgs'[b] = msgs[b]
  BY <1>2, FunctionUpdate DEF TypeInv
<1>7. PICK w \in {"idle", "tools", "finished"} :
        w = IF plan # <<>> THEN "tools" ELSE IF a = Main THEN "idle" ELSE "finished"
  OBVIOUS
<1>8. /\ pc' = [b \in Agents |-> pc'[b]] /\ pc'[a] = w
      /\ \A b \in Agents : b # a => pc'[b] = pc[b]
  BY <1>2, <1>7, FunctionUpdate DEF TypeInv
<1>9. /\ cut' = [b \in Agents |-> cut'[b]] /\ cut'[a] = 0
      /\ \A b \in Agents : b # a => cut'[b] = cut[b]
  BY <1>1, FunctionUpdate DEF TypeInv
<1>10. PICK ev2 : ev2 = [cutoff |-> StateCutoff(a, cut[a]), file |-> p.ok]
  OBVIOUS
<1>11. /\ event' = [b \in Agents |-> event'[b]] /\ event'[a] = ev2
       /\ \A b \in Agents : b # a => event'[b] = event[b]
  BY <1>1, <1>10, FunctionUpdate DEF TypeInv
<1>12. AgentInv(a)'
  <2>1. AgentOK(msgs[a], event[a], "summary", cut[a], made) /\ event[a] \in Events /\ cut[a] \in Nat
    BY <1>1 DEF AgentsInv, AgentInv, AgentOK
  <2>2. KeptOK(msgs[a], event[a], Gone, Files) /\ DOMAIN done[a] = {}
    BY <1>1 DEF AgentsInv, AgentInv
  <2>3. PICK c \in Nat \ {0} : c = Before(CutoffOf(event[a])) + cut[a] /\ Safe(msgs[a], c)
    BY <2>1, SummaryCutoff
  <2>4. c = StateCutoff(a, cut[a]) /\ p.ok \in BOOLEAN
    BY <1>5, <2>1, <2>3, StateCutoffIs DEF Appends
  <2>5. AgentOK(msgs[a], event[a], "idle", 0, made) /\ Closed(msgs[a])
    BY <2>1 DEF AgentOK, Works
  <2>6. AgentOK(msgs[a], ev2, "idle", 0, made) /\ CutoffOf(ev2) = c
    BY <1>10, <2>3, <2>4, <2>5, NewEventOK
  <2>7. AgentOK(Append(msgs[a], Ai(plan)), ev2, w, 0, made + 1)
    BY <1>5, <2>5, <2>6, AnswerOK
  <2>8. Covers(p.items, msgs[a], event[a], c) /\ \A i \in p.items : i.id \in Gone
    BY <1>1, <1>5, <2>3 DEF AppendInv, AppendOK
  <2>9. \A i \in 1..c : msgs[a][i].id \in Gone
    BY <2>1, <2>2, <2>3, <2>8, CoveredKept
  <2>10. KeptOK(msgs[a], ev2, Gone', Files')
    BY <1>4, <2>2, <2>6, <2>9 DEF KeptOK, Growth
  <2>11. KeptOK(Append(msgs[a], Ai(plan)), ev2, Gone', Files')
    BY <1>5, <2>6, <2>10, AnswerKept
  <2> QED
    BY <1>3, <1>6, <1>8, <1>9, <1>11, <2>2, <2>7, <2>11 DEF AgentInv
<1>13. \A b \in Agents : b # a => SameAgent(b)
  BY <1>3, <1>6, <1>8, <1>9, <1>11 DEF SameAgent
<1>14. AgentsInv'
  BY <1>4, <1>12, <1>13, OneAgent
<1>15. TypeInv'
  BY <1>1, <1>3, <1>4, <1>6, <1>8, <1>9, <1>11 DEF TypeInv, Growth
<1> QED
  BY <1>4, <1>14, <1>15

\* The appends to the file change no agent.
LEMMA NoAgent ==
  ASSUME TypeInv, AgentsInv, Growth, UNCHANGED agentVars, appends' \subseteq Appends
  PROVE  AgentsInv' /\ TypeInv'
<1>1. /\ msgs' = msgs /\ event' = event /\ fields' = fields /\ records' = records
      /\ pc' = pc /\ cut' = cut /\ done' = done /\ task' = task
  BY DEF agentVars
<1>2. ASSUME NEW b \in Agents PROVE AgentInv(b)'
  <2>1. SameAgent(b)
    BY <1>1 DEF SameAgent
  <2> QED
    BY <2>1, AgentKeeps DEF AgentsInv
<1>3. TypeInv'
  BY <1>1 DEF TypeInv, Growth
<1> QED
  BY <1>2, <1>3 DEF AgentsInv

LEMMA AppendReadsTo ==
  ASSUME history \in Seq(Sections), NEW p \in Appends, AppendReads(p)
  PROVE  \E q \in Appends :
           /\ appends' = (appends \ {p}) \union {q}
           /\ p.step = "read" /\ q.step = "put"
           /\ q.by = p.by /\ q.call = p.call /\ q.items = p.items
<1>1. PICK q : /\ q = [p EXCEPT !.step = "put", !.old = history] \/ q = [p EXCEPT !.step = "put"]
               /\ appends' = (appends \ {p}) \union {q} /\ p.step = "read"
  BY DEF AppendReads, Update
<1>2. q \in Appends /\ q.step = "put" /\ q.by = p.by /\ q.call = p.call /\ q.items = p.items
  <2>1. CASE q = [p EXCEPT !.step = "put", !.old = history]
    BY <2>1 DEF Appends
  <2>2. CASE q = [p EXCEPT !.step = "put"]
    BY <2>2 DEF Appends
  <2> QED
    BY <1>1, <2>1, <2>2
<1> QED
  BY <1>1, <1>2

LEMMA AppendPutsTo ==
  ASSUME NEW p \in Appends, AppendPuts(p)
  PROVE  \/ p.by = None /\ appends' = appends \ {p}
         \/ /\ p.by # None
            /\ \E q \in Appends :
                 /\ appends' = (appends \ {p}) \union {q}
                 /\ q.step = "done" /\ q.by = p.by /\ q.call = p.call /\ q.items = p.items
<1>1. PICK ok \in BOOLEAN : Ended(p, ok)
  BY DEF AppendPuts
<1>2. CASE p.by = None
  BY <1>1, <1>2 DEF Ended
<1>3. CASE p.by # None
  <2>1. PICK q : q = [p EXCEPT !.step = "done", !.ok = ok]
    OBVIOUS
  <2>2. q \in Appends /\ q.step = "done" /\ q.by = p.by /\ q.call = p.call /\ q.items = p.items
    BY <2>1 DEF Appends
  <2>3. appends' = (appends \ {p}) \union {q}
    BY <1>1, <1>3, <2>1 DEF Ended, Update
  <2> QED
    BY <1>3, <2>2, <2>3
<1> QED
  BY <1>2, <1>3

LEMMA AppendReadsAgents ==
  ASSUME TypeInv, AgentsInv, NEW p \in appends, AppendReads(p)
  PROVE  Growth /\ AgentsInv' /\ TypeInv'
<1>1. /\ UNCHANGED agentVars /\ history' = history /\ stored' = stored /\ told' = told
      /\ lost' = lost /\ made' = made /\ offloads' = offloads
  BY DEF AppendReads
<1>2. Growth
  BY <1>1, SameFilesGrow
<1>3. appends' \subseteq Appends
  <2>1. p \in Appends /\ history \in Seq(Sections) /\ appends \subseteq Appends
    BY DEF TypeInv
  <2> QED
    BY <2>1, AppendReadsTo
<1> QED
  BY <1>1, <1>2, <1>3, NoAgent

LEMMA AppendPutsAgents ==
  ASSUME TypeInv, AgentsInv, NEW p \in appends, AppendPuts(p)
  PROVE  Growth /\ AgentsInv' /\ TypeInv'
<1>1. UNCHANGED agentVars
  BY DEF AppendPuts
<1>2. Growth
  BY AppendPutsGrows
<1>3. appends' \subseteq Appends
  <2>1. p \in Appends /\ appends \subseteq Appends
    BY DEF TypeInv
  <2> QED
    BY <2>1, AppendPutsTo
<1> QED
  BY <1>1, <1>2, <1>3, NoAgent

LEMMA FilesLostAgents ==
  ASSUME TypeInv, AgentsInv, FilesLost
  PROVE  Growth /\ AgentsInv' /\ TypeInv'
<1>1. UNCHANGED agentVars /\ appends' = appends
  BY DEF FilesLost
<1>2. Growth
  BY FilesLostGrows
<1>3. appends' \subseteq Appends
  BY <1>1 DEF TypeInv
<1> QED
  BY <1>1, <1>2, <1>3, NoAgent

LEMMA FinishIs ==
  ASSUME TypeInv, NEW a \in Agents, NEW c, NEW d, Finish(a, c, d)
  PROVE  /\ done' = [b \in Agents |-> done'[b]]
         /\ \A b \in Agents : b # a => done'[b] = done[b]
         /\ DOMAIN done'[a] = DOMAIN done[a] \union {c}
         /\ done'[a][c] = d
         /\ \A x \in DOMAIN done[a] : x # c => done'[a][x] = done[a][x]
<1>1. PICK g : g = [x \in DOMAIN done[a] \union {c} |-> IF x = c THEN d ELSE done[a][x]]
  OBVIOUS
<1>2. done' = [done EXCEPT ![a] = g]
  BY <1>1 DEF Finish
<1>3. /\ done' = [b \in Agents |-> done'[b]] /\ done'[a] = g
      /\ \A b \in Agents : b # a => done'[b] = done[b]
  BY <1>2, FunctionUpdate DEF TypeInv
<1> QED
  BY <1>1, <1>3

\* A call of an agent is done.
LEMMA FinishAgents ==
  ASSUME TypeInv, AgentsInv, Growth, NEW a \in Agents, NEW c, NEW d,
         pc[a] = "tools", Finish(a, c, d),
         CommandOK(msgs[a], event[a], c, d, Gone', Files'),
         UNCHANGED <<msgs, event, fields, records, pc, cut, task>>, appends' \subseteq Appends
  PROVE  AgentsInv' /\ TypeInv'
<1>1. /\ done' = [b \in Agents |-> done'[b]]
      /\ \A b \in Agents : b # a => done'[b] = done[b]
      /\ DOMAIN done'[a] = DOMAIN done[a] \union {c}
      /\ done'[a][c] = d
      /\ \A x \in DOMAIN done[a] : x # c => done'[a][x] = done[a][x]
  BY FinishIs
<1>2. \A b \in Agents : b # a => SameAgent(b)
  BY <1>1 DEF SameAgent
<1>3. AgentOK(msgs[a], event[a], pc[a], cut[a], made') /\ KeptOK(msgs[a], event[a], Gone', Files')
  <2>1. made \in Nat /\ made' \in Nat /\ made <= made'
    BY DEF TypeInv, Growth
  <2>2. AgentOK(msgs[a], event[a], pc[a], cut[a], made') 
    BY <2>1, AgentOKLater DEF AgentsInv, AgentInv
  <2>3. KeptOK(msgs[a], event[a], Gone', Files')
    BY DEF AgentsInv, AgentInv, KeptOK, Growth
  <2> QED
    BY <2>2, <2>3
<1>4. ASSUME NEW x \in DOMAIN done'[a]
      PROVE  CommandOK(msgs[a], event[a], x, done'[a][x], Gone', Files')
  <2>1. CASE x = c
    BY <1>1, <2>1
  <2>2. CASE x # c
    <3>1. x \in DOMAIN done[a] /\ done'[a][x] = done[a][x]
      BY <1>1, <1>4, <2>2
    <3>2. CommandOK(msgs[a], event[a], x, done[a][x], Gone, Files)
      BY <3>1 DEF AgentsInv, AgentInv
    <3>3. CommandOK(msgs[a], event[a], x, done[a][x], Gone', Files')
      BY <3>2, CommandsKept DEF Growth
    <3> QED
      BY <3>1, <3>3
  <2> QED
    BY <2>1, <2>2
<1>5. AgentInv(a)'
  BY <1>3, <1>4 DEF AgentInv
<1>6. AgentsInv'
  BY <1>2, <1>5, OneAgent
<1>7. TypeInv'
  BY <1>1 DEF TypeInv, Growth
<1> QED
  BY <1>6, <1>7

\* What a pending call is.
LEMMA PendingIs ==
  ASSUME AgentsInv, NEW a \in Agents, NEW tool, NEW c \in Pending(a, tool)
  PROVE  /\ pc[a] = "tools" /\ c \in CallsOf(Last(msgs[a])) /\ c \in Calls
         /\ c[1] = Last(msgs[a]).id[1] /\ c[2] \in DOMAIN Last(msgs[a]).calls
         /\ Last(msgs[a]).calls[c[2]] = tool
         /\ c \notin DOMAIN done[a] /\ (\A s \in Subs : task[s] # c)
         /\ \A p \in appends : p.call # c
<1>1. /\ pc[a] = "tools" /\ c \in CallsOf(Last(msgs[a]))
      /\ Last(msgs[a]).calls[c[2]] = tool
      /\ c \notin DOMAIN done[a] /\ (\A s \in Subs : task[s] # c)
      /\ \A p \in appends : p.call # c
  BY DEF Pending, ToolOf, Asking
<1>2. AgentOK(msgs[a], event[a], "tools", cut[a], made)
  BY <1>1 DEF AgentsInv, AgentInv
<1>3. /\ DOMAIN Last(msgs[a]).calls = 1..Len(Last(msgs[a]).calls)
      /\ Last(msgs[a]).id[1] \in Nat
  BY <1>2, LastMessage
<1>4. PICK k \in DOMAIN Last(msgs[a]).calls : c = <<Last(msgs[a]).id[1], k>>
  BY <1>1 DEF CallsOf
<1>5. c \in Calls /\ c[1] = Last(msgs[a]).id[1] /\ c[2] \in DOMAIN Last(msgs[a]).calls
  BY <1>3, <1>4 DEF Calls
<1> QED
  BY <1>1, <1>5

\* A call of a tool that starts no sub-agent and no compaction.
PlainStepWith(a, c, tool, how, d) ==
  /\ c \in Pending(a, tool) /\ (how = "refused" <=> tool = "task")
  /\ how \in {"whole", "evicted", "refused"}
  /\ Finish(a, c, d)
  /\ d.msg = Tool(c, how) /\ d.event = None /\ d.steps = None
  /\ how = "evicted" => c \in stored'
  /\ (tool # "task" => Tell(a, c)) /\ told \subseteq told' /\ stored \subseteq stored'
  /\ UNCHANGED <<msgs, event, fields, records, pc, cut, task, appends, history, lost,
                 made, offloads>>

PlainStep(a, c) == \E tool, how, d : PlainStepWith(a, c, tool, how, d)

LEMMA PlainSteps ==
  ASSUME NEW a, NEW c,
         \/ Fetch(a, c) \/ OtherTool(a, c) \/ SetState(a, c) \/ NotCompacted(a, c)
         \/ a = Main /\ RefuseTask(c)
  PROVE  PlainStep(a, c)
<1>0. Tell(a, c) => told \subseteq told'
  BY DEF Tell
<1>1. \A how : /\ Command(c, how).msg = Tool(c, how) /\ Command(c, how).event = None
               /\ Command(c, how).steps = None
  BY DEF Command
<1>2. CASE Fetch(a, c)
  <2>1. PICK how \in {"whole", "evicted"} :
          /\ Finish(a, c, Command(c, how)) /\ stored \subseteq stored'
          /\ how = "evicted" => c \in stored'
    BY <1>2 DEF Fetch
  <2>2. /\ c \in Pending(a, "fetch") /\ Tell(a, c)
        /\ UNCHANGED <<msgs, event, fields, records, pc, cut, task, appends, history, lost,
                       made, offloads>>
    BY <1>2 DEF Fetch
  <2>3. PlainStepWith(a, c, "fetch", how, Command(c, how))
    BY <1>0, <1>1, <2>1, <2>2 DEF PlainStepWith
  <2> QED
    BY <2>3 DEF PlainStep
<1>3. CASE OtherTool(a, c)
  <2>1. PlainStepWith(a, c, "write_file", "whole", Command(c, "whole"))
    BY <1>0, <1>1, <1>3 DEF OtherTool, PlainStepWith, fileVars, counters
  <2> QED
    BY <2>1 DEF PlainStep
<1>4. CASE NotCompacted(a, c)
  <2>1. PlainStepWith(a, c, "compact_conversation", "whole", Command(c, "whole"))
    BY <1>0, <1>1, <1>4 DEF NotCompacted, PlainStepWith, fileVars, counters
  <2> QED
    BY <2>1 DEF PlainStep
<1>5. CASE SetState(a, c)
  <2>1. PICK f \in Fields \union {None} :
          Finish(a, c, [Command(c, "whole") EXCEPT !.fields = [g \in {f} \ {None} |-> c]])
    BY <1>5 DEF SetState
  <2>2. PICK x : x = [g \in {f} \ {None} |-> c]
    OBVIOUS
  <2>3. PICK d : d = [Command(c, "whole") EXCEPT !.fields = x]
    OBVIOUS
  <2>4. d.msg = Tool(c, "whole") /\ d.event = None /\ d.steps = None
    BY <2>3 DEF Command
  <2>5. Finish(a, c, d)
    BY <2>1, <2>2, <2>3
  <2>6. /\ c \in Pending(a, "set_state") /\ Tell(a, c) /\ stored \subseteq stored'
        /\ UNCHANGED <<msgs, event, fields, records, pc, cut, task, appends, history, lost,
                       made, offloads>>
    BY <1>5 DEF SetState, fileVars, counters
  <2> QED
    <3>1. PlainStepWith(a, c, "set_state", "whole", d)
      BY <1>0, <2>4, <2>5, <2>6 DEF PlainStepWith
    <3> QED
      BY <3>1 DEF PlainStep
<1>6. CASE a = Main /\ RefuseTask(c)
  <2>1. PlainStepWith(a, c, "task", "refused", Command(c, "refused"))
    BY <1>1, <1>6 DEF RefuseTask, PlainStepWith, fileVars, counters
  <2> QED
    BY <2>1 DEF PlainStep
<1> QED
  BY <1>2, <1>3, <1>4, <1>5, <1>6

LEMMA PlainStepAgents ==
  ASSUME TypeInv, AgentsInv, NEW a \in Agents, NEW c, PlainStep(a, c)
  PROVE  Growth /\ AgentsInv' /\ TypeInv'
<1>0. PICK tool, how, d : PlainStepWith(a, c, tool, how, d)
  BY DEF PlainStep
<1>1. /\ c \in Pending(a, tool) /\ how \in {"whole", "evicted", "refused"}
      /\ Finish(a, c, d)
      /\ d.msg = Tool(c, how) /\ d.event = None /\ d.steps = None
      /\ how = "evicted" => c \in stored'
      /\ told \subseteq told' /\ stored \subseteq stored'
      /\ UNCHANGED <<msgs, event, fields, records, pc, cut, task, appends, history, lost,
                     made, offloads>>
  BY <1>0 DEF PlainStepWith
<1>2. told \subseteq told'
  BY <1>1
<1>3. Growth
  BY <1>1, <1>2, SameFilesGrow
<1>4. pc[a] = "tools" /\ c \in CallsOf(Last(msgs[a])) /\ c \in Calls
  BY <1>1, PendingIs
<1>5. CommandOK(msgs[a], event[a], c, d, Gone', Files')
  <2>1. how \in Hows /\ how # "cancelled"
    BY <1>1 DEF Hows
  <2>2. /\ d.msg \in Msg /\ d.msg.type = "tool" /\ d.msg.id = c /\ d.msg.calls = <<>>
        /\ d.msg.how = how
    BY <1>1, <1>4, <2>1, ToolIsMsg DEF Calls
  <2>3. how = "evicted" => c \in Files'
    BY <1>1 DEF Files
  <2> QED
    BY <1>1, <1>4, <2>1, <2>2, <2>3 DEF CommandOK
<1>6. appends' \subseteq Appends
  BY <1>1 DEF TypeInv
<1> QED
  BY <1>1, <1>3, <1>4, <1>5, <1>6, FinishAgents

\* compact_conversation begins.
LEMMA CompactAgents ==
  ASSUME TypeInv, AgentsInv, NEW a \in Agents, NEW c, Compact(a, c)
  PROVE  Growth /\ AgentsInv' /\ TypeInv'
<1>1. PICK n : n = SafeCutoff(Effective(a))
  OBVIOUS
<1>2. PICK p : p = NewAppend(a, c, SubSeq(Effective(a), 1, n))
  OBVIOUS
<1>3. /\ c \in Pending(a, "compact_conversation") /\ n > 0
      /\ appends' = appends \union {p} /\ offloads' = offloads + 1
      /\ UNCHANGED agentVars /\ history' = history /\ stored' = stored
      /\ told' = told /\ lost' = lost /\ made' = made
  BY <1>1, <1>2 DEF Compact
<1>4. Growth
  BY <1>3, SameFilesGrow
<1>5. AgentOK(msgs[a], event[a], pc[a], cut[a], made)
  BY DEF AgentsInv, AgentInv
<1>6. /\ msgs[a] \in Seq(Msg) /\ event[a] \in Events /\ Safe(msgs[a], CutoffOf(event[a]))
      /\ Conversation(msgs[a]) /\ CutoffOf(event[a]) \in Nat
      /\ View(Effective(a), msgs[a], CutoffOf(event[a]))
  BY <1>5, EffectiveView, EffectivelyIs DEF AgentOK
<1>7. n \in Nat /\ n <= Len(Effective(a)) /\ Effective(a) \in Seq(Msg)
  <2>1. n \in Nat /\ n < Len(Effective(a))
    BY <1>1, <1>3, <1>6, SafeCutoffIsSafe
  <2>2. Effective(a) \in Seq(Msg)
    BY <1>6 DEF View
  <2> QED
    BY <2>1, <2>2
<1>8. c \in Calls
  BY <1>3, PendingIs
<1>9. p \in Appends
  <2>1. offloads \in Nat /\ c \in Calls \union {None}
    BY <1>8 DEF TypeInv
  <2> QED
    BY <1>2, <1>7, <2>1, NewAppendOK
<1>10. appends' \subseteq Appends
  BY <1>3, <1>9 DEF TypeInv
<1> QED
  BY <1>3, <1>4, <1>10, NoAgent

\* compact_conversation ends.
LEMMA CompactedAgents ==
  ASSUME TypeInv, AgentsInv, AppendInv, NEW a \in Agents, Compacted(a)
  PROVE  Growth /\ AgentsInv' /\ TypeInv'
<1>1. PICK p \in appends :
        /\ p.by = a /\ p.call # None /\ p.step = "done"
        /\ Finish(a, p.call,
              [Command(p.call, "whole") EXCEPT
                 !.event = [cutoff |-> StateCutoff(a, SafeCutoff(Effective(a))),
                            file |-> p.ok]])
        /\ appends' = appends \ {p}
        /\ Tell(a, p.call)
        /\ UNCHANGED <<msgs, event, fields, records, pc, cut, task, history, stored, lost,
                       counters>>
  BY DEF Compacted
<1>2. PICK ev2 : ev2 = [cutoff |-> StateCutoff(a, SafeCutoff(Effective(a))), file |-> p.ok]
  OBVIOUS
<1>3. PICK c : c = p.call
  OBVIOUS
<1>4. PICK d : d = [Command(c, "whole") EXCEPT !.event = ev2]
  OBVIOUS
<1>5. d.msg = Tool(c, "whole") /\ d.event = ev2 /\ d.steps = None
  BY <1>4 DEF Command
<1>6. Finish(a, c, d)
  BY <1>1, <1>2, <1>3, <1>4
<1>7. told \subseteq told' /\ made' = made /\ offloads' = offloads
  BY <1>1 DEF Tell, counters
<1>8. Growth
  BY <1>1, <1>7, SameFilesGrow
<1>9. /\ p \in Appends /\ a # None
      /\ AppendOK(p, msgs[a], event[a], pc[a], cut[a], done[a], Gone)
  <2>1. p \in Appends /\ a # None
    BY AgAssumption DEF AgAssumption, TypeInv, Agents
  <2>2. AppendOK(p, msgs[p.by], event[p.by], pc[p.by], cut[p.by], done[p.by], Gone)
    BY <1>1, <2>1 DEF AppendInv
  <2> QED
    BY <1>1, <2>1, <2>2
<1>10. /\ pc[a] = "tools" /\ c \in CallsOf(Last(msgs[a])) /\ c \in Calls
       /\ SafeCutoff(EffectiveOf(msgs[a], event[a])) > 0
       /\ Covers(p.items, msgs[a], event[a], CompactedAt(msgs[a], event[a]))
       /\ \A i \in p.items : i.id \in Gone
  BY <1>1, <1>3, <1>9 DEF AppendOK, Appends
<1>11. /\ AgentOK(msgs[a], event[a], pc[a], cut[a], made) /\ event[a] \in Events
       /\ KeptOK(msgs[a], event[a], Gone, Files)
  BY DEF AgentsInv, AgentInv, AgentOK
<1>12. PICK n \in Nat \ {0} : n = CompactedAt(msgs[a], event[a])
  BY <1>10, <1>11, CompactCutoff
<1>13. n = StateCutoff(a, SafeCutoff(Effective(a)))
  <2>1. /\ msgs[a] \in Seq(Msg) /\ Safe(msgs[a], CutoffOf(event[a]))
        /\ Conversation(msgs[a])
    BY <1>11 DEF AgentOK
  <2>2. CutoffOf(event[a]) \in Nat
    BY <1>11, <2>1, EffectiveView
  <2>3. View(EffectiveOf(msgs[a], event[a]), msgs[a], CutoffOf(event[a]))
    BY <1>11, <2>1, EffectiveView
  <2>4. SafeCutoff(EffectiveOf(msgs[a], event[a])) \in Nat
    BY <2>1, <2>2, <2>3, SafeCutoffIsSafe
  <2> QED
    BY <1>11, <1>12, <2>4, StateCutoffIs, EffectivelyIs DEF CompactedAt
<1>14. ev2 \in Events /\ ev2.cutoff = n
  BY <1>2, <1>9, <1>13 DEF Events, Appends
<1>15. \A i \in 1..n : msgs[a][i].id \in Gone
  BY <1>10, <1>11, <1>12, CoveredKept
<1>16. CommandOK(msgs[a], event[a], c, d, Gone', Files')
  <2>1. "whole" \in Hows
    BY DEF Hows
  <2>2. /\ d.msg \in Msg /\ d.msg.type = "tool" /\ d.msg.id = c /\ d.msg.calls = <<>>
        /\ d.msg.how = "whole"
    BY <1>5, <1>10, <2>1, ToolIsMsg DEF Calls
  <2> QED
    BY <1>5, <1>8, <1>10, <1>12, <1>14, <1>15, <2>2 DEF CommandOK, Growth
<1>17. appends' \subseteq Appends
  BY <1>1 DEF TypeInv
<1> QED
  BY <1>1, <1>6, <1>8, <1>10, <1>16, <1>17, FinishAgents

\* A sub-agent begins.
LEMMA StartTaskAgents ==
  ASSUME TypeInv, AgentsInv, SubInv, NEW s \in Subs, NEW c \in Pending(Main, "task"),
         StartTask(c, s)
  PROVE  Growth /\ AgentsInv' /\ TypeInv'
<1>1. /\ pc[s] = "idle" /\ made' = made + 1
      /\ task' = [task EXCEPT ![s] = c]
      /\ msgs' = [msgs EXCEPT ![s] = <<Human>>]
      /\ fields' = [fields EXCEPT ![s] = fields[Main]]
      /\ pc' = [pc EXCEPT ![s] = "model"]
      /\ event' = event /\ records' = records /\ cut' = cut /\ done' = done
      /\ appends' = appends /\ history' = history /\ stored' = stored
      /\ told' = told /\ lost' = lost /\ offloads' = offloads
  BY DEF StartTask, Make, fileVars
<1>2. Growth
  BY <1>1, SameFilesGrow
<1>3. s \in Agents /\ Main \in Agents /\ made \in Nat
  BY DEF Agents, TypeInv
<1>4. /\ msgs' = [b \in Agents |-> msgs'[b]] /\ msgs'[s] = <<Human>>
      /\ \A b \in Agents : b # s => msgs'[b] = msgs[b]
  BY <1>1, <1>3, FunctionUpdate DEF TypeInv
<1>5. /\ pc' = [b \in Agents |-> pc'[b]] /\ pc'[s] = "model"
      /\ \A b \in Agents : b # s => pc'[b] = pc[b]
  BY <1>1, <1>3, FunctionUpdate DEF TypeInv
<1>6. /\ fields' = [b \in Agents |-> fields'[b]] /\ fields'[s] = fields[Main]
      /\ \A b \in Agents : b # s => fields'[b] = fields[b]
  BY <1>1, <1>3, FunctionUpdate DEF TypeInv
<1>7. task' \in [Subs -> Calls \union {None}]
  <2>1. c \in Calls
    BY <1>3, PendingIs
  <2> QED
    BY <1>1, <2>1 DEF TypeInv
<1>8. AgentInv(s)'
  <2>1. msgs[s] = <<>> /\ event[s] = None
    BY <1>1 DEF SubInv, SubOK
  <2>2. AgentOK(<<>>, None, "idle", 0, made) /\ cut[s] = 0 /\ DOMAIN done[s] = {}
    BY <1>1, <1>3, <2>1 DEF AgentsInv, AgentInv, AgentOK
  <2>3. Closed(<<>>)
    BY EmptySeq DEF Closed
  <2>4. AgentOK(Append(<<>>, Human), None, "idle", 0, made + 1) /\ Closed(Append(<<>>, Human))
    BY <1>3, <2>2, <2>3, HumanIsMsg, AppendOneOK
  <2>5. Append(<<>>, Human) = <<Human>>
    OBVIOUS
  <2>6. AgentOK(<<Human>>, None, "model", 0, made + 1)
    BY <2>4, <2>5 DEF AgentOK, Works
  <2>7. KeptOK(<<Human>>, None, Gone', Files')
    BY <1>3, HumanIsMsg DEF KeptOK, CutoffOf
  <2> QED
    BY <1>1, <1>4, <1>5, <2>1, <2>2, <2>6, <2>7 DEF AgentInv
<1>9. \A b \in Agents : b # s => SameAgent(b)
  BY <1>1, <1>4, <1>5 DEF SameAgent
<1>10. AgentsInv'
  BY <1>2, <1>3, <1>8, <1>9, OneAgent
<1>11. TypeInv'
  BY <1>1, <1>2, <1>3, <1>4, <1>5, <1>6, <1>7 DEF TypeInv, Growth
<1> QED
  BY <1>2, <1>10, <1>11

\* What the main agent is given when a sub-agent ends.
EndTaskStep(s, d) ==
  /\ pc[s] = "finished" /\ Finish(Main, task[s], d)
  /\ \E how \in {"whole", "evicted"} :
       /\ d.msg = Tool(task[s], how)
       /\ stored' = stored \union {x \in {task[s]} : how = "evicted"}
  /\ d.event = None
  /\ d.steps = [call |-> task[s], messages |-> SubSeq(msgs[s], 2, Len(msgs[s]) - 1)]
  /\ task' = [task EXCEPT ![s] = None] /\ msgs' = [msgs EXCEPT ![s] = <<>>]
  /\ event' = [event EXCEPT ![s] = None] /\ fields' = [fields EXCEPT ![s] = NoFields]
  /\ pc' = [pc EXCEPT ![s] = "idle"]
  /\ UNCHANGED <<records, cut, appends, history, told, lost, made, offloads>>

LEMMA EndTaskIs ==
  ASSUME NEW s, EndTask(s)
  PROVE  \E d : EndTaskStep(s, d)
<1>1. PICK x : x = [call |-> task[s], messages |-> SubSeq(msgs[s], 2, Len(msgs[s]) - 1)]
  OBVIOUS
<1>2. PICK f : f = fields[s]
  OBVIOUS
<1>0. PICK how \in {"whole", "evicted"} :
        /\ Finish(Main, task[s], [Command(task[s], how) EXCEPT !.fields = f, !.steps = x])
        /\ stored' = stored \union {y \in {task[s]} : how = "evicted"}
  BY <1>1, <1>2 DEF EndTask
<1>3. PICK d : d = [Command(task[s], how) EXCEPT !.fields = f, !.steps = x]
  OBVIOUS
<1>4. d.msg = Tool(task[s], how) /\ d.event = None /\ d.steps = x
  BY <1>3 DEF Command
<1>5. Finish(Main, task[s], d)
  BY <1>0, <1>3
<1>6. EndTaskStep(s, d)
  BY <1>0, <1>1, <1>4, <1>5 DEF EndTask, EndTaskStep, Reset, counters
<1> QED
  BY <1>6

LEMMA EndTaskAgents ==
  ASSUME TypeInv, AgentsInv, SubInv, NEW s \in Subs, EndTask(s)
  PROVE  Growth /\ AgentsInv' /\ TypeInv'
<1>1. PICK d : EndTaskStep(s, d)
  BY EndTaskIs
<1>2. PICK c : c = task[s]
  OBVIOUS
<1>3. s \in Agents /\ Main \in Agents /\ s # Main
  BY AgAssumption DEF AgAssumption, Agents
<1>4. Growth
  <2>1. stored \subseteq stored'
    BY <1>1 DEF EndTaskStep
  <2> QED
    BY <1>1, <2>1, SameFilesGrow DEF EndTaskStep
<1>5. /\ msgs' = [b \in Agents |-> msgs'[b]] /\ msgs'[s] = <<>>
      /\ \A b \in Agents : b # s => msgs'[b] = msgs[b]
  BY <1>1, <1>3, FunctionUpdate DEF TypeInv, EndTaskStep
<1>6. /\ pc' = [b \in Agents |-> pc'[b]] /\ pc'[s] = "idle"
      /\ \A b \in Agents : b # s => pc'[b] = pc[b]
  BY <1>1, <1>3, FunctionUpdate DEF TypeInv, EndTaskStep
<1>7. /\ fields' = [b \in Agents |-> fields'[b]] /\ fields'[s] = NoFields
      /\ \A b \in Agents : b # s => fields'[b] = fields[b]
  BY <1>1, <1>3, FunctionUpdate DEF TypeInv, EndTaskStep
<1>8. /\ event' = [b \in Agents |-> event'[b]] /\ event'[s] = None
      /\ \A b \in Agents : b # s => event'[b] = event[b]
  BY <1>1, <1>3, FunctionUpdate DEF TypeInv, EndTaskStep
<1>9. /\ done' = [b \in Agents |-> done'[b]]
      /\ \A b \in Agents : b # Main => done'[b] = done[b]
      /\ DOMAIN done'[Main] = DOMAIN done[Main] \union {c}
      /\ done'[Main][c] = d
      /\ \A x \in DOMAIN done[Main] : x # c => done'[Main][x] = done[Main][x]
  BY <1>1, <1>2, <1>3, FinishIs DEF EndTaskStep
<1>10. /\ cut' = cut /\ task' \in [Subs -> Calls \union {None}] /\ records' = records
       /\ appends' = appends
  BY <1>1 DEF EndTaskStep, TypeInv
<1>11. /\ pc[Main] = "tools" /\ c \in CallsOf(Last(msgs[Main])) /\ c \in Calls
  <2>1. SubOK(msgs[s], event[s], pc[s], task[s], msgs[Main], pc[Main], done[Main])
    BY DEF SubInv
  <2>2. pc[Main] = "tools" /\ c \in CallsOf(Last(msgs[Main]))
    BY <1>1, <1>2, <2>1 DEF SubOK, EndTaskStep
  <2>3. AgentOK(msgs[Main], event[Main], "tools", cut[Main], made)
    BY <1>3, <2>2 DEF AgentsInv, AgentInv
  <2>4. DOMAIN Last(msgs[Main]).calls \subseteq Nat /\ Last(msgs[Main]).id[1] \in Nat
    BY <2>3, LastMessage
  <2> QED
    BY <2>2, <2>4 DEF CallsOf, Calls
<1>12. msgs[s] \in Seq(Msg) /\ cut[s] = 0 /\ DOMAIN done[s] = {}
  BY <1>1, <1>3 DEF EndTaskStep, AgentsInv, AgentInv, AgentOK
<1>13. AgentInv(s)'
  BY <1>3, <1>4, <1>5, <1>6, <1>8, <1>9, <1>10, <1>12, AgentReset
<1>14. CommandOK(msgs[Main], event[Main], c, d, Gone', Files')
  <2>0. PICK how \in {"whole", "evicted"} :
          /\ d.msg = Tool(c, how) /\ d.event = None
          /\ how = "evicted" => c \in stored'
    BY <1>1, <1>2 DEF EndTaskStep
  <2>1. how \in Hows
    BY DEF Hows
  <2>2. d.msg = Tool(c, how) /\ d.event = None /\ (how = "evicted" => c \in Files')
    BY <2>0 DEF Files
  <2>3. /\ d.msg \in Msg /\ d.msg.type = "tool" /\ d.msg.id = c /\ d.msg.calls = <<>>
        /\ d.msg.how = how
    BY <1>11, <2>1, <2>2, ToolIsMsg DEF Calls
  <2>4. d.steps \in Records /\ d.steps.call = c
    <3>1. SubSeq(msgs[s], 2, Len(msgs[s]) - 1) \in Seq(Msg)
      <4>1. \A i \in 2..(Len(msgs[s]) - 1) : msgs[s][i] \in Msg
        BY <1>12
      <4> QED
        BY <1>12, <4>1, SubSeqProperties
    <3> QED
      BY <1>1, <1>2, <1>11, <3>1 DEF EndTaskStep, Records, Calls
  <2> QED
    BY <1>11, <2>2, <2>3, <2>4 DEF CommandOK
<1>15. AgentInv(Main)'
  <2>1. AgentOK(msgs[Main], event[Main], pc[Main], cut[Main], made')
    <3>1. made \in Nat /\ made' \in Nat /\ made <= made'
      BY <1>4 DEF TypeInv, Growth
    <3> QED
      BY <1>3, <3>1, AgentOKLater DEF AgentsInv, AgentInv
  <2>2. KeptOK(msgs[Main], event[Main], Gone', Files')
    BY <1>3, <1>4 DEF AgentsInv, AgentInv, KeptOK, Growth
  <2>3. ASSUME NEW x \in DOMAIN done'[Main]
        PROVE  CommandOK(msgs[Main], event[Main], x, done'[Main][x], Gone', Files')
    <3>1. CASE x = c
      BY <1>9, <1>14, <3>1
    <3>2. CASE x # c
      <4>1. x \in DOMAIN done[Main] /\ done'[Main][x] = done[Main][x]
        BY <1>9, <2>3, <3>2
      <4>2. CommandOK(msgs[Main], event[Main], x, done[Main][x], Gone, Files)
        BY <1>3, <4>1 DEF AgentsInv, AgentInv
      <4> QED
        BY <1>4, <4>1, <4>2, CommandsKept DEF Growth
    <3> QED
      BY <3>1, <3>2
  <2> QED
    BY <1>3, <1>5, <1>6, <1>8, <1>10, <1>11, <2>1, <2>2, <2>3 DEF AgentInv
<1>16. ASSUME NEW b \in Agents PROVE AgentInv(b)'
  <2>1. CASE b # s /\ b # Main
    <3>1. SameAgent(b)
      BY <1>5, <1>6, <1>8, <1>9, <1>10, <2>1 DEF SameAgent
    <3> QED
      BY <1>4, <3>1, AgentKeeps DEF AgentsInv
  <2> QED
    BY <1>13, <1>15, <2>1
<1>17. AgentsInv'
  BY <1>16 DEF AgentsInv
<1>18. TypeInv'
  <2>1. \A b \in Agents : DOMAIN fields'[b] \subseteq Fields
    BY <1>7 DEF TypeInv, NoFields
  <2> QED
    BY <1>4, <1>5, <1>6, <1>7, <1>8, <1>9, <1>10, <2>1 DEF TypeInv, Growth
<1> QED
  BY <1>4, <1>17, <1>18

\* The end of a run.
LEMMA RunEndsAgents ==
  ASSUME TypeInv, AgentsInv, RunEnds
  PROVE  Growth /\ AgentsInv' /\ TypeInv'
<1>1. /\ msgs' = [a \in Agents |-> IF a = Main THEN msgs[a] ELSE <<>>]
      /\ event' = [a \in Agents |-> IF a = Main THEN event[a] ELSE None]
      /\ fields' = [a \in Agents |-> IF a = Main THEN fields[a] ELSE NoFields]
      /\ pc' = [a \in Agents |-> "idle"]
      /\ cut' = [a \in Agents |-> 0]
      /\ done' = [a \in Agents |-> [c \in {} |-> None]]
      /\ task' = [s \in Subs |-> None]
      /\ UNCHANGED <<records, history, stored, told, lost, made, offloads>>
  BY DEF RunEnds
<1>2. Growth
  BY <1>1, SameFilesGrow
<1>3. ASSUME NEW a \in Agents PROVE AgentInv(a)'
  <2>1. pc'[a] = "idle" /\ cut'[a] = 0 /\ DOMAIN done'[a] = {}
    BY <1>1
  <2>2. CASE a = Main
    BY <1>1, <1>2, <2>1, <2>2, AgentStops DEF AgentsInv
  <2>3. CASE a # Main
    BY <1>1, <1>2, <2>1, <2>3, AgentReset
  <2> QED
    BY <2>2, <2>3
<1>4. appends' \subseteq Appends
  <2>1. PICK kept \in SUBSET {p \in appends : p.step # "done"} :
          appends' = {[p EXCEPT !.by = None] : p \in kept}
    BY DEF RunEnds
  <2>2. ASSUME NEW p \in Appends PROVE [p EXCEPT !.by = None] \in Appends
    BY DEF Appends
  <2> QED
    BY <2>1, <2>2 DEF TypeInv
<1>5. \A a \in Agents : DOMAIN fields'[a] \subseteq Fields
  BY <1>1 DEF TypeInv, NoFields
<1>6. task' \in [Subs -> Calls \union {None}]
  BY <1>1
<1>7. TypeInv'
  BY <1>1, <1>2, <1>4, <1>5, <1>6 DEF TypeInv, Growth
<1> QED
  BY <1>2, <1>3, <1>7 DEF AgentsInv

\* One record of each call that has one.
RecordsOf(r, N, K, d) ==
  /\ \A x \in 1..Len(r) : \E k \in 1..K : r[x].call = <<N, k>> /\ d[<<N, k>>].steps # None
  /\ \A k \in 1..K : d[<<N, k>>].steps # None => \E x \in 1..Len(r) : r[x].call = <<N, k>>
  /\ \A x, y \in 1..Len(r) : r[x].call = r[y].call => x = y

StepsOf(N, K, d) ==
  FlattenSeq([k \in 1..K |-> IF d[<<N, k>>].steps = None THEN <<>> ELSE <<d[<<N, k>>].steps>>])

\* The records of the sub-agents of a step.
LEMMA MergeSteps ==
  ASSUME NEW N \in Nat, NEW K \in Nat, NEW d,
         \A k \in 1..K : d[<<N, k>>].steps # None =>
           d[<<N, k>>].steps \in Records /\ d[<<N, k>>].steps.call = <<N, k>>
  PROVE  StepsOf(N, K, d) \in Seq(Records) /\ RecordsOf(StepsOf(N, K, d), N, K, d)
<1>1. PICK f : f = [k \in 1..K |-> d[<<N, k>>].steps]
  OBVIOUS
<1>2. \A k \in 1..K : f[k] = d[<<N, k>>].steps
                      /\ (f[k] # None => f[k] \in Records /\ f[k].call = <<N, k>>)
  BY <1>1
<1>3. PICK seqs : seqs = [k \in 1..K |-> IF f[k] = None THEN <<>> ELSE <<f[k]>>]
  OBVIOUS
<1>4. FlattenSeq(seqs) = StepsOf(N, K, d)
  <2>1. seqs = [k \in 1..K |-> IF d[<<N, k>>].steps = None THEN <<>> ELSE <<d[<<N, k>>].steps>>]
    BY <1>1, <1>3
  <2> QED
    BY <2>1 DEF StepsOf
<1>5. \A k \in 1..K : (f[k] = None => seqs[k] = <<>>) /\ (f[k] # None => seqs[k] = <<f[k]>>)
  BY <1>3
<1>6. seqs \in Seq(Seq(Records)) /\ Len(seqs) = K
  <2>1. ASSUME NEW k \in 1..K PROVE seqs[k] \in Seq(Records)
    <3>1. CASE f[k] = None
      BY <1>5, <2>1, <3>1, EmptySeq
    <3>2. CASE f[k] # None
      <4>1. f[k] \in Records
        BY <1>2, <2>1, <3>2
      <4>2. <<f[k]>> \in Seq(Records)
        BY <4>1
      <4> QED
        BY <1>5, <2>1, <3>2, <4>2
    <3> QED
      BY <3>1, <3>2
  <2>2. seqs = [k \in 1..K |-> seqs[k]]
    BY <1>3
  <2> QED
    BY <2>1, <2>2, FunIsSeq
<1>7. \A k \in 1..K : seqs[k] = <<>> \/ \E x \in Records : seqs[k] = <<x>>
  BY <1>2, <1>5
<1>8. (\A x, y \in Records : <<x>> = <<y>> => x = y) /\ \A x : <<x>> # <<>>
  OBVIOUS
<1>9. ASSUME NEW j \in 1..K, NEW k \in 1..K, seqs[j] = seqs[k], seqs[j] # <<>>
      PROVE  j = k
  <2>1. f[j] # None /\ f[k] # None
    BY <1>5, <1>9
  <2>2. <<f[j]>> = <<f[k]>>
    BY <1>5, <1>9, <2>1
  <2>3. f[j] = f[k]
    BY <1>2, <1>8, <2>1, <2>2
  <2>4. <<N, j>> = <<N, k>>
    BY <1>2, <2>1, <2>3
  <2> QED
    BY <2>4
<1>10. PICK r \in Seq(Records) :
         /\ r = FlattenSeq(seqs)
         /\ \A x \in 1..Len(r) : \E k \in 1..K : seqs[k] = <<r[x]>>
         /\ \A k \in 1..K : seqs[k] = <<>> \/ \E x \in 1..Len(r) : seqs[k] = <<r[x]>>
         /\ \A x, y \in 1..Len(r) : r[x] = r[y] => x = y
  <2>1. \A j, k \in 1..Len(seqs) : seqs[j] = seqs[k] /\ seqs[j] # <<>> => j = k
    BY <1>6, <1>9
  <2>2. \A k \in 1..Len(seqs) : seqs[k] = <<>> \/ \E x \in Records : seqs[k] = <<x>>
    BY <1>6, <1>7
  <2>3. FlattenSeq(seqs) \in Seq(Records) /\ Picks(FlattenSeq(seqs), seqs)
    BY <1>6, <2>1, <2>2, FlattenOptional
  <2>4. PICK r \in Seq(Records) : r = FlattenSeq(seqs) /\ Picks(r, seqs)
    BY <2>3
  <2> QED
    BY <1>6, <2>4 DEF Picks
<1>11. \A x \in 1..Len(r) : r[x] \in Records
  BY <1>10
<1>12. ASSUME NEW x \in 1..Len(r)
       PROVE  \E k \in 1..K : r[x] = f[k] /\ f[k] # None
  <2>1. PICK k \in 1..K : seqs[k] = <<r[x]>>
    BY <1>10
  <2>2. f[k] # None /\ <<f[k]>> = <<r[x]>>
    BY <1>5, <1>8, <2>1
  <2> QED
    BY <1>2, <1>8, <1>11, <2>2
<1>13. ASSUME NEW k \in 1..K, f[k] # None
       PROVE  \E x \in 1..Len(r) : r[x] = f[k]
  <2>1. seqs[k] = <<f[k]>>
    BY <1>5, <1>13
  <2>2. PICK x \in 1..Len(r) : seqs[k] = <<r[x]>>
    BY <1>8, <1>10, <2>1
  <2> QED
    BY <1>2, <1>8, <1>11, <1>13, <2>1, <2>2
<1>14. ASSUME NEW x \in 1..Len(r), NEW y \in 1..Len(r), r[x].call = r[y].call
       PROVE  x = y
  <2>1. PICK j \in 1..K : r[x] = f[j] /\ f[j] # None
    BY <1>12
  <2>2. PICK k \in 1..K : r[y] = f[k] /\ f[k] # None
    BY <1>12
  <2>3. <<N, j>> = <<N, k>>
    BY <1>2, <1>14, <2>1, <2>2
  <2>4. r[x] = r[y]
    BY <2>1, <2>2, <2>3
  <2> QED
    BY <1>10, <2>4
<1>15. ASSUME NEW x \in 1..Len(r)
       PROVE  \E k \in 1..K : r[x].call = <<N, k>> /\ d[<<N, k>>].steps # None
  BY <1>2, <1>12, <1>15
<1>16. ASSUME NEW k \in 1..K, d[<<N, k>>].steps # None
       PROVE  \E x \in 1..Len(r) : r[x].call = <<N, k>>
  BY <1>2, <1>13, <1>16
<1>17. RecordsOf(r, N, K, d)
  BY <1>14, <1>15, <1>16 DEF RecordsOf
<1> QED
  BY <1>4, <1>10, <1>17

\* A merge, with the answers, the records and the event it leaves.
MergeStep(a, ans, steps, ev) ==
  /\ DOMAIN done[a] = CallsOf(Last(msgs[a]))
  /\ ans = [k \in 1..Len(Last(msgs[a]).calls) |-> done[a][<<Last(msgs[a]).id[1], k>>].msg]
  /\ steps = StepsOf(Last(msgs[a]).id[1], Len(Last(msgs[a]).calls), done[a])
  /\ ev = event[a] \/ \E c \in DOMAIN done[a] : done[a][c].event # None /\ ev = done[a][c].event
  /\ msgs' = [msgs EXCEPT ![a] = msgs[a] \o ans]
  /\ event' = [event EXCEPT ![a] = ev]
  /\ fields' = [fields EXCEPT ![a] = MergedFields(a)]
  /\ records' = IF a = Main THEN records \o steps ELSE records
  /\ done' = [done EXCEPT ![a] = [c \in {} |-> None]]
  /\ pc' = [pc EXCEPT ![a] = "model"]
  /\ UNCHANGED <<cut, task, appends, history, stored, told, lost, made, offloads>>

LEMMA MergeIs ==
  ASSUME AgentsInv, NEW a \in Agents, Merge(a)
  PROVE  pc[a] = "tools" /\ \E ans, steps, ev : MergeStep(a, ans, steps, ev)
<1>1. pc[a] = "tools" /\ DOMAIN done[a] = CallsOf(Last(msgs[a]))
  BY DEF Merge, Ready, Asking
<1>2. AgentOK(msgs[a], event[a], "tools", cut[a], made)
  BY <1>1 DEF AgentsInv, AgentInv
<1>3. PICK m : m = Last(msgs[a])
  OBVIOUS
<1>4. PICK K \in Nat : K = Len(m.calls) /\ DOMAIN m.calls = 1..K
  BY <1>2, <1>3, LastMessage
<1>5. PICK calls : calls = [k \in 1..K |-> <<m.id[1], k>>]
  OBVIOUS
<1>6. PICK commands : commands = [k \in 1..K |-> done[a][calls[k]]]
  OBVIOUS
<1>7. DOMAIN calls = 1..K /\ DOMAIN commands = 1..K
      /\ \A k \in 1..K : commands[k] = done[a][<<m.id[1], k>>]
  BY <1>5, <1>6
<1>8. PICK ans : ans = [k \in 1..K |-> commands[k].msg]
  OBVIOUS
<1>9. PICK steps : steps = FlattenSeq([k \in 1..K |-> IF commands[k].steps = None THEN <<>>
                                                      ELSE <<commands[k].steps>>])
  OBVIOUS
<1>10. PICK ev : ev = IF Compactors(a) = {} THEN event[a]
                      ELSE done[a][CHOOSE c \in Compactors(a) : TRUE].event
  OBVIOUS
<1>11. ans = [k \in 1..K |-> done[a][<<m.id[1], k>>].msg]
  BY <1>7, <1>8
<1>12. steps = StepsOf(m.id[1], K, done[a])
  <2>1. [k \in 1..K |-> IF commands[k].steps = None THEN <<>> ELSE <<commands[k].steps>>]
        = [k \in 1..K |-> IF done[a][<<m.id[1], k>>].steps = None THEN <<>>
                          ELSE <<done[a][<<m.id[1], k>>].steps>>]
    BY <1>7
  <2> QED
    BY <1>9, <2>1 DEF StepsOf
<1>13. ev = event[a] \/ \E c \in DOMAIN done[a] : done[a][c].event # None /\ ev = done[a][c].event
  <2>1. CASE Compactors(a) = {}
    BY <1>10, <2>1
  <2>2. CASE Compactors(a) # {}
    <3>1. PICK c : c = CHOOSE x \in Compactors(a) : TRUE
      OBVIOUS
    <3>2. c \in Compactors(a)
      BY <2>2, <3>1
    <3> QED
      BY <1>10, <2>2, <3>1, <3>2 DEF Compactors
  <2> QED
    BY <2>1, <2>2
<1>14. /\ msgs' = [msgs EXCEPT ![a] = msgs[a] \o ans]
       /\ records' = IF a = Main THEN records \o steps ELSE records
  BY <1>3, <1>4, <1>5, <1>6, <1>7, <1>8, <1>9 DEF Merge, Asking, Appended
<1>15. event' = [event EXCEPT ![a] = ev]
  BY <1>10 DEF Merge
<1>16. /\ fields' = [fields EXCEPT ![a] = MergedFields(a)]
       /\ done' = [done EXCEPT ![a] = [c \in {} |-> None]]
       /\ pc' = [pc EXCEPT ![a] = "model"]
       /\ UNCHANGED <<cut, task, appends, history, stored, told, lost, made, offloads>>
  BY DEF Merge, Reset, fileVars, counters
<1>17. MergeStep(a, ans, steps, ev)
  BY <1>1, <1>3, <1>4, <1>11, <1>12, <1>13, <1>14, <1>15, <1>16 DEF MergeStep
<1> QED
  BY <1>1, <1>17

LEMMA CallIn ==
  ASSUME NEW ms, NEW ev, NEW k, NEW n, AgentOK(ms, ev, "tools", k, n)
  PROVE  /\ \A i \in 1..Len(Last(ms).calls) : <<Last(ms).id[1], i>> \in CallsOf(Last(ms))
         /\ \A c \in CallsOf(Last(ms)) :
              \E i \in 1..Len(Last(ms).calls) : c = <<Last(ms).id[1], i>>
BY LastMessage DEF CallsOf

LEMMA MergedSteps ==
  ASSUME AgentsInv, NEW a \in Agents, NEW ans, NEW steps, NEW ev,
         pc[a] = "tools", MergeStep(a, ans, steps, ev)
  PROVE  steps \in Seq(Records)
         /\ RecordsOf(steps, Last(msgs[a]).id[1], Len(Last(msgs[a]).calls), done[a])
<1>1. AgentOK(msgs[a], event[a], "tools", cut[a], made)
  BY DEF AgentsInv, AgentInv
<1>2. PICK N \in Nat, K \in Nat : N = Last(msgs[a]).id[1] /\ K = Len(Last(msgs[a]).calls)
  BY <1>1, LastMessage
<1>3. \A k \in 1..K : <<N, k>> \in DOMAIN done[a]
  BY <1>1, <1>2, CallIn DEF MergeStep
<1>4. PICK d : d = done[a]
  OBVIOUS
<1>5. \A k \in 1..K : d[<<N, k>>].steps # None =>
        d[<<N, k>>].steps \in Records /\ d[<<N, k>>].steps.call = <<N, k>>
  BY <1>3, <1>4 DEF AgentsInv, AgentInv, CommandOK
<1>6. steps = StepsOf(N, K, d)
  BY <1>2, <1>4 DEF MergeStep
<1>7. StepsOf(N, K, d) \in Seq(Records) /\ RecordsOf(StepsOf(N, K, d), N, K, d)
  BY <1>5, MergeSteps
<1> QED
  BY <1>2, <1>4, <1>6, <1>7

\* The merge of what the calls of a step return.
LEMMA MergeAgents ==
  ASSUME TypeInv, AgentsInv, NEW a \in Agents, Merge(a)
  PROVE  Growth /\ AgentsInv' /\ TypeInv'
<1>1. pc[a] = "tools" /\ \E ans, steps, ev : MergeStep(a, ans, steps, ev)
  BY MergeIs
<1>2. PICK ans, steps, ev : MergeStep(a, ans, steps, ev)
  BY <1>1
<1>3. Growth
  BY <1>2, SameFilesGrow DEF MergeStep
<1>4. /\ msgs' = [b \in Agents |-> msgs'[b]] /\ msgs'[a] = msgs[a] \o ans
      /\ \A b \in Agents : b # a => msgs'[b] = msgs[b]
  BY <1>2, FunctionUpdate DEF TypeInv, MergeStep
<1>5. /\ event' = [b \in Agents |-> event'[b]] /\ event'[a] = ev
      /\ \A b \in Agents : b # a => event'[b] = event[b]
  BY <1>2, FunctionUpdate DEF TypeInv, MergeStep
<1>6. /\ fields' = [b \in Agents |-> fields'[b]] /\ fields'[a] = MergedFields(a)
      /\ \A b \in Agents : b # a => fields'[b] = fields[b]
  BY <1>2, FunctionUpdate DEF TypeInv, MergeStep
<1>7. /\ pc' = [b \in Agents |-> pc'[b]] /\ pc'[a] = "model"
      /\ \A b \in Agents : b # a => pc'[b] = pc[b]
  BY <1>2, FunctionUpdate DEF TypeInv, MergeStep
<1>8. /\ done' = [b \in Agents |-> done'[b]] /\ DOMAIN done'[a] = {}
      /\ \A b \in Agents : b # a => done'[b] = done[b]
  <2>1. PICK g : g = [c \in {} |-> None]
    OBVIOUS
  <2>2. done' = [done EXCEPT ![a] = g] /\ DOMAIN g = {}
    BY <1>2, <2>1 DEF MergeStep
  <2> QED
    BY <2>2, FunctionUpdate DEF TypeInv
<1>9. /\ AgentOK(msgs[a], event[a], "tools", 0, made) /\ cut[a] = 0 /\ made \in Nat
      /\ KeptOK(msgs[a], event[a], Gone', Files')
  BY <1>1, <1>3 DEF AgentsInv, AgentInv, AgentOK, KeptOK, Growth, TypeInv
<1>10. \A c \in DOMAIN done[a] : CommandOK(msgs[a], event[a], c, done[a][c], Gone', Files')
  <2>1. SUFFICES ASSUME NEW c \in DOMAIN done[a]
                 PROVE  CommandOK(msgs[a], event[a], c, done[a][c], Gone', Files')
    OBVIOUS
  <2>2. CommandOK(msgs[a], event[a], c, done[a][c], Gone, Files)
    BY DEF AgentsInv, AgentInv
  <2> QED
    BY <1>3, <2>2, CommandsKept DEF Growth
<1>11. /\ AgentOK(msgs[a] \o ans, ev, "model", 0, made)
       /\ KeptOK(msgs[a] \o ans, ev, Gone', Files')
  <2>1. /\ DOMAIN done[a] = CallsOf(Last(msgs[a]))
        /\ ans = [k \in 1..Len(Last(msgs[a]).calls) |-> done[a][<<Last(msgs[a]).id[1], k>>].msg]
        /\ \/ ev = event[a]
           \/ \E c \in DOMAIN done[a] : done[a][c].event # None /\ ev = done[a][c].event
    BY <1>2 DEF MergeStep
  <2> QED
    BY <1>9, <1>10, <2>1, MergeOK
<1>12. AgentInv(a)'
  <2>1. cut'[a] = 0 /\ made' = made
    BY <1>2, <1>9 DEF MergeStep
  <2> QED
    BY <1>4, <1>5, <1>7, <1>8, <1>11, <2>1 DEF AgentInv
<1>13. \A b \in Agents : b # a => SameAgent(b)
  BY <1>2, <1>4, <1>5, <1>7, <1>8 DEF SameAgent, MergeStep
<1>14. AgentsInv'
  BY <1>3, <1>12, <1>13, OneAgent
<1>15. records' \in Seq(Records)
  <2>1. steps \in Seq(Records) /\ records \in Seq(Records)
    BY <1>1, <1>2, MergedSteps DEF TypeInv
  <2>2. records \o steps \in Seq(Records)
    BY <2>1, Concat
  <2> QED
    BY <1>2, <2>1, <2>2 DEF MergeStep
<1>16. \A b \in Agents : DOMAIN fields'[b] \subseteq Fields
  <2>1. DOMAIN MergedFields(a) \subseteq Fields
    BY DEF MergedFields, TypeInv
  <2> QED
    BY <1>6, <2>1 DEF TypeInv
<1>17. TypeInv'
  <2>1. /\ cut' = cut /\ task' = task /\ appends' = appends
    BY <1>2 DEF MergeStep
  <2> QED
    BY <1>3, <1>4, <1>5, <1>6, <1>7, <1>8, <1>15, <1>16, <2>1 DEF TypeInv, Growth
<1> QED
  BY <1>3, <1>14, <1>17

LEMMA MergeFailsAgents ==
  ASSUME TypeInv, AgentsInv, NEW a, MergeFails(a)
  PROVE  Growth /\ AgentsInv' /\ TypeInv'
BY RunEndsAgents DEF MergeFails

LEMMA RunInterruptedAgents ==
  ASSUME TypeInv, AgentsInv, RunInterrupted
  PROVE  Growth /\ AgentsInv' /\ TypeInv'
BY RunEndsAgents DEF RunInterrupted

-----------------------------------------------------------------------------
(***************************************************************************)
(* The story of the results, the reports and the records                   *)
(***************************************************************************)

IsResult(m) == m.type = "tool" /\ m.how \notin {"cancelled", "refused"}

Results(ms) == {m.id : m \in {x \in ToSet(ms) : IsResult(x)}}

Reports(ms) ==
  {c \in Results(ms) : \E m \in ToSet(ms) : c \in CallsOf(m) /\ m.calls[c[2]] = "task"}

RecordCalls(recs) == [k \in DOMAIN recs |-> recs[k].call]

Story(ms, recs, heard) ==
  /\ IsInjective(RecordCalls(recs)) /\ ToSet(RecordCalls(recs)) = Reports(ms)
  /\ Results(ms) \ Reports(ms) \subseteq heard

LEMMA StoryIs ==
  /\ ReportsHaveRecords <=> Story(msgs[Main], records, told)
  /\ ReportsHaveRecords' <=> Story(msgs'[Main], records', told')
BY DEF ReportsHaveRecords, Story, RecordCalls, Reports, Results, IsResult

LEMMA StoryLater ==
  ASSUME NEW ms, NEW recs, NEW heard, NEW heard2, heard \subseteq heard2, Story(ms, recs, heard)
  PROVE  Story(ms, recs, heard2)
BY DEF Story

LEMMA StorySame ==
  ASSUME NEW ms, NEW r, NEW recs, NEW heard, Results(r) = Results(ms), Reports(r) = Reports(ms),
         Story(ms, recs, heard)
  PROVE  Story(r, recs, heard)
BY DEF Story

LEMMA ResultAt ==
  ASSUME NEW ms \in Seq(Msg)
  PROVE  /\ \A c : c \in Results(ms) <=>
              \E i \in 1..Len(ms) : IsResult(ms[i]) /\ ms[i].id = c
         /\ \A c : c \in Reports(ms) <=>
              c \in Results(ms)
              /\ \E i \in 1..Len(ms) : c \in CallsOf(ms[i]) /\ ms[i].calls[c[2]] = "task"
<1>1. DOMAIN ms = 1..Len(ms)
  OBVIOUS
<1>2. \A x : x \in ToSet(ms) <=> \E i \in 1..Len(ms) : x = ms[i]
  BY <1>1 DEF ToSet
<1>3. \A c : c \in Results(ms) <=>
        \E i \in 1..Len(ms) : IsResult(ms[i]) /\ ms[i].id = c
  BY <1>2 DEF Results
<1>4. \A c : c \in Reports(ms) <=>
        c \in Results(ms)
        /\ \E i \in 1..Len(ms) : c \in CallsOf(ms[i]) /\ ms[i].calls[c[2]] = "task"
  BY <1>2 DEF Reports
<1> QED
  BY <1>3, <1>4

LEMMA NoCalls ==
  ASSUME NEW m, m.calls = <<>>
  PROVE  CallsOf(m) = {}
BY DEF CallsOf

\* Messages that are no results and call for none of them.
LEMMA NoNewResults ==
  ASSUME NEW ms \in Seq(Msg), NEW r \in Seq(Msg), Len(ms) <= Len(r),
         \A i \in 1..Len(ms) : r[i] = ms[i],
         \A i \in (Len(ms) + 1)..Len(r) :
           /\ r[i].type = "tool" => r[i].how = "cancelled"
           /\ \A c \in CallsOf(r[i]) : c \notin Results(ms)
  PROVE  Results(r) = Results(ms) /\ Reports(r) = Reports(ms)
<1>1. Len(ms) \in Nat /\ Len(r) \in Nat
  OBVIOUS
<1>2. 1..Len(r) = 1..Len(ms) \union (Len(ms) + 1)..Len(r)
  BY <1>1
<1>3. ASSUME NEW c PROVE c \in Results(r) <=> c \in Results(ms)
  BY <1>2, ResultAt DEF IsResult
<1>4. ASSUME NEW c PROVE c \in Reports(r) <=> c \in Reports(ms)
  <2>1. ASSUME c \in Reports(r) PROVE c \in Reports(ms)
    <3>1. c \in Results(ms)
      BY <1>3, <2>1, ResultAt
    <3>2. PICK i \in 1..Len(r) : c \in CallsOf(r[i]) /\ r[i].calls[c[2]] = "task"
      BY <2>1, ResultAt
    <3>3. i \in 1..Len(ms) /\ r[i] = ms[i]
      BY <1>2, <3>1, <3>2
    <3> QED
      BY <3>1, <3>2, <3>3, ResultAt
  <2>2. ASSUME c \in Reports(ms) PROVE c \in Reports(r)
    <3>1. c \in Results(r)
      BY <1>3, <2>2, ResultAt
    <3>2. PICK i \in 1..Len(ms) : c \in CallsOf(ms[i]) /\ ms[i].calls[c[2]] = "task"
      BY <2>2, ResultAt
    <3>3. i \in 1..Len(r) /\ r[i] = ms[i]
      BY <1>2, <3>2
    <3> QED
      BY <3>1, <3>2, <3>3, ResultAt
  <2> QED
    BY <2>1, <2>2
<1> QED
  <2>1. Results(r) = Results(ms)
    BY <1>3
  <2>2. Reports(r) \subseteq Reports(ms) /\ Reports(ms) \subseteq Reports(r)
    BY <1>4
  <2> QED
    BY <2>1, <2>2

\* The last message of a step is the only one with its calls, and they have no
\* results yet.
LEMMA LastCalls ==
  ASSUME NEW ms, NEW ev, NEW x, NEW n, AgentOK(ms, ev, "tools", x, n),
         NEW k \in 1..Len(Last(ms).calls)
  PROVE  /\ <<Last(ms).id[1], k>> \notin Results(ms)
         /\ \A i \in 1..Len(ms) : <<Last(ms).id[1], k>> \in CallsOf(ms[i]) => i = Len(ms)
<1>1. ms \in Seq(Msg) /\ Conversation(ms)
  BY DEF AgentOK
<1>2. PICK e \in Nat : e = Len(ms) /\ e \in 1..Len(ms) /\ Last(ms) = ms[e] /\ ms[e].type = "ai"
  BY LastMessage
<1>3. PICK N \in Nat : N = ms[e].id[1]
  BY <1>2, LastMessage
<1>4. NewerThanAll(ms, e)
  BY <1>1, <1>2 DEF Conversation
<1>5. \A i \in 1..(e - 1) : ms[i].id[1] < N
  BY <1>3, <1>4 DEF NewerThanAll
<1>6. \A i \in 1..(e - 1) : i \in 1..Len(ms) /\ ms[i].id[1] \in Nat
  BY <1>1, <1>2, MsgFields
<1>7. <<N, k>> \notin Results(ms)
  <2>1. SUFFICES ASSUME NEW i \in 1..Len(ms), ms[i].type = "tool", ms[i].id = <<N, k>>
                 PROVE  FALSE
    BY <1>1, ResultAt DEF IsResult
  <2>2. i \in 1..(e - 1) /\ ms[i].id[1] = N
    BY <1>2, <2>1
  <2> QED
    BY <1>5, <1>6, <2>2
<1>8. ASSUME NEW i \in 1..Len(ms), <<N, k>> \in CallsOf(ms[i])
      PROVE  i = e
  <2>1. ms[i].id[1] = N
    BY <1>8 DEF CallsOf
  <2>2. SUFFICES ASSUME i \in 1..(e - 1) PROVE FALSE
    BY <1>2
  <2> QED
    BY <1>5, <1>6, <2>1, <2>2
<1> QED
  BY <1>2, <1>3, <1>7, <1>8

\* r has the results of ms, and those of the calls of its last message N that were
\* not refused.
AddsResults(r, ms, ans, N, K) ==
  /\ \A c : c \in Results(r) <=>
       c \in Results(ms) \/ \E k \in 1..K : c = <<N, k>> /\ ans[k].how # "refused"
  /\ \A c : c \in Reports(r) <=>
       \/ c \in Reports(ms)
       \/ \E k \in 1..K : /\ c = <<N, k>> /\ ans[k].how # "refused"
                          /\ Last(ms).calls[k] = "task"

\* The results of a step.
LEMMA MergeResults ==
  ASSUME NEW ms, NEW ev, NEW x, NEW n, AgentOK(ms, ev, "tools", x, n),
         NEW N, NEW K, N = Last(ms).id[1], K = Len(Last(ms).calls),
         NEW ans \in Seq(Msg), Len(ans) = K,
         \A k \in 1..K : /\ ans[k].type = "tool" /\ ans[k].id = <<N, k>>
                         /\ ans[k].how # "cancelled" /\ ans[k].calls = <<>>
  PROVE  AddsResults(ms \o ans, ms, ans, N, K)
<1>1. ms \in Seq(Msg) /\ Conversation(ms)
  BY DEF AgentOK
<1>2. PICK e \in Nat : e = Len(ms) /\ e \in 1..Len(ms) /\ Last(ms) = ms[e] /\ ms[e].type = "ai"
  BY LastMessage
<1>3. K \in Nat /\ N \in Nat
  BY LastMessage
<1>4. PICK r : r = ms \o ans
  OBVIOUS
<1>5. r \in Seq(Msg) /\ Len(r) = e + K
  <2>1. r \in Seq(Msg)
    BY <1>1, <1>4, Concat
  <2>2. Len(r) = Len(ms) + Len(ans)
    BY <1>1, <1>4, Concat
  <2> QED
    BY <1>2, <2>1, <2>2
<1>6. \A i \in 1..e : r[i] = ms[i]
  BY <1>1, <1>2, <1>4, Concat
<1>7. \A k \in 1..K : r[e + k] = ans[k] /\ e + k \in 1..Len(r)
  <2>1. \A k \in 1..Len(ans) : r[Len(ms) + k] = ans[k]
    BY <1>1, <1>4, Concat
  <2> QED
    BY <1>2, <1>3, <1>5, <2>1
<1>8. ASSUME NEW i \in 1..Len(r)
      PROVE  i \in 1..e \/ \E k \in 1..K : i = e + k
  <2>1. i \in 1..e \/ (i - e \in 1..K /\ i = e + (i - e))
    BY <1>2, <1>3, <1>5, <1>8
  <2> QED
    BY <2>1
<1>9. 1..e \subseteq 1..Len(r)
  BY <1>2, <1>3, <1>5
<1>10. ASSUME NEW c
       PROVE  c \in Results(r) <=>
                c \in Results(ms) \/ \E k \in 1..K : c = <<N, k>> /\ ans[k].how # "refused"
  <2>1. ASSUME c \in Results(r)
        PROVE  c \in Results(ms) \/ \E k \in 1..K : c = <<N, k>> /\ ans[k].how # "refused"
    <3>1. PICK i \in 1..Len(r) : IsResult(r[i]) /\ r[i].id = c
      BY <1>5, <2>1, ResultAt
    <3>2. CASE i \in 1..e
      BY <1>1, <1>2, <1>6, <3>1, <3>2, ResultAt
    <3>3. CASE \E k \in 1..K : i = e + k
      BY <1>7, <3>1, <3>3 DEF IsResult
    <3> QED
      BY <1>8, <3>2, <3>3
  <2>2. ASSUME c \in Results(ms) PROVE c \in Results(r)
    <3>1. PICK i \in 1..e : IsResult(ms[i]) /\ ms[i].id = c
      BY <1>1, <1>2, <2>2, ResultAt
    <3>2. i \in 1..Len(r) /\ r[i] = ms[i]
      BY <1>6, <1>9
    <3> QED
      BY <1>5, <3>1, <3>2, ResultAt
  <2>3. ASSUME NEW k \in 1..K, c = <<N, k>>, ans[k].how # "refused" PROVE c \in Results(r)
    <3>1. e + k \in 1..Len(r) /\ r[e + k] = ans[k]
      BY <1>7
    <3>2. IsResult(r[e + k]) /\ r[e + k].id = c
      BY <2>3, <3>1 DEF IsResult
    <3> QED
      BY <1>5, <3>1, <3>2, ResultAt
  <2> QED
    BY <2>1, <2>2, <2>3
<1>11. \A c : \A i \in 1..Len(r) : c \in CallsOf(r[i]) => i \in 1..e
  <2>1. SUFFICES ASSUME NEW c, NEW i \in 1..Len(r), c \in CallsOf(r[i]), NEW k \in 1..K, i = e + k
                 PROVE  FALSE
    BY <1>8
  <2>2. r[i].calls = <<>>
    BY <1>7, <2>1
  <2> QED
    BY <2>1, <2>2, NoCalls
<1>12. ASSUME NEW c
       PROVE  c \in Reports(r) <=>
                \/ c \in Reports(ms)
                \/ \E k \in 1..K : /\ c = <<N, k>> /\ ans[k].how # "refused"
                                   /\ Last(ms).calls[k] = "task"
  <2>1. ASSUME c \in Reports(r)
        PROVE  \/ c \in Reports(ms)
               \/ \E k \in 1..K : /\ c = <<N, k>> /\ ans[k].how # "refused"
                                  /\ Last(ms).calls[k] = "task"
    <3>1. PICK i \in 1..Len(r) : c \in CallsOf(r[i]) /\ r[i].calls[c[2]] = "task"
      BY <1>5, <2>1, ResultAt
    <3>2. i \in 1..Len(ms) /\ r[i] = ms[i]
      BY <1>2, <1>6, <1>11, <3>1
    <3>3. CASE c \in Results(ms)
      BY <1>1, <3>1, <3>2, <3>3, ResultAt
    <3>4. CASE \E k \in 1..K : c = <<N, k>> /\ ans[k].how # "refused"
      <4>1. PICK k \in 1..K : c = <<N, k>> /\ ans[k].how # "refused"
        BY <3>4
      <4>2. i = e
        BY <1>2, <3>1, <3>2, <4>1, LastCalls
      <4>3. c[2] = k
        BY <4>1
      <4> QED
        BY <1>2, <3>1, <3>2, <4>1, <4>2, <4>3
    <3> QED
      BY <1>5, <1>10, <2>1, <3>3, <3>4, ResultAt
  <2>2. ASSUME c \in Reports(ms) PROVE c \in Reports(r)
    <3>1. PICK i \in 1..e : c \in CallsOf(ms[i]) /\ ms[i].calls[c[2]] = "task"
      BY <1>1, <1>2, <2>2, ResultAt
    <3>2. i \in 1..Len(r) /\ r[i] = ms[i]
      BY <1>6, <1>9
    <3>3. c \in Results(r)
      BY <1>1, <1>10, <2>2, ResultAt
    <3> QED
      BY <1>5, <3>1, <3>2, <3>3, ResultAt
  <2>3. ASSUME NEW k \in 1..K, c = <<N, k>>, ans[k].how # "refused", Last(ms).calls[k] = "task"
        PROVE  c \in Reports(r)
    <3>1. c \in CallsOf(ms[e])
      BY <1>2, <2>3, CallIn
    <3>2. e \in 1..Len(r) /\ r[e] = ms[e]
      BY <1>2, <1>6, <1>9
    <3>3. c \in Results(r)
      BY <1>10, <2>3
    <3>4. c[2] = k
      BY <2>3
    <3>5. c \in CallsOf(r[e]) /\ r[e].calls[c[2]] = "task"
      BY <1>2, <2>3, <3>1, <3>2, <3>4
    <3> QED
      BY <1>5, <3>2, <3>3, <3>5, ResultAt
  <2> QED
    BY <2>1, <2>2, <2>3
<1>13. AddsResults(r, ms, ans, N, K)
  BY <1>10, <1>12 DEF AddsResults
<1> QED
  BY <1>4, <1>13

LEMMA CallsOfRecords ==
  ASSUME NEW s \in Seq(Records)
  PROVE  /\ \A c : c \in ToSet(RecordCalls(s)) <=> \E i \in 1..Len(s) : s[i].call = c
         /\ IsInjective(RecordCalls(s)) <=>
              \A i, j \in 1..Len(s) : s[i].call = s[j].call => i = j
<1>1. PICK f : f = RecordCalls(s)
  OBVIOUS
<1>2. DOMAIN f = 1..Len(s) /\ \A i \in 1..Len(s) : f[i] = s[i].call
  BY <1>1 DEF RecordCalls
<1>3. \A c : c \in ToSet(f) <=> \E i \in 1..Len(s) : s[i].call = c
  BY <1>2 DEF ToSet
<1>4. IsInjective(f) <=> \A i, j \in 1..Len(s) : s[i].call = s[j].call => i = j
  BY <1>2 DEF IsInjective
<1> QED
  BY <1>1, <1>3, <1>4

\* The records of a step are those of its reports, and its other results are told.
LEMMA MergeStory ==
  ASSUME NEW ms, NEW ev, NEW x, NEW n, AgentOK(ms, ev, "tools", x, n),
         NEW N, NEW K, N = Last(ms).id[1], K = Len(Last(ms).calls),
         NEW ans \in Seq(Msg), Len(ans) = K,
         \A k \in 1..K : /\ ans[k].type = "tool" /\ ans[k].id = <<N, k>>
                         /\ ans[k].how # "cancelled" /\ ans[k].calls = <<>>,
         NEW recs \in Seq(Records), NEW heard, Story(ms, recs, heard),
         NEW d, NEW steps \in Seq(Records), RecordsOf(steps, N, K, d),
         \A k \in 1..K : ans[k] = d[<<N, k>>].msg,
         \A k \in 1..K : ReportOK(ms, <<N, k>>, d[<<N, k>>], heard)
  PROVE  Story(ms \o ans, recs \o steps, heard)
<1>1. PICK r : r = ms \o ans
  OBVIOUS
<1> DEFINE Reported(k) == Last(ms).calls[k] = "task" /\ ans[k].how # "refused"
<1>0. AddsResults(ms \o ans, ms, ans, N, K)
  BY MergeResults
<1>2. \A c : c \in Results(r) <=>
        c \in Results(ms) \/ \E k \in 1..K : c = <<N, k>> /\ ans[k].how # "refused"
  BY <1>0, <1>1 DEF AddsResults
<1>3. \A c : c \in Reports(r) <=>
        c \in Reports(ms) \/ \E k \in 1..K : c = <<N, k>> /\ Reported(k)
  BY <1>0, <1>1 DEF AddsResults
<1>4. \A k \in 1..K : <<N, k>> \notin Results(ms)
  BY LastCalls
<1>5. \A k \in 1..K : /\ Reported(k) <=> d[<<N, k>>].steps # None
                      /\ Last(ms).calls[k] # "task" => <<N, k>> \in heard
  <2>1. SUFFICES ASSUME NEW k \in 1..K
                 PROVE  /\ Reported(k) <=> d[<<N, k>>].steps # None
                        /\ Last(ms).calls[k] # "task" => <<N, k>> \in heard
    OBVIOUS
  <2>2. ReportOK(ms, <<N, k>>, d[<<N, k>>], heard) /\ <<N, k>>[2] = k
    OBVIOUS
  <2> QED
    BY <2>2 DEF ReportOK
<1>6. PICK s : s = recs \o steps
  OBVIOUS
<1>7. s \in Seq(Records) /\ Len(s) = Len(recs) + Len(steps) /\ Len(recs) \in Nat /\ Len(steps) \in Nat
  <2>1. s \in Seq(Records)
    BY <1>6, Concat
  <2>2. Len(s) = Len(recs) + Len(steps)
    BY <1>6, Concat
  <2> QED
    BY <2>1, <2>2
<1>8. \A i \in 1..Len(recs) : s[i] = recs[i]
  BY <1>6, Concat
<1>9. \A i \in 1..Len(steps) : s[Len(recs) + i] = steps[i]
  BY <1>6, Concat
<1>10. ASSUME NEW i \in 1..Len(s)
       PROVE  i \in 1..Len(recs) \/ \E j \in 1..Len(steps) : i = Len(recs) + j
  <2>1. i \in 1..Len(recs) \/ (i - Len(recs) \in 1..Len(steps) /\ i = Len(recs) + (i - Len(recs)))
    BY <1>7, <1>10
  <2> QED
    BY <2>1
<1>11. /\ \A c : c \in Reports(ms) <=> \E i \in 1..Len(recs) : recs[i].call = c
       /\ \A i, j \in 1..Len(recs) : recs[i].call = recs[j].call => i = j
  BY CallsOfRecords DEF Story
<1>12. /\ \A y \in 1..Len(steps) : \E k \in 1..K :
            steps[y].call = <<N, k>> /\ Reported(k)
       /\ \A k \in 1..K : Reported(k) =>
            \E y \in 1..Len(steps) : steps[y].call = <<N, k>>
       /\ \A y, z \in 1..Len(steps) : steps[y].call = steps[z].call => y = z
  BY <1>5 DEF RecordsOf
<1>13. \A c : c \in Reports(ms) => c \in Results(ms)
  BY DEF Reports
<1>14. ASSUME NEW c PROVE c \in Reports(r) <=> \E i \in 1..Len(s) : s[i].call = c
  <2>1. ASSUME c \in Reports(r) PROVE \E i \in 1..Len(s) : s[i].call = c
    <3>1. CASE c \in Reports(ms)
      <4>1. PICK i \in 1..Len(recs) : recs[i].call = c
        BY <1>11, <3>1
      <4>2. i \in 1..Len(s)
        BY <1>7
      <4> QED
        BY <1>8, <4>1, <4>2
    <3>2. CASE \E k \in 1..K : c = <<N, k>> /\ Reported(k)
      <4>1. PICK y \in 1..Len(steps) : steps[y].call = c
        BY <1>12, <3>2
      <4>2. Len(recs) + y \in 1..Len(s)
        BY <1>7
      <4> QED
        BY <1>9, <4>1, <4>2
    <3> QED
      BY <1>3, <2>1, <3>1, <3>2
  <2>2. ASSUME NEW i \in 1..Len(s), s[i].call = c PROVE c \in Reports(r)
    <3>1. CASE i \in 1..Len(recs)
      BY <1>3, <1>8, <1>11, <2>2, <3>1
    <3>2. CASE \E j \in 1..Len(steps) : i = Len(recs) + j
      <4>1. PICK j \in 1..Len(steps) : i = Len(recs) + j
        BY <3>2
      <4>2. steps[j].call = c
        BY <1>9, <2>2, <4>1
      <4>3. \E k \in 1..K : c = <<N, k>> /\ Reported(k)
        BY <1>12, <4>2
      <4> QED
        BY <1>3, <4>3
    <3> QED
      BY <1>10, <3>1, <3>2
  <2> QED
    BY <2>1, <2>2
<1>15. ASSUME NEW i \in 1..Len(s), NEW j \in 1..Len(s), s[i].call = s[j].call
       PROVE  i = j
  <2>1. ASSUME NEW y \in 1..Len(recs), NEW z \in 1..Len(steps), recs[y].call = steps[z].call
        PROVE  FALSE
    <3>1. PICK k \in 1..K : steps[z].call = <<N, k>>
      BY <1>12, <2>1
    <3>2. recs[y].call \in Results(ms)
      BY <1>11, <1>13, <2>1
    <3> QED
      BY <1>4, <2>1, <3>1, <3>2
  <2>2. CASE i \in 1..Len(recs) /\ j \in 1..Len(recs)
    BY <1>8, <1>11, <1>15, <2>2
  <2>3. CASE i \in 1..Len(recs) /\ \E z \in 1..Len(steps) : j = Len(recs) + z
    BY <1>8, <1>9, <1>15, <2>1, <2>3
  <2>4. CASE j \in 1..Len(recs) /\ \E z \in 1..Len(steps) : i = Len(recs) + z
    BY <1>8, <1>9, <1>15, <2>1, <2>4
  <2>5. CASE /\ \E z \in 1..Len(steps) : i = Len(recs) + z
             /\ \E z \in 1..Len(steps) : j = Len(recs) + z
    <3>1. PICK y \in 1..Len(steps), z \in 1..Len(steps) : i = Len(recs) + y /\ j = Len(recs) + z
      BY <2>5
    <3>2. steps[y].call = steps[z].call
      BY <1>9, <1>15, <3>1
    <3>3. y = z
      BY <1>12, <3>2
    <3> QED
      BY <3>1, <3>3
  <2> QED
    BY <1>10, <2>2, <2>3, <2>4, <2>5
<1>16. Results(r) \ Reports(r) \subseteq heard
  <2>1. SUFFICES ASSUME NEW c, c \in Results(r), c \notin Reports(r) PROVE c \in heard
    OBVIOUS
  <2>2. CASE c \in Results(ms)
    BY <1>3, <2>1, <2>2 DEF Story
  <2>3. CASE \E k \in 1..K : c = <<N, k>> /\ ans[k].how # "refused"
    BY <1>3, <1>5, <2>1, <2>3
  <2> QED
    BY <1>2, <2>1, <2>2, <2>3
<1>17. ToSet(RecordCalls(s)) = Reports(r)
  <2>1. \A c : c \in ToSet(RecordCalls(s)) <=> c \in Reports(r)
    BY <1>7, <1>14, CallsOfRecords
  <2>2. ToSet(RecordCalls(s)) \subseteq Reports(r) /\ Reports(r) \subseteq ToSet(RecordCalls(s))
    BY <2>1
  <2> QED
    BY <2>2
<1>18. IsInjective(RecordCalls(s))
  BY <1>7, <1>15, CallsOfRecords
<1> QED
  BY <1>1, <1>6, <1>16, <1>17, <1>18 DEF Story

-----------------------------------------------------------------------------
(***************************************************************************)
(* The steps, one by one: appends, sub-agents, reports and records         *)
(***************************************************************************)

Together == AppendInv /\ SubInv /\ ReportInv /\ ReportsHaveRecords

SameTalk(a) ==
  msgs'[a] = msgs[a] /\ event'[a] = event[a] /\ pc'[a] = pc[a] /\ cut'[a] = cut[a]

LEMMA AppendLater ==
  ASSUME NEW p, NEW ms, NEW ev, NEW w, NEW k, NEW d, NEW gone, NEW d2, NEW gone2,
         AppendOK(p, ms, ev, w, k, d, gone), gone \subseteq gone2,
         p.call # None => p.call \notin DOMAIN d2
  PROVE  AppendOK(p, ms, ev, w, k, d2, gone2)
BY DEF AppendOK

\* Some appends go on, and at most one is new.
LEMMA AppendsWith ==
  ASSUME AppendInv, Growth, NEW kept, kept \subseteq appends, NEW fresh,
         appends' = kept \union fresh,
         \A p \in kept : p.by # None =>
           SameTalk(p.by) /\ (p.call # None => p.call \notin DOMAIN done'[p.by]),
         \A q \in fresh :
           IF q.by = None THEN q.step # "done"
           ELSE AppendOK(q, msgs'[q.by], event'[q.by], pc'[q.by], cut'[q.by], done'[q.by], Gone'),
         \A q \in fresh : \A p \in kept : p.by = q.by /\ p.by # None => p.call # q.call,
         \A q, x \in fresh : q = x
  PROVE  AppendInv'
<1>1. ASSUME NEW p \in appends'
      PROVE  IF p.by = None THEN p.step # "done"
             ELSE AppendOK(p, msgs'[p.by], event'[p.by], pc'[p.by], cut'[p.by], done'[p.by], Gone')
  <2>1. CASE p \in kept
    <3>1. CASE p.by = None
      BY <2>1, <3>1 DEF AppendInv
    <3>2. CASE p.by # None
      <4>1. AppendOK(p, msgs[p.by], event[p.by], pc[p.by], cut[p.by], done[p.by], Gone)
        BY <2>1, <3>2 DEF AppendInv
      <4>2. /\ SameTalk(p.by) /\ Gone \subseteq Gone'
            /\ p.call # None => p.call \notin DOMAIN done'[p.by]
        BY <2>1, <3>2 DEF Growth
      <4>3. AppendOK(p, msgs[p.by], event[p.by], pc[p.by], cut[p.by], done'[p.by], Gone')
        BY <4>1, <4>2, AppendLater
      <4> QED
        BY <3>2, <4>2, <4>3 DEF SameTalk
    <3> QED
      BY <3>1, <3>2
  <2>2. CASE p \in fresh
    BY <2>2
  <2> QED
    BY <1>1, <2>1, <2>2
<1>2. ASSUME NEW p \in appends', NEW q \in appends', p.by = q.by, p.by # None, p.call = q.call
      PROVE  p = q
  <2>1. CASE p \in kept /\ q \in kept
    BY <1>2, <2>1 DEF AppendInv
  <2> QED
    BY <1>2, <2>1
<1> QED
  BY <1>1, <1>2 DEF AppendInv

LEMMA AppendsKeep ==
  ASSUME AppendInv, Growth, appends' \subseteq appends,
         \A p \in appends' : p.by # None =>
           SameTalk(p.by) /\ (p.call # None => p.call \notin DOMAIN done'[p.by])
  PROVE  AppendInv'
<1>1. PICK kept, fresh : kept = appends' /\ fresh = {}
  OBVIOUS
<1>2. /\ kept \subseteq appends /\ appends' = kept \union fresh
      /\ \A p \in kept : p.by # None =>
           SameTalk(p.by) /\ (p.call # None => p.call \notin DOMAIN done'[p.by])
  BY <1>1
<1>3. /\ \A q \in fresh :
           IF q.by = None THEN q.step # "done"
           ELSE AppendOK(q, msgs'[q.by], event'[q.by], pc'[q.by], cut'[q.by], done'[q.by], Gone')
      /\ \A q \in fresh : \A p \in kept : p.by = q.by /\ p.by # None => p.call # q.call
      /\ \A q, x \in fresh : q = x
  BY <1>1
<1> QED
  BY <1>2, <1>3, AppendsWith

\* Who neither summarizes nor runs tools waits for no append.
LEMMA NoAppendBy ==
  ASSUME AppendInv, NEW a \in Agents, pc[a] \notin {"summary", "tools"}, NEW p \in appends
  PROVE  p.by # a
<1>1. a # None
  BY AgAssumption DEF AgAssumption, Agents
<1>2. SUFFICES ASSUME p.by = a PROVE FALSE
  OBVIOUS
<1>3. AppendOK(p, msgs[a], event[a], pc[a], cut[a], done[a], Gone)
  BY <1>1, <1>2 DEF AppendInv
<1> QED
  BY <1>3 DEF AppendOK

LEMMA WaitingFor ==
  ASSUME AppendInv, TypeInv, NEW p \in appends, p.by # None, p.call # None
  PROVE  /\ p.by \in Agents /\ pc[p.by] = "tools" /\ p.call \in CallsOf(Last(msgs[p.by]))
         /\ p.call \notin DOMAIN done[p.by]
         /\ Last(msgs[p.by]).calls[p.call[2]] = "compact_conversation"
<1>1. p \in Appends
  BY DEF TypeInv
<1>2. AppendOK(p, msgs[p.by], event[p.by], pc[p.by], cut[p.by], done[p.by], Gone)
  BY DEF AppendInv
<1> QED
  BY <1>1, <1>2 DEF AppendOK, Appends

LEMMA SubsKeep ==
  ASSUME SubInv, \A s \in Subs : task'[s] = task[s],
         \A s \in Subs : pc[s] = "idle" =>
           pc'[s] = "idle" /\ msgs'[s] = msgs[s] /\ event'[s] = event[s],
         \A s \in Subs : pc[s] # "idle" =>
           /\ pc'[s] # "idle" /\ pc'[Main] = pc[Main] /\ msgs'[Main] = msgs[Main]
           /\ task[s] \notin DOMAIN done'[Main]
  PROVE  SubInv'
<1>1. ASSUME NEW s \in Subs
      PROVE SubOK(msgs'[s], event'[s], pc'[s], task'[s], msgs'[Main], pc'[Main], done'[Main])
  <2>1. SubOK(msgs[s], event[s], pc[s], task[s], msgs[Main], pc[Main], done[Main])
    BY DEF SubInv
  <2>2. CASE pc[s] = "idle"
    BY <2>1, <2>2 DEF SubOK
  <2>3. CASE pc[s] # "idle"
    BY <2>1, <2>3 DEF SubOK
  <2> QED
    BY <2>2, <2>3
<1>2. \A s, t \in Subs : s # t /\ task'[s] # None => task'[s] # task'[t]
  BY DEF SubInv
<1> QED
  BY <1>1, <1>2 DEF SubInv

LEMMA SubsIdle ==
  ASSUME SubInv, pc[Main] # "tools" \/ DOMAIN done[Main] = CallsOf(Last(msgs[Main])),
         NEW s \in Subs
  PROVE  pc[s] = "idle"
<1>1. SubOK(msgs[s], event[s], pc[s], task[s], msgs[Main], pc[Main], done[Main])
  BY DEF SubInv
<1> QED
  BY <1>1 DEF SubOK

\* A sub-agent works for a call of the main agent that is not done.
LEMMA WorksFor ==
  ASSUME SubInv, NEW s \in Subs, pc[s] # "idle"
  PROVE  /\ pc[Main] = "tools" /\ task[s] \in CallsOf(Last(msgs[Main]))
         /\ task[s] \notin DOMAIN done[Main] /\ Last(msgs[Main]).calls[task[s][2]] = "task"
<1>1. SubOK(msgs[s], event[s], pc[s], task[s], msgs[Main], pc[Main], done[Main])
  BY DEF SubInv
<1> QED
  BY <1>1 DEF SubOK

\* An agent that has no call done takes a step, and no other does.
LEMMA Turn ==
  ASSUME TypeInv, SubInv, ReportInv, ReportsHaveRecords, Growth, NEW a \in Agents,
         \A b \in Agents : b # a => SameAgent(b), task' = task, DOMAIN done'[a] = {},
         a # Main => pc[a] # "idle" /\ pc'[a] # "idle" /\ records' = records,
         a = Main => (\A s \in Subs : pc[s] = "idle") /\ Story(msgs'[Main], records', told')
  PROVE  SubInv' /\ ReportInv' /\ ReportsHaveRecords'
<1>0. Main \in Agents /\ Main \notin Subs /\ Subs \subseteq Agents
  BY AgAssumption DEF AgAssumption, Agents
<1>1. CASE a = Main
  <2>1. \A s \in Subs : pc[s] = "idle" /\ SameAgent(s)
    BY <1>0, <1>1
  <2>2. SubInv'
    BY <2>1, SubsKeep DEF SameAgent
  <2> QED
    BY <1>1, <2>2, StoryIs DEF ReportInv
<1>2. CASE a # Main
  <2>1. SameAgent(Main)
    BY <1>0, <1>2
  <2>2. \A s \in Subs : pc[s] = "idle" => SameAgent(s)
    BY <1>0, <1>2
  <2>3. \A s \in Subs : pc[s] # "idle" => pc'[s] # "idle"
    BY <1>0, <1>2 DEF SameAgent
  <2>4. \A s \in Subs : pc[s] # "idle" => task[s] \notin DOMAIN done'[Main]
    BY <2>1, WorksFor DEF SameAgent
  <2>5. SubInv'
    BY <2>1, <2>2, <2>3, <2>4, SubsKeep DEF SameAgent
  <2>6. ReportInv'
    BY <2>1 DEF ReportInv, ReportOK, SameAgent, Growth
  <2>7. told \subseteq told' /\ records' = records /\ msgs'[Main] = msgs[Main]
    BY <1>2, <2>1 DEF Growth, SameAgent
  <2>8. Story(msgs[Main], records, told)
    BY StoryIs
  <2>9. Story(msgs[Main], records, told')
    BY <2>7, <2>8, StoryLater
  <2>10. ReportsHaveRecords'
    BY <2>7, <2>9, StoryIs
  <2> QED
    BY <2>5, <2>6, <2>10
<1> QED
  BY <1>1, <1>2

\* No appends are waited for by the one that takes a step.
LEMMA TurnAppends ==
  ASSUME TypeInv, AppendInv, Growth, NEW a \in Agents,
         \A b \in Agents : b # a => SameAgent(b),
         appends' \subseteq appends, \A p \in appends' : p.by # a
  PROVE  AppendInv'
<1>1. ASSUME NEW p \in appends', p.by # None
      PROVE  SameTalk(p.by) /\ (p.call # None => p.call \notin DOMAIN done'[p.by])
  <2>1. p \in Appends
    BY DEF TypeInv
  <2>2. p.by \in Agents /\ p.by # a
    BY <1>1, <2>1 DEF Appends
  <2>3. SameAgent(p.by)
    BY <2>2
  <2>4. p.call # None => p.call \notin DOMAIN done[p.by]
    BY <1>1, WaitingFor
  <2> QED
    BY <2>3, <2>4 DEF SameAgent, SameTalk
<1> QED
  BY <1>1, AppendsKeep

\* A call of an agent is done.
LEMMA FinishTogether ==
  ASSUME TypeInv, Together, Growth, NEW a \in Agents, NEW c, NEW d,
         pc[a] = "tools", Finish(a, c, d),
         UNCHANGED <<msgs, event, records, pc, cut, task>>,
         appends' \subseteq appends, \A p \in appends' : p.by = a => p.call # c,
         a = Main => /\ \A s \in Subs : pc[s] # "idle" => task[s] # c
                     /\ ReportOK(msgs[Main], c, d, told')
  PROVE  Together'
<1>0. Main \in Agents /\ Main \notin Subs /\ Subs \subseteq Agents
  BY AgAssumption DEF AgAssumption, Agents
<1>1. /\ done' = [b \in Agents |-> done'[b]]
      /\ \A b \in Agents : b # a => done'[b] = done[b]
      /\ DOMAIN done'[a] = DOMAIN done[a] \union {c}
      /\ done'[a][c] = d
      /\ \A x \in DOMAIN done[a] : x # c => done'[a][x] = done[a][x]
  BY FinishIs
<1>2. AppendInv'
  <2>1. ASSUME NEW p \in appends', p.by # None
        PROVE  SameTalk(p.by) /\ (p.call # None => p.call \notin DOMAIN done'[p.by])
    <3>1. p \in appends
      OBVIOUS
    <3>2. p.call # None => p.by \in Agents /\ p.call \notin DOMAIN done[p.by]
      BY <2>1, <3>1, WaitingFor DEF Together
    <3>3. p.by = a => p.call # c
      OBVIOUS
    <3>4. p.call # None => p.call \notin DOMAIN done'[p.by]
      BY <1>1, <3>2, <3>3
    <3> QED
      BY <3>4 DEF SameTalk
  <2> QED
    BY <2>1, AppendsKeep DEF Together
<1>3. SubInv'
  <2>1. ASSUME NEW s \in Subs, pc[s] # "idle" PROVE task[s] \notin DOMAIN done'[Main]
    <3>1. task[s] \notin DOMAIN done[Main]
      BY <2>1, WorksFor DEF Together
    <3> QED
      BY <1>0, <1>1, <2>1, <3>1
  <2> QED
    BY <2>1, SubsKeep DEF Together
<1>4. ReportInv'
  <2>1. SUFFICES ASSUME NEW x \in DOMAIN done'[Main]
                 PROVE  ReportOK(msgs[Main], x, done'[Main][x], told')
    BY DEF ReportInv
  <2>2. CASE a = Main /\ x = c
    BY <1>1, <2>2
  <2>3. CASE ~ (a = Main /\ x = c)
    <3>1. x \in DOMAIN done[Main] /\ done'[Main][x] = done[Main][x]
      BY <1>0, <1>1, <2>1, <2>3
    <3>2. ReportOK(msgs[Main], x, done[Main][x], told)
      BY <3>1 DEF ReportInv, Together
    <3> QED
      BY <3>1, <3>2 DEF ReportOK, Growth
  <2> QED
    BY <2>2, <2>3
<1>5. ReportsHaveRecords'
  <2>1. Story(msgs[Main], records, told)
    BY StoryIs DEF Together
  <2>2. Story(msgs[Main], records, told')
    BY <2>1, StoryLater DEF Growth
  <2> QED
    BY <2>2, StoryIs
<1> QED
  BY <1>2, <1>3, <1>4, <1>5 DEF Together

LEMMA UserMessageTogether ==
  ASSUME TypeInv, AgentsInv, Together, UserMessage
  PROVE  Together'
<1>0. Main \in Agents /\ made \in Nat
  BY DEF Agents, TypeInv
<1>1. /\ pc[Main] = "idle"
      /\ msgs' = [msgs EXCEPT ![Main] = Patched(Append(msgs[Main], Human))]
      /\ pc' = [pc EXCEPT ![Main] = "model"]
      /\ event' = event /\ records' = records /\ cut' = cut /\ done' = done /\ task' = task
      /\ appends' = appends /\ told' = told
  BY DEF UserMessage, fileVars
<1>2. Growth
  BY UserMessageAgents
<1>3. /\ msgs'[Main] = Patched(Append(msgs[Main], Human))
      /\ \A b \in Agents : b # Main => msgs'[b] = msgs[b]
  BY <1>0, <1>1, FunctionUpdate DEF TypeInv
<1>4. \A b \in Agents : b # Main => pc'[b] = pc[b]
  BY <1>0, <1>1, FunctionUpdate DEF TypeInv
<1>5. \A b \in Agents : b # Main => SameAgent(b)
  BY <1>1, <1>3, <1>4 DEF SameAgent
<1>6. \A p \in appends' : p.by # Main
  BY <1>0, <1>1, NoAppendBy DEF Together
<1>7. AppendInv'
  BY <1>0, <1>1, <1>2, <1>5, <1>6, TurnAppends DEF Together
<1>8. Story(msgs'[Main], records', told')
  <2>1. /\ AgentOK(msgs[Main], event[Main], "idle", 0, made)
        /\ KeptOK(msgs[Main], event[Main], Gone, Files)
    BY <1>0, <1>1 DEF AgentsInv, AgentInv, AgentOK
  <2>2. PICK r : r = Patched(Append(msgs[Main], Human))
    OBVIOUS
  <2>3. /\ AgentOK(r, event[Main], "model", 0, made + 1)
        /\ Len(msgs[Main]) < Len(r) /\ \A i \in 1..Len(msgs[Main]) : r[i] = msgs[Main][i]
        /\ \A i \in (Len(msgs[Main]) + 1)..Len(r) :
             r[i].calls = <<>> /\ (r[i].type = "tool" => r[i].how = "cancelled")
    BY <1>0, <2>1, <2>2, UserMessageOK
  <2>4. r \in Seq(Msg) /\ msgs[Main] \in Seq(Msg)
    BY <2>1, <2>3 DEF AgentOK
  <2>5. \A i \in (Len(msgs[Main]) + 1)..Len(r) : \A c \in CallsOf(r[i]) : c \notin Results(msgs[Main])
    BY <2>3, NoCalls
  <2>6. Len(msgs[Main]) <= Len(r)
    BY <2>3, <2>4
  <2>7. Results(r) = Results(msgs[Main]) /\ Reports(r) = Reports(msgs[Main])
    BY <2>3, <2>4, <2>5, <2>6, NoNewResults
  <2>8. Story(msgs[Main], records, told)
    BY StoryIs DEF Together
  <2>9. Story(r, records, told)
    BY <2>7, <2>8, StorySame
  <2> QED
    BY <1>1, <1>3, <2>2, <2>9
<1>9. DOMAIN done'[Main] = {}
  BY <1>0, <1>1 DEF AgentsInv, AgentInv
<1>10. \A s \in Subs : pc[s] = "idle"
  BY <1>1, SubsIdle DEF Together
<1>11. SubInv' /\ ReportInv' /\ ReportsHaveRecords'
  BY <1>0, <1>1, <1>2, <1>5, <1>8, <1>9, <1>10, Turn DEF Together
<1> QED
  BY <1>7, <1>11 DEF Together

\* The answer of a model tells of no result.
LEMMA AnswerStory ==
  ASSUME NEW ms, NEW ev, AgentOK(ms, ev, "idle", 0, made), made \in Nat,
         NEW plan \in Seq(STRING), NEW recs, NEW heard, Story(ms, recs, heard)
  PROVE  Story(Append(ms, Ai(plan)), recs, heard)
<1>1. ms \in Seq(Msg) /\ \A i \in 1..Len(ms) : ms[i].id[1] < made
  BY DEF AgentOK
<1>2. PICK r : r = Append(ms, Ai(plan))
  OBVIOUS
<1>3. /\ r \in Seq(Msg) /\ Len(r) = Len(ms) + 1 /\ r[Len(r)] = Ai(plan)
      /\ \A i \in 1..Len(ms) : r[i] = ms[i]
  BY <1>1, <1>2, AiIsMsg
<1>4. ASSUME NEW i \in (Len(ms) + 1)..Len(r)
      PROVE  /\ r[i].type = "tool" => r[i].how = "cancelled"
             /\ \A c \in CallsOf(r[i]) : c \notin Results(ms)
  <2>1. r[i] = Ai(plan)
    BY <1>1, <1>3, <1>4
  <2>2. SUFFICES ASSUME NEW c \in CallsOf(Ai(plan)), c \in Results(ms) PROVE FALSE
    BY <2>1, AiIsMsg
  <2>3. c[1] = made
    <3>1. Ai(plan).id[1] = made
      BY AiIsMsg
    <3> QED
      BY <2>2, <3>1 DEF CallsOf
  <2>4. PICK j \in 1..Len(ms) : ms[j].id = c
    BY <1>1, <2>2, ResultAt
  <2>5. ms[j].id[1] < made /\ ms[j].id[1] \in Nat
    BY <1>1, <2>4, MsgFields
  <2> QED
    BY <2>3, <2>4, <2>5
<1>5. Len(ms) <= Len(r)
  BY <1>1, <1>3
<1>6. Results(r) = Results(ms) /\ Reports(r) = Reports(ms)
  BY <1>1, <1>3, <1>4, <1>5, NoNewResults
<1> QED
  BY <1>2, <1>6, StorySame

\* The model answers.
RespondStep(a, plan) ==
  /\ msgs' = [msgs EXCEPT ![a] = Append(msgs[a], Ai(plan))]
  /\ pc' = [pc EXCEPT ![a] = IF plan # <<>> THEN "tools"
                             ELSE IF a = Main THEN "idle" ELSE "finished"]
  /\ UNCHANGED <<fields, records, done, task, history, stored, told, lost>>

LEMMA RespondsTogether ==
  ASSUME TypeInv, AgentsInv, Together, Growth, NEW a \in Agents, pc[a] \in {"model", "summary"},
         NEW plan \in Seq(STRING), RespondStep(a, plan),
         \A b \in Agents : b # a => event'[b] = event[b] /\ cut'[b] = cut[b],
         appends' \subseteq appends, \A p \in appends' : p.by # a
  PROVE  Together'
<1>1. msgs'[a] = Append(msgs[a], Ai(plan)) /\ \A b \in Agents : b # a => msgs'[b] = msgs[b]
  BY FunctionUpdate DEF TypeInv, RespondStep
<1>2. PICK w : w = IF plan # <<>> THEN "tools" ELSE IF a = Main THEN "idle" ELSE "finished"
  OBVIOUS
<1>3. pc'[a] = w /\ \A b \in Agents : b # a => pc'[b] = pc[b]
  BY <1>2, FunctionUpdate DEF TypeInv, RespondStep
<1>4. \A b \in Agents : b # a => SameAgent(b)
  BY <1>1, <1>3 DEF SameAgent, RespondStep
<1>5. AppendInv'
  BY <1>4, TurnAppends DEF Together
<1>6. a # Main => pc[a] # "idle" /\ pc'[a] # "idle" /\ records' = records
  BY <1>2, <1>3 DEF RespondStep
<1>7. DOMAIN done'[a] = {} /\ task' = task
  BY DEF AgentsInv, AgentInv, RespondStep
<1>8. ASSUME a = Main
      PROVE  (\A s \in Subs : pc[s] = "idle") /\ Story(msgs'[Main], records', told')
  <2>1. \A s \in Subs : pc[s] = "idle"
    BY <1>8, SubsIdle DEF Together
  <2>2. AgentOK(msgs[a], event[a], "idle", 0, made) /\ made \in Nat
    BY DEF AgentsInv, AgentInv, AgentOK, Works, TypeInv
  <2>3. Story(msgs[a], records, told)
    BY <1>8, StoryIs DEF Together
  <2>4. Story(Append(msgs[a], Ai(plan)), records, told)
    BY <2>2, <2>3, AnswerStory
  <2>5. records' = records /\ told' = told
    BY DEF RespondStep
  <2> QED
    BY <1>1, <1>8, <2>1, <2>4, <2>5
<1>9. SubInv' /\ ReportInv' /\ ReportsHaveRecords'
  BY <1>4, <1>6, <1>7, <1>8, Turn DEF Together
<1> QED
  BY <1>5, <1>9 DEF Together

LEMMA CallModelTogether ==
  ASSUME TypeInv, AgentsInv, Together, NEW a \in Agents, CallModel(a)
  PROVE  Together'
<1>1. PICK plan \in Plans(a) : RespondStep(a, plan)
  BY DEF CallModel, Responds, RespondStep
<1>2. pc[a] = "model" /\ event' = event /\ cut' = cut /\ appends' = appends
  BY DEF CallModel
<1>3. plan \in Seq(STRING) /\ Growth
  BY CallModelAgents, AgAssumption DEF AgAssumption, Plans
<1>4. \A p \in appends : p.by # a
  BY <1>2, NoAppendBy DEF Together
<1> QED
  BY <1>1, <1>2, <1>3, <1>4, RespondsTogether

LEMMA SummarizedTogether ==
  ASSUME TypeInv, AgentsInv, Together, NEW a \in Agents, Summarized(a)
  PROVE  Together'
<1>1. PICK p \in appends :
        /\ pc[a] = "summary" /\ p.by = a /\ p.call = None /\ p.step = "done"
        /\ event' = [event EXCEPT ![a] = [cutoff |-> StateCutoff(a, cut[a]), file |-> p.ok]]
        /\ appends' = appends \ {p}
        /\ cut' = [cut EXCEPT ![a] = 0]
        /\ Responds(a)
  BY DEF Summarized
<1>2. PICK plan \in Plans(a) : RespondStep(a, plan)
  BY <1>1 DEF Responds, RespondStep
<1>3. plan \in Seq(STRING) /\ Growth
  BY SummarizedAgents, AgAssumption DEF AgAssumption, Plans, Together
<1>4. \A b \in Agents : b # a => event'[b] = event[b] /\ cut'[b] = cut[b]
  BY <1>1 DEF TypeInv
<1>5. ASSUME NEW q \in appends', q.by = a PROVE FALSE
  <2>1. a # None /\ q \in appends /\ q # p
    BY <1>1, <1>5, AgAssumption DEF AgAssumption, Agents
  <2>2. q.call # None
    BY <1>1, <1>5, <2>1 DEF Together, AppendInv
  <2> QED
    BY <1>1, <1>5, <2>1, <2>2, WaitingFor DEF Together
<1> QED
  BY <1>1, <1>2, <1>3, <1>4, <1>5, RespondsTogether

LEMMA SummarizeTogether ==
  ASSUME TypeInv, AgentsInv, Together, NEW a \in Agents, Summarize(a)
  PROVE  Together'
<1>1. PICK n : n = SafeCutoff(Effectively(a))
  OBVIOUS
<1>2. PICK p : p = NewAppend(a, None, SubSeq(Effectively(a), 1, n))
  OBVIOUS
<1>3. /\ pc[a] = "model" /\ n > 0
      /\ pc' = [pc EXCEPT ![a] = "summary"] /\ cut' = [cut EXCEPT ![a] = n]
      /\ appends' = appends \union {p}
      /\ msgs' = msgs /\ event' = event /\ records' = records
      /\ done' = done /\ task' = task /\ told' = told
  BY <1>1, <1>2 DEF Summarize
<1>4. Growth
  BY SummarizeAgents
<1>5. /\ pc'[a] = "summary" /\ \A b \in Agents : b # a => pc'[b] = pc[b]
      /\ cut'[a] = n /\ \A b \in Agents : b # a => cut'[b] = cut[b]
  BY <1>3 DEF TypeInv
<1>6. \A b \in Agents : b # a => SameAgent(b)
  BY <1>3, <1>5 DEF SameAgent
<1>7. AgentOK(msgs[a], event[a], "model", cut[a], made) /\ DOMAIN done[a] = {}
  BY <1>3 DEF AgentsInv, AgentInv
<1>8. /\ msgs[a] \in Seq(Msg) /\ event[a] \in Events /\ Safe(msgs[a], CutoffOf(event[a]))
      /\ Conversation(msgs[a]) /\ CutoffOf(event[a]) \in Nat
      /\ View(Effectively(a), msgs[a], CutoffOf(event[a]))
  BY <1>7, EffectiveView, TruncatedView, EffectivelyIs DEF AgentOK
<1>9. n \in Nat /\ n < Len(Effectively(a)) /\ n <= Len(Effectively(a)) /\ Effectively(a) \in Seq(Msg)
  <2>1. n \in Nat /\ n < Len(Effectively(a))
    BY <1>1, <1>3, <1>8, SafeCutoffIsSafe
  <2>2. Effectively(a) \in Seq(Msg)
    BY <1>8 DEF View
  <2> QED
    BY <2>1, <2>2
<1>10. p \in Appends /\ p.by = a /\ p.call = None /\ p.step = "read"
       /\ p.items = Section(SubSeq(Effectively(a), 1, n))
  <2>1. offloads \in Nat /\ None \in Calls \union {None}
    BY DEF TypeInv
  <2> QED
    BY <1>2, <1>9, <2>1, NewAppendOK
<1>11. AppendOK(p, msgs'[a], event'[a], pc'[a], cut'[a], done'[a], Gone')
  <2>1. Covers(p.items, msgs[a], event[a], Before(CutoffOf(event[a])) + n)
    BY <1>8, <1>9, <1>10, ViewSection DEF Covers
  <2> QED
    BY <1>3, <1>5, <1>10, <2>1 DEF AppendOK
<1>12. \A q \in appends : q.by # a
  BY <1>3, NoAppendBy DEF Together
<1>13. ASSUME NEW q \in appends, q.by # None
       PROVE  SameTalk(q.by) /\ (q.call # None => q.call \notin DOMAIN done'[q.by])
  <2>1. q \in Appends
    BY DEF TypeInv
  <2>2. SameAgent(q.by)
    BY <1>6, <1>12, <1>13, <2>1 DEF Appends
  <2>3. q.call # None => q.call \notin DOMAIN done[q.by]
    BY <1>13, WaitingFor DEF Together
  <2> QED
    BY <2>2, <2>3 DEF SameAgent, SameTalk
<1>14. AppendInv'
  <2>1. PICK kept, fresh : kept = appends /\ fresh = {p}
    OBVIOUS
  <2>2. a # None
    BY AgAssumption DEF AgAssumption, Agents
  <2>3. /\ \A q \in fresh :
             IF q.by = None THEN q.step # "done"
             ELSE AppendOK(q, msgs'[q.by], event'[q.by], pc'[q.by], cut'[q.by], done'[q.by], Gone')
        /\ \A q \in fresh : \A x \in kept : x.by = q.by /\ x.by # None => x.call # q.call
        /\ \A q, x \in fresh : q = x
    BY <1>10, <1>11, <1>12, <2>1, <2>2
  <2>4. /\ kept \subseteq appends /\ appends' = kept \union fresh
        /\ \A q \in kept : q.by # None =>
             SameTalk(q.by) /\ (q.call # None => q.call \notin DOMAIN done'[q.by])
    BY <1>3, <1>13, <2>1
  <2> QED
    BY <1>4, <2>3, <2>4, AppendsWith DEF Together
<1>15. a = Main => (\A s \in Subs : pc[s] = "idle") /\ Story(msgs'[Main], records', told')
  <2>1. Story(msgs'[Main], records', told')
    BY <1>3, StoryIs DEF Together
  <2> QED
    BY <1>3, <2>1, SubsIdle DEF Together
<1>16. SubInv' /\ ReportInv' /\ ReportsHaveRecords'
  BY <1>3, <1>4, <1>5, <1>6, <1>7, <1>15, Turn DEF Together
<1> QED
  BY <1>14, <1>16 DEF Together

\* Only the appends change.
LEMMA OnlyAppends ==
  ASSUME Together, Growth, UNCHANGED agentVars, AppendInv'
  PROVE  Together'
<1>1. /\ msgs' = msgs /\ event' = event /\ records' = records /\ pc' = pc /\ cut' = cut
      /\ done' = done /\ task' = task
  BY DEF agentVars
<1>2. SubInv'
  BY <1>1 DEF Together, SubInv
<1>3. ReportInv'
  BY <1>1 DEF Together, ReportInv, ReportOK, Growth
<1>4. ReportsHaveRecords'
  <2>1. Story(msgs[Main], records, told) /\ told \subseteq told'
    BY StoryIs DEF Together, Growth
  <2> QED
    BY <1>1, <2>1, StoryLater, StoryIs
<1> QED
  BY <1>2, <1>3, <1>4 DEF Together

LEMMA NextOfAppend ==
  ASSUME TypeInv, AppendInv, Growth, UNCHANGED agentVars, NEW p \in appends, NEW fresh,
         appends' = (appends \ {p}) \union fresh,
         \A q \in fresh : /\ q.by = p.by /\ q.call = p.call /\ q.items = p.items
                          /\ q.step = "done" => p.by # None /\ \A i \in p.items : i.id \in Gone',
         \A q, x \in fresh : q = x
  PROVE  AppendInv'
<1>1. /\ msgs' = msgs /\ event' = event /\ pc' = pc /\ cut' = cut /\ done' = done
  BY DEF agentVars
<1>2. PICK kept : kept = appends \ {p}
  OBVIOUS
<1>3. ASSUME NEW q \in appends, q.by # None
      PROVE  SameTalk(q.by) /\ (q.call # None => q.call \notin DOMAIN done'[q.by])
  BY <1>1, <1>3, WaitingFor DEF SameTalk
<1>4. ASSUME NEW q \in fresh, q.by # None
      PROVE  AppendOK(q, msgs'[q.by], event'[q.by], pc'[q.by], cut'[q.by], done'[q.by], Gone')
  <2>1. AppendOK(p, msgs[p.by], event[p.by], pc[p.by], cut[p.by], done[p.by], Gone)
    BY <1>4 DEF AppendInv
  <2>2. q.by = p.by /\ q.call = p.call /\ q.items = p.items
        /\ (q.step = "done" => \A i \in p.items : i.id \in Gone')
    BY <1>4
  <2> QED
    BY <1>1, <2>1, <2>2 DEF AppendOK
<1>5. \A q \in fresh : \A x \in kept : x.by = q.by /\ x.by # None => x.call # q.call
  BY <1>2 DEF AppendInv
<1>6. \A q \in fresh :
        IF q.by = None THEN q.step # "done"
        ELSE AppendOK(q, msgs'[q.by], event'[q.by], pc'[q.by], cut'[q.by], done'[q.by], Gone')
  BY <1>4
<1>7. /\ kept \subseteq appends /\ appends' = kept \union fresh
      /\ \A q \in kept : q.by # None =>
           SameTalk(q.by) /\ (q.call # None => q.call \notin DOMAIN done'[q.by])
  BY <1>2, <1>3
<1> QED
  BY <1>5, <1>6, <1>7, AppendsWith

LEMMA AppendReadsTogether ==
  ASSUME TypeInv, AgentsInv, Together, NEW p \in appends, AppendReads(p)
  PROVE  Together'
<1>1. Growth /\ UNCHANGED agentVars
  BY AppendReadsAgents DEF AppendReads
<1>2. PICK q : /\ appends' = (appends \ {p}) \union {q} /\ q.step = "put"
               /\ q.by = p.by /\ q.call = p.call /\ q.items = p.items
  BY AppendReadsTo DEF TypeInv
<1>3. PICK fresh : fresh = {q}
  OBVIOUS
<1>4. /\ appends' = (appends \ {p}) \union fresh
      /\ \A x \in fresh : /\ x.by = p.by /\ x.call = p.call /\ x.items = p.items
                          /\ x.step = "done" => p.by # None /\ \A i \in p.items : i.id \in Gone'
      /\ \A x, y \in fresh : x = y
  BY <1>2, <1>3
<1>5. AppendInv'
  BY <1>1, <1>4, NextOfAppend DEF Together
<1> QED
  BY <1>1, <1>5, OnlyAppends

LEMMA AppendPutsTogether ==
  ASSUME TypeInv, AgentsInv, Together, NEW p \in appends, AppendPuts(p)
  PROVE  Together'
<1>1. Growth /\ UNCHANGED agentVars /\ \A i \in p.items : i.id \in Gone'
  BY AppendPutsGrows DEF AppendPuts
<1>2. PICK fresh :
        /\ appends' = (appends \ {p}) \union fresh
        /\ \A x \in fresh : /\ x.by = p.by /\ x.call = p.call /\ x.items = p.items
                            /\ x.step = "done" => p.by # None
        /\ \A x, y \in fresh : x = y
  <2>1. p \in Appends
    BY DEF TypeInv
  <2>2. CASE appends' = appends \ {p}
    <3>1. PICK f : f = {}
      OBVIOUS
    <3>2. appends' = (appends \ {p}) \union f
      BY <2>2, <3>1
    <3> QED
      BY <3>1, <3>2
  <2>3. CASE p.by # None /\ \E q \in Appends :
               /\ appends' = (appends \ {p}) \union {q}
               /\ q.step = "done" /\ q.by = p.by /\ q.call = p.call /\ q.items = p.items
    <3>1. PICK q : /\ appends' = (appends \ {p}) \union {q}
                   /\ q.by = p.by /\ q.call = p.call /\ q.items = p.items
      BY <2>3
    <3>2. PICK f : f = {q}
      OBVIOUS
    <3>3. appends' = (appends \ {p}) \union f
      BY <3>1, <3>2
    <3> QED
      BY <2>3, <3>1, <3>2, <3>3
  <2> QED
    BY <2>1, <2>2, <2>3, AppendPutsTo
<1>3. AppendInv'
  BY <1>1, <1>2, NextOfAppend DEF Together
<1> QED
  BY <1>1, <1>3, OnlyAppends

LEMMA FilesLostTogether ==
  ASSUME TypeInv, AgentsInv, Together, FilesLost
  PROVE  Together'
<1>1. Growth /\ UNCHANGED agentVars /\ appends' = appends
  BY FilesLostAgents DEF FilesLost
<1>2. ASSUME NEW q \in appends', q.by # None
      PROVE  SameTalk(q.by) /\ (q.call # None => q.call \notin DOMAIN done'[q.by])
  BY <1>1, <1>2, WaitingFor DEF SameTalk, agentVars, Together
<1>3. AppendInv'
  BY <1>1, <1>2, AppendsKeep DEF Together
<1> QED
  BY <1>1, <1>3, OnlyAppends

LEMMA RunEndsTogether ==
  ASSUME TypeInv, AgentsInv, Together, RunEnds
  PROVE  Together'
<1>0. Main \in Agents /\ Main \notin Subs /\ Subs \subseteq Agents
  BY AgAssumption DEF AgAssumption, Agents
<1>1. /\ msgs' = [a \in Agents |-> IF a = Main THEN msgs[a] ELSE <<>>]
      /\ event' = [a \in Agents |-> IF a = Main THEN event[a] ELSE None]
      /\ pc' = [a \in Agents |-> "idle"]
      /\ done' = [a \in Agents |-> [c \in {} |-> None]]
      /\ task' = [s \in Subs |-> None]
      /\ records' = records /\ told' = told
  BY DEF RunEnds
<1>2. AppendInv'
  <2>1. PICK kept \in SUBSET {p \in appends : p.step # "done"} :
          appends' = {[p EXCEPT !.by = None] : p \in kept}
    BY DEF RunEnds
  <2>2. ASSUME NEW p \in Appends, p.step # "done"
        PROVE  [p EXCEPT !.by = None].by = None /\ [p EXCEPT !.by = None].step # "done"
    BY <2>2 DEF Appends
  <2>3. ASSUME NEW q \in appends' PROVE q.by = None /\ q.step # "done"
    <3>1. PICK p \in kept : q = [p EXCEPT !.by = None]
      BY <2>1
    <3>2. p \in Appends /\ p.step # "done"
      BY DEF TypeInv
    <3> QED
      BY <2>2, <3>1, <3>2
  <2> QED
    BY <2>3 DEF AppendInv
<1>3. SubInv'
  <2>1. \A s \in Subs : msgs'[s] = <<>> /\ event'[s] = None /\ pc'[s] = "idle" /\ task'[s] = None
    BY <1>0, <1>1
  <2> QED
    BY <2>1 DEF SubInv, SubOK
<1>4. ReportInv'
  <2>1. DOMAIN done'[Main] = {}
    BY <1>0, <1>1
  <2> QED
    BY <2>1 DEF ReportInv
<1>5. ReportsHaveRecords'
  <2>1. msgs'[Main] = msgs[Main]
    BY <1>0, <1>1
  <2> QED
    BY <1>1, <2>1, StoryIs DEF Together
<1> QED
  BY <1>2, <1>3, <1>4, <1>5 DEF Together

LEMMA PlainStepTogether ==
  ASSUME TypeInv, AgentsInv, Together, NEW a \in Agents, NEW c, PlainStep(a, c)
  PROVE  Together'
<1>1. PICK tool, how, d : PlainStepWith(a, c, tool, how, d)
  BY DEF PlainStep
<1>2. Growth
  BY PlainStepAgents
<1>3. /\ pc[a] = "tools" /\ Last(msgs[a]).calls[c[2]] = tool /\ (\A s \in Subs : task[s] # c)
      /\ \A p \in appends : p.call # c
  BY <1>1, PendingIs DEF PlainStepWith
<1>4. /\ Finish(a, c, d) /\ UNCHANGED <<msgs, event, records, pc, cut, task>>
      /\ appends' = appends
  BY <1>1 DEF PlainStepWith
<1>5. ASSUME a = Main PROVE ReportOK(msgs[Main], c, d, told')
  <2>1. /\ how = "refused" <=> tool = "task"
        /\ d.msg = Tool(c, how) /\ d.steps = None
    BY <1>1 DEF PlainStepWith
  <2>2. d.msg.how = how
    BY <2>1 DEF Tool, Message
  <2>3. tool # "task" => c \in told'
    BY <1>1, <1>5, AgAssumption DEF AgAssumption, PlainStepWith, Tell
  <2> QED
    BY <1>3, <1>5, <2>1, <2>2, <2>3 DEF ReportOK
<1> QED
  BY <1>2, <1>3, <1>4, <1>5, FinishTogether

LEMMA CompactTogether ==
  ASSUME TypeInv, AgentsInv, Together, NEW a \in Agents, NEW c, Compact(a, c)
  PROVE  Together'
<1>1. PICK n : n = SafeCutoff(Effective(a))
  OBVIOUS
<1>2. PICK p : p = NewAppend(a, c, SubSeq(Effective(a), 1, n))
  OBVIOUS
<1>3. /\ c \in Pending(a, "compact_conversation") /\ n > 0
      /\ appends' = appends \union {p} /\ UNCHANGED agentVars
  BY <1>1, <1>2 DEF Compact
<1>4. Growth
  BY CompactAgents
<1>5. /\ pc[a] = "tools" /\ c \in CallsOf(Last(msgs[a])) /\ c \in Calls
      /\ Last(msgs[a]).calls[c[2]] = "compact_conversation"
      /\ c \notin DOMAIN done[a] /\ \A q \in appends : q.call # c
  BY <1>3, PendingIs
<1>6. /\ msgs' = msgs /\ event' = event /\ pc' = pc /\ cut' = cut /\ done' = done
  BY <1>3 DEF agentVars
<1>7. AgentOK(msgs[a], event[a], pc[a], cut[a], made)
  BY DEF AgentsInv, AgentInv
<1>8. /\ msgs[a] \in Seq(Msg) /\ event[a] \in Events /\ Safe(msgs[a], CutoffOf(event[a]))
      /\ Conversation(msgs[a]) /\ CutoffOf(event[a]) \in Nat
      /\ View(Effective(a), msgs[a], CutoffOf(event[a]))
      /\ Effective(a) = EffectiveOf(msgs[a], event[a])
  BY <1>7, EffectiveView, EffectivelyIs DEF AgentOK
<1>9. n \in Nat /\ n <= Len(Effective(a)) /\ Effective(a) \in Seq(Msg)
  <2>1. n \in Nat /\ n < Len(Effective(a))
    BY <1>1, <1>3, <1>8, SafeCutoffIsSafe
  <2>2. Effective(a) \in Seq(Msg)
    BY <1>8 DEF View
  <2> QED
    BY <2>1, <2>2
<1>10. p.by = a /\ p.call = c /\ p.step = "read"
       /\ p.items = Section(SubSeq(Effective(a), 1, n))
  <2>1. offloads \in Nat /\ c \in Calls \union {None}
    BY <1>5 DEF TypeInv
  <2> QED
    BY <1>2, <1>9, <2>1, NewAppendOK
<1>11. AppendOK(p, msgs'[a], event'[a], pc'[a], cut'[a], done'[a], Gone')
  <2>1. Covers(p.items, msgs[a], event[a], Before(CutoffOf(event[a])) + n)
    BY <1>8, <1>9, <1>10, ViewSection DEF Covers
  <2>2. /\ Covers(p.items, msgs[a], event[a], CompactedAt(msgs[a], event[a]))
        /\ SafeCutoff(EffectiveOf(msgs[a], event[a])) > 0
    BY <1>1, <1>3, <1>8, <2>1 DEF CompactedAt
  <2>3. c # None
    BY <1>5, AgAssumption DEF AgAssumption, Calls
  <2> QED
    BY <1>5, <1>6, <1>10, <2>2, <2>3 DEF AppendOK
<1>12. AppendInv'
  <2>1. PICK kept, fresh : kept = appends /\ fresh = {p}
    OBVIOUS
  <2>2. a # None
    BY AgAssumption DEF AgAssumption, Agents
  <2>3. /\ \A q \in fresh :
             IF q.by = None THEN q.step # "done"
             ELSE AppendOK(q, msgs'[q.by], event'[q.by], pc'[q.by], cut'[q.by], done'[q.by], Gone')
        /\ \A q \in fresh : \A x \in kept : x.by = q.by /\ x.by # None => x.call # q.call
        /\ \A q, x \in fresh : q = x
    BY <1>5, <1>10, <1>11, <2>1, <2>2
  <2>4. ASSUME NEW q \in kept, q.by # None
        PROVE  SameTalk(q.by) /\ (q.call # None => q.call \notin DOMAIN done'[q.by])
    BY <1>6, <2>1, <2>4, WaitingFor DEF SameTalk, Together
  <2>5. kept \subseteq appends /\ appends' = kept \union fresh
    BY <1>3, <2>1
  <2> QED
    BY <1>4, <2>3, <2>4, <2>5, AppendsWith DEF Together
<1> QED
  BY <1>3, <1>4, <1>12, OnlyAppends

LEMMA CompactedTogether ==
  ASSUME TypeInv, AgentsInv, Together, NEW a \in Agents, Compacted(a)
  PROVE  Together'
<1>1. PICK p \in appends :
        /\ p.by = a /\ p.call # None /\ p.step = "done"
        /\ Finish(a, p.call,
              [Command(p.call, "whole") EXCEPT
                 !.event = [cutoff |-> StateCutoff(a, SafeCutoff(Effective(a))),
                            file |-> p.ok]])
        /\ appends' = appends \ {p}
        /\ Tell(a, p.call)
        /\ UNCHANGED <<msgs, event, fields, records, pc, cut, task, history, stored, lost,
                       counters>>
  BY DEF Compacted
<1>2. PICK ev2 : ev2 = [cutoff |-> StateCutoff(a, SafeCutoff(Effective(a))), file |-> p.ok]
  OBVIOUS
<1>3. PICK c : c = p.call
  OBVIOUS
<1>4. PICK d : d = [Command(c, "whole") EXCEPT !.event = ev2]
  OBVIOUS
<1>5. d.steps = None
  BY <1>4 DEF Command
<1>6. Finish(a, c, d)
  BY <1>1, <1>2, <1>3, <1>4
<1>7. Growth
  BY CompactedAgents DEF Together
<1>8. a # None
  BY AgAssumption DEF AgAssumption, Agents
<1>9. pc[a] = "tools" /\ Last(msgs[a]).calls[c[2]] = "compact_conversation"
  BY <1>1, <1>3, <1>8, WaitingFor DEF Together
<1>10. \A q \in appends' : q.by = a => q.call # c
  BY <1>1, <1>3, <1>8 DEF Together, AppendInv
<1>11. a = Main => \A s \in Subs : pc[s] # "idle" => task[s] # c
  BY <1>9, WorksFor DEF Together
<1>12. ASSUME a = Main PROVE ReportOK(msgs[Main], c, d, told')
  <2>1. c \in told'
    BY <1>1, <1>3, <1>12, AgAssumption DEF AgAssumption, Tell
  <2>2. d.msg.how = "whole"
    BY <1>4 DEF Command, Tool, Message
  <2> QED
    BY <1>5, <1>9, <1>12, <2>1, <2>2 DEF ReportOK
<1>13. UNCHANGED <<msgs, event, records, pc, cut, task>> /\ appends' \subseteq appends
  BY <1>1
<1> QED
  BY <1>5, <1>6, <1>7, <1>9, <1>10, <1>11, <1>12, <1>13, FinishTogether

LEMMA StartTaskTogether ==
  ASSUME TypeInv, AgentsInv, Together, NEW s \in Subs, NEW c \in Pending(Main, "task"),
         StartTask(c, s)
  PROVE  Together'
<1>0. /\ Main \in Agents /\ Main # s /\ Main \notin Subs /\ s \in Agents /\ Subs \subseteq Agents
  BY AgAssumption DEF AgAssumption, Agents
<1>1. /\ pc[s] = "idle"
      /\ task' = [task EXCEPT ![s] = c]
      /\ msgs' = [msgs EXCEPT ![s] = <<Human>>]
      /\ pc' = [pc EXCEPT ![s] = "model"]
      /\ event' = event /\ records' = records /\ cut' = cut /\ done' = done
      /\ appends' = appends /\ told' = told
  BY DEF StartTask, fileVars
<1>2. Growth
  BY StartTaskAgents DEF Together
<1>3. \A b \in Agents : b # s => msgs'[b] = msgs[b]
  BY <1>0, <1>1, FunctionUpdate DEF TypeInv
<1>4. pc'[s] = "model" /\ \A b \in Agents : b # s => pc'[b] = pc[b]
  BY <1>0, <1>1, FunctionUpdate DEF TypeInv
<1>5. task'[s] = c /\ \A t \in Subs : t # s => task'[t] = task[t]
  BY <1>1 DEF TypeInv
<1>6. \A b \in Agents : b # s => SameAgent(b)
  BY <1>1, <1>3, <1>4 DEF SameAgent
<1>7. \A p \in appends' : p.by # s
  BY <1>0, <1>1, NoAppendBy DEF Together
<1>8. AppendInv'
  BY <1>0, <1>1, <1>2, <1>6, <1>7, TurnAppends DEF Together
<1>9. /\ pc[Main] = "tools" /\ c \in CallsOf(Last(msgs[Main])) /\ c \notin DOMAIN done[Main]
      /\ Last(msgs[Main]).calls[c[2]] = "task" /\ \A t \in Subs : task[t] # c
  BY <1>0, PendingIs
<1>10. SameAgent(Main)
  BY <1>0, <1>6
<1>11. SubInv'
  <2>1. ASSUME NEW t \in Subs
        PROVE SubOK(msgs'[t], event'[t], pc'[t], task'[t], msgs'[Main], pc'[Main], done'[Main])
    <3>1. CASE t = s
      BY <1>4, <1>5, <1>9, <1>10, <3>1 DEF SubOK, SameAgent
    <3>2. CASE t # s
      <4>1. SubOK(msgs[t], event[t], pc[t], task[t], msgs[Main], pc[Main], done[Main])
        BY DEF Together, SubInv
      <4>2. SameAgent(t) /\ task'[t] = task[t]
        BY <1>0, <1>5, <1>6, <3>2
      <4> QED
        BY <1>10, <4>1, <4>2 DEF SameAgent
    <3> QED
      BY <3>1, <3>2
  <2>2. ASSUME NEW t \in Subs, NEW u \in Subs, t # u, task'[t] # None
        PROVE  task'[t] # task'[u]
    BY <1>5, <1>9, <2>2 DEF Together, SubInv
  <2> QED
    BY <2>1, <2>2 DEF SubInv
<1>12. ReportInv'
  BY <1>1, <1>10 DEF Together, ReportInv, ReportOK, SameAgent
<1>13. ReportsHaveRecords'
  BY <1>1, <1>10, StoryIs DEF Together, SameAgent
<1> QED
  BY <1>8, <1>11, <1>12, <1>13 DEF Together

LEMMA EndTaskTogether ==
  ASSUME TypeInv, AgentsInv, Together, NEW s \in Subs, EndTask(s)
  PROVE  Together'
<1>0. /\ Main \in Agents /\ Main # s /\ Main \notin Subs /\ s \in Agents /\ Subs \subseteq Agents
  BY AgAssumption DEF AgAssumption, Agents
<1>1. PICK d : EndTaskStep(s, d)
  BY EndTaskIs
<1>2. PICK c : c = task[s]
  OBVIOUS
<1>3. /\ pc[s] = "finished" /\ Finish(Main, c, d)
      /\ d.steps = [call |-> c, messages |-> SubSeq(msgs[s], 2, Len(msgs[s]) - 1)]
      /\ task' = [task EXCEPT ![s] = None] /\ msgs' = [msgs EXCEPT ![s] = <<>>]
      /\ event' = [event EXCEPT ![s] = None] /\ pc' = [pc EXCEPT ![s] = "idle"]
      /\ records' = records /\ cut' = cut /\ appends' = appends /\ told' = told
  BY <1>1, <1>2 DEF EndTaskStep
<1>4. Growth /\ AgentsInv'
  BY EndTaskAgents DEF Together
<1>5. msgs'[s] = <<>> /\ \A b \in Agents : b # s => msgs'[b] = msgs[b]
  BY <1>0, <1>3, FunctionUpdate DEF TypeInv
<1>6. pc'[s] = "idle" /\ \A b \in Agents : b # s => pc'[b] = pc[b]
  BY <1>0, <1>3, FunctionUpdate DEF TypeInv
<1>7. event'[s] = None /\ \A b \in Agents : b # s => event'[b] = event[b]
  BY <1>0, <1>3, FunctionUpdate DEF TypeInv
<1>8. task'[s] = None /\ \A t \in Subs : t # s => task'[t] = task[t]
  BY <1>3 DEF TypeInv
<1>9. /\ \A b \in Agents : b # Main => done'[b] = done[b]
      /\ DOMAIN done'[Main] = DOMAIN done[Main] \union {c}
      /\ done'[Main][c] = d
      /\ \A x \in DOMAIN done[Main] : x # c => done'[Main][x] = done[Main][x]
  BY <1>0, <1>3, FinishIs
<1>10. /\ pc[Main] = "tools" /\ c \in CallsOf(Last(msgs[Main]))
       /\ c \notin DOMAIN done[Main] /\ Last(msgs[Main]).calls[c[2]] = "task"
  BY <1>2, <1>3, WorksFor DEF Together
<1>11. c \in Calls /\ c # None
  <2>1. AgentOK(msgs[Main], event[Main], "tools", cut[Main], made)
    BY <1>0, <1>10 DEF AgentsInv, AgentInv
  <2>2. DOMAIN Last(msgs[Main]).calls \subseteq Nat /\ Last(msgs[Main]).id[1] \in Nat
    BY <2>1, LastMessage
  <2>3. c \in Calls
    BY <1>10, <2>2 DEF CallsOf, Calls
  <2> QED
    BY <2>3, AgAssumption DEF AgAssumption, Calls
<1>12. d.steps # None
  <2>1. msgs[s] \in Seq(Msg)
    BY <1>0 DEF AgentsInv, AgentInv, AgentOK
  <2>2. SubSeq(msgs[s], 2, Len(msgs[s]) - 1) \in Seq(Msg)
    <3>1. \A i \in 2..(Len(msgs[s]) - 1) : msgs[s][i] \in Msg
      BY <2>1
    <3> QED
      BY <2>1, <3>1, SubSeqProperties
  <2>3. d.steps \in Records
    BY <1>3, <1>11, <2>2 DEF Records, Calls
  <2> QED
    BY <2>3, AgAssumption DEF AgAssumption
<1>13. AppendInv'
  <2>1. ASSUME NEW p \in appends', p.by # None
        PROVE  SameTalk(p.by) /\ (p.call # None => p.call \notin DOMAIN done'[p.by])
    <3>1. p \in appends /\ p \in Appends
      BY <1>3 DEF TypeInv
    <3>2. p.by \in Agents /\ p.by # s
      BY <1>0, <1>3, <2>1, <3>1, NoAppendBy DEF Together, Appends
    <3>3. SameTalk(p.by)
      BY <1>3, <1>5, <1>6, <1>7, <3>2 DEF SameTalk
    <3>4. ASSUME p.call # None PROVE p.call \notin DOMAIN done'[p.by]
      <4>1. p.call \notin DOMAIN done[p.by]
            /\ Last(msgs[p.by]).calls[p.call[2]] = "compact_conversation"
        BY <2>1, <3>1, <3>4, WaitingFor DEF Together
      <4> QED
        BY <1>9, <1>10, <3>2, <4>1
    <3> QED
      BY <3>3, <3>4
  <2> QED
    BY <1>3, <1>4, <2>1, AppendsKeep DEF Together
<1>14. SubInv'
  <2>1. ASSUME NEW t \in Subs
        PROVE SubOK(msgs'[t], event'[t], pc'[t], task'[t], msgs'[Main], pc'[Main], done'[Main])
    <3>1. CASE t = s
      BY <1>5, <1>6, <1>7, <1>8, <3>1 DEF SubOK
    <3>2. CASE t # s
      <4>1. SubOK(msgs[t], event[t], pc[t], task[t], msgs[Main], pc[Main], done[Main])
        BY DEF Together, SubInv
      <4>2. /\ msgs'[t] = msgs[t] /\ event'[t] = event[t] /\ pc'[t] = pc[t] /\ task'[t] = task[t]
            /\ msgs'[Main] = msgs[Main] /\ pc'[Main] = pc[Main]
        BY <1>0, <1>5, <1>6, <1>7, <1>8, <3>2
      <4>3. task[t] # c
        BY <1>2, <1>11, <3>2 DEF Together, SubInv
      <4> QED
        BY <1>9, <4>1, <4>2, <4>3 DEF SubOK
    <3> QED
      BY <3>1, <3>2
  <2>2. ASSUME NEW t \in Subs, NEW u \in Subs, t # u, task'[t] # None
        PROVE  task'[t] # task'[u]
    BY <1>8, <2>2 DEF Together, SubInv
  <2> QED
    BY <2>1, <2>2 DEF SubInv
<1>15. ReportInv'
  <2>1. SUFFICES ASSUME NEW x \in DOMAIN done'[Main]
                 PROVE  ReportOK(msgs[Main], x, done'[Main][x], told')
    BY <1>0, <1>5 DEF ReportInv
  <2>2. CASE x = c
    <3>1. d.msg.how # "refused"
      BY <1>1 DEF EndTaskStep, Tool, Message
    <3> QED
      BY <1>9, <1>10, <1>12, <2>2, <3>1 DEF ReportOK
  <2>3. CASE x # c
    <3>1. x \in DOMAIN done[Main] /\ done'[Main][x] = done[Main][x]
      BY <1>9, <2>1, <2>3
    <3>2. ReportOK(msgs[Main], x, done[Main][x], told)
      BY <3>1 DEF ReportInv, Together
    <3> QED
      BY <1>3, <3>1, <3>2
  <2> QED
    BY <2>2, <2>3
<1>16. ReportsHaveRecords'
  <2>1. msgs'[Main] = msgs[Main]
    BY <1>0, <1>5
  <2> QED
    BY <1>3, <2>1, StoryIs DEF Together
<1> QED
  BY <1>13, <1>14, <1>15, <1>16 DEF Together

\* What the merge adds to the messages and to the records is one story.
LEMMA MergedStory ==
  ASSUME TypeInv, AgentsInv, Together, NEW ans, NEW steps, NEW ev,
         pc[Main] = "tools", MergeStep(Main, ans, steps, ev)
  PROVE  Story(msgs[Main] \o ans, records \o steps, told)
<1>0. Main \in Agents /\ made \in Nat
  BY DEF Agents, TypeInv
<1>1. /\ AgentOK(msgs[Main], event[Main], "tools", 0, made)
      /\ KeptOK(msgs[Main], event[Main], Gone, Files)
  BY <1>0 DEF AgentsInv, AgentInv, AgentOK
<1>2. \A c \in DOMAIN done[Main] :
        CommandOK(msgs[Main], event[Main], c, done[Main][c], Gone, Files)
  BY <1>0 DEF AgentsInv, AgentInv
<1>3. PICK ms, e, d : ms = msgs[Main] /\ e = event[Main] /\ d = done[Main]
  OBVIOUS
<1>4. PICK N \in Nat, K \in Nat : N = Last(ms).id[1] /\ K = Len(Last(ms).calls)
  BY <1>1, <1>3, LastMessage
<1>5. /\ AgentOK(ms, e, "tools", 0, made) /\ KeptOK(ms, e, Gone, Files)
      /\ \A c \in DOMAIN d : CommandOK(ms, e, c, d[c], Gone, Files)
  BY <1>1, <1>2, <1>3
<1>6. /\ DOMAIN d = CallsOf(Last(ms))
      /\ ans = [k \in 1..Len(Last(ms).calls) |-> d[<<Last(ms).id[1], k>>].msg]
  BY <1>3 DEF MergeStep
<1>9. \A k \in 1..K : <<N, k>> \in DOMAIN d
  BY <1>4, <1>5, <1>6, CallIn
<1>10. \A k \in 1..K : ans[k] = d[<<N, k>>].msg
  BY <1>4, <1>6
<1>11. \A k \in 1..K : /\ ans[k] \in Msg /\ ans[k].type = "tool" /\ ans[k].id = <<N, k>>
                       /\ ans[k].how # "cancelled" /\ ans[k].calls = <<>>
  <2>1. SUFFICES ASSUME NEW k \in 1..K
                 PROVE  /\ ans[k] \in Msg /\ ans[k].type = "tool" /\ ans[k].id = <<N, k>>
                        /\ ans[k].how # "cancelled" /\ ans[k].calls = <<>>
    OBVIOUS
  <2>2. CommandOK(ms, e, <<N, k>>, d[<<N, k>>], Gone, Files)
    BY <1>5, <1>9
  <2> QED
    BY <1>10, <2>2 DEF CommandOK
<1>7. ans = [k \in 1..K |-> ans[k]]
  BY <1>4, <1>6
<1>8. ans \in Seq(Msg) /\ Len(ans) = K
  BY <1>7, <1>11, FunIsSeq
<1>12. steps \in Seq(Records) /\ RecordsOf(steps, N, K, d)
  BY <1>0, <1>3, <1>4, MergedSteps
<1>13. \A k \in 1..K : ReportOK(ms, <<N, k>>, d[<<N, k>>], told)
  BY <1>3, <1>9 DEF Together, ReportInv
<1>14. Story(ms, records, told) /\ records \in Seq(Records)
  BY <1>3, StoryIs DEF Together, TypeInv
<1>15. Story(ms \o ans, records \o steps, told)
  BY <1>4, <1>5, <1>8, <1>10, <1>11, <1>12, <1>13, <1>14, MergeStory
<1> QED
  BY <1>3, <1>15

LEMMA MergeTogether ==
  ASSUME TypeInv, AgentsInv, Together, NEW a \in Agents, Merge(a)
  PROVE  Together'
<1>1. pc[a] = "tools" /\ \E ans, steps, ev : MergeStep(a, ans, steps, ev)
  BY MergeIs
<1>2. PICK ans, steps, ev : MergeStep(a, ans, steps, ev)
  BY <1>1
<1>3. Growth
  BY MergeAgents
<1>4. /\ msgs'[a] = msgs[a] \o ans /\ \A b \in Agents : b # a => msgs'[b] = msgs[b]
  BY <1>2, FunctionUpdate DEF TypeInv, MergeStep
<1>5. \A b \in Agents : b # a => event'[b] = event[b]
  BY <1>2, FunctionUpdate DEF TypeInv, MergeStep
<1>6. /\ pc'[a] = "model" /\ \A b \in Agents : b # a => pc'[b] = pc[b]
  BY <1>2, FunctionUpdate DEF TypeInv, MergeStep
<1>7. /\ DOMAIN done'[a] = {} /\ \A b \in Agents : b # a => done'[b] = done[b]
  <2>1. PICK g : g = [c \in {} |-> None]
    OBVIOUS
  <2>2. done' = [done EXCEPT ![a] = g] /\ DOMAIN g = {}
    BY <1>2, <2>1 DEF MergeStep
  <2> QED
    BY <2>2, FunctionUpdate DEF TypeInv
<1>8. /\ DOMAIN done[a] = CallsOf(Last(msgs[a])) /\ task' = task /\ appends' = appends
      /\ cut' = cut /\ told' = told
      /\ records' = IF a = Main THEN records \o steps ELSE records
  BY <1>2 DEF MergeStep
<1>9. \A b \in Agents : b # a => SameAgent(b)
  BY <1>4, <1>5, <1>6, <1>7, <1>8 DEF SameAgent
<1>10. ASSUME NEW p \in appends', p.by = a PROVE FALSE
  <2>1. a # None
    BY AgAssumption DEF AgAssumption, Agents
  <2>2. AppendOK(p, msgs[a], event[a], pc[a], cut[a], done[a], Gone)
    BY <1>8, <1>10, <2>1 DEF Together, AppendInv
  <2> QED
    BY <1>1, <1>8, <2>2 DEF AppendOK
<1>11. AppendInv'
  BY <1>3, <1>8, <1>9, <1>10, TurnAppends DEF Together
<1>12. a # Main => pc[a] # "idle" /\ pc'[a] # "idle" /\ records' = records
  BY <1>1, <1>6, <1>8
<1>13. a = Main => (\A s \in Subs : pc[s] = "idle")
  BY <1>8, SubsIdle DEF Together
<1>14. a = Main => Story(msgs'[Main], records', told')
  BY <1>1, <1>2, <1>4, <1>8, MergedStory
<1>15. SubInv' /\ ReportInv' /\ ReportsHaveRecords'
  BY <1>3, <1>7, <1>8, <1>9, <1>12, <1>13, <1>14, Turn DEF Together
<1> QED
  BY <1>11, <1>15 DEF Together

LEMMA MergeFailsTogether ==
  ASSUME TypeInv, AgentsInv, Together, NEW a, MergeFails(a)
  PROVE  Together'
BY RunEndsTogether DEF MergeFails

LEMMA RunInterruptedTogether ==
  ASSUME TypeInv, AgentsInv, Together, RunInterrupted
  PROVE  Together'
BY RunEndsTogether DEF RunInterrupted

-----------------------------------------------------------------------------
(***************************************************************************)
(* The inductive invariant                                                 *)
(***************************************************************************)

LEMMA IInvParts == IInv <=> TypeInv /\ AgentsInv /\ Together
BY DEF IInv, Together

LEMMA ToolStepIInv ==
  ASSUME TypeInv, AgentsInv, Together, NEW a \in Agents, ToolStep(a)
  PROVE  Growth /\ TypeInv' /\ AgentsInv' /\ Together'
<1>1. ASSUME NEW c \in CallsOf(Asking(a)),
             Fetch(a, c) \/ OtherTool(a, c) \/ SetState(a, c) \/ NotCompacted(a, c)
      PROVE  Growth /\ TypeInv' /\ AgentsInv' /\ Together'
  <2>1. PlainStep(a, c)
    BY <1>1, PlainSteps
  <2> QED
    BY <2>1, PlainStepAgents, PlainStepTogether
<1>2. ASSUME NEW c \in CallsOf(Asking(a)), Compact(a, c)
      PROVE  Growth /\ TypeInv' /\ AgentsInv' /\ Together'
  BY <1>2, CompactAgents, CompactTogether
<1>3. CASE Compacted(a)
  BY <1>3, CompactedAgents, CompactedTogether DEF Together
<1>4. CASE Merge(a)
  BY <1>4, MergeAgents, MergeTogether
<1>5. CASE MergeFails(a)
  BY <1>5, MergeFailsAgents, MergeFailsTogether
<1> QED
  BY <1>1, <1>2, <1>3, <1>4, <1>5 DEF ToolStep

LEMMA NextIInv ==
  ASSUME TypeInv, AgentsInv, Together, Next
  PROVE  Growth /\ TypeInv' /\ AgentsInv' /\ Together'
<1>1. CASE UserMessage
  BY <1>1, UserMessageAgents, UserMessageTogether
<1>2. ASSUME NEW a \in Agents, CallModel(a)
      PROVE  Growth /\ TypeInv' /\ AgentsInv' /\ Together'
  BY <1>2, CallModelAgents, CallModelTogether
<1>3. ASSUME NEW a \in Agents, Summarize(a)
      PROVE  Growth /\ TypeInv' /\ AgentsInv' /\ Together'
  BY <1>3, SummarizeAgents, SummarizeTogether
<1>4. ASSUME NEW a \in Agents, Summarized(a)
      PROVE  Growth /\ TypeInv' /\ AgentsInv' /\ Together'
  BY <1>4, SummarizedAgents, SummarizedTogether DEF Together
<1>5. ASSUME NEW p \in appends, AppendReads(p)
      PROVE  Growth /\ TypeInv' /\ AgentsInv' /\ Together'
  BY <1>5, AppendReadsAgents, AppendReadsTogether
<1>6. ASSUME NEW p \in appends, AppendPuts(p)
      PROVE  Growth /\ TypeInv' /\ AgentsInv' /\ Together'
  BY <1>6, AppendPutsAgents, AppendPutsTogether
<1>7. ASSUME NEW a \in Agents, ToolStep(a)
      PROVE  Growth /\ TypeInv' /\ AgentsInv' /\ Together'
  BY <1>7, ToolStepIInv
<1>8. ASSUME NEW s \in Subs, EndTask(s)
      PROVE  Growth /\ TypeInv' /\ AgentsInv' /\ Together'
  BY <1>8, EndTaskAgents, EndTaskTogether DEF Together
<1>9. ASSUME NEW s \in Subs, NEW c \in Pending(Main, "task"), StartTask(c, s)
      PROVE  Growth /\ TypeInv' /\ AgentsInv' /\ Together'
  BY <1>9, StartTaskAgents, StartTaskTogether DEF Together
<1>10. CASE RunInterrupted
  BY <1>10, RunInterruptedAgents, RunInterruptedTogether
<1>11. CASE FilesLost
  BY <1>11, FilesLostAgents, FilesLostTogether
<1>12. ASSUME NEW c \in Pending(Main, "task"), RefuseTask(c)
       PROVE  Growth /\ TypeInv' /\ AgentsInv' /\ Together'
  <2>1. Main \in Agents /\ PlainStep(Main, c)
    BY <1>12, PlainSteps DEF Agents
  <2> QED
    BY <2>1, PlainStepAgents, PlainStepTogether
<1> QED
  BY <1>1, <1>2, <1>3, <1>4, <1>5, <1>6, <1>7, <1>8, <1>9, <1>10, <1>11, <1>12 DEF Next

LEMMA StutterIInv ==
  ASSUME IInv, UNCHANGED vars
  PROVE  IInv'
<1>1. /\ msgs' = msgs /\ event' = event /\ fields' = fields /\ records' = records
      /\ pc' = pc /\ cut' = cut /\ done' = done /\ task' = task
      /\ appends' = appends /\ history' = history /\ stored' = stored /\ told' = told
      /\ lost' = lost /\ made' = made /\ offloads' = offloads
  BY DEF vars, agentVars, fileVars, counters
<1>2. Gone' = Gone /\ Files' = Files
  BY <1>1 DEF Gone, Files, InHistory
<1>3. TypeInv'
  BY <1>1 DEF IInv, TypeInv
<1>4. AgentsInv'
  BY <1>1, <1>2 DEF IInv, AgentsInv, AgentInv
<1>5. ReportInv'
  BY <1>1 DEF IInv, ReportInv
<1>6. AppendInv'
  BY <1>1, <1>2 DEF IInv, AppendInv
<1>7. SubInv'
  BY <1>1 DEF IInv, SubInv
<1>8. ReportsHaveRecords'
  BY <1>1 DEF IInv, ReportsHaveRecords
<1> QED
  BY <1>3, <1>4, <1>5, <1>6, <1>7, <1>8 DEF IInv

LEMMA InitIInv ==
  ASSUME Init
  PROVE  IInv
<1>0. Main \in Agents /\ Subs \subseteq Agents
  BY DEF Agents
<1>1. /\ \A a \in Agents : /\ msgs[a] = <<>> /\ event[a] = None /\ pc[a] = "idle"
                           /\ cut[a] = 0 /\ DOMAIN done[a] = {} /\ DOMAIN fields[a] = {}
      /\ task = [s \in Subs |-> None] /\ records = <<>>
      /\ appends = {} /\ history = <<>> /\ made = 1 /\ offloads = 0
  BY DEF Init
<1>2. TypeInv
  <2>1. /\ msgs = [a \in Agents |-> msgs[a]] /\ event = [a \in Agents |-> event[a]]
        /\ pc = [a \in Agents |-> pc[a]] /\ cut = [a \in Agents |-> cut[a]]
        /\ done = [a \in Agents |-> done[a]] /\ fields = [a \in Agents |-> fields[a]]
    BY DEF Init
  <2>2. records \in Seq(Records) /\ history \in Seq(Sections)
    BY <1>1, EmptySeq
  <2> QED
    BY <1>1, <2>1, <2>2 DEF TypeInv
<1>3. AgentsInv
  <2>1. SUFFICES ASSUME NEW a \in Agents PROVE AgentInv(a)
    BY DEF AgentsInv
  <2>2. AgentOK(<<>>, None, "idle", 0, made)
    <3>1. <<>> \in Seq(Msg) /\ Len(<<>>) = 0
      BY EmptySeq
    <3>2. Conversation(<<>>) /\ Safe(<<>>, CutoffOf(None))
      BY <3>1 DEF Conversation, Safe, CutoffOf
    <3> QED
      BY <3>1, <3>2 DEF AgentOK, Events, Works
  <2>3. KeptOK(<<>>, None, Gone, Files)
    BY EmptySeq DEF KeptOK, CutoffOf
  <2> QED
    BY <1>1, <2>2, <2>3 DEF AgentInv
<1>4. ReportInv /\ AppendInv
  BY <1>0, <1>1 DEF ReportInv, AppendInv
<1>5. SubInv
  <2>1. \A s \in Subs : msgs[s] = <<>> /\ event[s] = None /\ pc[s] = "idle" /\ task[s] = None
    BY <1>0, <1>1
  <2> QED
    BY <2>1 DEF SubInv, SubOK
<1>6. ReportsHaveRecords
  <2>1. Results(<<>>) = {} /\ Reports(<<>>) = {}
    BY EmptySeq DEF Results, Reports, ToSet
  <2>2. DOMAIN RecordCalls(<<>>) = {}
    BY EmptySeq DEF RecordCalls
  <2>3. IsInjective(RecordCalls(<<>>)) /\ ToSet(RecordCalls(<<>>)) = {}
    BY <2>2 DEF IsInjective, ToSet
  <2>4. Story(<<>>, <<>>, told)
    BY <2>1, <2>3 DEF Story
  <2> QED
    BY <1>0, <1>1, <2>4, StoryIs
<1> QED
  BY <1>2, <1>3, <1>4, <1>5, <1>6 DEF IInv

\* The inductive invariant holds in every state of every instance.
THEOREM Invariant == Spec => []IInv
<1>1. Init => IInv
  BY InitIInv
<1>2. IInv /\ [Next]_vars => IInv'
  BY NextIInv, IInvParts, StutterIInv DEF Together, IInv
<1> QED
  BY <1>1, <1>2, PTL DEF Spec

-----------------------------------------------------------------------------
(***************************************************************************)
(* What the invariant says of the system                                   *)
(***************************************************************************)

LEMMA IInvImpliesTypeOK == IInv => TypeOK
<1>1. SUFFICES ASSUME IInv PROVE TypeOK
  OBVIOUS
<1>2. ASSUME NEW a \in Agents
      PROVE  /\ pc[a] \in {"idle", "model", "summary", "tools", "finished"}
             /\ IF pc[a] = "tools" THEN CommandsOK(a) ELSE DOMAIN done[a] = {}
             /\ event[a] # None => event[a].cutoff \in 0..Len(msgs[a])
             /\ DOMAIN fields[a] \subseteq Fields
             /\ cut[a] # 0 <=> pc[a] = "summary"
  <2>1. AgentInv(a) /\ DOMAIN fields[a] \subseteq Fields
    BY <1>1 DEF IInv, AgentsInv, TypeInv
  <2>2. AgentOK(msgs[a], event[a], pc[a], cut[a], made)
    BY <2>1 DEF AgentInv
  <2>3. pc[a] \in {"idle", "model", "summary", "tools", "finished"}
    BY <2>2 DEF AgentOK, Works
  <2>4. CommandsOK(a)
    BY <2>1 DEF AgentInv, CommandOK, CommandsOK, Asking
  <2>5. event[a] # None => event[a].cutoff \in 0..Len(msgs[a])
    <3>1. SUFFICES ASSUME event[a] # None PROVE event[a].cutoff \in 0..Len(msgs[a])
      OBVIOUS
    <3>2. event[a] \in Events /\ Safe(msgs[a], CutoffOf(event[a])) /\ msgs[a] \in Seq(Msg)
      BY <2>2 DEF AgentOK
    <3>3. event[a].cutoff \in Nat \ {0} /\ CutoffOf(event[a]) = event[a].cutoff
      BY <3>1, <3>2 DEF Events, CutoffOf
    <3>4. event[a].cutoff < Len(msgs[a]) /\ Len(msgs[a]) \in Nat
      BY <3>2, <3>3 DEF Safe
    <3> QED
      BY <3>3, <3>4
  <2>6. cut[a] # 0 <=> pc[a] = "summary"
    <3>1. /\ cut[a] \in Nat
          /\ IF pc[a] = "summary"
             THEN cut[a] = SafeCutoff(Truncated(EffectiveOf(msgs[a], event[a]))) /\ cut[a] > 0
             ELSE cut[a] = 0
      BY <2>2 DEF AgentOK
    <3> QED
      BY <3>1
  <2> QED
    BY <2>1, <2>3, <2>4, <2>5, <2>6 DEF AgentInv
<1>3. ASSUME NEW s \in Subs
      PROVE  IF pc[s] = "idle" THEN msgs[s] = <<>> /\ task[s] = None
             ELSE pc[Main] = "tools" /\ task[s] \in CallsOf(Asking(Main))
  <2>1. SubOK(msgs[s], event[s], pc[s], task[s], msgs[Main], pc[Main], done[Main])
    BY <1>1 DEF IInv, SubInv
  <2> QED
    BY <2>1 DEF SubOK, Asking
<1>4. ASSUME NEW p \in appends
      PROVE  p.step \in {"read", "put", "done"} /\ (p.step = "done" => p.by # None)
  <2>1. p \in Appends
    BY <1>1 DEF IInv, TypeInv
  <2>2. p.by = None => p.step # "done"
    BY <1>1 DEF IInv, AppendInv
  <2> QED
    BY <2>1, <2>2 DEF Appends
<1> QED
  BY <1>2, <1>3, <1>4 DEF TypeOK

LEMMA IInvImpliesRequests == IInv => RequestsWellFormed
<1>1. SUFFICES ASSUME IInv, NEW a \in Agents, pc[a] \in {"model", "summary"}
               PROVE  WellFormed(Request(a))
  BY DEF RequestsWellFormed, WellFormed
<1>2. AgentOK(msgs[a], event[a], pc[a], cut[a], made)
  BY <1>1 DEF IInv, AgentsInv, AgentInv
<1>3. /\ msgs[a] \in Seq(Msg) /\ event[a] \in Events /\ Conversation(msgs[a])
      /\ Safe(msgs[a], CutoffOf(event[a])) /\ Closed(msgs[a]) /\ Len(msgs[a]) \in Nat
  BY <1>1, <1>2 DEF AgentOK
<1>4. PICK Q : Q = Truncated(EffectiveOf(msgs[a], event[a]))
  OBVIOUS
<1>5. /\ CutoffOf(event[a]) \in Nat /\ View(EffectiveOf(msgs[a], event[a]), msgs[a], CutoffOf(event[a]))
  BY <1>3, EffectiveView
<1>6. View(Q, msgs[a], CutoffOf(event[a]))
  BY <1>4, <1>5, TruncatedView
<1>7. Effectively(a) = Q
  BY <1>4, EffectivelyIs
<1>8. CASE pc[a] = "model"
  <2>1. Request(a) = Q
    BY <1>7, <1>8 DEF Request
  <2> QED
    BY <1>3, <1>5, <1>6, <2>1, ViewWellFormed
<1>9. CASE pc[a] = "summary"
  <2>1. AgentOK(msgs[a], event[a], "summary", cut[a], made)
    BY <1>2, <1>9
  <2>2. PICK n \in Nat : n = cut[a] /\ n = SafeCutoff(Q) /\ n > 0
    BY <1>4, <2>1 DEF AgentOK
  <2>3. n < Len(Q)
    BY <1>3, <1>5, <1>6, <2>2, SafeCutoffIsSafe
  <2>4. PICK c \in Nat : c = Before(CutoffOf(event[a])) + n
    BY <2>1, <2>2, SummaryCutoff
  <2>5. Safe(msgs[a], c)
    BY <2>1, <2>2, <2>4, SummaryCutoff
  <2>6. PICK R : R = <<Summary>> \o SubSeq(Q, n + 1, Len(Q))
    OBVIOUS
  <2>7. View(R, msgs[a], c)
    BY <1>3, <1>5, <1>6, <2>2, <2>3, <2>4, <2>6, SummaryView
  <2>8. Request(a) = R
    BY <1>7, <1>9, <2>2, <2>6 DEF Request
  <2> QED
    BY <1>3, <2>5, <2>7, <2>8, ViewWellFormed
<1> QED
  BY <1>1, <1>8, <1>9

LEMMA IInvImpliesNothingForgotten == IInv => NothingForgotten
<1>1. SUFFICES ASSUME IInv, NEW a \in Agents
               PROVE  /\ event[a] # None /\ event[a].file =>
                           \A i \in 1..event[a].cutoff : msgs[a][i].id \in InHistory \union lost
                      /\ \A i \in DOMAIN msgs[a] :
                           msgs[a][i].how = "evicted" => msgs[a][i].id \in stored \union lost
  BY DEF NothingForgotten
<1>2. KeptOK(msgs[a], event[a], Gone, Files) /\ msgs[a] \in Seq(Msg)
  BY <1>1 DEF IInv, AgentsInv, AgentInv, AgentOK
<1>3. DOMAIN msgs[a] = 1..Len(msgs[a])
  BY <1>2
<1> QED
  BY <1>2, <1>3 DEF KeptOK, CutoffOf, Gone, Files

\* Every variable has its type, whatever is interrupted, fails or is lost.
THEOREM TypeCorrect == Spec => []TypeOK
BY Invariant, IInvImpliesTypeOK, PTL

\* A model is only ever given a conversation the API accepts, although calls are
\* interrupted and patched, arguments truncated and old messages summarized.
THEOREM RequestsAlwaysWellFormed == Spec => []RequestsWellFormed
BY Invariant, IInvImpliesRequests, PTL

\* What a summary stands for is in the history file, and a large result is in its
\* file, unless an append failed or the sandbox was replaced.
THEOREM NothingIsForgotten == Spec => []NothingForgotten
BY Invariant, IInvImpliesNothingForgotten, PTL

\* Each report of a sub-agent has its one record, and no record is without a
\* report, also beside calls of `task' that were refused; the results of other
\* tools that the state has were told to the pages.
THEOREM ReportsAlwaysHaveRecords == Spec => []ReportsHaveRecords
<1>1. IInv => ReportsHaveRecords
  BY DEF IInv
<1> QED
  BY <1>1, Invariant, PTL

\* No append to the history file takes away a section of another one.
THEOREM HistoryAlwaysGrows == Spec => HistoryGrows
<1>1. IInv /\ [Next]_vars =>
        [\A h \in ToSet(history) :
           h \in ToSet(history') \/ {i.id : i \in h.items} \subseteq lost']_history
  <2>1. IInv /\ Next =>
          \A h \in ToSet(history) :
            h \in ToSet(history') \/ {i.id : i \in h.items} \subseteq lost'
    BY IInvParts, NextIInv DEF Growth
  <2>2. UNCHANGED vars => history' = history
    BY DEF vars, fileVars
  <2> QED
    BY <2>1, <2>2
<1> QED
  BY <1>1, Invariant, PTL DEF Spec, HistoryGrows

-----------------------------------------------------------------------------
(***************************************************************************)
(* What is summarized stays summarized                                     *)
(***************************************************************************)

\* The event goes forward, and the messages before it stay.
FrontKept(ms, ev, ms2, ev2) ==
  ev # None =>
    /\ ev2 # None
    /\ ev2.cutoff >= ev.cutoff
    /\ SubSeq(ms2, 1, ev.cutoff) = SubSeq(ms, 1, ev.cutoff)

LEMMA SameFront ==
  ASSUME NEW S, NEW s \in Seq(S), NEW t \in Seq(S), NEW n \in Nat, n <= Len(s), n <= Len(t),
         \A i \in 1..n : t[i] = s[i]
  PROVE  SubSeq(t, 1, n) = SubSeq(s, 1, n)
OBVIOUS

LEMMA FrontKeptIf ==
  ASSUME NEW ms \in Seq(Msg), NEW ev \in Events, Safe(ms, CutoffOf(ev)),
         NEW ms2 \in Seq(Msg), Len(ms) <= Len(ms2), \A i \in 1..Len(ms) : ms2[i] = ms[i],
         NEW ev2, ev2 = ev \/ (ev2 # None /\ CutoffOf(ev) <= CutoffOf(ev2))
  PROVE  FrontKept(ms, ev, ms2, ev2)
<1>1. SUFFICES ASSUME ev # None
               PROVE  /\ ev2 # None /\ ev2.cutoff >= ev.cutoff
                      /\ SubSeq(ms2, 1, ev.cutoff) = SubSeq(ms, 1, ev.cutoff)
  BY DEF FrontKept
<1>2. PICK c \in Nat \ {0} : c = ev.cutoff /\ c = CutoffOf(ev)
  BY <1>1 DEF Events, CutoffOf
<1>3. c < Len(ms) /\ Len(ms) \in Nat /\ Len(ms2) \in Nat
  BY <1>2 DEF Safe
<1>4. \A i \in 1..c : ms2[i] = ms[i]
  BY <1>3
<1>5. SubSeq(ms2, 1, c) = SubSeq(ms, 1, c)
  BY <1>3, <1>4, SameFront
<1>6. ev2 # None /\ c <= ev2.cutoff
  BY <1>1, <1>2 DEF CutoffOf
<1> QED
  BY <1>2, <1>5, <1>6

LEMMA FrontSame ==
  ASSUME AgentsInv, msgs'[Main] = msgs[Main], event'[Main] = event[Main]
  PROVE  FrontKept(msgs[Main], event[Main], msgs'[Main], event'[Main])
<1>1. event[Main] # None => event[Main].cutoff \in Nat
  BY DEF AgentsInv, AgentInv, AgentOK, Agents, Events
<1> QED
  BY <1>1 DEF FrontKept

LEMMA FrontUserMessage ==
  ASSUME TypeInv, AgentsInv, UserMessage
  PROVE  FrontKept(msgs[Main], event[Main], msgs'[Main], event'[Main])
<1>0. Main \in Agents /\ made \in Nat
  BY DEF Agents, TypeInv
<1>1. /\ pc[Main] = "idle" /\ event' = event
      /\ msgs' = [msgs EXCEPT ![Main] = Patched(Append(msgs[Main], Human))]
  BY DEF UserMessage
<1>2. PICK r : r = Patched(Append(msgs[Main], Human))
  OBVIOUS
<1>3. msgs'[Main] = r
  BY <1>0, <1>1, <1>2, FunctionUpdate DEF TypeInv
<1>4. /\ AgentOK(msgs[Main], event[Main], "idle", 0, made)
      /\ KeptOK(msgs[Main], event[Main], Gone, Files)
  BY <1>0, <1>1 DEF AgentsInv, AgentInv, AgentOK
<1>5. /\ AgentOK(r, event[Main], "model", 0, made + 1)
      /\ Len(msgs[Main]) < Len(r) /\ \A i \in 1..Len(msgs[Main]) : r[i] = msgs[Main][i]
  BY <1>0, <1>2, <1>4, UserMessageOK
<1>6. /\ r \in Seq(Msg) /\ msgs[Main] \in Seq(Msg) /\ event[Main] \in Events
      /\ Safe(msgs[Main], CutoffOf(event[Main]))
  BY <1>4, <1>5 DEF AgentOK
<1>7. Len(msgs[Main]) <= Len(r)
  BY <1>5, <1>6
<1>8. FrontKept(msgs[Main], event[Main], r, event[Main])
  BY <1>5, <1>6, <1>7, FrontKeptIf
<1> QED
  BY <1>1, <1>3, <1>8

\* An answer of the model, with the summary that was there or a later one.
LEMMA FrontResponds ==
  ASSUME TypeInv, AgentsInv, NEW a \in Agents, Responds(a),
         event'[Main] = event[Main]
           \/ (event'[Main] # None /\ CutoffOf(event[Main]) <= CutoffOf(event'[Main]))
  PROVE  FrontKept(msgs[Main], event[Main], msgs'[Main], event'[Main])
<1>0. Main \in Agents /\ made \in Nat
  BY DEF Agents, TypeInv
<1>1. PICK plan \in Plans(a) : msgs' = [msgs EXCEPT ![a] = Append(msgs[a], Ai(plan))]
  BY DEF Responds
<1>2. plan \in Seq(STRING)
  BY AgAssumption DEF AgAssumption, Plans
<1>3. /\ msgs[Main] \in Seq(Msg) /\ event[Main] \in Events
      /\ Safe(msgs[Main], CutoffOf(event[Main])) /\ Len(msgs[Main]) \in Nat
  BY <1>0 DEF AgentsInv, AgentInv, AgentOK
<1>4. /\ msgs'[Main] \in Seq(Msg) /\ Len(msgs[Main]) <= Len(msgs'[Main])
      /\ \A i \in 1..Len(msgs[Main]) : msgs'[Main][i] = msgs[Main][i]
  <2>1. CASE a = Main
    <3>1. msgs'[Main] = Append(msgs[Main], Ai(plan))
      BY <1>1, <2>1, FunctionUpdate DEF TypeInv
    <3>2. PICK x \in Msg : x = Ai(plan)
      BY <1>0, <1>2, AiIsMsg
    <3> QED
      BY <1>3, <3>1, <3>2
  <2>2. CASE a # Main
    <3>1. msgs'[Main] = msgs[Main]
      BY <1>0, <1>1, <2>2, FunctionUpdate DEF TypeInv
    <3> QED
      BY <1>3, <3>1
  <2> QED
    BY <2>1, <2>2
<1> QED
  BY <1>3, <1>4, FrontKeptIf

LEMMA FrontSummarized ==
  ASSUME TypeInv, AgentsInv, NEW a \in Agents, Summarized(a)
  PROVE  FrontKept(msgs[Main], event[Main], msgs'[Main], event'[Main])
<1>0. Main \in Agents
  BY DEF Agents
<1>1. PICK p \in appends :
        /\ pc[a] = "summary"
        /\ event' = [event EXCEPT ![a] = [cutoff |-> StateCutoff(a, cut[a]), file |-> p.ok]]
        /\ Responds(a)
  BY DEF Summarized
<1>2. event'[Main] = event[Main]
        \/ (event'[Main] # None /\ CutoffOf(event[Main]) <= CutoffOf(event'[Main]))
  <2>0. PICK ev2 : ev2 = [cutoff |-> StateCutoff(a, cut[a]), file |-> p.ok]
    OBVIOUS
  <2>3. event' = [event EXCEPT ![a] = ev2]
    BY <1>1, <2>0
  <2>1. CASE a # Main
    <3>1. event'[Main] = event[Main]
      BY <1>0, <2>1, <2>3, FunctionUpdate DEF TypeInv
    <3> QED
      BY <3>1
  <2>2. CASE a = Main
    <3>1. AgentOK(msgs[a], event[a], "summary", cut[a], made) /\ event[a] \in Events /\ cut[a] \in Nat
      BY <1>1 DEF AgentsInv, AgentInv, AgentOK
    <3>2. PICK c \in Nat \ {0} : c = Before(CutoffOf(event[a])) + cut[a] /\ CutoffOf(event[a]) <= c
      BY <3>1, SummaryCutoff
    <3>3. c = StateCutoff(a, cut[a])
      BY <3>1, <3>2, StateCutoffIs
    <3>5. event'[a] = ev2
      BY <2>3, FunctionUpdate DEF TypeInv
    <3>6. p.ok \in BOOLEAN
      BY DEF TypeInv, Appends
    <3>7. ev2 # None /\ ev2.cutoff = c
      BY <2>0, <3>3, <3>6, AgAssumption DEF AgAssumption
    <3> QED
      BY <2>2, <3>2, <3>5, <3>7 DEF CutoffOf
  <2> QED
    BY <2>1, <2>2
<1> QED
  BY <1>1, <1>2, FrontResponds

LEMMA FrontMerge ==
  ASSUME TypeInv, AgentsInv, NEW a \in Agents, Merge(a)
  PROVE  FrontKept(msgs[Main], event[Main], msgs'[Main], event'[Main])
<1>0. Main \in Agents /\ made \in Nat
  BY DEF Agents, TypeInv
<1>1. pc[a] = "tools" /\ \E ans, steps, ev : MergeStep(a, ans, steps, ev)
  BY MergeIs
<1>2. PICK ans, steps, ev : MergeStep(a, ans, steps, ev)
  BY <1>1
<1>3. /\ msgs'[a] = msgs[a] \o ans /\ \A b \in Agents : b # a => msgs'[b] = msgs[b]
  BY <1>2, FunctionUpdate DEF TypeInv, MergeStep
<1>4. /\ event'[a] = ev /\ \A b \in Agents : b # a => event'[b] = event[b]
  BY <1>2, FunctionUpdate DEF TypeInv, MergeStep
<1>5. CASE a # Main
  BY <1>0, <1>3, <1>4, <1>5, FrontSame
<1>6. CASE a = Main
  <2>1. /\ AgentOK(msgs[a], event[a], "tools", 0, made)
        /\ KeptOK(msgs[a], event[a], Gone, Files)
        /\ \A c \in DOMAIN done[a] : CommandOK(msgs[a], event[a], c, done[a][c], Gone, Files)
    BY <1>1 DEF AgentsInv, AgentInv, AgentOK
  <2>2. /\ DOMAIN done[a] = CallsOf(Last(msgs[a]))
        /\ ans = [k \in 1..Len(Last(msgs[a]).calls) |-> done[a][<<Last(msgs[a]).id[1], k>>].msg]
        /\ \/ ev = event[a]
           \/ \E c \in DOMAIN done[a] : done[a][c].event # None /\ ev = done[a][c].event
    BY <1>2 DEF MergeStep
  <2>3. ans \in Seq(Msg)
    <3>1. PICK N \in Nat, K \in Nat : N = Last(msgs[a]).id[1] /\ K = Len(Last(msgs[a]).calls)
      BY <2>1, LastMessage
    <3>2. \A k \in 1..K : <<N, k>> \in DOMAIN done[a]
      BY <2>1, <2>2, <3>1, CallIn
    <3>3. ans = [k \in 1..K |-> ans[k]] /\ \A k \in 1..K : ans[k] = done[a][<<N, k>>].msg
      BY <2>2, <3>1
    <3>4. \A k \in 1..K : ans[k] \in Msg
      BY <2>1, <3>2, <3>3 DEF CommandOK
    <3> QED
      BY <3>3, <3>4, FunIsSeq
  <2>9. ev = event[a] \/ (ev # None /\ CutoffOf(event[a]) <= CutoffOf(ev))
    <3>1. SUFFICES ASSUME NEW c \in DOMAIN done[a], done[a][c].event # None, ev = done[a][c].event
                   PROVE  ev # None /\ CutoffOf(event[a]) <= CutoffOf(ev)
      BY <2>2
    <3>2. CommandOK(msgs[a], event[a], c, done[a][c], Gone, Files)
      BY <2>1
    <3>3. /\ SafeCutoff(EffectiveOf(msgs[a], event[a])) > 0
          /\ ev.cutoff = CompactedAt(msgs[a], event[a])
      BY <3>1, <3>2 DEF CommandOK
    <3>4. CutoffOf(event[a]) <= CompactedAt(msgs[a], event[a])
      BY <2>1, <3>3, CompactCutoff
    <3> QED
      BY <3>1, <3>3, <3>4 DEF CutoffOf
  <2>4. msgs[a] \in Seq(Msg) /\ event[a] \in Events /\ Safe(msgs[a], CutoffOf(event[a]))
    BY <2>1 DEF AgentOK
  <2>5. PICK r : r = msgs[a] \o ans
    OBVIOUS
  <2>6. /\ r \in Seq(Msg) /\ Len(msgs[a]) <= Len(r) /\ \A i \in 1..Len(msgs[a]) : r[i] = msgs[a][i]
    BY <2>3, <2>4, <2>5, Concat
  <2>8. FrontKept(msgs[a], event[a], r, ev)
    BY <2>4, <2>6, <2>9, FrontKeptIf
  <2> QED
    BY <1>3, <1>4, <1>6, <2>5, <2>8
<1> QED
  BY <1>5, <1>6

LEMMA FrontToolStep ==
  ASSUME TypeInv, AgentsInv, NEW a \in Agents, ToolStep(a)
  PROVE  FrontKept(msgs[Main], event[Main], msgs'[Main], event'[Main])
<1>0. Main \in Agents
  BY DEF Agents
<1>1. ASSUME NEW c \in CallsOf(Asking(a)),
             Fetch(a, c) \/ OtherTool(a, c) \/ SetState(a, c) \/ NotCompacted(a, c)
      PROVE  FrontKept(msgs[Main], event[Main], msgs'[Main], event'[Main])
  <2>1. msgs' = msgs /\ event' = event
    BY <1>1 DEF Fetch, OtherTool, SetState, NotCompacted
  <2> QED
    BY <2>1, FrontSame
<1>2. ASSUME NEW c \in CallsOf(Asking(a)), Compact(a, c)
      PROVE  FrontKept(msgs[Main], event[Main], msgs'[Main], event'[Main])
  BY <1>2, FrontSame DEF Compact, agentVars
<1>3. CASE Compacted(a)
  BY <1>3, FrontSame DEF Compacted
<1>4. CASE Merge(a)
  BY <1>4, FrontMerge
<1>5. CASE MergeFails(a)
  <2>1. msgs'[Main] = msgs[Main] /\ event'[Main] = event[Main]
    BY <1>0, <1>5 DEF MergeFails, RunEnds
  <2> QED
    BY <2>1, FrontSame
<1> QED
  BY <1>1, <1>2, <1>3, <1>4, <1>5 DEF ToolStep

LEMMA FrontNext ==
  ASSUME TypeInv, AgentsInv, Next
  PROVE  FrontKept(msgs[Main], event[Main], msgs'[Main], event'[Main])
<1>0. Main \in Agents /\ Main \notin Subs /\ Subs \subseteq Agents
  BY AgAssumption DEF AgAssumption, Agents
<1>1. CASE UserMessage
  BY <1>1, FrontUserMessage
<1>2. ASSUME NEW a \in Agents, CallModel(a)
      PROVE  FrontKept(msgs[Main], event[Main], msgs'[Main], event'[Main])
  <2>1. Responds(a) /\ event' = event
    BY <1>2 DEF CallModel
  <2>2. event'[Main] = event[Main]
          \/ (event'[Main] # None /\ CutoffOf(event[Main]) <= CutoffOf(event'[Main]))
    BY <2>1
  <2> QED
    BY <2>1, <2>2, FrontResponds
<1>3. ASSUME NEW a \in Agents, Summarize(a)
      PROVE  FrontKept(msgs[Main], event[Main], msgs'[Main], event'[Main])
  BY <1>3, FrontSame DEF Summarize
<1>4. ASSUME NEW a \in Agents, Summarized(a)
      PROVE  FrontKept(msgs[Main], event[Main], msgs'[Main], event'[Main])
  BY <1>4, FrontSummarized
<1>5. ASSUME NEW p \in appends, AppendReads(p) \/ AppendPuts(p)
      PROVE  FrontKept(msgs[Main], event[Main], msgs'[Main], event'[Main])
  BY <1>5, FrontSame DEF AppendReads, AppendPuts, agentVars
<1>6. ASSUME NEW a \in Agents, ToolStep(a)
      PROVE  FrontKept(msgs[Main], event[Main], msgs'[Main], event'[Main])
  BY <1>6, FrontToolStep
<1>7. ASSUME NEW s \in Subs, EndTask(s)
      PROVE  FrontKept(msgs[Main], event[Main], msgs'[Main], event'[Main])
  <2>1. msgs' = [msgs EXCEPT ![s] = <<>>] /\ event' = [event EXCEPT ![s] = None]
    BY <1>7 DEF EndTask, Reset
  <2>2. msgs'[Main] = msgs[Main] /\ event'[Main] = event[Main]
    BY <1>0, <2>1, FunctionUpdate DEF TypeInv
  <2> QED
    BY <2>2, FrontSame
<1>8. ASSUME NEW s \in Subs, NEW c \in Pending(Main, "task"), StartTask(c, s)
      PROVE  FrontKept(msgs[Main], event[Main], msgs'[Main], event'[Main])
  <2>1. msgs' = [msgs EXCEPT ![s] = <<Human>>] /\ event' = event
    BY <1>8 DEF StartTask
  <2>2. msgs'[Main] = msgs[Main]
    BY <1>0, <2>1, FunctionUpdate DEF TypeInv
  <2> QED
    BY <2>1, <2>2, FrontSame
<1>9. CASE RunInterrupted
  <2>1. msgs'[Main] = msgs[Main] /\ event'[Main] = event[Main]
    BY <1>0, <1>9 DEF RunInterrupted, RunEnds
  <2> QED
    BY <2>1, FrontSame
<1>10. CASE FilesLost
  BY <1>10, FrontSame DEF FilesLost, agentVars
<1>11. ASSUME NEW c \in Pending(Main, "task"), RefuseTask(c)
       PROVE  FrontKept(msgs[Main], event[Main], msgs'[Main], event'[Main])
  BY <1>11, FrontSame DEF RefuseTask
<1> QED
  BY <1>1, <1>2, <1>3, <1>4, <1>5, <1>6, <1>7, <1>8, <1>9, <1>10, <1>11 DEF Next

\* What was summarized stays summarized and as it is: no summarization goes back
\* behind an earlier one, and no patch or merge changes what it stands for.
THEOREM CutoffAlwaysFinal == Spec => CutoffIsFinal
<1>1. IInv /\ [Next]_vars =>
        [event[Main] # None =>
           /\ event'[Main] # None
           /\ event'[Main].cutoff >= event[Main].cutoff
           /\ SubSeq(msgs'[Main], 1, event[Main].cutoff)
                = SubSeq(msgs[Main], 1, event[Main].cutoff)]_<<event, msgs>>
  <2>1. IInv /\ Next => FrontKept(msgs[Main], event[Main], msgs'[Main], event'[Main])
    BY FrontNext DEF IInv
  <2>2. UNCHANGED vars => UNCHANGED <<event, msgs>>
    BY DEF vars, agentVars
  <2> QED
    BY <2>1, <2>2 DEF FrontKept
<1> QED
  BY <1>1, Invariant, PTL DEF Spec, CutoffIsFinal
=============================================================================
