--------------------------- MODULE RoutingProofs ---------------------------
(***************************************************************************)
(* What holds of the router tree and of a dispatch for every set of tasks, *)
(* routers, handlers, events and filters: walk() lists the tree depth      *)
(* first, a dispatch passes no handler over, comes to none twice and gives *)
(* none the data of another's filters, and feed implements the dispatcher  *)
(* of module Dispatch.                                                     *)
(*                                                                         *)
(* Walk and FlattenSeq are defined by recursion.  What a recursive         *)
(* definition yields is proved by induction over a set of numbers, and     *)
(* that by the least number outside it (LeastNat, Inductive): no theorem   *)
(* here takes an operator as a parameter.                                  *)
(***************************************************************************)
EXTENDS Routing, FiniteSetTheorems, SequenceTheorems, TLAPS

-----------------------------------------------------------------------------
(* Induction, and the concatenation of sequences.                          *)

\* A set of numbers has a least one: of the initial segments that its members
\* span, which are finite sets, one contains no other.
LEMMA LeastNat ==
    ASSUME NEW S \in SUBSET Nat, S # {}
    PROVE  \E m \in S: \A n \in S: m <= n
<1> DEFINE T == {1..n : n \in S}
<1>1. T \subseteq FiniteSubsetsOf(Nat) /\ T # {}
  <2>1. \A n \in S: IsFiniteSet(1..n) /\ 1..n \in SUBSET Nat
    BY FS_Interval
  <2> QED BY <2>1 DEF FiniteSubsetsOf
<1>2. \E x \in T: \A y \in T: ~(<<y, x>> \in StrictSubsetOrdering(Nat))
  <2> HIDE DEF T
  <2> QED BY <1>1, FS_StrictSubsetOrderingWellFounded, WFMin
<1>3. PICK m \in S: \A n \in S: <<1..n, 1..m>> \notin StrictSubsetOrdering(Nat)
  BY <1>2
<1>4. ASSUME NEW n \in S, n < m PROVE FALSE
  <2>1. 1..n \in SUBSET Nat /\ 1..m \in SUBSET Nat /\ 1..n \subseteq 1..m /\ m \in 1..m /\ m \notin 1..n
    BY <1>4
  <2> QED BY <2>1, <1>3 DEF StrictSubsetOrdering
<1> QED BY <1>4, <1>3

\* Induction over a set of numbers: the least number outside it would follow
\* one inside.
LEMMA Inductive ==
    ASSUME NEW S, 0 \in S, \A n \in Nat: n \in S => n + 1 \in S
    PROVE  Nat \subseteq S
<1> SUFFICES ASSUME Nat \ S # {} PROVE FALSE
  OBVIOUS
<1>1. PICK m \in Nat \ S: \A n \in Nat \ S: m <= n
  BY LeastNat
<1>2. m # 0 /\ m - 1 \in Nat /\ m - 1 \in S /\ (m - 1) + 1 = m
  BY <1>1
<1> QED BY <1>1, <1>2

\* Where an element of the first n sequences can be: which sequence, and where.
Places(seqs, n) == UNION {{k} \X DOMAIN seqs[k]: k \in 1..n}

\* s lists what seqs[1], ..., seqs[n] list, one after the other: at[i] is
\* where its i-th element comes from.
Lists(s, at, seqs, n) ==
    /\ at \in [DOMAIN s -> Places(seqs, n)]
    /\ \A i \in DOMAIN s: s[i] = seqs[at[i][1]][at[i][2]]
    /\ \A i, j \in DOMAIN s: i < j => Earlier(at[i], at[j])
    /\ \A p \in Places(seqs, n): \E i \in DOMAIN s: at[i] = p

\* g[i] is the concatenation of seqs[1], ..., seqs[i].
IsFlattening(g, seqs, n) ==
    /\ g[1] = seqs[1]
    /\ \A i \in 2..n: g[i] = g[i-1] \o seqs[i]

\* FlattenSeq, which walk() extends its list by, is defined by recursion: its
\* function exists, and it is the only one that obeys the recursion.
LEMMA FlattenPrefixes ==
    ASSUME NEW S, NEW seqs \in Seq(Seq(S)), Len(seqs) # 0
    PROVE  \E g \in [1..Len(seqs) -> Seq(S)]:
              FlattenSeq(seqs) = g[Len(seqs)] /\ IsFlattening(g, seqs, Len(seqs))
<1> DEFINE N == Len(seqs)
<1> DEFINE Def(f) == f = [i \in 1..N |-> IF i = 1 THEN seqs[i] ELSE f[i-1] \o seqs[i]]
<1>0. N \in Nat \ {0} /\ \A i \in 1..N: seqs[i] \in Seq(S)
  OBVIOUS
<1>1. PICK f: FlattenSeq(seqs) = f[N] /\ f = CHOOSE g: Def(g)
  BY Zenon DEF FlattenSeq
<1> HIDE DEF N
\* A function that obeys the recursion exists up to every n.
<1> DEFINE D == {n \in Nat: n = 0 \/ n > N \/ \E g \in [1..n -> Seq(S)]: IsFlattening(g, seqs, n)}
<1>2. \A n \in Nat: n \in D => n + 1 \in D
  <2> SUFFICES ASSUME NEW n \in Nat, n + 1 <= N,
                      n = 0 \/ \E g \in [1..n -> Seq(S)]: IsFlattening(g, seqs, n)
               PROVE  \E g \in [1..n+1 -> Seq(S)]: IsFlattening(g, seqs, n+1)
    <3> SUFFICES ASSUME NEW n \in Nat, n \in D PROVE n + 1 \in D
      OBVIOUS
    <3>1. n = 0 \/ n > N \/ \E g \in [1..n -> Seq(S)]: IsFlattening(g, seqs, n)
      OBVIOUS
    <3>2. n + 1 \in Nat /\ (n > N => n + 1 > N) /\ (n + 1 > N \/ (n + 1 <= N /\ ~(n > N)))
      BY <1>0
    <3>3. n + 1 > N \/ \E g \in [1..n+1 -> Seq(S)]: IsFlattening(g, seqs, n+1)
      BY <3>1, <3>2
    <3> QED BY <3>2, <3>3
  <2>1. CASE n = 0
    <3> DEFINE g == [i \in 1..n+1 |-> seqs[1]]
    <3>1. g \in [1..n+1 -> Seq(S)] /\ IsFlattening(g, seqs, n+1)
      BY <2>1, <1>0 DEF IsFlattening
    <3> QED BY <3>1
  <2>2. CASE n # 0
    <3>1. PICK h \in [1..n -> Seq(S)]: IsFlattening(h, seqs, n)
      BY <2>2, <1>0
    <3> DEFINE g == [i \in 1..n+1 |-> IF i = n+1 THEN h[n] \o seqs[n+1] ELSE h[i]]
    <3>2. h[n] \o seqs[n+1] \in Seq(S)
      BY <2>2, <1>0
    <3>3. g \in [1..n+1 -> Seq(S)]
      BY <3>2
    <3>4. g[1] = seqs[1]
      BY <3>1, <2>2 DEF IsFlattening
    <3>5. ASSUME NEW i \in 2..n+1 PROVE g[i] = g[i-1] \o seqs[i]
      <4>1. CASE i = n+1
        <5>1. i - 1 = n /\ n \in 1..n+1 /\ n # n+1 /\ n+1 \in 1..n+1
          BY <4>1, <2>2
        <5>2. g[n+1] = h[n] \o seqs[n+1] /\ g[n] = h[n]
          BY <5>1
        <5> HIDE DEF g
        <5> QED BY <4>1, <5>1, <5>2
      <4>2. CASE i # n+1
        <5>1. i \in 2..n /\ i \in 1..n+1 /\ i-1 \in 1..n+1 /\ i-1 # n+1
          BY <4>2
        <5>2. g[i] = h[i] /\ g[i-1] = h[i-1]
          BY <5>1, <4>2
        <5> HIDE DEF g
        <5> QED BY <5>1, <5>2, <3>1 DEF IsFlattening
      <4> QED BY <4>1, <4>2
    <3>6. IsFlattening(g, seqs, n+1)
      <4> HIDE DEF g
      <4> QED BY <3>4, <3>5 DEF IsFlattening
    <3> QED BY <3>3, <3>6
  <2> QED BY <2>1, <2>2
<1>3. N \in D
  <2> HIDE DEF D
  <2> SUFFICES 0 \in D BY <1>0, <1>2, Inductive
  <2> QED BY DEF D
<1>4. PICK g \in [1..N -> Seq(S)]: IsFlattening(g, seqs, N)
  BY <1>3, <1>0
<1>5. Def(g)
  <2>1. \A i \in 1..N: g[i] = IF i = 1 THEN seqs[i] ELSE g[i-1] \o seqs[i]
    <3> TAKE i \in 1..N
    <3>1. i = 1 \/ i \in 2..N
      BY <1>0
    <3> QED BY <3>1, <1>4 DEF IsFlattening
  <2> QED BY <2>1, <1>4, Zenon
<1>6. Def(f)
  <2> HIDE DEF Def
  <2> QED BY <1>1, <1>5
\* and it is the only one.
<1> DEFINE E == {n \in Nat: n = 0 \/ n > N \/ f[n] = g[n]}
<1>7. \A n \in Nat: n \in E => n + 1 \in E
  <2> SUFFICES ASSUME NEW n \in E, n + 1 <= N PROVE f[n+1] = g[n+1]
    BY <1>0
  <2>1. n + 1 \in 1..N /\ (n + 1 = 1 <=> n = 0) /\ (n + 1) - 1 = n /\ (n = 0 \/ f[n] = g[n])
    BY <1>0
  <2>2. f[n+1] = IF n + 1 = 1 THEN seqs[n+1] ELSE f[(n+1)-1] \o seqs[n+1]
    BY <1>6, <2>1, Zenon
  <2>3. g[n+1] = IF n + 1 = 1 THEN seqs[n+1] ELSE g[(n+1)-1] \o seqs[n+1]
    BY <1>5, <2>1, Zenon
  <2> HIDE DEF E, Def
  <2> QED BY <2>1, <2>2, <2>3
<1>8. f[N] = g[N]
  <2>1. N \in E
    <3> HIDE DEF E
    <3> SUFFICES 0 \in E BY <1>0, <1>7, Inductive
    <3> QED BY DEF E
  <2> QED BY <2>1, <1>0
<1> QED BY <1>1, <1>4, <1>8 DEF N

\* What FlattenSeq yields: the elements of each sequence, in order, once.
LEMMA Flatten ==
    ASSUME NEW S, NEW seqs \in Seq(Seq(S))
    PROVE  /\ FlattenSeq(seqs) \in Seq(S)
           /\ \E at: Lists(FlattenSeq(seqs), at, seqs, Len(seqs))
<1>1. CASE Len(seqs) = 0
  <2>1. FlattenSeq(seqs) = <<>>
    BY <1>1 DEF FlattenSeq
  <2>2. Lists(<<>>, <<>>, seqs, Len(seqs))
    BY <1>1 DEF Lists, Places
  <2> QED BY <2>1, <2>2
<1>2. CASE Len(seqs) # 0
  <2> DEFINE N == Len(seqs)
  <2>0. N \in Nat \ {0} /\ \A i \in 1..N: seqs[i] \in Seq(S)
    BY <1>2
  <2>1. PICK g \in [1..N -> Seq(S)]: FlattenSeq(seqs) = g[N] /\ IsFlattening(g, seqs, N)
    BY <1>2, FlattenPrefixes
  <2> HIDE DEF N
  <2> DEFINE D == {n \in Nat: n = 0 \/ n > N \/ \E at: Lists(g[n], at, seqs, n)}
  <2>2. 1 \in D
    <3>1. g[1] = seqs[1] /\ DOMAIN seqs[1] = 1..Len(seqs[1]) /\ Len(seqs[1]) \in Nat
      BY <2>0, <2>1 DEF IsFlattening
    <3>2. \A p: p \in Places(seqs, 1) <=> \E j \in DOMAIN seqs[1]: p = <<1, j>>
      BY DEF Places
    <3> DEFINE at == [i \in DOMAIN seqs[1] |-> <<1, i>>]
    <3>3. Lists(seqs[1], at, seqs, 1)
      BY <3>1, <3>2 DEF Lists, Earlier
    <3> QED BY <3>1, <3>3
  <2>3. \A n \in Nat: n \in D => n + 1 \in D
    <3> SUFFICES ASSUME NEW n \in Nat, n # 0, n + 1 <= N, \E at: Lists(g[n], at, seqs, n)
                 PROVE  \E at: Lists(g[n+1], at, seqs, n+1)
      <4> SUFFICES ASSUME NEW n \in Nat, n \in D PROVE n + 1 \in D
        OBVIOUS
      <4>1. n = 0 \/ n > N \/ \E at: Lists(g[n], at, seqs, n)
        OBVIOUS
      <4>2. n + 1 \in Nat /\ (n > N => n + 1 > N) /\ (n = 0 => n + 1 = 1) /\ (n + 1 > N \/ n + 1 <= N)
        BY <2>0
      <4>3. n + 1 > N \/ \E at: Lists(g[n+1], at, seqs, n+1) \/ n = 0
        BY <4>1, <4>2
      <4> QED BY <4>2, <4>3, <2>2
    <3>0. n \in 1..N /\ n+1 \in 1..N /\ n+1 \in 2..N /\ (n+1)-1 = n
      BY <2>0
    <3>1. PICK at: Lists(g[n], at, seqs, n)
      OBVIOUS
    <3> DEFINE s == g[n]
               u == seqs[n+1]
    <3>2. s \in Seq(S) /\ u \in Seq(S) /\ g[n+1] = s \o u
      BY <2>0, <2>1, <3>0 DEF IsFlattening
    <3> HIDE DEF s, u
    <3>3. /\ DOMAIN s = 1..Len(s) /\ DOMAIN u = 1..Len(u)
          /\ Len(s) \in Nat /\ Len(u) \in Nat
          /\ DOMAIN (s \o u) = 1..Len(s) + Len(u)
          /\ \A i \in 1..Len(s) + Len(u): (s \o u)[i] = IF i <= Len(s) THEN s[i] ELSE u[i - Len(s)]
      BY <3>2
    <3>4. \A m \in Nat: \A p: p \in Places(seqs, m) <=> \E k \in 1..m: \E j \in DOMAIN seqs[k]: p = <<k, j>>
      BY DEF Places
    <3> DEFINE bt == [i \in 1..Len(s) + Len(u) |-> IF i <= Len(s) THEN at[i] ELSE <<n+1, i - Len(s)>>]
    <3>14. Lists(s, at, seqs, n)
      BY <3>1 DEF s
    <3>5. ASSUME NEW i \in 1..Len(s)
          PROVE  /\ bt[i] = at[i]
                 /\ at[i] \in Places(seqs, n)
                 /\ \E k \in 1..n: \E j \in DOMAIN seqs[k]: at[i] = <<k, j>>
                 /\ s[i] = seqs[at[i][1]][at[i][2]]
      <4>1. i \in 1..Len(s) + Len(u) /\ i <= Len(s) /\ i \in DOMAIN s
        BY <3>3
      <4>2. bt[i] = at[i]
        BY <4>1
      <4>3. at[i] \in Places(seqs, n) /\ s[i] = seqs[at[i][1]][at[i][2]]
        BY <4>1, <3>14 DEF Lists
      <4> QED BY <4>2, <4>3, <3>4
    <3>6. \A i \in Len(s)+1..Len(s)+Len(u): bt[i] = <<n+1, i - Len(s)>> /\ i - Len(s) \in DOMAIN u
      BY <3>3
    <3>7. bt \in [1..Len(s) + Len(u) -> Places(seqs, n+1)]
      <4> SUFFICES ASSUME NEW i \in 1..Len(s) + Len(u) PROVE bt[i] \in Places(seqs, n+1)
        OBVIOUS
      <4>1. CASE i <= Len(s)
        <5>1. PICK k \in 1..n: \E j \in DOMAIN seqs[k]: at[i] = <<k, j>>
          <6>1. i \in 1..Len(s)
            BY <4>1, <3>3
          <6> QED BY <6>1, <3>5
        <5>3. PICK j \in DOMAIN seqs[k]: at[i] = <<k, j>>
          BY <5>1
        <5>2. k \in 1..n+1 /\ bt[i] = <<k, j>>
          BY <4>1, <3>5, <3>3, <5>3
        <5> HIDE DEF bt
        <5> QED BY <5>2, <3>4
      <4>2. CASE i > Len(s)
        <5>1. bt[i] = <<n+1, i - Len(s)>> /\ i - Len(s) \in DOMAIN seqs[n+1] /\ n+1 \in 1..n+1
          BY <4>2, <3>6, <3>3 DEF u
        <5> HIDE DEF bt
        <5> QED BY <5>1, <3>4
      <4> QED BY <4>1, <4>2, <3>3
    <3>8. \A i \in 1..Len(s) + Len(u): (s \o u)[i] = seqs[bt[i][1]][bt[i][2]]
      <4> HIDE DEF bt
      <4> TAKE i \in 1..Len(s) + Len(u)
      <4>1. CASE i <= Len(s)
        <5>1. i \in 1..Len(s) /\ (s \o u)[i] = s[i]
          BY <4>1, <3>3
        <5> QED BY <5>1, <3>5
      <4>2. CASE i > Len(s)
        <5>1. i \in Len(s)+1..Len(s)+Len(u) /\ (s \o u)[i] = u[i - Len(s)]
          BY <4>2, <3>3
        <5>2. bt[i][1] = n+1 /\ bt[i][2] = i - Len(s)
          BY <5>1, <3>6
        <5> QED BY <5>1, <5>2 DEF u
      <4> QED BY <4>1, <4>2, <3>3
    <3>9. \A i, j \in 1..Len(s) + Len(u): i < j => Earlier(bt[i], bt[j])
      <4> HIDE DEF bt
      <4> SUFFICES ASSUME NEW i \in 1..Len(s) + Len(u), NEW j \in 1..Len(s) + Len(u), i < j
                   PROVE Earlier(bt[i], bt[j])
        OBVIOUS
      <4>1. CASE j <= Len(s)
        <5>1. i \in 1..Len(s) /\ j \in 1..Len(s)
          BY <4>1, <3>3
        <5>2. Earlier(at[i], at[j])
          BY <5>1, <3>3, <3>14 DEF Lists
        <5> QED BY <5>1, <5>2, <3>5
      <4>2. CASE i <= Len(s) /\ j > Len(s)
        <5>1. i \in 1..Len(s) /\ j \in Len(s)+1..Len(s)+Len(u)
          BY <4>2, <3>3
        <5>2. PICK k \in 1..n: \E m \in DOMAIN seqs[k]: at[i] = <<k, m>>
          BY <5>1, <3>5
        <5>3. bt[i][1] = k /\ bt[j][1] = n+1 /\ k < n+1
          BY <5>1, <5>2, <3>5, <3>6
        <5> QED BY <5>3 DEF Earlier
      <4>3. CASE i > Len(s)
        <5>1. i \in Len(s)+1..Len(s)+Len(u) /\ j \in Len(s)+1..Len(s)+Len(u)
          BY <4>3, <3>3
        <5>4. bt[i] = <<n+1, i - Len(s)>> /\ bt[j] = <<n+1, j - Len(s)>>
          BY <5>1, <3>6
        <5>2. bt[i][1] = n+1 /\ bt[j][1] = n+1 /\ bt[i][2] = i - Len(s) /\ bt[j][2] = j - Len(s)
          BY <5>4
        <5>3. i - Len(s) < j - Len(s)
          BY <3>3
        <5> QED BY <5>2, <5>3 DEF Earlier
      <4> QED BY <4>1, <4>2, <4>3, <3>3
    <3>10. ASSUME NEW p \in Places(seqs, n+1) PROVE \E i \in 1..Len(s) + Len(u): bt[i] = p
      <4>0. PICK k \in 1..n+1: \E j \in DOMAIN seqs[k]: p = <<k, j>>
        BY <3>4
      <4>1. PICK j \in DOMAIN seqs[k]: p = <<k, j>>
        BY <4>0
      <4>2. CASE k = n+1
        <5>1. Len(s) + j \in Len(s)+1..Len(s)+Len(u) /\ (Len(s) + j) - Len(s) = j
          BY <4>1, <4>2, <3>3 DEF u
        <5>2. bt[Len(s) + j] = <<n+1, j>> /\ Len(s) + j \in 1..Len(s) + Len(u)
          BY <5>1, <3>6, <3>3
        <5> HIDE DEF bt
        <5> QED BY <5>2, <4>1, <4>2
      <4>3. CASE k # n+1
        <5>1. k \in 1..n
          BY <4>3
        <5>2. p \in Places(seqs, n)
          BY <5>1, <4>1, <3>4
        <5>3. PICK i \in 1..Len(s): at[i] = p
          BY <5>2, <3>14, <3>3 DEF Lists
        <5> QED BY <5>3, <3>5, <3>3
      <4> QED BY <4>2, <4>3
    <3>11. Lists(s \o u, bt, seqs, n+1)
      <4> HIDE DEF bt
      <4> QED BY <3>3, <3>7, <3>8, <3>9, <3>10 DEF Lists
    <3> QED BY <3>11, <3>2
  <2>4. N \in D
    <3> HIDE DEF D
    <3> SUFFICES 0 \in D BY <2>0, <2>3, Inductive
    <3> QED BY DEF D
  <2>5. FlattenSeq(seqs) \in Seq(S) /\ \E at: Lists(FlattenSeq(seqs), at, seqs, N)
    BY <2>0, <2>1, <2>4
  <2> QED BY <2>5 DEF N
<1> QED BY <1>1, <1>2

-----------------------------------------------------------------------------
(* The router tree.                                                        *)

\* The children of a router in S are in S.
Closed(S) == \A p \in S: \A i \in DOMAIN children[p]: children[p][i] \in S

\* Every router is below those that include it.
Ranks(rank) == \A p \in Routers: \A i \in DOMAIN children[p]: rank[children[p][i]] < rank[p]

\* The routers form a forest: no router is included twice, and none contains
\* itself.
Forest ==
    /\ children \in [Routers -> Seq(Routers)]
    /\ \A p, q \in Routers: \A i \in DOMAIN children[p], j \in DOMAIN children[q]:
          children[p][i] = children[q][j] => p = q /\ i = j
    /\ \E rank \in [Routers -> Nat]: Ranks(rank)

\* A router's tree is the least set with it and the children of each member.
LEMMA SubtreeLeast ==
    ASSUME NEW r \in Routers, NEW S \in SUBSET Routers, r \in S, Closed(S)
    PROVE  Subtree(r) \subseteq S
BY DEF Subtree, Closed, Range

\* It is such a set.
LEMMA SubtreeClosed ==
    ASSUME Forest, NEW r \in Routers
    PROVE  /\ r \in Subtree(r)
           /\ Subtree(r) \subseteq Routers
           /\ Closed(Subtree(r))
<1>1. r \in Subtree(r) /\ Subtree(r) \subseteq Routers
  BY DEF Subtree
<1>2. ASSUME NEW p \in Subtree(r), NEW i \in DOMAIN children[p]
      PROVE  children[p][i] \in Subtree(r)
  <2>1. children[p][i] \in Routers /\ children[p][i] \in Range(children[p])
    BY <1>1 DEF Forest, Range
  <2>2. ASSUME NEW S \in SUBSET Routers, r \in S, \A q \in S: Range(children[q]) \subseteq S
        PROVE  children[p][i] \in S
    <3>1. p \in S
      BY <2>2 DEF Subtree
    <3> QED BY <3>1, <2>1, <2>2
  <2> QED BY <2>1, <2>2 DEF Subtree
<1> QED BY <1>1, <1>2 DEF Closed

\* Whatever is below a router brings its own tree with it.
LEMMA SubtreeBelow ==
    ASSUME Forest, NEW r \in Routers, NEW x \in Subtree(r)
    PROVE  x \in Routers /\ Subtree(x) \subseteq Subtree(r)
<1>1. x \in Routers /\ Subtree(r) \in SUBSET Routers /\ Closed(Subtree(r))
  BY SubtreeClosed
<1> QED BY <1>1, SubtreeLeast

\* Nothing in a router's tree ranks above it.
LEMMA SubtreeRank ==
    ASSUME Forest, NEW rank \in [Routers -> Nat], Ranks(rank),
           NEW r \in Routers, NEW x \in Subtree(r)
    PROVE  rank[x] <= rank[r]
<1> DEFINE S == {y \in Routers: rank[y] <= rank[r]}
<1>1. r \in S /\ S \in SUBSET Routers
  OBVIOUS
<1>2. ASSUME NEW p \in S, NEW i \in DOMAIN children[p] PROVE children[p][i] \in S
  <2>1. children[p][i] \in Routers /\ rank[children[p][i]] < rank[p]
    BY DEF Forest, Ranks
  <2> QED BY <2>1
<1>3. Subtree(r) \subseteq S
  <2> HIDE DEF S
  <2> QED BY <1>1, <1>2, SubtreeLeast DEF Closed
<1> QED BY <1>3

\* What a router walks: itself and what its children walk.
LEMMA SubtreeUnfolds ==
    ASSUME Forest, NEW r \in Routers
    PROVE  \A x: x \in Subtree(r) <=>
               x = r \/ \E i \in DOMAIN children[r]: x \in Subtree(children[r][i])
<1> DEFINE S == {r} \cup UNION {Subtree(children[r][i]): i \in DOMAIN children[r]}
<1>0. \A i \in DOMAIN children[r]: children[r][i] \in Routers
  BY DEF Forest
<1>1. S \in SUBSET Routers /\ r \in S
  BY <1>0, SubtreeClosed
<1>2. ASSUME NEW p \in S, NEW i \in DOMAIN children[p] PROVE children[p][i] \in S
  <2>1. CASE p = r
    BY <2>1, <1>0, SubtreeClosed
  <2>2. CASE \E j \in DOMAIN children[r]: p \in Subtree(children[r][j])
    <3>1. PICK j \in DOMAIN children[r]: p \in Subtree(children[r][j])
      BY <2>2
    <3>2. children[p][i] \in Subtree(children[r][j])
      BY <3>1, <1>0, SubtreeClosed DEF Closed
    <3> QED BY <3>2
  <2> QED BY <2>1, <2>2
<1>3. Subtree(r) \subseteq S
  <2> HIDE DEF S
  <2> QED BY <1>1, <1>2, SubtreeLeast DEF Closed
<1>4. S \subseteq Subtree(r)
  <2>1. \A i \in DOMAIN children[r]: children[r][i] \in Subtree(r)
    BY SubtreeClosed DEF Closed
  <2> QED BY <2>1, SubtreeBelow, SubtreeClosed
<1> QED BY <1>3, <1>4

\* Two subtrees that meet are one within the other.
LEMMA SubtreesMeet ==
    ASSUME Forest, NEW a \in Routers, NEW b \in Routers, NEW x,
           x \in Subtree(a), x \in Subtree(b)
    PROVE  a \in Subtree(b) \/ b \in Subtree(a)
<1> SUFFICES ASSUME a \notin Subtree(b), b \notin Subtree(a) PROVE FALSE
  OBVIOUS
<1> DEFINE S == Subtree(a) \ Subtree(b)
<1>1. S \in SUBSET Routers /\ a \in S
  BY SubtreeClosed
<1>2. ASSUME NEW p \in S, NEW i \in DOMAIN children[p], children[p][i] \in Subtree(b)
      PROVE  FALSE
  <2> DEFINE c == children[p][i]
             B == Subtree(b) \ {c}
  <2>1. p \in Routers /\ c \in Subtree(a) /\ c # b
    BY SubtreeClosed DEF Closed
  \* Without c, whose only parent is not in Subtree(b), it would still be closed.
  <2>2. B \in SUBSET Routers /\ b \in B
    BY <2>1, SubtreeClosed
  <2>3. ASSUME NEW q \in B, NEW j \in DOMAIN children[q] PROVE children[q][j] \in B
    <3>1. q \in Routers /\ q # p /\ children[q][j] \in Subtree(b)
      BY SubtreeClosed DEF Closed
    <3>2. children[q][j] # c
      BY <3>1, <2>1 DEF Forest
    <3> QED BY <3>1, <3>2
  <2>4. Subtree(b) \subseteq B
    <3> HIDE DEF B
    <3> QED BY <2>2, <2>3, SubtreeLeast DEF Closed
  <2> QED BY <2>4, <1>2
<1>3. Subtree(a) \subseteq S
  <2>1. Closed(S)
    BY <1>2, <1>1, SubtreeClosed DEF Closed
  <2> HIDE DEF S
  <2> QED BY <1>1, <2>1, SubtreeLeast
<1> QED BY <1>3

\* What two children of a router walk is disjoint, and the router is not in it.
LEMMA ChildrenApart ==
    ASSUME Forest, NEW r \in Routers,
           NEW i \in DOMAIN children[r], NEW x \in Subtree(children[r][i])
    PROVE  /\ x # r
           /\ \A j \in DOMAIN children[r]: x \in Subtree(children[r][j]) => i = j
<1>1. PICK rank \in [Routers -> Nat]: Ranks(rank)
  BY DEF Forest
<1>2. \A k \in DOMAIN children[r]: children[r][k] \in Routers /\ rank[children[r][k]] < rank[r]
  BY <1>1 DEF Forest, Ranks
<1>3. \A k \in DOMAIN children[r]: r \notin Subtree(children[r][k])
  <2> SUFFICES ASSUME NEW k \in DOMAIN children[r], r \in Subtree(children[r][k]) PROVE FALSE
    OBVIOUS
  <2>1. rank[r] <= rank[children[r][k]]
    BY <1>1, <1>2, SubtreeRank
  <2> QED BY <2>1, <1>2
\* A child is in no other child's subtree: its parent would be too.
<1>4. ASSUME NEW k \in DOMAIN children[r], NEW l \in DOMAIN children[r], k # l,
             children[r][k] \in Subtree(children[r][l])
      PROVE  FALSE
  <2> DEFINE c == children[r][l]
             B == Subtree(c) \ {children[r][k]}
  <2>1. c \in Routers /\ c # children[r][k] /\ r \notin Subtree(c)
    BY <1>2, <1>3, <1>4 DEF Forest
  <2>2. B \in SUBSET Routers /\ c \in B
    BY <2>1, SubtreeClosed
  <2>3. ASSUME NEW q \in B, NEW j \in DOMAIN children[q] PROVE children[q][j] \in B
    <3>1. q \in Routers /\ q # r /\ children[q][j] \in Subtree(c)
      BY <2>1, SubtreeClosed DEF Closed
    <3>2. children[q][j] # children[r][k]
      BY <3>1, <2>1 DEF Forest
    <3> QED BY <3>1, <3>2
  <2>4. Subtree(c) \subseteq B
    <3> HIDE DEF B, c
    <3> QED BY <2>1, <2>2, <2>3, SubtreeLeast DEF Closed
  <2> QED BY <2>4, <1>4
<1> QED BY <1>2, <1>3, <1>4, SubtreesMeet

\* Before any include_router() every router is a tree of its own.
LEMMA ForestInit == RoutingInit => Forest
<1> SUFFICES ASSUME RoutingInit PROVE Forest
  OBVIOUS
<1>1. children = [r \in Routers |-> <<>>]
  BY DEF RoutingInit
<1>2. \A r \in Routers: children[r] = <<>> /\ DOMAIN children[r] = {}
  BY <1>1
<1>3. children \in [Routers -> Seq(Routers)]
  BY <1>1
<1>4. [r \in Routers |-> 0] \in [Routers -> Nat] /\ Ranks([r \in Routers |-> 0])
  BY <1>2 DEF Ranks
<1> QED BY <1>2, <1>3, <1>4 DEF Forest

\* Including a router that no other includes, and that is not above, keeps the
\* forest: what is above the new child moves up by the child's rank.
LEMMA ForestInclude ==
    ASSUME Forest, NEW r \in Routers, NEW child \in Routers,
           KeepsTree(r, child), IncludeRouter(r, child)
    PROVE  Forest'
<1>1. PICK rank \in [Routers -> Nat]: Ranks(rank)
  BY DEF Forest
<1>0. \A p, q \in Routers: \A i \in DOMAIN children[p], j \in DOMAIN children[q]:
        children[p][i] = children[q][j] => p = q /\ i = j
  BY DEF Forest
<1> DEFINE n == Len(children[r])
<1>2. /\ child \notin Included
      /\ r \notin Subtree(child)
      /\ children' = [children EXCEPT ![r] = Append(children[r], child)]
  BY DEF KeepsTree, IncludeRouter
<1>3. children[r] \in Seq(Routers) /\ n \in Nat /\ DOMAIN children[r] = 1..n
  BY DEF Forest
<1>4. /\ children' \in [Routers -> Seq(Routers)]
      /\ DOMAIN children'[r] = 1..n+1
      /\ children'[r][n+1] = child
      /\ \A i \in 1..n: children'[r][i] = children[r][i]
      /\ \A q \in Routers \ {r}: children'[q] = children[q]
  BY <1>2, <1>3 DEF Forest
<1> HIDE DEF n
<1>5. ASSUME NEW p \in Routers, NEW i \in DOMAIN children'[p]
      PROVE  \/ i \in DOMAIN children[p] /\ children'[p][i] = children[p][i] /\ (p = r => i # n+1)
             \/ p = r /\ i = n+1 /\ children'[p][i] = child
  <2>1. CASE p = r
    <3>1. i = n+1 \/ (i \in 1..n /\ i # n+1)
      BY <2>1, <1>3, <1>4
    <3> QED BY <2>1, <3>1, <1>3, <1>4
  <2>2. CASE p # r
    BY <2>2, <1>4
  <2> QED BY <2>1, <2>2
<1>6. \A p \in Routers: \A i \in DOMAIN children[p]: children[p][i] # child
  BY <1>2 DEF Included, Range
<1>7. ASSUME NEW p \in Routers, NEW q \in Routers,
             NEW i \in DOMAIN children'[p], NEW j \in DOMAIN children'[q],
             children'[p][i] = children'[q][j]
      PROVE  p = q /\ i = j
  <2>1. CASE i \in DOMAIN children[p] /\ children'[p][i] = children[p][i]
    <3>1. children[p][i] # child
      BY <2>1, <1>6
    <3>2. j \in DOMAIN children[q] /\ children'[q][j] = children[q][j]
      BY <3>1, <2>1, <1>5, <1>7
    <3>3. children[p][i] = children[q][j]
      BY <2>1, <3>2, <1>7
    <3> QED BY <2>1, <3>2, <3>3, <1>0
  <2>2. CASE p = r /\ i = n+1 /\ children'[p][i] = child
    BY <2>2, <1>5, <1>6, <1>7
  <2> QED BY <2>1, <2>2, <1>5
<1> DEFINE up(x) == IF r \in Subtree(x) THEN rank[x] + rank[child] + 1 ELSE rank[x]
           rank2 == [x \in Routers |-> up(x)]
<1>8. rank2 \in [Routers -> Nat]
  OBVIOUS
<1>9. ASSUME NEW p \in Routers, NEW i \in DOMAIN children'[p]
      PROVE  rank2[children'[p][i]] < rank2[p]
  <2>1. CASE i \in DOMAIN children[p] /\ children'[p][i] = children[p][i]
    <3> DEFINE c == children[p][i]
    <3>1. c \in Routers /\ rank[c] < rank[p] /\ c \in Subtree(p)
      BY <1>1, <2>1, SubtreeClosed DEF Forest, Ranks, Closed
    <3>2. r \in Subtree(c) => r \in Subtree(p)
      BY <3>1, SubtreeBelow
    <3> HIDE DEF c
    <3>3. up(c) < up(p)
      BY <3>1, <3>2
    <3> QED BY <2>1, <3>1, <3>3 DEF c
  <2>2. CASE p = r /\ children'[p][i] = child
    <3>1. r \in Subtree(r)
      BY SubtreeClosed
    <3>2. up(child) < up(r)
      BY <3>1, <1>2
    <3> QED BY <2>2, <3>2
  <2> QED BY <2>1, <2>2, <1>5
<1>10. \E rk \in [Routers -> Nat]: \A p \in Routers: \A i \in DOMAIN children'[p]: rk[children'[p][i]] < rk[p]
  <2> HIDE DEF rank2
  <2> QED BY <1>8, <1>9
<1> QED BY <1>4, <1>7, <1>10 DEF Forest, Ranks

-----------------------------------------------------------------------------
(* What walk() lists.  The children of a router rank below it, so the      *)
(* recursion is one over ranks.                                            *)

\* f[r] is what r walks, for the routers of S.
Walks(f, S) ==
    \A r \in S: f[r] = <<r>> \o FlattenSeq([i \in DOMAIN children[r] |-> f[children[r][i]]])

\* The routers of a rank below n.
Lower(rank, n) == {r \in Routers: rank[r] < n}

\* A function on 1..n is a sequence of length n.
LEMMA FunctionIsSeq ==
    ASSUME NEW S, NEW n \in Nat, NEW s \in [1..n -> S]
    PROVE  s \in Seq(S) /\ Len(s) = n
BY SeqDef

\* The children of a router rank below it.
LEMMA ChildrenLower ==
    ASSUME Forest, NEW rank \in [Routers -> Nat], Ranks(rank),
           NEW n \in Nat, NEW r \in Lower(rank, n+1)
    PROVE  /\ r \in Routers
           /\ DOMAIN children[r] = 1..Len(children[r])
           /\ Len(children[r]) \in Nat
           /\ \A i \in DOMAIN children[r]: children[r][i] \in Lower(rank, n)
<1>1. r \in Routers /\ rank[r] < n+1 /\ children[r] \in Seq(Routers)
  BY DEF Lower, Forest
<1>2. \A i \in DOMAIN children[r]: children[r][i] \in Routers /\ rank[children[r][i]] < rank[r]
  BY <1>1 DEF Ranks
<1>3. \A i \in DOMAIN children[r]: rank[children[r][i]] < n
  BY <1>1, <1>2
<1> QED BY <1>1, <1>2, <1>3 DEF Lower

\* What the routers of a rank walk follows from what those below walk.
LEMMA WalkOneMore ==
    ASSUME Forest, NEW rank \in [Routers -> Nat], Ranks(rank), NEW n \in Nat,
           NEW f \in [Lower(rank, n) -> Seq(Routers)], Walks(f, Lower(rank, n))
    PROVE  \E g \in [Lower(rank, n+1) -> Seq(Routers)]: Walks(g, Lower(rank, n+1))
<1> DEFINE Below(h, r) == [i \in DOMAIN children[r] |-> h[children[r][i]]]
           g == [r \in Lower(rank, n+1) |-> <<r>> \o FlattenSeq(Below(f, r))]
<1>1. ASSUME NEW r \in Lower(rank, n+1)
      PROVE  <<r>> \o FlattenSeq(Below(f, r)) \in Seq(Routers)
  <2> DEFINE N == Len(children[r])
  <2>0. N \in Nat /\ DOMAIN children[r] = 1..N
    BY ChildrenLower
  <2>4. \A i \in DOMAIN children[r]: f[children[r][i]] \in Seq(Routers)
    BY ChildrenLower
  <2> HIDE DEF N
  <2>1. Below(f, r) \in Seq(Seq(Routers))
    <3>1. Below(f, r) \in [1..N -> Seq(Routers)]
      BY <2>0, <2>4
    <3> HIDE DEF Below
    <3> QED BY <2>0, <3>1, FunctionIsSeq
  <2>2. FlattenSeq(Below(f, r)) \in Seq(Routers)
    <3> HIDE DEF Below
    <3> QED BY <2>1, Flatten
  <2>3. <<r>> \in Seq(Routers)
    BY ChildrenLower
  <2> HIDE DEF Below
  <2> QED BY <2>2, <2>3
<1>2. g \in [Lower(rank, n+1) -> Seq(Routers)]
  <2> HIDE DEF Below
  <2> QED BY <1>1
<1>3. \A r \in Lower(rank, n): r \in Lower(rank, n+1) /\ g[r] = f[r]
  <2>1. \A r \in Lower(rank, n): r \in Lower(rank, n+1)
    BY DEF Lower
  <2> QED BY <2>1 DEF Walks
<1>4. ASSUME NEW r \in Lower(rank, n+1) PROVE Below(g, r) = Below(f, r)
  <2>1. \A i \in DOMAIN children[r]: g[children[r][i]] = f[children[r][i]]
    BY <1>3, ChildrenLower
  <2> HIDE DEF g
  <2> QED BY <2>1
<1>5. Walks(g, Lower(rank, n+1))
  <2> SUFFICES ASSUME NEW r \in Lower(rank, n+1) PROVE g[r] = <<r>> \o FlattenSeq(Below(g, r))
    BY DEF Walks
  <2>1. g[r] = <<r>> \o FlattenSeq(Below(f, r))
    <3> HIDE DEF Below
    <3> QED OBVIOUS
  <2> HIDE DEF g, Below
  <2> QED BY <2>1, <1>4
<1> QED BY <1>2, <1>5

\* The recursion of walk() has a solution for the routers up to every rank.
LEMMA WalkUpTo ==
    ASSUME Forest, NEW rank \in [Routers -> Nat], Ranks(rank)
    PROVE  \A n \in Nat: \E f \in [Lower(rank, n) -> Seq(Routers)]: Walks(f, Lower(rank, n))
<1> DEFINE D == {n \in Nat: \E f \in [Lower(rank, n) -> Seq(Routers)]: Walks(f, Lower(rank, n))}
<1>1. 0 \in D
  <2>1. Lower(rank, 0) = {}
    BY DEF Lower
  <2>2. \E f \in [{} -> Seq(Routers)]: TRUE
    <3>1. [x \in {} |-> <<>>] \in [{} -> Seq(Routers)]
      OBVIOUS
    <3> QED BY <3>1
  <2> QED BY <2>1, <2>2 DEF Walks
<1>2. ASSUME NEW n \in Nat, n \in D PROVE n + 1 \in D
  <2>1. PICK f \in [Lower(rank, n) -> Seq(Routers)]: Walks(f, Lower(rank, n))
    BY <1>2
  <2>2. \E g \in [Lower(rank, n+1) -> Seq(Routers)]: Walks(g, Lower(rank, n+1))
    BY <2>1, WalkOneMore
  <2> QED BY <2>2
<1>3. Nat \subseteq D
  <2> HIDE DEF D
  <2> QED BY <1>1, <1>2, Inductive
<1> QED BY <1>3

\* There is one way to walk.
LEMMA WalkUnique ==
    ASSUME Forest, NEW rank \in [Routers -> Nat], Ranks(rank),
           NEW m \in Nat, NEW f, Walks(f, Lower(rank, m)),
           NEW n \in Nat, NEW g, Walks(g, Lower(rank, n))
    PROVE  \A r \in Lower(rank, m) \cap Lower(rank, n): f[r] = g[r]
<1> DEFINE D == {k \in Nat: \A r \in Lower(rank, m) \cap Lower(rank, n):
                                rank[r] < k => f[r] = g[r]}
<1>1. 0 \in D
  BY DEF Lower
<1>2. ASSUME NEW k \in Nat, k \in D PROVE k + 1 \in D
  <2> SUFFICES ASSUME NEW r \in Lower(rank, m) \cap Lower(rank, n), rank[r] < k + 1
               PROVE  f[r] = g[r]
    OBVIOUS
  <2>1. r \in Routers /\ rank[r] \in Nat /\ rank[r] < m /\ rank[r] < n
    BY DEF Lower
  <2>2. ASSUME NEW i \in DOMAIN children[r] PROVE f[children[r][i]] = g[children[r][i]]
    <3>1. children[r][i] \in Routers /\ rank[children[r][i]] < rank[r]
      BY <2>1 DEF Ranks, Forest
    <3>2. rank[children[r][i]] < k /\ rank[children[r][i]] < m /\ rank[children[r][i]] < n
      BY <2>1, <3>1
    <3> QED BY <3>1, <3>2, <1>2 DEF Lower
  <2>3. [i \in DOMAIN children[r] |-> f[children[r][i]]] = [i \in DOMAIN children[r] |-> g[children[r][i]]]
    BY <2>2
  <2> QED BY <2>3 DEF Walks
<1>3. Nat \subseteq D
  <2> HIDE DEF D
  <2> QED BY <1>1, <1>2, Inductive
<1>4. \A r \in Lower(rank, m) \cap Lower(rank, n): rank[r] + 1 \in Nat /\ rank[r] < rank[r] + 1
  BY DEF Lower
<1> QED BY <1>3, <1>4

\* The recursion of walk() defines what every router walks.
LEMMA WalkDefined ==
    ASSUME Forest
    PROVE  \E walk \in [Routers -> Seq(Routers)]: Walks(walk, Routers) /\ Walk = walk[Root]
<1>1. PICK rank \in [Routers -> Nat]: Ranks(rank)
  BY DEF Forest
<1> DEFINE Is(f, n) == f \in [Lower(rank, n) -> Seq(Routers)] /\ Walks(f, Lower(rank, n))
           upto(n) == CHOOSE f: Is(f, n)
           w == [r \in Routers |-> upto(rank[r] + 1)[r]]
<1>2. ASSUME NEW n \in Nat PROVE Is(upto(n), n)
  <2>1. \E f: Is(f, n)
    BY <1>1, WalkUpTo
  <2> HIDE DEF Is
  <2> QED BY <2>1
<1> HIDE DEF upto
<1>3. \A r \in Routers: rank[r] + 1 \in Nat /\ r \in Lower(rank, rank[r] + 1)
  BY DEF Lower
<1>4. w \in [Routers -> Seq(Routers)]
  BY <1>2, <1>3
<1>5. ASSUME NEW n \in Nat, NEW r \in Lower(rank, n) PROVE w[r] = upto(n)[r]
  <2>1. r \in Routers /\ rank[r] + 1 \in Nat /\ r \in Lower(rank, rank[r] + 1)
    BY <1>3 DEF Lower
  <2>2. Walks(upto(rank[r] + 1), Lower(rank, rank[r] + 1)) /\ Walks(upto(n), Lower(rank, n))
    BY <1>2, <2>1
  <2>3. upto(rank[r] + 1)[r] = upto(n)[r]
    BY <2>1, <2>2, <1>1, WalkUnique
  <2> QED BY <2>1, <2>3
<1>6. ASSUME NEW r \in Routers
      PROVE  w[r] = <<r>> \o FlattenSeq([i \in DOMAIN children[r] |-> w[children[r][i]]])
  <2> DEFINE n == rank[r] + 1
  <2>1. n \in Nat /\ r \in Lower(rank, n) /\ r \in Lower(rank, n+1)
    BY <1>3 DEF Lower
  <2> HIDE DEF n
  <2>2. \A i \in DOMAIN children[r]: children[r][i] \in Lower(rank, n)
    <3>1. \A i \in DOMAIN children[r]: children[r][i] \in Routers /\ rank[children[r][i]] < rank[r]
      BY <1>1 DEF Forest, Ranks
    <3> QED BY <3>1 DEF Lower, n
  <2>3. [i \in DOMAIN children[r] |-> w[children[r][i]]] = [i \in DOMAIN children[r] |-> upto(n)[children[r][i]]]
    <3> HIDE DEF w
    <3> QED BY <2>1, <2>2, <1>5
  <2>4. w[r] = upto(n)[r]
    BY <2>1, <1>5
  <2>5. upto(n)[r] = <<r>> \o FlattenSeq([i \in DOMAIN children[r] |-> upto(n)[children[r][i]]])
    BY <2>1, <1>2 DEF Walks
  <2> HIDE DEF w
  <2> QED BY <2>3, <2>4, <2>5
<1> HIDE DEF w
<1> DEFINE Def(f) == f = [r \in Routers |-> <<r>> \o FlattenSeq([i \in DOMAIN children[r] |-> f[children[r][i]]])]
<1>7. PICK f: Walk = f[Root] /\ f = CHOOSE g: Def(g)
  BY Zenon DEF Walk
<1>8. Def(w)
  BY <1>4, <1>6, Zenon
<1>9. Def(f)
  <2> HIDE DEF Def
  <2> QED BY <1>7, <1>8
<1>10. Walks(f, Routers) /\ Walks(w, Routers)
  BY <1>8, <1>9 DEF Walks
<1>11. f[Root] = w[Root]
  <2> DEFINE n == rank[Root] + 1
  <2>1. n \in Nat /\ Root \in Lower(rank, n) /\ Lower(rank, n) \subseteq Routers
    BY <1>3, RoutingAssumption DEF Lower
  <2>2. Walks(f, Lower(rank, n)) /\ Walks(w, Lower(rank, n))
    BY <2>1, <1>10 DEF Walks
  <2> HIDE DEF n
  <2> QED BY <2>1, <2>2, <1>1, WalkUnique
<1> QED BY <1>4, <1>7, <1>10, <1>11

\* x comes before y, depth first: y is below x, or x is below an earlier child.
Precedes(x, y) ==
    \/ y \in Subtree(x)
    \/ \E r \in Routers: \E k, l \in DOMAIN children[r]:
        /\ k < l
        /\ x \in Subtree(children[r][k])
        /\ y \in Subtree(children[r][l])

\* w lists the tree of r once, depth first.
Preorder(w, r) ==
    /\ Range(w) = Subtree(r)
    /\ IsInjective(w)
    /\ \A i, j \in DOMAIN w: i < j => Precedes(w[i], w[j])

\* The list w begins with r; pos[i] says which child's list, and where in it,
\* the i-th of the other n comes from.
Assembled(w, r, kid, n, pos) ==
    /\ DOMAIN w = 1..n+1
    /\ w[1] = r
    /\ \A i \in 1..n: LET k == pos[i][1]
                          m == pos[i][2]
                      IN  /\ k \in DOMAIN children[r]
                          /\ m \in DOMAIN kid[k]
                          /\ w[i+1] = kid[k][m]
    /\ \A i, j \in 1..n: i < j => Earlier(pos[i], pos[j])
    /\ \A k \in DOMAIN children[r]: \A m \in DOMAIN kid[k]:
          \E i \in 1..n: pos[i] = <<k, m>>

\* What the children of r walk.
Kids(walk, r) == [k \in DOMAIN children[r] |-> walk[children[r][k]]]

\* What a router walks is assembled of what its children walk.
LEMMA WalkPlaces ==
    ASSUME Forest, NEW walk \in [Routers -> Seq(Routers)], Walks(walk, Routers),
           NEW r \in Routers
    PROVE  \E n \in Nat: \E pos \in [1..n -> Nat \X Nat]:
              Assembled(walk[r], r, Kids(walk, r), n, pos)
<1> DEFINE N == Len(children[r])
           kids == Kids(walk, r)
           tail == FlattenSeq(kids)
<1>1. /\ N \in Nat
      /\ DOMAIN children[r] = 1..N
      /\ \A i \in 1..N: children[r][i] \in Routers /\ walk[children[r][i]] \in Seq(Routers)
  BY DEF Forest
<1>2. kids \in [1..N -> Seq(Routers)]
  <2> HIDE DEF N
  <2> QED BY <1>1 DEF Kids
<1>3. \A i \in 1..N: kids[i] = walk[children[r][i]]
  BY <1>1 DEF Kids
<1> HIDE DEF N
<1>4. walk[r] = <<r>> \o tail
  BY DEF Walks, Kids
<1> HIDE DEF kids
<1>5. kids \in Seq(Seq(Routers)) /\ Len(kids) = N
  BY <1>1, <1>2, FunctionIsSeq
<1>6. tail \in Seq(Routers) /\ \E at: Lists(tail, at, kids, N)
  BY <1>5, Flatten
<1> HIDE DEF tail
<1> DEFINE n == Len(tail)
<1>7. PICK at: Lists(tail, at, kids, N)
  BY <1>6
<1>8. n \in Nat /\ DOMAIN tail = 1..n
  BY <1>6
<1>9. /\ DOMAIN walk[r] = 1..n+1
      /\ walk[r][1] = r
      /\ \A i \in 1..n: walk[r][i+1] = tail[i]
  BY <1>4, <1>6, <1>8
<1> HIDE DEF n
<1>10. \A p: p \in Places(kids, N) <=> \E k \in 1..N: \E m \in DOMAIN kids[k]: p = <<k, m>>
  BY DEF Places
<1>11. \A k \in 1..N: DOMAIN kids[k] \subseteq Nat
  <2> TAKE k \in 1..N
  <2>1. kids[k] \in Seq(Routers)
    BY <1>2
  <2> QED BY <2>1
<1>12. ASSUME NEW i \in 1..n
       PROVE  /\ at[i] \in Nat \X Nat
              /\ at[i][1] \in DOMAIN children[r]
              /\ at[i][2] \in DOMAIN kids[at[i][1]]
              /\ walk[r][i+1] = kids[at[i][1]][at[i][2]]
  <2>1. at[i] \in Places(kids, N) /\ tail[i] = kids[at[i][1]][at[i][2]]
    BY <1>7, <1>8 DEF Lists
  <2>2. PICK k \in 1..N: \E m \in DOMAIN kids[k]: at[i] = <<k, m>>
    BY <2>1, <1>10
  <2>3. PICK m \in DOMAIN kids[k]: at[i] = <<k, m>>
    BY <2>2
  <2>4. k \in Nat /\ m \in Nat /\ at[i][1] = k /\ at[i][2] = m
    BY <2>3, <1>11
  <2> QED BY <2>1, <2>3, <2>4, <1>1, <1>3, <1>9
<1>13. DOMAIN at = 1..n /\ at = [i \in 1..n |-> at[i]]
  BY <1>7, <1>8 DEF Lists
<1>14. at \in [1..n -> Nat \X Nat]
  BY <1>12, <1>13
<1>15. \A i, j \in 1..n: i < j => Earlier(at[i], at[j])
  BY <1>7, <1>8 DEF Lists
<1>16. ASSUME NEW k \in DOMAIN children[r], NEW m \in DOMAIN kids[k]
       PROVE  \E i \in 1..n: at[i] = <<k, m>>
  <2>1. <<k, m>> \in Places(kids, N)
    BY <1>1, <1>3, <1>10
  <2> QED BY <2>1, <1>7, <1>8 DEF Lists
<1>17. Assembled(walk[r], r, kids, n, at)
  BY <1>9, <1>12, <1>15, <1>16 DEF Assembled
<1> QED BY <1>8, <1>14, <1>17 DEF kids

\* If each child lists its tree depth first, so does the router.
LEMMA WalkStep ==
    ASSUME Forest, NEW walk \in [Routers -> Seq(Routers)], Walks(walk, Routers),
           NEW r \in Routers,
           \A k \in DOMAIN children[r]: Preorder(walk[children[r][k]], children[r][k])
    PROVE  Preorder(walk[r], r)
<1> DEFINE w == walk[r]
           kid == Kids(walk, r)
           below(k) == Subtree(children[r][k])
<1>0. PICK n \in Nat: \E pos \in [1..n -> Nat \X Nat]: Assembled(w, r, kid, n, pos)
  BY WalkPlaces
<1>1. PICK pos \in [1..n -> Nat \X Nat]: Assembled(w, r, kid, n, pos)
  BY <1>0
<1> USE DEF Assembled
<1>2. \A k \in DOMAIN children[r]: Preorder(kid[k], children[r][k])
  BY DEF Kids
<1>3. \A x: x \in Subtree(r) <=> x = r \/ \E k \in DOMAIN children[r]: x \in below(k)
  BY SubtreeUnfolds
<1>4. \A k \in DOMAIN children[r]: \A x \in below(k):
        x # r /\ \A l \in DOMAIN children[r]: x \in below(l) => k = l
  BY ChildrenApart
<1> HIDE DEF w, kid, below
<1>5. \A k \in DOMAIN children[r]: \A m \in DOMAIN kid[k]: kid[k][m] \in below(k)
  BY <1>2 DEF Preorder, Range, below
<1>6. ASSUME NEW i \in 1..n
      PROVE  /\ pos[i][1] \in DOMAIN children[r]
             /\ pos[i][2] \in DOMAIN kid[pos[i][1]]
             /\ w[i+1] = kid[pos[i][1]][pos[i][2]]
             /\ w[i+1] \in below(pos[i][1])
  BY <1>1, <1>5
<1>7. ASSUME NEW i \in DOMAIN w PROVE i = 1 \/ (i - 1 \in 1..n /\ (i - 1) + 1 = i)
  BY <1>1
<1>8. \A x: x \in Range(w) <=> x \in Subtree(r)
  <2>1. ASSUME NEW i \in DOMAIN w PROVE w[i] \in Subtree(r)
    <3>1. CASE i = 1
      BY <3>1, <1>1, <1>3
    <3>2. CASE i - 1 \in 1..n /\ (i - 1) + 1 = i
      <4>1. w[i] \in below(pos[i-1][1]) /\ pos[i-1][1] \in DOMAIN children[r]
        BY <3>2, <1>6
      <4> QED BY <4>1, <1>3
    <3> QED BY <3>1, <3>2, <1>7
  <2>2. r \in Range(w)
    BY <1>1 DEF Range
  <2>3. ASSUME NEW k \in DOMAIN children[r], NEW x \in below(k) PROVE x \in Range(w)
    <3>1. PICK m \in DOMAIN kid[k]: x = kid[k][m]
      BY <1>2 DEF Preorder, Range, below
    <3>2. PICK i \in 1..n: pos[i] = <<k, m>>
      BY <1>1
    <3>3. w[i+1] = x /\ i+1 \in DOMAIN w
      BY <3>1, <3>2, <1>1, <1>6
    <3> QED BY <3>3 DEF Range
  <2> QED BY <2>1, <2>2, <2>3, <1>3 DEF Range
<1>9. ASSUME NEW i \in 1..n, NEW j \in 1..n, i < j
      PROVE  w[i+1] # w[j+1] /\ Precedes(w[i+1], w[j+1])
  <2>1. Earlier(pos[i], pos[j]) /\ pos[i] \in Nat \X Nat /\ pos[j] \in Nat \X Nat
    BY <1>9, <1>1
  <2>2. CASE pos[i][1] < pos[j][1]
    <3>1. w[i+1] # w[j+1]
      <4>1. pos[i][1] \in DOMAIN children[r] /\ w[i+1] \in below(pos[i][1])
        BY <1>6
      <4>2. pos[j][1] \in DOMAIN children[r] /\ w[j+1] \in below(pos[j][1])
        BY <1>6
      <4>3. pos[i][1] # pos[j][1]
        BY <2>1, <2>2
      <4> QED BY <4>1, <4>2, <4>3, <1>4
    <3>2. Precedes(w[i+1], w[j+1])
      BY <2>2, <1>6 DEF Precedes, below
    <3> QED BY <3>1, <3>2
  <2>3. CASE pos[i][1] = pos[j][1] /\ pos[i][2] < pos[j][2]
    <3> DEFINE k == pos[i][1]
    <3>1. k \in DOMAIN children[r] /\ Preorder(kid[k], children[r][k])
      BY <1>2, <1>6
    <3>2. /\ pos[i][2] \in DOMAIN kid[k] /\ w[i+1] = kid[k][pos[i][2]]
          /\ pos[j][2] \in DOMAIN kid[k] /\ w[j+1] = kid[k][pos[j][2]]
      BY <1>6, <2>3
    <3>3. pos[i][2] # pos[j][2]
      BY <2>1, <2>3
    <3> HIDE DEF k
    <3>4. w[i+1] # w[j+1]
      BY <3>1, <3>2, <3>3 DEF Preorder, IsInjective
    <3>5. Precedes(w[i+1], w[j+1])
      BY <3>1, <3>2, <2>3 DEF Preorder
    <3> QED BY <3>4, <3>5
  <2> QED BY <2>1, <2>2, <2>3 DEF Earlier
<1>10. ASSUME NEW i \in 1..n PROVE w[i+1] # r /\ Precedes(r, w[i+1])
  <2>1. w[i+1] # r /\ w[i+1] \in Subtree(r)
    <3>1. pos[i][1] \in DOMAIN children[r] /\ w[i+1] \in below(pos[i][1])
      BY <1>6
    <3> QED BY <3>1, <1>3, <1>4
  <2> QED BY <2>1 DEF Precedes
<1>11. ASSUME NEW i \in DOMAIN w, NEW j \in DOMAIN w, i < j
       PROVE  w[i] # w[j] /\ Precedes(w[i], w[j])
  <2>1. j - 1 \in 1..n /\ (j - 1) + 1 = j
    BY <1>11, <1>1
  <2>2. CASE i = 1
    BY <2>1, <2>2, <1>1, <1>10
  <2>3. CASE i # 1
    <3>1. i - 1 \in 1..n /\ (i - 1) + 1 = i /\ i - 1 < j - 1
      <4>1. i \in 1..n+1 /\ j \in 1..n+1
        BY <1>1
      <4>2. \A a, b \in 1..n+1: a # 1 /\ a < b => a - 1 \in 1..n /\ (a - 1) + 1 = a /\ a - 1 < b - 1
        OBVIOUS
      <4> QED BY <4>1, <4>2, <2>3, <1>11, Zenon
    <3> QED BY <2>1, <3>1, <1>9
  <2> QED BY <2>2, <2>3
<1>12. \A i, j \in DOMAIN w: w[i] = w[j] => i = j
  <2> SUFFICES ASSUME NEW i \in DOMAIN w, NEW j \in DOMAIN w, w[i] = w[j] PROVE i = j
    OBVIOUS
  <2>1. i < j \/ j < i \/ i = j
    BY <1>1
  <2> QED BY <2>1, <1>11
<1> QED BY <1>8, <1>11, <1>12 DEF Preorder, IsInjective, w

\* "Own handlers first, then children in include order" (dispatch/router.py:51):
\* of a forest, walk() lists the tree below the root once, depth first.
LEMMA WalkOfForest == Forest => WalkIsPreorder
<1> SUFFICES ASSUME Forest PROVE WalkIsPreorder
  OBVIOUS
<1>1. PICK rank \in [Routers -> Nat]: Ranks(rank)
  BY DEF Forest
<1>2. PICK walk \in [Routers -> Seq(Routers)]: Walks(walk, Routers) /\ Walk = walk[Root]
  BY WalkDefined
<1> DEFINE D == {n \in Nat: \A r \in Routers: rank[r] < n => Preorder(walk[r], r)}
<1>3. 0 \in D
  OBVIOUS
<1>4. ASSUME NEW n \in Nat, n \in D PROVE n + 1 \in D
  <2> SUFFICES ASSUME NEW r \in Routers, rank[r] < n + 1 PROVE Preorder(walk[r], r)
    OBVIOUS
  <2>1. ASSUME NEW k \in DOMAIN children[r] PROVE Preorder(walk[children[r][k]], children[r][k])
    <3>1. children[r][k] \in Routers /\ rank[children[r][k]] < rank[r]
      BY <1>1 DEF Forest, Ranks
    <3>2. rank[children[r][k]] < n
      BY <3>1
    <3> QED BY <3>1, <3>2, <1>4
  <2> QED BY <2>1, <1>2, WalkStep
<1>5. Nat \subseteq D
  <2> HIDE DEF D
  <2> QED BY <1>3, <1>4, Inductive
<1>6. Root \in Routers /\ rank[Root] + 1 \in D /\ rank[Root] < rank[Root] + 1
  BY <1>5, RoutingAssumption
<1>7. Preorder(Walk, Root) /\ Walk \in Seq(Routers)
  BY <1>2, <1>6
<1> QED BY <1>7 DEF Preorder, Precedes, WalkIsPreorder

-----------------------------------------------------------------------------
(* The invariant.  NoneOvertaken, TriedOnce and OwnExtras speak of where   *)
(* the loops are; none is inductive without what is gone past being where  *)
(* the loops came by, without every handler being at one place only, and   *)
(* without the routers a dispatch lists being different.                   *)

\* The local variables of a call of feed.
Locals ==
    [phase: Phases, event: Events \cup {None}, routers: Seq(Routers), r: Nat, h: Nat, f: Nat,
     extra: SUBSET Handlers, outcome: Outcomes \cup {None}]

\* The handlers of each router.
HandlerLists == [Routers -> Seq(Handlers)]

\* The loops come by (i, j) before (r, h).
Sooner(i, j, r, h) == Earlier(<<i, j>>, <<r, h>>)

\* The j-th handler of the i-th router the walk listed, H being the handlers.
There(H, l, i, j) == H[l.routers[i]][j]

\* The loops are at a handler, and at which.
AtPlace(H, l) == l.r \in DOMAIN l.routers /\ l.h \in DOMAIN H[l.routers[l.r]]
Here(H, l) == There(H, l, l.r, l.h)

\* A call of feed as its local variables describe it.
LocalsOK(H, l) ==
    /\ l \in Locals
    /\ l.phase = "outside" <=> l.event = None
    /\ l.phase \in {"filtering", "handling"} => AtPlace(H, l)
    /\ l.phase = "filtering" => l.f \in DOMAIN Filters[Here(H, l)]
    /\ l.phase # "outside" => l.outcome = None

\* The dispatch is at a handler.  Of the handlers b that it found when it
\* began, it went past those at the places the loops came by, which are all
\* that is in d.  The filters before the current one let the event pass, and
\* only this handler's filters added data.
Underway(H, l, b, d) ==
    /\ IsInjective(l.routers)
    /\ \A x \in b: \E i \in DOMAIN l.routers: \E j \in DOMAIN H[l.routers[i]]:
          x = There(H, l, i, j)
    /\ \A x \in d: \E i \in DOMAIN l.routers: \E j \in DOMAIN H[l.routers[i]]:
          Sooner(i, j, l.r, l.h) /\ x = There(H, l, i, j)
    /\ \A i \in DOMAIN l.routers: \A j \in DOMAIN H[l.routers[i]]:
          Sooner(i, j, l.r, l.h) /\ There(H, l, i, j) \in b => There(H, l, i, j) \in d
    /\ l.extra \subseteq {Here(H, l)}
    /\ \A k \in DOMAIN Filters[Here(H, l)]:
          l.phase = "handling" \/ k < l.f
            => Filters[Here(H, l)][k][l.event] \in {"passes", "anything"}

\* A call of feed together with its history.
DispatchOK(H, l, b, d) ==
    /\ l.phase = "entering" => b = {} /\ d = {}
    /\ l.phase \in {"filtering", "handling"} => Underway(H, l, b, d)
    /\ l.outcome = "SKIPPED" => b \subseteq d

\* No handler is registered twice.
HandlersOnce(H) ==
    \A r, s \in Routers: \A i \in DOMAIN H[r], j \in DOMAIN H[s]:
        H[r][i] = H[s][j] => r = s /\ i = j

\* The inductive invariant.
RoutingInv ==
    /\ Forest
    /\ handlers \in HandlerLists
    /\ HandlersOnce(handlers)
    /\ feed \in [Tasks -> Locals]
    /\ \A t \in Tasks: LocalsOK(handlers, feed[t])
    /\ \A t \in Tasks: DispatchOK(handlers, feed[t], begun[t], tried[t])
    /\ settled \subseteq Events
    /\ begun \in [Tasks -> SUBSET Handlers]
    /\ tried \in [Tasks -> SUBSET Handlers]
    /\ ending \in [Tasks -> Endings \cup {None}]

\* The locals of a task outside feed.
LEMMA OutsideLocals ==
    ASSUME NEW outcome \in Outcomes \cup {None}
    PROVE  /\ Outside(outcome) \in Locals
           /\ Outside(outcome).phase = "outside"
           /\ Outside(outcome).event = None
           /\ Outside(outcome).outcome = outcome
<1>1. <<>> \in Seq(Routers) /\ {} \in SUBSET Handlers /\ 1 \in Nat /\ "outside" \in Phases
  BY DEF Phases
<1> QED BY <1>1 DEF Outside, Locals

\* A call that returned has nothing left to keep, except that SKIPPED means it
\* went past every handler it found.
LEMMA OutsideOK ==
    ASSUME NEW outcome \in Outcomes \cup {None}, NEW b, NEW d,
           outcome = "SKIPPED" => b \subseteq d
    PROVE  /\ LocalsOK(handlers, Outside(outcome))
           /\ DispatchOK(handlers, Outside(outcome), b, d)
BY OutsideLocals DEF LocalsOK, DispatchOK

\* Among places there is one that the loops come by first.
LEMMA FirstPlace ==
    ASSUME NEW A \in SUBSET (Nat \X Nat), A # {}
    PROVE  \E p \in A: \A q \in A: ~Earlier(q, p)
<1> DEFINE I == {p[1]: p \in A}
<1>1. PICK i \in I: \A k \in I: i <= k
  <2>1. I \in SUBSET Nat /\ I # {}
    OBVIOUS
  <2> HIDE DEF I
  <2> QED BY <2>1, LeastNat
<1> DEFINE J == {p[2]: p \in {q \in A: q[1] = i}}
<1>2. PICK j \in J: \A k \in J: j <= k
  <2>1. J \in SUBSET Nat /\ J # {}
    BY <1>1
  <2> HIDE DEF J
  <2> QED BY <2>1, LeastNat
<1>3. PICK p \in A: p[1] = i /\ p[2] = j
  BY <1>2
<1>4. ASSUME NEW q \in A, Earlier(q, p) PROVE FALSE
  <2>1. q[1] \in Nat /\ q[2] \in Nat /\ i \in Nat /\ j \in Nat /\ i <= q[1]
    BY <1>1, <1>3
  <2>2. q[1] = i /\ q[2] < j
    BY <2>1, <1>3, <1>4 DEF Earlier
  <2>3. j <= q[2]
    BY <2>2, <1>2
  <2> QED BY <2>1, <2>2, <2>3
<1> QED BY <1>4

\* Positions(l) by its members.
LEMMA PositionsAre ==
    \A l: \A p: p \in Positions(l) <=>
        \E i \in DOMAIN l.routers: \E j \in DOMAIN handlers[l.routers[i]]: p = <<i, j>>
BY DEF Positions

\* Where the loops go on to.
LEMMA GoesOn ==
    ASSUME handlers \in HandlerLists, NEW l \in Locals, NEW r \in Nat, NEW h \in Nat
    PROVE  \/ /\ GoOn(l, r, h) = Outside("SKIPPED")
              /\ \A i \in DOMAIN l.routers: \A j \in DOMAIN handlers[l.routers[i]]:
                   Sooner(i, j, r, h)
           \/ \E i \in DOMAIN l.routers: \E j \in DOMAIN handlers[l.routers[i]]:
                /\ GoOn(l, r, h) = Stop(l, <<i, j>>)
                /\ ~Sooner(i, j, r, h)
                /\ \A a \in DOMAIN l.routers: \A b \in DOMAIN handlers[l.routers[a]]:
                     Sooner(a, b, i, j) => Sooner(a, b, r, h)
<1> DEFINE ahead == Ahead(l, r, h)
<1>0. \A i \in DOMAIN l.routers: \A j \in DOMAIN handlers[l.routers[i]]:
        i \in Nat /\ j \in Nat
  <2>1. l.routers \in Seq(Routers)
    BY DEF Locals
  <2>2. \A i \in DOMAIN l.routers: i \in Nat /\ handlers[l.routers[i]] \in Seq(Handlers)
    BY <2>1 DEF HandlerLists
  <2> QED BY <2>2
<1>1. \A i \in DOMAIN l.routers: \A j \in DOMAIN handlers[l.routers[i]]:
        <<i, j>> \in ahead <=> ~Sooner(i, j, r, h)
  BY PositionsAre DEF Ahead, Earlier, Sooner
<1>2. \A p \in ahead: \E i \in DOMAIN l.routers: \E j \in DOMAIN handlers[l.routers[i]]: p = <<i, j>>
  BY PositionsAre DEF Ahead
<1>3. CASE ahead = {}
  <2>1. GoOn(l, r, h) = Outside("SKIPPED")
    BY <1>3 DEF GoOn
  <2> HIDE DEF ahead
  <2> QED BY <2>1, <1>1, <1>3
<1>4. CASE ahead # {}
  <2> DEFINE p == CHOOSE x \in ahead: \A q \in ahead: ~Earlier(q, x)
  <2>1. GoOn(l, r, h) = Stop(l, p)
    BY <1>4 DEF GoOn
  <2>2. \E x \in ahead: \A q \in ahead: ~Earlier(q, x)
    <3>1. ahead \in SUBSET (Nat \X Nat)
      <4> HIDE DEF ahead
      <4> QED BY <1>0, <1>2
    <3> HIDE DEF ahead
    <3> QED BY <3>1, <1>4, FirstPlace
  <2>3. p \in ahead /\ \A q \in ahead: ~Earlier(q, p)
    <3> HIDE DEF ahead
    <3> QED BY <2>2
  <2> HIDE DEF ahead, p
  <2>4. PICK i \in DOMAIN l.routers: \E j \in DOMAIN handlers[l.routers[i]]: p = <<i, j>>
    BY <2>3, <1>2
  <2>5. PICK j \in DOMAIN handlers[l.routers[i]]: p = <<i, j>>
    BY <2>4
  <2>6. ~Sooner(i, j, r, h)
    BY <2>3, <2>5, <1>1
  <2>7. ASSUME NEW a \in DOMAIN l.routers, NEW b \in DOMAIN handlers[l.routers[a]],
               Sooner(a, b, i, j)
        PROVE  Sooner(a, b, r, h)
    <3>1. Earlier(<<a, b>>, p)
      BY <2>5, <2>7 DEF Earlier, Sooner
    <3> QED BY <3>1, <2>3, <1>1
  <2> QED BY <2>1, <2>5, <2>6, <2>7
<1> QED BY <1>3, <1>4

\* What an assignment to five of the locals yields.
LEMMA RecordExcept ==
    ASSUME NEW P, NEW E, NEW R, NEW X, NEW O,
           NEW l \in [phase: P, event: E, routers: R, r: Nat, h: Nat, f: Nat, extra: X, outcome: O],
           NEW p \in P, NEW i \in Nat, NEW j \in Nat, NEW k \in Nat, NEW x \in X
    PROVE  LET m == [l EXCEPT !.r = i, !.h = j, !.f = k, !.extra = x, !.phase = p]
           IN  /\ m \in [phase: P, event: E, routers: R, r: Nat, h: Nat, f: Nat, extra: X, outcome: O]
               /\ m.routers = l.routers /\ m.event = l.event /\ m.outcome = l.outcome
               /\ m.r = i /\ m.h = j /\ m.f = k /\ m.extra = x /\ m.phase = p
OBVIOUS

\* The locals of a dispatch whose loops arrive at a handler.
LEMMA StopsAt ==
    ASSUME handlers \in HandlerLists, NEW l \in Locals,
           NEW i \in DOMAIN l.routers, NEW j \in DOMAIN handlers[l.routers[i]]
    PROVE  LET m == Stop(l, <<i, j>>) IN
           /\ m \in Locals
           /\ m.routers = l.routers /\ m.event = l.event /\ m.outcome = l.outcome
           /\ m.r = i /\ m.h = j /\ m.f = 1 /\ m.extra = {}
           /\ m.phase = IF Filters[handlers[l.routers[i]][j]] = <<>> THEN "handling" ELSE "filtering"
           /\ handlers[l.routers[i]][j] \in Handlers
<1> DEFINE x == handlers[l.routers[i]][j]
<1>1. l.routers \in Seq(Routers)
  BY DEF Locals
<1>2. l.routers[i] \in Routers /\ i \in Nat
  BY <1>1
<1>3. handlers[l.routers[i]] \in Seq(Handlers)
  BY <1>2 DEF HandlerLists
<1>4. x \in Handlers /\ j \in Nat
  BY <1>3
<1>5. At(l, <<i, j>>) = x
  BY DEF At
<1> HIDE DEF x
<1> DEFINE ph == IF Filters[x] = <<>> THEN "handling" ELSE "filtering"
<1>6. ph \in Phases
  BY DEF Phases
<1> HIDE DEF ph
<1>7. Stop(l, <<i, j>>) = [l EXCEPT !.r = i, !.h = j, !.f = 1, !.extra = {}, !.phase = ph]
  BY <1>5 DEF Stop, ph
<1>8. LET m == Stop(l, <<i, j>>) IN
           /\ m \in Locals
           /\ m.routers = l.routers /\ m.event = l.event /\ m.outcome = l.outcome
           /\ m.r = i /\ m.h = j /\ m.f = 1 /\ m.extra = {}
           /\ m.phase = ph
  <2>1. {} \in SUBSET Handlers /\ 1 \in Nat
    OBVIOUS
  <2>2. LET m == [l EXCEPT !.r = i, !.h = j, !.f = 1, !.extra = {}, !.phase = ph]
        IN  /\ m \in Locals
            /\ m.routers = l.routers /\ m.event = l.event /\ m.outcome = l.outcome
            /\ m.r = i /\ m.h = j /\ m.f = 1 /\ m.extra = {} /\ m.phase = ph
    BY <2>1, <1>2, <1>4, <1>6, RecordExcept, Zenon DEF Locals
  <2> QED BY <2>2, <1>7, Zenon
<1> QED BY <1>4, <1>8 DEF ph, x

\* The loops go on from (r, h): what was dispatched so far remains in order.
LEMMA GoOnOK ==
    ASSUME handlers \in HandlerLists, NEW l \in Locals, NEW r \in Nat, NEW h \in Nat,
           NEW b, NEW d, l.event # None, l.outcome = None,
           IsInjective(l.routers),
           \A x \in b: \E i \in DOMAIN l.routers: \E j \in DOMAIN handlers[l.routers[i]]:
              x = There(handlers, l, i, j),
           \A x \in d: \E i \in DOMAIN l.routers: \E j \in DOMAIN handlers[l.routers[i]]:
              Sooner(i, j, r, h) /\ x = There(handlers, l, i, j),
           \A i \in DOMAIN l.routers: \A j \in DOMAIN handlers[l.routers[i]]:
              Sooner(i, j, r, h) /\ There(handlers, l, i, j) \in b => There(handlers, l, i, j) \in d
    PROVE  LocalsOK(handlers, GoOn(l, r, h)) /\ DispatchOK(handlers, GoOn(l, r, h), b, d)
<1> DEFINE m == GoOn(l, r, h)
<1>1. ASSUME m = Outside("SKIPPED"),
             \A i \in DOMAIN l.routers: \A j \in DOMAIN handlers[l.routers[i]]:
                Sooner(i, j, r, h)
      PROVE  LocalsOK(handlers, m) /\ DispatchOK(handlers, m, b, d)
  <2>1. b \subseteq d
    BY <1>1
  <2> QED BY <1>1, <2>1, OutsideOK DEF Outcomes
<1>2. ASSUME NEW i \in DOMAIN l.routers, NEW j \in DOMAIN handlers[l.routers[i]],
             m = Stop(l, <<i, j>>),
             ~Sooner(i, j, r, h),
             \A a \in DOMAIN l.routers: \A c \in DOMAIN handlers[l.routers[a]]:
                     Sooner(a, c, i, j) => Sooner(a, c, r, h)
      PROVE  LocalsOK(handlers, m) /\ DispatchOK(handlers, m, b, d)
  <2> DEFINE x == handlers[l.routers[i]][j]
  <2>1. /\ m \in Locals
        /\ m.routers = l.routers /\ m.event = l.event /\ m.outcome = l.outcome
        /\ m.r = i /\ m.h = j /\ m.f = 1 /\ m.extra = {}
        /\ m.phase = IF Filters[x] = <<>> THEN "handling" ELSE "filtering"
        /\ x \in Handlers
    <3> HIDE DEF m
    <3> QED BY <1>2, StopsAt
  <2> HIDE DEF m
  <2>2. \A a, c: There(handlers, m, a, c) = There(handlers, l, a, c)
    BY <2>1 DEF There
  <2>3. Here(handlers, m) = x /\ AtPlace(handlers, m)
    BY <2>1 DEF Here, There, AtPlace
  <2>4. Filters[x] \in Seq([Events -> Answers])
    BY <2>1, RoutingAssumption
  <2> HIDE DEF x
  <2>5. LocalsOK(handlers, m)
    <3>1. m.phase = "filtering" => m.f \in DOMAIN Filters[Here(handlers, m)]
      BY <2>1, <2>3, <2>4
    <3> QED BY <2>1, <2>3, <3>1 DEF LocalsOK
  \* What the loops passed from (r, h) to (i, j) is nothing.
  <2>6. \A y \in d: \E a \in DOMAIN m.routers: \E c \in DOMAIN handlers[m.routers[a]]:
          Sooner(a, c, m.r, m.h) /\ y = There(handlers, m, a, c)
    <3> SUFFICES ASSUME NEW y \in d
                 PROVE \E a \in DOMAIN l.routers: \E c \in DOMAIN handlers[l.routers[a]]:
                         Sooner(a, c, i, j) /\ y = There(handlers, l, a, c)
      BY <2>1, <2>2
    <3>1. PICK a \in DOMAIN l.routers: \E c \in DOMAIN handlers[l.routers[a]]:
            Sooner(a, c, r, h) /\ y = There(handlers, l, a, c)
      OBVIOUS
    <3>2. PICK c \in DOMAIN handlers[l.routers[a]]: Sooner(a, c, r, h) /\ y = There(handlers, l, a, c)
      BY <3>1
    <3>3. i \in Nat /\ j \in Nat /\ a \in Nat /\ c \in Nat
      <4>1. l.routers \in Seq(Routers)
        BY DEF Locals
      <4>2. \A k \in DOMAIN l.routers: k \in Nat /\ handlers[l.routers[k]] \in Seq(Handlers)
        BY <4>1 DEF HandlerLists
      <4> QED BY <4>2
    <3>4. Sooner(a, c, i, j)
      BY <3>2, <3>3, <1>2 DEF Sooner, Earlier
    <3> QED BY <3>2, <3>4
  <2>7. \A a \in DOMAIN m.routers: \A c \in DOMAIN handlers[m.routers[a]]:
          Sooner(a, c, m.r, m.h) /\ There(handlers, m, a, c) \in b => There(handlers, m, a, c) \in d
    BY <2>1, <2>2, <1>2
  <2>8. \A k \in DOMAIN Filters[Here(handlers, m)]:
          m.phase = "handling" \/ k < m.f
            => Filters[Here(handlers, m)][k][m.event] \in {"passes", "anything"}
    <3> SUFFICES ASSUME NEW k \in DOMAIN Filters[x], m.phase = "handling" \/ k < 1 PROVE FALSE
      BY <2>1, <2>3
    <3>1. k \in Nat /\ k >= 1 /\ Filters[x] # <<>>
      BY <2>4
    <3> QED BY <3>1, <2>1
  <2>9. Underway(handlers, m, b, d)
    <3>1. \A y \in b: \E a \in DOMAIN m.routers: \E c \in DOMAIN handlers[m.routers[a]]:
            y = There(handlers, m, a, c)
      BY <2>1, <2>2
    <3>2. m.extra \subseteq {Here(handlers, m)} /\ IsInjective(m.routers)
      BY <2>1
    <3> QED BY <3>1, <3>2, <2>6, <2>7, <2>8, Zenon DEF Underway
  <2>10. DispatchOK(handlers, m, b, d)
    BY <2>1, <2>9, RoutingAssumption DEF DispatchOK
  <2> QED BY <2>5, <2>10
<1> HIDE DEF m
<1>3. \/ /\ m = Outside("SKIPPED")
         /\ \A i \in DOMAIN l.routers: \A j \in DOMAIN handlers[l.routers[i]]:
              Sooner(i, j, r, h)
      \/ \E i \in DOMAIN l.routers: \E j \in DOMAIN handlers[l.routers[i]]:
           /\ m = Stop(l, <<i, j>>)
           /\ ~Sooner(i, j, r, h)
           /\ \A a \in DOMAIN l.routers: \A c \in DOMAIN handlers[l.routers[a]]:
                Sooner(a, c, i, j) => Sooner(a, c, r, h)
  BY GoesOn DEF m
<1>4. LocalsOK(handlers, m) /\ DispatchOK(handlers, m, b, d)
  <2>1. CASE \E i \in DOMAIN l.routers: \E j \in DOMAIN handlers[l.routers[i]]:
           /\ m = Stop(l, <<i, j>>)
           /\ ~Sooner(i, j, r, h)
           /\ \A a \in DOMAIN l.routers: \A c \in DOMAIN handlers[l.routers[a]]:
                Sooner(a, c, i, j) => Sooner(a, c, r, h)
    <3>1. PICK i \in DOMAIN l.routers: \E j \in DOMAIN handlers[l.routers[i]]:
           /\ m = Stop(l, <<i, j>>)
           /\ ~Sooner(i, j, r, h)
           /\ \A a \in DOMAIN l.routers: \A c \in DOMAIN handlers[l.routers[a]]:
                Sooner(a, c, i, j) => Sooner(a, c, r, h)
      BY <2>1
    <3> QED BY <3>1, <1>2
  <2> QED BY <1>1, <1>3, <2>1
<1> QED BY <1>4 DEF m

-----------------------------------------------------------------------------
(* Every step keeps it.                                                    *)

\* The invariant holds before anything is registered or fed.
LEMMA RoutingInvInit == RoutingInit => RoutingInv
<1> SUFFICES ASSUME RoutingInit PROVE RoutingInv
  OBVIOUS
<1> USE DEF RoutingInit
<1>1. handlers \in HandlerLists /\ \A r \in Routers: DOMAIN handlers[r] = {}
  BY DEF HandlerLists
<1>2. HandlersOnce(handlers)
  BY <1>1 DEF HandlersOnce
<1>3. \A t \in Tasks: feed[t] = Outside(None) /\ begun[t] = {} /\ tried[t] = {}
  OBVIOUS
<1>4. feed \in [Tasks -> Locals]
  BY OutsideLocals
<1>5. \A t \in Tasks: /\ LocalsOK(handlers, feed[t])
                      /\ DispatchOK(handlers, feed[t], begun[t], tried[t])
  BY <1>3, OutsideOK
<1> HIDE DEF RoutingInit
<1>6. /\ settled = {} /\ begun \in [Tasks -> SUBSET Handlers] /\ tried \in [Tasks -> SUBSET Handlers]
      /\ ending \in [Tasks -> Endings \cup {None}]
  BY DEF RoutingInit
<1> QED BY <1>1, <1>2, <1>4, <1>5, <1>6, ForestInit DEF RoutingInv

\* Handlers are only ever added at the end of a router's list.
LEMMA OnAppends ==
    ASSUME handlers \in HandlerLists, HandlersOnce(handlers),
           NEW r \in Routers, NEW h \in Handlers, On(r, h)
    PROVE  /\ handlers' \in HandlerLists
           /\ HandlersOnce(handlers')
           /\ \A q \in Routers: \A j \in DOMAIN handlers[q]:
                j \in DOMAIN handlers'[q] /\ handlers'[q][j] = handlers[q][j]
           /\ \A q \in Routers: \A j \in DOMAIN handlers'[q]:
                \/ j \in DOMAIN handlers[q] /\ handlers'[q][j] = handlers[q][j]
                \/ \A p \in Routers: \A k \in DOMAIN handlers[p]:
                     handlers'[q][j] # handlers[p][k]
<1> DEFINE n == Len(handlers[r])
<1>1. h \notin Registered /\ handlers' = [handlers EXCEPT ![r] = Append(handlers[r], h)]
  BY DEF On
<1>2. handlers[r] \in Seq(Handlers) /\ n \in Nat /\ DOMAIN handlers[r] = 1..n
  BY DEF HandlerLists
<1>3. /\ handlers' \in HandlerLists
      /\ DOMAIN handlers'[r] = 1..n+1
      /\ handlers'[r][n+1] = h
      /\ \A i \in 1..n: handlers'[r][i] = handlers[r][i]
      /\ \A q \in Routers \ {r}: handlers'[q] = handlers[q]
  BY <1>1, <1>2 DEF HandlerLists
<1>4. \A p \in Routers: \A k \in DOMAIN handlers[p]: handlers[p][k] # h
  BY <1>1 DEF Registered, Range
<1> HIDE DEF n
<1>5. ASSUME NEW q \in Routers, NEW j \in DOMAIN handlers'[q]
      PROVE  \/ j \in DOMAIN handlers[q] /\ handlers'[q][j] = handlers[q][j]
             \/ q = r /\ j = n+1 /\ handlers'[q][j] = h
  <2>1. CASE q = r
    <3>1. j = n+1 \/ j \in 1..n
      BY <2>1, <1>2, <1>3
    <3> QED BY <2>1, <3>1, <1>2, <1>3
  <2>2. CASE q # r
    BY <2>2, <1>3
  <2> QED BY <2>1, <2>2
<1>6. ASSUME NEW q \in Routers, NEW j \in DOMAIN handlers[q]
      PROVE  j \in DOMAIN handlers'[q] /\ handlers'[q][j] = handlers[q][j]
  <2>1. CASE q = r
    <3>1. j \in 1..n /\ j \in 1..n+1
      BY <2>1, <1>2
    <3> QED BY <2>1, <3>1, <1>3
  <2>2. CASE q # r
    BY <2>2, <1>3
  <2> QED BY <2>1, <2>2
<1>7. HandlersOnce(handlers')
  <2> SUFFICES ASSUME NEW p \in Routers, NEW q \in Routers,
                      NEW i \in DOMAIN handlers'[p], NEW j \in DOMAIN handlers'[q],
                      handlers'[p][i] = handlers'[q][j]
               PROVE  p = q /\ i = j
    BY DEF HandlersOnce
  <2>0. \A x, y \in Routers: \A a \in DOMAIN handlers[x], b \in DOMAIN handlers[y]:
            handlers[x][a] = handlers[y][b] => x = y /\ a = b
    BY DEF HandlersOnce
  <2>1. CASE i \in DOMAIN handlers[p] /\ handlers'[p][i] = handlers[p][i]
    <3>1. handlers[p][i] # h
      BY <2>1, <1>4
    <3>2. j \in DOMAIN handlers[q] /\ handlers'[q][j] = handlers[q][j]
      BY <3>1, <2>1, <1>5
    <3>3. handlers[p][i] = handlers[q][j]
      BY <2>1, <3>2
    <3> QED BY <2>1, <3>2, <3>3, <2>0
  <2>2. CASE p = r /\ i = n+1 /\ handlers'[p][i] = h
    BY <2>2, <1>4, <1>5
  <2> QED BY <2>1, <2>2, <1>5
<1> QED BY <1>3, <1>4, <1>5, <1>6, <1>7

\* What a dispatch is at, and what it was and goes past, stays where it is.
LEMMA OnKeeps ==
    ASSUME RoutingInv, NEW r \in Routers, NEW h \in Handlers, On(r, h), NEW t \in Tasks
    PROVE  LocalsOK(handlers', feed[t]) /\ DispatchOK(handlers', feed[t], begun[t], tried[t])
<1> DEFINE l == feed[t]
           b == begun[t]
           d == tried[t]
           H == handlers
           G == handlers'
<1>1. l \in Locals /\ LocalsOK(H, l) /\ DispatchOK(H, l, b, d)
  BY DEF RoutingInv
<1>2. /\ \A q \in Routers: \A j \in DOMAIN H[q]: j \in DOMAIN G[q] /\ G[q][j] = H[q][j]
      /\ \A q \in Routers: \A j \in DOMAIN G[q]:
           \/ j \in DOMAIN H[q] /\ G[q][j] = H[q][j]
           \/ \A p \in Routers: \A k \in DOMAIN H[p]: G[q][j] # H[p][k]
  BY OnAppends DEF RoutingInv
<1>3. \A i \in DOMAIN l.routers: l.routers[i] \in Routers
  <2>1. l.routers \in Seq(Routers)
    BY <1>1 DEF Locals
  <2> QED BY <2>1
<1> HIDE DEF l, b, d, H, G
<1>4. ASSUME NEW i \in DOMAIN l.routers, NEW j \in DOMAIN H[l.routers[i]]
      PROVE  j \in DOMAIN G[l.routers[i]] /\ There(G, l, i, j) = There(H, l, i, j)
  BY <1>2, <1>3 DEF There
<1>5. AtPlace(H, l) => AtPlace(G, l) /\ Here(G, l) = Here(H, l)
  BY <1>4 DEF AtPlace, Here
<1>6. LocalsOK(G, l)
  <2>1. l.phase = "filtering" => l.f \in DOMAIN Filters[Here(G, l)]
    BY <1>1, <1>5 DEF LocalsOK
  <2>2. l.phase \in {"filtering", "handling"} => AtPlace(G, l)
    BY <1>1, <1>5 DEF LocalsOK
  <2> QED BY <1>1, <2>1, <2>2 DEF LocalsOK
<1>7. ASSUME AtPlace(H, l), Underway(H, l, b, d) PROVE Underway(G, l, b, d)
  <2>1. \A x \in b: \E i \in DOMAIN l.routers: \E j \in DOMAIN G[l.routers[i]]:
          x = There(G, l, i, j)
    BY <1>4, <1>7 DEF Underway
  <2>2. \A x \in d: \E i \in DOMAIN l.routers: \E j \in DOMAIN G[l.routers[i]]:
          Sooner(i, j, l.r, l.h) /\ x = There(G, l, i, j)
    BY <1>4, <1>7 DEF Underway
  \* A new handler was not there when the dispatch began.
  <2>3. ASSUME NEW i \in DOMAIN l.routers, NEW j \in DOMAIN G[l.routers[i]],
               Sooner(i, j, l.r, l.h), There(G, l, i, j) \in b
        PROVE  There(G, l, i, j) \in d
    <3>1. PICK a \in DOMAIN l.routers: \E c \in DOMAIN H[l.routers[a]]:
             There(G, l, i, j) = There(H, l, a, c)
      BY <2>3, <1>7 DEF Underway
    <3>2. j \in DOMAIN H[l.routers[i]] /\ There(G, l, i, j) = There(H, l, i, j)
      BY <3>1, <1>2, <1>3 DEF There
    <3> QED BY <2>3, <3>2, <1>7 DEF Underway
  <2>4. l.extra \subseteq {Here(G, l)}
    BY <1>5, <1>7 DEF Underway
  <2>5. \A k \in DOMAIN Filters[Here(G, l)]:
          l.phase = "handling" \/ k < l.f
            => Filters[Here(G, l)][k][l.event] \in {"passes", "anything"}
    BY <1>5, <1>7 DEF Underway
  <2>6. IsInjective(l.routers)
    BY <1>7 DEF Underway
  <2> QED BY <2>1, <2>2, <2>3, <2>4, <2>5, <2>6 DEF Underway
<1>8. DispatchOK(G, l, b, d)
  BY <1>1, <1>7 DEF DispatchOK, LocalsOK
<1> QED BY <1>6, <1>8 DEF l, b, d, G

\* A step of one dispatch leaves the others as they are.
LEMMA StepOf ==
    ASSUME RoutingInv, UNCHANGED treeVars, NEW t \in Tasks, NEW m, NEW b, NEW d,
           m \in Locals, b \in SUBSET Handlers, d \in SUBSET Handlers,
           LocalsOK(handlers, m), DispatchOK(handlers, m, b, d),
           feed' = [feed EXCEPT ![t] = m],
           begun' = [begun EXCEPT ![t] = b],
           tried' = [tried EXCEPT ![t] = d],
           settled' \subseteq Events,
           ending' \in [Tasks -> Endings \cup {None}]
    PROVE  RoutingInv'
<1>1. children' = children /\ handlers' = handlers
  BY DEF treeVars
<1>2. Forest'
  <2>1. Forest
    BY DEF RoutingInv
  <2> QED BY <2>1, <1>1 DEF Forest, Ranks
<1>3. /\ feed' \in [Tasks -> Locals]
      /\ begun' \in [Tasks -> SUBSET Handlers]
      /\ tried' \in [Tasks -> SUBSET Handlers]
  BY DEF RoutingInv
<1>4. ASSUME NEW u \in Tasks
      PROVE  LocalsOK(handlers', feed'[u]) /\ DispatchOK(handlers', feed'[u], begun'[u], tried'[u])
  <2>1. CASE u = t
    <3>1. feed'[u] = m /\ begun'[u] = b /\ tried'[u] = d
      BY <2>1 DEF RoutingInv
    <3> QED BY <3>1, <1>1
  <2>2. CASE u # t
    <3>1. feed'[u] = feed[u] /\ begun'[u] = begun[u] /\ tried'[u] = tried[u]
      BY <2>2 DEF RoutingInv
    <3> QED BY <3>1, <1>1 DEF RoutingInv
  <2> QED BY <2>1, <2>2
<1>5. handlers' \in HandlerLists /\ HandlersOnce(handlers')
  BY <1>1 DEF RoutingInv
<1> QED BY <1>2, <1>3, <1>4, <1>5 DEF RoutingInv

\* What holds of a dispatch at a handler.
LEMMA AtAHandler ==
    ASSUME RoutingInv, NEW t \in Tasks, feed[t].phase \in {"filtering", "handling"}
    PROVE  LET l == feed[t] IN
           /\ l \in Locals /\ l.event # None /\ l.event \in Events /\ l.outcome = None
           /\ l.routers \in Seq(Routers)
           /\ AtPlace(handlers, l)
           /\ l.r \in Nat /\ l.h \in Nat
           /\ Underway(handlers, l, begun[t], tried[t])
           /\ Current(l) = Here(handlers, l)
           /\ Current(l) \in Handlers
           /\ Filters[Current(l)] \in Seq([Events -> Answers])
           /\ begun[t] \in SUBSET Handlers /\ tried[t] \in SUBSET Handlers
<1> DEFINE l == feed[t]
<1>1. l \in Locals /\ LocalsOK(handlers, l) /\ DispatchOK(handlers, l, begun[t], tried[t])
  BY DEF RoutingInv
<1>2. l.phase \in {"filtering", "handling"}
  OBVIOUS
<1>3. begun[t] \in SUBSET Handlers /\ tried[t] \in SUBSET Handlers
  BY DEF RoutingInv
<1>4. handlers \in HandlerLists
  BY DEF RoutingInv
<1> HIDE DEF l
<1>5. l.event \in Events \cup {None} /\ l.routers \in Seq(Routers) /\ l.r \in Nat /\ l.h \in Nat
  BY <1>1 DEF Locals
<1>6. l.phase # "outside"
  BY <1>2
<1>7. l.event # None /\ l.outcome = None /\ AtPlace(handlers, l)
  BY <1>1, <1>2, <1>6 DEF LocalsOK
<1>8. Underway(handlers, l, begun[t], tried[t])
  BY <1>1, <1>2 DEF DispatchOK
<1>9. Current(l) = Here(handlers, l)
  BY DEF Current, At, Here, There
<1>10. Here(handlers, l) \in Handlers
  <2>1. l.routers[l.r] \in Routers
    BY <1>5, <1>7 DEF AtPlace
  <2>2. handlers[l.routers[l.r]] \in Seq(Handlers)
    BY <2>1, <1>4 DEF HandlerLists
  <2> QED BY <2>2, <1>7 DEF AtPlace, Here, There
<1>11. Filters[Here(handlers, l)] \in Seq([Events -> Answers])
  BY <1>10, RoutingAssumption
<1> QED BY <1>1, <1>3, <1>5, <1>7, <1>8, <1>9, <1>10, <1>11 DEF l

\* feed is called: nothing is found and nothing gone past.
LEMMA BeginInv ==
    ASSUME RoutingInv, NEW t \in Tasks, NEW e \in Events, Begin(t, e)
    PROVE  RoutingInv'
<1> DEFINE m == [Outside(None) EXCEPT !.phase = "entering", !.event = e]
<1>1. Outside(None) \in Locals /\ Outside(None).outcome = None
  BY OutsideLocals
<1>2. m \in Locals /\ m.phase = "entering" /\ m.event = e /\ m.outcome = None
  BY <1>1 DEF Locals, Phases
<1>3. feed' = [feed EXCEPT ![t] = m]
  BY DEF Begin
<1> HIDE DEF m
<1>4. LocalsOK(handlers, m) /\ DispatchOK(handlers, m, {}, {})
  BY <1>2, RoutingAssumption DEF LocalsOK, DispatchOK
<1>5. UNCHANGED treeVars /\ settled' = settled
  BY DEF Begin
<1>6. /\ begun' = [begun EXCEPT ![t] = {}] /\ tried' = [tried EXCEPT ![t] = {}]
      /\ ending' \in [Tasks -> Endings \cup {None}]
  BY DEF Begin, ForgetDispatch, RoutingInv
<1>7. settled' \subseteq Events
  BY <1>5 DEF RoutingInv
<1> QED BY <1>2, <1>3, <1>4, <1>5, <1>6, <1>7, StepOf

\* feed is left by an exception.
LEMMA LeaveInv ==
    ASSUME RoutingInv, NEW t \in Tasks, Leave(t)
    PROVE  RoutingInv'
<1> DEFINE m == Outside(None)
<1>1. m \in Locals /\ LocalsOK(handlers, m) /\ DispatchOK(handlers, m, {}, {})
  BY OutsideLocals, OutsideOK
<1>2. feed' = [feed EXCEPT ![t] = m]
  BY DEF Leave
<1> HIDE DEF m
<1>3. UNCHANGED treeVars /\ settled' = settled
  BY DEF Leave
<1>4. /\ begun' = [begun EXCEPT ![t] = {}] /\ tried' = [tried EXCEPT ![t] = {}]
      /\ ending' \in [Tasks -> Endings \cup {None}]
  BY DEF Leave, ForgetDispatch, RoutingInv
<1>5. settled' \subseteq Events
  BY <1>3 DEF RoutingInv
<1> QED BY <1>1, <1>2, <1>3, <1>4, <1>5, StepOf

\* The event of a dispatch that ends is an event.
LEMMA Settles ==
    ASSUME RoutingInv, NEW t \in Tasks, NEW m, feed[t].phase # "outside", Become(t, m)
    PROVE  feed' = [feed EXCEPT ![t] = m] /\ settled' \subseteq Events
<1>1. LocalsOK(handlers, feed[t]) /\ feed[t] \in Locals /\ settled \subseteq Events
  BY DEF RoutingInv
<1>2. feed[t].event \in Events
  BY <1>1 DEF LocalsOK, Locals
<1> QED BY <1>1, <1>2 DEF Become

\* The walk is listed and the loops start: what is found is all there is.
LEMMA StartWalkInv ==
    ASSUME RoutingInv, NEW t \in Tasks, StartWalk(t)
    PROVE  RoutingInv'
<1> DEFINE l == [feed[t] EXCEPT !.routers = Walk]
           m == GoOn(l, 1, 1)
           b == Found(l)
<1>1. /\ feed[t].phase = "entering" /\ Become(t, m) /\ begun' = [begun EXCEPT ![t] = b]
      /\ UNCHANGED <<treeVars, tried, ending>>
  BY DEF StartWalk
<1>2. feed[t] \in Locals /\ LocalsOK(handlers, feed[t]) /\ DispatchOK(handlers, feed[t], begun[t], tried[t])
  BY DEF RoutingInv
<1>3. Walk \in Seq(Routers) /\ IsInjective(Walk)
  BY WalkOfForest DEF RoutingInv, WalkIsPreorder
<1>4. l \in Locals /\ l.routers = Walk /\ l.event = feed[t].event /\ l.outcome = feed[t].outcome
  BY <1>2, <1>3 DEF Locals
<1>5. l.event # None /\ l.outcome = None /\ tried[t] = {}
  BY <1>1, <1>2, <1>4 DEF LocalsOK, DispatchOK
<1>6. handlers \in HandlerLists /\ tried \in [Tasks -> SUBSET Handlers]
  BY DEF RoutingInv
<1> HIDE DEF l
<1>7. \A x \in b: \E i \in DOMAIN l.routers: \E j \in DOMAIN handlers[l.routers[i]]:
        x = There(handlers, l, i, j)
  <2> SUFFICES ASSUME NEW x \in b
               PROVE  \E i \in DOMAIN l.routers: \E j \in DOMAIN handlers[l.routers[i]]:
                        x = There(handlers, l, i, j)
    OBVIOUS
  <2>1. PICK p \in Positions(l): x = At(l, p)
    BY DEF Found
  <2>2. PICK i \in DOMAIN l.routers: \E j \in DOMAIN handlers[l.routers[i]]: p = <<i, j>>
    BY PositionsAre
  <2>3. PICK j \in DOMAIN handlers[l.routers[i]]: p = <<i, j>>
    BY <2>2
  <2> QED BY <2>1, <2>3 DEF At, There
<1>8. \A i \in DOMAIN l.routers: \A j \in DOMAIN handlers[l.routers[i]]:
        ~Sooner(i, j, 1, 1) /\ There(handlers, l, i, j) \in Handlers
  <2> SUFFICES ASSUME NEW i \in DOMAIN l.routers, NEW j \in DOMAIN handlers[l.routers[i]]
               PROVE  ~Sooner(i, j, 1, 1) /\ There(handlers, l, i, j) \in Handlers
    OBVIOUS
  <2>1. i \in Nat /\ i >= 1 /\ l.routers[i] \in Routers
    BY <1>3, <1>4
  <2>2. handlers[l.routers[i]] \in Seq(Handlers)
    BY <2>1, <1>6 DEF HandlerLists
  <2>3. j \in Nat /\ j >= 1 /\ handlers[l.routers[i]][j] \in Handlers
    BY <2>2
  <2> QED BY <2>1, <2>3 DEF Sooner, Earlier, There
<1>9. b \in SUBSET Handlers
  BY <1>7, <1>8
<1>10. LocalsOK(handlers, m) /\ DispatchOK(handlers, m, b, {})
  <2> HIDE DEF b
  <2>1. IsInjective(l.routers) /\ 1 \in Nat
    BY <1>3, <1>4
  <2> QED BY <1>4, <1>5, <1>6, <1>7, <1>8, <2>1, GoOnOK
<1> HIDE DEF m, b
<1>11. m \in Locals
  BY <1>10 DEF LocalsOK
<1>12. feed' = [feed EXCEPT ![t] = m] /\ settled' \subseteq Events
  BY <1>1, Settles
<1>13. tried' = [tried EXCEPT ![t] = {}] /\ ending' \in [Tasks -> Endings \cup {None}]
  BY <1>1, <1>5, <1>6 DEF RoutingInv
<1> QED BY <1>1, <1>9, <1>10, <1>11, <1>12, <1>13, StepOf

\* A dispatch goes past the handler it is at.
LEMMA PassesOn ==
    ASSUME RoutingInv, NEW t \in Tasks, feed[t].phase \in {"filtering", "handling"}
    PROVE  LET l == feed[t]
               m == GoOn(l, l.r, l.h + 1)
               d == tried[t] \cup {Current(l)}
           IN  LocalsOK(handlers, m) /\ DispatchOK(handlers, m, begun[t], d)
<1> DEFINE l == feed[t]
           b == begun[t]
           d == tried[t] \cup {Current(l)}
<1>1. /\ l \in Locals /\ l.event # None /\ l.outcome = None
      /\ l.routers \in Seq(Routers) /\ l.r \in Nat /\ l.h \in Nat
      /\ AtPlace(handlers, l)
      /\ Underway(handlers, l, b, tried[t])
      /\ Current(l) = Here(handlers, l)
      /\ handlers \in HandlerLists
  BY AtAHandler DEF RoutingInv
<1> HIDE DEF l, b
<1>2. \A i \in DOMAIN l.routers: \A j \in DOMAIN handlers[l.routers[i]]:
        /\ i \in Nat /\ j \in Nat
        /\ Sooner(i, j, l.r, l.h + 1) <=> Sooner(i, j, l.r, l.h) \/ (i = l.r /\ j = l.h)
  <2> SUFFICES ASSUME NEW i \in DOMAIN l.routers, NEW j \in DOMAIN handlers[l.routers[i]]
               PROVE  /\ i \in Nat /\ j \in Nat
                      /\ Sooner(i, j, l.r, l.h + 1) <=> Sooner(i, j, l.r, l.h) \/ (i = l.r /\ j = l.h)
    OBVIOUS
  <2>1. i \in Nat /\ l.routers[i] \in Routers
    BY <1>1
  <2>2. handlers[l.routers[i]] \in Seq(Handlers)
    BY <2>1, <1>1 DEF HandlerLists
  <2>3. j \in Nat
    BY <2>2
  <2>4. \A x, y, u, v \in Nat: Sooner(x, y, u, v + 1) <=> Sooner(x, y, u, v) \/ (x = u /\ y = v)
    BY DEF Sooner, Earlier
  <2> QED BY <2>1, <2>3, <2>4, <1>1
<1>3. \A x \in b: \E i \in DOMAIN l.routers: \E j \in DOMAIN handlers[l.routers[i]]:
        x = There(handlers, l, i, j)
  BY <1>1 DEF Underway
<1>4. \A x \in d: \E i \in DOMAIN l.routers: \E j \in DOMAIN handlers[l.routers[i]]:
        Sooner(i, j, l.r, l.h + 1) /\ x = There(handlers, l, i, j)
  <2> SUFFICES ASSUME NEW x \in d
               PROVE \E i \in DOMAIN l.routers: \E j \in DOMAIN handlers[l.routers[i]]:
                       Sooner(i, j, l.r, l.h + 1) /\ x = There(handlers, l, i, j)
    OBVIOUS
  <2>1. CASE x = Here(handlers, l)
    BY <2>1, <1>1, <1>2 DEF Here, AtPlace
  <2>2. CASE x \in tried[t]
    <3>1. PICK i \in DOMAIN l.routers: \E j \in DOMAIN handlers[l.routers[i]]:
            Sooner(i, j, l.r, l.h) /\ x = There(handlers, l, i, j)
      BY <2>2, <1>1 DEF Underway
    <3> QED BY <3>1, <1>2
  <2> QED BY <2>1, <2>2, <1>1
<1>5. \A i \in DOMAIN l.routers: \A j \in DOMAIN handlers[l.routers[i]]:
        Sooner(i, j, l.r, l.h + 1) /\ There(handlers, l, i, j) \in b => There(handlers, l, i, j) \in d
  <2> SUFFICES ASSUME NEW i \in DOMAIN l.routers, NEW j \in DOMAIN handlers[l.routers[i]],
                      Sooner(i, j, l.r, l.h + 1), There(handlers, l, i, j) \in b
               PROVE  There(handlers, l, i, j) \in d
    OBVIOUS
  <2>1. CASE Sooner(i, j, l.r, l.h)
    BY <2>1, <1>1 DEF Underway
  <2>2. CASE i = l.r /\ j = l.h
    BY <2>2, <1>1 DEF Here
  <2> QED BY <2>1, <2>2, <1>2
<1>6. IsInjective(l.routers) /\ l.h + 1 \in Nat
  BY <1>1 DEF Underway
<1> HIDE DEF d
<1>7. LocalsOK(handlers, GoOn(l, l.r, l.h + 1)) /\ DispatchOK(handlers, GoOn(l, l.r, l.h + 1), b, d)
  BY <1>1, <1>3, <1>4, <1>5, <1>6, GoOnOK
<1> QED BY <1>7 DEF l, b, d

\* A filter fails and the loops go on.
LEMMA FilterFailsInv ==
    ASSUME RoutingInv, NEW t \in Tasks, FilterFails(t)
    PROVE  RoutingInv'
<1> DEFINE l == feed[t]
           m == GoOn(l, l.r, l.h + 1)
           d == tried[t] \cup {Current(l)}
<1>1. /\ l.phase = "filtering" /\ Become(t, m)
      /\ tried' = [tried EXCEPT ![t] = d]
      /\ UNCHANGED <<treeVars, begun, ending>>
  BY DEF FilterFails
<1>2. LocalsOK(handlers, m) /\ DispatchOK(handlers, m, begun[t], d)
  BY <1>1, PassesOn
<1>3. begun[t] \in SUBSET Handlers /\ d \in SUBSET Handlers
  BY <1>1, AtAHandler
<1>4. feed' = [feed EXCEPT ![t] = m] /\ settled' \subseteq Events
  <2>1. l.phase # "outside"
    BY <1>1
  <2> QED BY <2>1, <1>1, Settles
<1> HIDE DEF l, m, d
<1>5. m \in Locals
  BY <1>2 DEF LocalsOK
<1>6. begun' = [begun EXCEPT ![t] = begun[t]] /\ ending' \in [Tasks -> Endings \cup {None}]
  BY <1>1 DEF RoutingInv
<1>7. UNCHANGED treeVars
  BY <1>1
<1> QED BY <1>1, <1>2, <1>3, <1>4, <1>5, <1>6, <1>7, StepOf

\* The handler ends: feed returns, or SkipHandler lets the loops go on.
LEMMA HandlerEndsInv ==
    ASSUME RoutingInv, NEW t \in Tasks, NEW how \in Endings, HandlerEnds(t, how)
    PROVE  RoutingInv'
<1> DEFINE l == feed[t]
           m == CASE InnerChain(how) = "return" -> Outside("HANDLED")
                  [] InnerChain(how) = "raise"  -> Outside("ERRORED")
                  [] InnerChain(how) = "skip"   -> GoOn(l, l.r, l.h + 1)
           d == tried[t] \cup {Current(l)}
<1>1. /\ l.phase = "handling" /\ Become(t, m)
      /\ tried' = [tried EXCEPT ![t] = d]
      /\ ending' = [ending EXCEPT ![t] = how]
      /\ UNCHANGED <<treeVars, begun>>
  BY DEF HandlerEnds
<1>2. LocalsOK(handlers, m) /\ DispatchOK(handlers, m, begun[t], d)
  <2>1. CASE InnerChain(how) = "return"
    <3>1. m = Outside("HANDLED")
      BY <2>1
    <3> HIDE DEF m
    <3> QED BY <3>1, OutsideOK DEF Outcomes
  <2>2. CASE InnerChain(how) = "raise"
    <3>1. m = Outside("ERRORED")
      BY <2>2
    <3> HIDE DEF m
    <3> QED BY <3>1, OutsideOK DEF Outcomes
  <2>3. CASE InnerChain(how) = "skip"
    <3>1. m = GoOn(l, l.r, l.h + 1)
      BY <2>3
    <3> HIDE DEF m
    <3> QED BY <3>1, <1>1, PassesOn
  <2>4. InnerChain(how) \in Endings
    BY DEF InnerChain, Endings
  <2> QED BY <2>1, <2>2, <2>3, <2>4 DEF Endings
<1>3. begun[t] \in SUBSET Handlers /\ d \in SUBSET Handlers
  BY <1>1, AtAHandler
<1>4. feed' = [feed EXCEPT ![t] = m] /\ settled' \subseteq Events
  <2>1. l.phase # "outside"
    BY <1>1
  <2> HIDE DEF m
  <2> QED BY <2>1, <1>1, Settles
<1> HIDE DEF l, m, d
<1>5. m \in Locals
  BY <1>2 DEF LocalsOK
<1>6. begun' = [begun EXCEPT ![t] = begun[t]] /\ ending' \in [Tasks -> Endings \cup {None}]
  BY <1>1 DEF RoutingInv
<1>7. UNCHANGED treeVars
  BY <1>1
<1> QED BY <1>1, <1>2, <1>3, <1>4, <1>5, <1>6, <1>7, StepOf

\* One filter more has passed.
LEMMA FilterPassesInv ==
    ASSUME RoutingInv, NEW t \in Tasks, NEW adds \in BOOLEAN, FilterPasses(t, adds)
    PROVE  RoutingInv'
<1> DEFINE l == feed[t]
           x == Current(l)
           e == IF adds THEN l.extra \cup {x} ELSE l.extra
           ph == IF l.f = Len(Filters[x]) THEN "handling" ELSE l.phase
           m == [l EXCEPT !.extra = e, !.f = l.f + 1, !.phase = ph]
           b == begun[t]
           d == tried[t]
<1>1. /\ l.phase = "filtering" /\ Answer(l) \in {"passes", "anything"} /\ Become(t, m)
      /\ UNCHANGED <<treeVars, begun, tried, ending>>
  BY DEF FilterPasses
<1>2. /\ l \in Locals /\ l.event # None /\ l.outcome = None
      /\ l.r \in Nat /\ l.h \in Nat
      /\ AtPlace(handlers, l)
      /\ Underway(handlers, l, b, d)
      /\ x = Here(handlers, l)
      /\ x \in Handlers
      /\ Filters[x] \in Seq([Events -> Answers])
      /\ b \in SUBSET Handlers /\ d \in SUBSET Handlers
  BY <1>1, AtAHandler
<1>3. l.f \in DOMAIN Filters[x]
  BY <1>1, <1>2 DEF RoutingInv, LocalsOK
<1>4. Filters[x][l.f][l.event] \in {"passes", "anything"}
  BY <1>1 DEF Answer
<1>5. feed' = [feed EXCEPT ![t] = m] /\ settled' \subseteq Events
  <2>1. l.phase # "outside"
    BY <1>1
  <2> HIDE DEF m
  <2> QED BY <2>1, <1>1, Settles
<1>6. begun' = [begun EXCEPT ![t] = b] /\ tried' = [tried EXCEPT ![t] = d]
      /\ ending' \in [Tasks -> Endings \cup {None}] /\ UNCHANGED treeVars
  BY <1>1 DEF RoutingInv
<1> HIDE DEF l, x, b, d
<1>7. /\ l.f \in Nat /\ l.f >= 1 /\ l.f <= Len(Filters[x]) /\ Len(Filters[x]) \in Nat
      /\ DOMAIN Filters[x] = 1..Len(Filters[x])
  BY <1>2, <1>3
<1>8. e \in SUBSET Handlers /\ e \subseteq {x}
  <2>1. l.extra \subseteq {x}
    BY <1>2 DEF Underway
  <2> QED BY <2>1, <1>2
<1>9. ph \in Phases /\ ph \in {"filtering", "handling"}
  BY <1>1 DEF Phases
<1> HIDE DEF e
<1>10. /\ m \in Locals
       /\ m.routers = l.routers /\ m.event = l.event /\ m.outcome = l.outcome
       /\ m.r = l.r /\ m.h = l.h /\ m.f = l.f + 1 /\ m.extra = e /\ m.phase = ph
  <2> HIDE DEF ph
  <2>1. l.f + 1 \in Nat
    BY <1>7
  <2>2. m = [l EXCEPT !.r = l.r, !.h = l.h, !.f = l.f + 1, !.extra = e, !.phase = ph]
    BY <1>2 DEF Locals
  <2>3. LET n == [l EXCEPT !.r = l.r, !.h = l.h, !.f = l.f + 1, !.extra = e, !.phase = ph]
        IN  /\ n \in Locals
            /\ n.routers = l.routers /\ n.event = l.event /\ n.outcome = l.outcome
            /\ n.r = l.r /\ n.h = l.h /\ n.f = l.f + 1 /\ n.extra = e /\ n.phase = ph
    BY <2>1, <1>2, <1>8, <1>9, RecordExcept, Zenon DEF Locals
  <2> QED BY <2>2, <2>3, Zenon
<1> HIDE DEF m
<1>11. \A i, j: There(handlers, m, i, j) = There(handlers, l, i, j)
  BY <1>10 DEF There
<1>12. Here(handlers, m) = x /\ AtPlace(handlers, m)
  BY <1>2, <1>10 DEF Here, There, AtPlace
<1>13. LocalsOK(handlers, m)
  <2>1. ASSUME m.phase = "filtering" PROVE m.f \in DOMAIN Filters[x]
    <3>1. l.f # Len(Filters[x])
      BY <2>1, <1>10
    <3> QED BY <3>1, <1>7, <1>10
  <2> QED BY <2>1, <1>2, <1>9, <1>10, <1>12 DEF LocalsOK
<1>14. \A k \in DOMAIN Filters[x]:
         m.phase = "handling" \/ k < m.f => Filters[x][k][m.event] \in {"passes", "anything"}
  <2> SUFFICES ASSUME NEW k \in DOMAIN Filters[x], m.phase = "handling" \/ k < m.f
               PROVE  Filters[x][k][l.event] \in {"passes", "anything"}
    BY <1>10
  <2>1. m.phase = "handling" => l.f = Len(Filters[x])
    BY <1>1, <1>10
  <2>2. k < l.f \/ k = l.f
    BY <2>1, <1>7, <1>10
  <2>3. \A i \in DOMAIN Filters[x]:
          l.phase = "handling" \/ i < l.f => Filters[x][i][l.event] \in {"passes", "anything"}
    BY <1>2 DEF Underway
  <2> QED BY <2>2, <2>3, <1>4
<1>15. Underway(handlers, m, b, d)
  <2>1. /\ IsInjective(m.routers)
        /\ \A y \in b: \E i \in DOMAIN m.routers: \E j \in DOMAIN handlers[m.routers[i]]:
              y = There(handlers, m, i, j)
        /\ \A y \in d: \E i \in DOMAIN m.routers: \E j \in DOMAIN handlers[m.routers[i]]:
              Sooner(i, j, m.r, m.h) /\ y = There(handlers, m, i, j)
        /\ \A i \in DOMAIN m.routers: \A j \in DOMAIN handlers[m.routers[i]]:
              Sooner(i, j, m.r, m.h) /\ There(handlers, m, i, j) \in b
                => There(handlers, m, i, j) \in d
    BY <1>2, <1>10, <1>11 DEF Underway
  <2>2. m.extra \subseteq {Here(handlers, m)}
    BY <1>8, <1>10, <1>12
  <2> QED BY <2>1, <2>2, <1>12, <1>14, Zenon DEF Underway
<1>16. DispatchOK(handlers, m, b, d)
  BY <1>2, <1>9, <1>10, <1>15, RoutingAssumption DEF DispatchOK
<1>17. m \in Locals
  BY <1>10
<1> QED BY <1>2, <1>5, <1>6, <1>13, <1>16, <1>17, StepOf

\* The forest is a matter of the children alone.
LEMMA ForestStays ==
    ASSUME Forest, children' = children
    PROVE  Forest'
<1>1. \A rank: Ranks(rank) => Ranks(rank)'
  BY DEF Ranks
<1> QED BY <1>1 DEF Forest

\* A handler is registered while dispatches are suspended.
LEMMA OnInv ==
    ASSUME RoutingInv, NEW r \in Routers, NEW h \in Handlers, On(r, h)
    PROVE  RoutingInv'
<1>1. UNCHANGED <<children, feed, settled, begun, tried, ending>>
  BY DEF On, historyVars
<1>2. Forest'
  <2>1. Forest
    BY DEF RoutingInv
  <2>2. children' = children
    BY <1>1
  <2> QED BY <2>1, <2>2, ForestStays
<1>3. handlers' \in HandlerLists /\ HandlersOnce(handlers')
  BY OnAppends DEF RoutingInv
<1>4. \A t \in Tasks: LocalsOK(handlers', feed'[t])
                      /\ DispatchOK(handlers', feed'[t], begun'[t], tried'[t])
  BY <1>1, OnKeeps
<1> QED BY <1>1, <1>2, <1>3, <1>4 DEF RoutingInv

\* A router is included while dispatches are suspended.
LEMMA IncludeRouterInv ==
    ASSUME RoutingInv, NEW r \in Routers, NEW child \in Routers,
           KeepsTree(r, child), IncludeRouter(r, child)
    PROVE  RoutingInv'
<1>1. UNCHANGED <<handlers, feed, settled, begun, tried, ending>>
  BY DEF IncludeRouter, historyVars
<1>2. Forest'
  BY ForestInclude DEF RoutingInv
<1> QED BY <1>1, <1>2 DEF RoutingInv

\* Every step keeps the invariant.
LEMMA RoutingInvNext == RoutingInv /\ [RoutingNext]_routingVars => RoutingInv'
<1> SUFFICES ASSUME RoutingInv, [RoutingNext]_routingVars PROVE RoutingInv'
  OBVIOUS
<1>1. ASSUME NEW r \in Routers, NEW h \in Handlers, On(r, h) PROVE RoutingInv'
  BY <1>1, OnInv
<1>2. ASSUME NEW r \in Routers, NEW child \in Routers,
             KeepsTree(r, child), IncludeRouter(r, child)
      PROVE  RoutingInv'
  BY <1>2, IncludeRouterInv
<1>3. ASSUME NEW t \in Tasks, NEW e \in Events, Begin(t, e) PROVE RoutingInv'
  BY <1>3, BeginInv
<1>4. ASSUME NEW t \in Tasks, StartWalk(t) PROVE RoutingInv'
  BY <1>4, StartWalkInv
<1>5. ASSUME NEW t \in Tasks, FilterFails(t) PROVE RoutingInv'
  BY <1>5, FilterFailsInv
<1>6. ASSUME NEW t \in Tasks, Leave(t) PROVE RoutingInv'
  BY <1>6, LeaveInv
<1>7. ASSUME NEW t \in Tasks, NEW adds \in BOOLEAN, FilterPasses(t, adds) PROVE RoutingInv'
  BY <1>7, FilterPassesInv
<1>8. ASSUME NEW t \in Tasks, NEW how \in Endings, HandlerEnds(t, how) PROVE RoutingInv'
  BY <1>8, HandlerEndsInv
<1>9. CASE UNCHANGED routingVars
  <2>1. UNCHANGED <<children, handlers, feed, settled, begun, tried, ending>>
    BY <1>9 DEF routingVars, treeVars, historyVars
  <2> QED BY <2>1 DEF RoutingInv, Forest, Ranks
<1> QED BY <1>1, <1>2, <1>3, <1>4, <1>5, <1>6, <1>7, <1>8, <1>9 DEF RoutingNext

\* The invariant of the walk and of every dispatch under way.
THEOREM RoutingInvariant == RoutingSpec => []RoutingInv
<1>1. RoutingInit => RoutingInv
  BY RoutingInvInit
<1>2. RoutingInv /\ [RoutingNext]_routingVars => RoutingInv'
  BY RoutingInvNext
<1> QED BY <1>1, <1>2, PTL DEF RoutingSpec

\* As long as the consumer includes routers as a tree, they are one.
LEMMA RoutersFormAForest == RoutingSpec => []Forest
<1>1. RoutingInv => Forest
  BY DEF RoutingInv
<1> QED BY <1>1, RoutingInvariant, PTL

\* "Own handlers first, then children in include order" (dispatch/router.py:51):
\* as long as the consumer includes routers as a tree, walk() lists that tree,
\* every router once, depth first.
THEOREM DepthFirst == RoutingSpec => []WalkIsPreorder
BY RoutersFormAForest, WalkOfForest, PTL

-----------------------------------------------------------------------------
(* What the runs check, for every instance.                                *)

\* The locals of feed are well typed, and a task that awaits a filter or a
\* handler is at one, although the lists grow under it.
THEOREM RoutingTyping == RoutingSpec => []RoutingTypeOK
<1>1. RoutingInv => RoutingTypeOK
  <2> SUFFICES ASSUME RoutingInv PROVE RoutingTypeOK
    OBVIOUS
  <2>1. children \in [Routers -> Seq(Routers)]
    BY DEF RoutingInv, Forest
  <2>2. ASSUME NEW t \in Tasks
        PROVE  LET l == feed[t] IN
               /\ l.phase = "outside" <=> l.event = None
               /\ l.phase \in {"filtering", "handling"} => <<l.r, l.h>> \in Positions(l)
               /\ l.phase = "filtering" => l.f \in DOMAIN Filters[Current(l)]
    <3> DEFINE l == feed[t]
    <3>1. LocalsOK(handlers, l)
      BY DEF RoutingInv
    <3> HIDE DEF l
    <3>2. AtPlace(handlers, l) => <<l.r, l.h>> \in Positions(l)
      BY PositionsAre DEF AtPlace
    <3>3. Current(l) = Here(handlers, l)
      BY DEF Current, At, Here, There
    <3>4. /\ l.phase = "outside" <=> l.event = None
          /\ l.phase \in {"filtering", "handling"} => <<l.r, l.h>> \in Positions(l)
          /\ l.phase = "filtering" => l.f \in DOMAIN Filters[Current(l)]
      BY <3>1, <3>2, <3>3 DEF LocalsOK
    <3> QED BY <3>4 DEF l
  <2> QED BY <2>1, <2>2 DEF RoutingInv, RoutingTypeOK, HandlerLists, Locals
<1> QED BY <1>1, RoutingInvariant, PTL

\* First match wins (the loops of dispatch/dispatcher.py:66): no handler that
\* was there when a dispatch began is passed over, whatever is registered
\* meanwhile, as long as the consumer includes routers as a tree.
THEOREM FirstMatchWins == RoutingSpec => []NoneOvertaken
<1>1. RoutingInv => NoneOvertaken
  <2> SUFFICES ASSUME RoutingInv, NEW t \in Tasks
               PROVE  LET l == feed[t] IN
                      /\ AtHandler(t) =>
                          \A p \in Positions(l):
                             Earlier(p, <<l.r, l.h>>) /\ At(l, p) \in begun[t] => At(l, p) \in tried[t]
                      /\ l.outcome = "SKIPPED" => begun[t] \subseteq tried[t]
    BY DEF NoneOvertaken
  <2> DEFINE l == feed[t]
  <2>1. ASSUME AtHandler(t), NEW p \in Positions(l), Earlier(p, <<l.r, l.h>>), At(l, p) \in begun[t]
        PROVE  At(l, p) \in tried[t]
    <3>1. Underway(handlers, l, begun[t], tried[t])
      BY <2>1, AtAHandler DEF AtHandler
    <3> HIDE DEF l
    <3>2. PICK i \in DOMAIN l.routers: \E j \in DOMAIN handlers[l.routers[i]]: p = <<i, j>>
      BY <2>1, PositionsAre
    <3>3. PICK j \in DOMAIN handlers[l.routers[i]]: p = <<i, j>>
      BY <3>2
    <3>4. At(l, p) = There(handlers, l, i, j) /\ Sooner(i, j, l.r, l.h)
      BY <2>1, <3>3 DEF At, There, Earlier, Sooner
    <3> QED BY <2>1, <3>1, <3>4 DEF Underway
  <2>2. l.outcome = "SKIPPED" => begun[t] \subseteq tried[t]
    BY DEF RoutingInv, DispatchOK
  <2> QED BY <2>1, <2>2
<1> QED BY <1>1, RoutingInvariant, PTL

\* A dispatch comes to no handler a second time, as long as the consumer includes
\* routers as a tree.
THEOREM NoHandlerTwice == RoutingSpec => []TriedOnce
<1>1. RoutingInv => TriedOnce
  <2> SUFFICES ASSUME RoutingInv, NEW t \in Tasks, AtHandler(t), Current(feed[t]) \in tried[t]
               PROVE  FALSE
    BY DEF TriedOnce
  <2> DEFINE l == feed[t]
  <2>1. /\ l.routers \in Seq(Routers) /\ l.r \in Nat /\ l.h \in Nat
        /\ AtPlace(handlers, l)
        /\ Underway(handlers, l, begun[t], tried[t])
        /\ Current(l) = Here(handlers, l)
    BY AtAHandler DEF AtHandler
  <2>2. HandlersOnce(handlers) /\ handlers \in HandlerLists
    BY DEF RoutingInv
  <2>3. Here(handlers, l) \in tried[t]
    BY <2>1
  <2> HIDE DEF l
  <2>4. PICK i \in DOMAIN l.routers: \E j \in DOMAIN handlers[l.routers[i]]:
          Sooner(i, j, l.r, l.h) /\ Here(handlers, l) = There(handlers, l, i, j)
    BY <2>1, <2>3 DEF Underway
  <2>5. PICK j \in DOMAIN handlers[l.routers[i]]:
          Sooner(i, j, l.r, l.h) /\ Here(handlers, l) = There(handlers, l, i, j)
    BY <2>4
  <2>6. l.routers[i] \in Routers /\ l.routers[l.r] \in Routers /\ i \in Nat
    BY <2>1 DEF AtPlace
  <2>7. handlers[l.routers[i]][j] = handlers[l.routers[l.r]][l.h]
    BY <2>5 DEF Here, There
  <2>8. l.routers[i] = l.routers[l.r] /\ j = l.h
    BY <2>1, <2>2, <2>6, <2>7 DEF HandlersOnce, AtPlace
  <2>9. i = l.r
    BY <2>1, <2>8 DEF Underway, IsInjective, AtPlace
  <2> QED BY <2>1, <2>5, <2>8, <2>9 DEF Sooner, Earlier
<1> QED BY <1>1, RoutingInvariant, PTL

\* A handler gets the data of its own filters only.
THEOREM ExtrasAreOwn == RoutingSpec => []OwnExtras
<1>1. RoutingInv => OwnExtras
  <2> SUFFICES ASSUME RoutingInv, NEW t \in Tasks, AtHandler(t)
               PROVE  feed[t].extra \subseteq {Current(feed[t])}
    BY DEF OwnExtras
  <2>1. /\ Underway(handlers, feed[t], begun[t], tried[t])
        /\ Current(feed[t]) = Here(handlers, feed[t])
    BY AtAHandler DEF AtHandler
  <2> QED BY <2>1 DEF Underway
<1> QED BY <1>1, RoutingInvariant, PTL

-----------------------------------------------------------------------------
(* Filters and events that have a field more.                              *)

\* A comparison with a field is steady if the field is.
LEMMA ComparedSteady ==
    ASSUME NEW f, Steady(f), NEW op, NEW other
    PROVE  Steady(Compared(op, f, other))
<1> SUFFICES ASSUME NEW e \in Events, NEW x \in Extensions[e]
             PROVE  LET g == Compared(op, f, other) IN g[e] \in NoSuchField \/ g[x] = g[e]
  BY DEF Steady
<1>1. x \in Events /\ NoSuchField \subseteq Exceptions
  BY FiltersAssumption DEF Exceptions
<1>2. f[e] \in NoSuchField \/ f[x] = f[e]
  BY DEF Steady
<1> QED BY <1>1, <1>2 DEF Compared

\* So is access to an attribute or an item of it,
LEMMA AccessSteady ==
    ASSUME NEW f, Steady(f), NEW name
    PROVE  Steady(Getattr(f, name)) /\ Steady(Getitem(f, name))
<1>1. ASSUME NEW e \in Events, NEW x \in Extensions[e]
      PROVE  /\ LET g == Getattr(f, name) IN g[e] \in NoSuchField \/ g[x] = g[e]
             /\ LET g == Getitem(f, name) IN g[e] \in NoSuchField \/ g[x] = g[e]
  <2>1. x \in Events /\ NoSuchField \subseteq Exceptions
    BY FiltersAssumption DEF Exceptions
  <2>2. f[e] \in NoSuchField \/ f[x] = f[e]
    BY DEF Steady
  <2> QED BY <2>1, <2>2 DEF Getattr, Getitem
<1> QED BY <1>1 DEF Steady

\* and every &, | and ~ of steady expressions: a missing field is an exception
\* that ~ does not turn into a match.
LEMMA ConnectivesSteady ==
    ASSUME NEW f, NEW g, Steady(f), Steady(g)
    PROVE  Steady(And(f, g)) /\ Steady(Or(f, g)) /\ Steady(Invert(f))
<1>1. ASSUME NEW e \in Events, NEW x \in Extensions[e]
      PROVE  /\ And(f, g)[e] \in NoSuchField \/ And(f, g)[x] = And(f, g)[e]
             /\ Or(f, g)[e] \in NoSuchField \/ Or(f, g)[x] = Or(f, g)[e]
             /\ Invert(f)[e] \in NoSuchField \/ Invert(f)[x] = Invert(f)[e]
  <2>1. x \in Events /\ NoSuchField \subseteq Exceptions
    BY FiltersAssumption DEF Exceptions
  <2>2. f[e] \in NoSuchField \/ f[x] = f[e]
    BY DEF Steady
  <2>3. g[e] \in NoSuchField \/ g[x] = g[e]
    BY DEF Steady
  <2>4. And(f, g)[e] \in NoSuchField \/ And(f, g)[x] = And(f, g)[e]
    BY <2>1, <2>2, <2>3 DEF And
  <2>5. Or(f, g)[e] \in NoSuchField \/ Or(f, g)[x] = Or(f, g)[e]
    BY <2>1, <2>2, <2>3 DEF Or
  <2>6. Invert(f)[e] \in NoSuchField \/ Invert(f)[x] = Invert(f)[e]
    BY <2>1, <2>2 DEF Invert
  <2> QED BY <2>4, <2>5, <2>6
<1> QED BY <1>1 DEF Steady

\* S has those fields, and every expression over its members whose values are
\* in V.
ClosedUnder(S, fields, V) ==
    LET Keeps(f) == f \in [Events -> V] => f \in S IN
    /\ \A f \in fields: Keeps(f)
    /\ \A f \in S:
        /\ \A name: Keeps(Getattr(f, name)) /\ Keeps(Getitem(f, name))
        /\ \A op, other: Keeps(Compared(op, f, other))
        /\ Keeps(Invert(f))
        /\ \A g \in S: Keeps(And(f, g)) /\ Keeps(Or(f, g))

\* The expressions over those fields with values in V: what access to
\* attributes and items, comparisons, &, | and ~ build from them.
Expressions(fields, V) ==
    {f \in [Events -> V]: \A S \in SUBSET [Events -> V]: ClosedUnder(S, fields, V) => f \in S}

\* Every expression over fields that events keep is steady.
LEMMA ExpressionsSteady ==
    ASSUME NEW fields, \A f \in fields: Steady(f), NEW V, NEW f \in Expressions(fields, V)
    PROVE  Steady(f)
<1> DEFINE S == {g \in [Events -> V]: Steady(g)}
<1>1. ASSUME NEW g \in S
      PROVE  /\ \A name: Steady(Getattr(g, name)) /\ Steady(Getitem(g, name))
             /\ \A op, other: Steady(Compared(op, g, other))
             /\ Steady(Invert(g))
             /\ \A k \in S: Steady(And(g, k)) /\ Steady(Or(g, k))
  <2>1. Steady(g)
    OBVIOUS
  <2>2. \A name: Steady(Getattr(g, name)) /\ Steady(Getitem(g, name))
    BY <2>1, AccessSteady
  <2>3. \A op, other: Steady(Compared(op, g, other))
    BY <2>1, ComparedSteady
  <2>4. \A k \in S: Steady(And(g, k)) /\ Steady(Or(g, k)) /\ Steady(Invert(g))
    BY <2>1, ConnectivesSteady
  <2> QED BY <2>2, <2>3, <2>4
<1>2. ClosedUnder(S, fields, V)
  <2>1. \A g \in fields: g \in [Events -> V] => g \in S
    OBVIOUS
  <2>2. ASSUME NEW g, Steady(g) PROVE g \in [Events -> V] => g \in S
    BY <2>2
  <2> HIDE DEF S
  <2> QED BY <2>1, <2>2, <1>1 DEF ClosedUnder
<1> QED BY <1>2 DEF Expressions

\* A filter the catalog can grow under: one of the consumer's, an event type
\* that an event with a field more has too, or an expression of that kind.
ForwardCompatible(q, expressions) ==
    \/ q = Custom
    \/ \E typed \in SUBSET Events:
         /\ q = EventTypeFilter(typed)
         /\ \A e \in typed: Extensions[e] \subseteq typed
    \/ \E f \in expressions: q = Magic(f)

\* What such a filter lets pass, it lets pass with a field more.
LEMMA KeepsPassing ==
    ASSUME NEW expressions, \A f \in expressions: Steady(f),
           NEW q, ForwardCompatible(q, expressions),
           NEW e \in Events, NEW x \in Extensions[e], q[e] \in {"passes", "anything"}
    PROVE  q[x] \in {"passes", "anything"}
<1>1. x \in Events
  BY FiltersAssumption
<1>2. CASE q = Custom
  BY <1>1, <1>2 DEF Custom
<1>3. ASSUME NEW typed \in SUBSET Events, q = EventTypeFilter(typed),
             \A y \in typed: Extensions[y] \subseteq typed
      PROVE  q[x] \in {"passes", "anything"}
  <2>1. e \in typed
    BY <1>3 DEF EventTypeFilter
  <2> QED BY <2>1, <1>1, <1>3 DEF EventTypeFilter
<1>4. ASSUME NEW f \in expressions, q = Magic(f) PROVE q[x] \in {"passes", "anything"}
  <2>1. f[e] \notin NoSuchField /\ f[e] \notin Exceptions /\ f[e] \in Truthy
    BY <1>4 DEF Magic
  <2>2. f[x] = f[e]
    BY <2>1, <1>4 DEF Steady
  <2> QED BY <2>1, <2>2, <1>1, <1>4 DEF Magic
<1> QED BY <1>2, <1>3, <1>4 DEF ForwardCompatible

\* "Forward-compat with the open event catalog" (dispatch/filters.py:94): if an
\* event with a field more keeps the fields that the filters read, the filters
\* of a handler that an event reaches accept the event with a field more,
\* whatever expressions over those fields they are.
THEOREM ForwardCompatibility ==
    ASSUME NEW names, NEW keys, \A f \in Fields(names, keys): Steady(f),
           NEW V,
           \A h \in Handlers: \A i \in DOMAIN Filters[h]:
               ForwardCompatible(Filters[h][i], Expressions(Fields(names, keys), V))
    PROVE  RoutingSpec => []KeepsMatching
<1>1. \A f \in Expressions(Fields(names, keys), V): Steady(f)
  BY ExpressionsSteady
<1>2. RoutingInv => KeepsMatching
  <2> SUFFICES ASSUME RoutingInv, NEW t \in Tasks, feed[t].phase = "handling",
                      NEW x \in Extensions[feed[t].event],
                      NEW i \in DOMAIN Filters[Current(feed[t])]
               PROVE  Filters[Current(feed[t])][i][x] \in {"passes", "anything"}
    BY DEF KeepsMatching
  <2>1. /\ Underway(handlers, feed[t], begun[t], tried[t])
        /\ Current(feed[t]) = Here(handlers, feed[t])
        /\ Current(feed[t]) \in Handlers
        /\ feed[t].event \in Events
    BY AtAHandler
  <2>2. Filters[Current(feed[t])][i][feed[t].event] \in {"passes", "anything"}
    BY <2>1 DEF Underway
  <2>3. ForwardCompatible(Filters[Current(feed[t])][i], Expressions(Fields(names, keys), V))
    BY <2>1
  <2> QED BY <1>1, <2>1, <2>2, <2>3, KeepsPassing
<1> QED BY <1>2, RoutingInvariant, PTL

-----------------------------------------------------------------------------
(* The refinement.                                                         *)

\* What the dispatcher of module Dispatch sees of a call of feed.
Awaited(l) == IF l.phase = "outside" THEN None ELSE l.event

\* The event each task awaits, as module Dispatch has it.
Running == [t \in Tasks |-> IF feed[t].phase = "outside" THEN None ELSE feed[t].event]

\* A step that changes one task's locals changes that task only.
LEMMA RunningStep ==
    ASSUME RoutingInv, NEW t \in Tasks, NEW m, feed' = [feed EXCEPT ![t] = m]
    PROVE  Running' = [Running EXCEPT ![t] = Awaited(m)]
<1>1. feed \in [Tasks -> Locals]
  BY DEF RoutingInv
<1>2. \A u \in Tasks: feed'[u] = IF u = t THEN m ELSE feed[u]
  BY <1>1
<1>3. \A u \in Tasks: Running'[u] = IF u = t THEN Awaited(m) ELSE Running[u]
  BY <1>2 DEF Running, Awaited
<1> QED BY <1>3 DEF Running

\* A task in feed awaits its event, any other none.
LEMMA AwaitedIn ==
    ASSUME RoutingInv, NEW t \in Tasks
    PROVE  /\ Running[t] = Awaited(feed[t])
           /\ feed[t].phase # "outside" => Running[t] = feed[t].event /\ Running[t] \in Events
           /\ feed[t].phase = "outside" => Running[t] = None
<1>1. feed[t] \in Locals /\ LocalsOK(handlers, feed[t])
  BY DEF RoutingInv
<1>2. feed[t].phase # "outside" => feed[t].event \in Events
  BY <1>1 DEF LocalsOK, Locals
<1> QED BY <1>2 DEF Running, Awaited

\* Locals that say a dispatch ended, or that it goes on with its event.
Reached(l, m) ==
    \/ \E outcome \in Outcomes: m = Outside(outcome)
    \/ m.phase # "outside" /\ m.event = l.event /\ m.outcome = None

\* The loops go on to a handler, or feed returns SKIPPED.
LEMMA GoOnReaches ==
    ASSUME handlers \in HandlerLists, NEW l \in Locals, l.outcome = None, NEW r \in Nat, NEW h \in Nat
    PROVE  Reached(l, GoOn(l, r, h))
<1> DEFINE m == GoOn(l, r, h)
<1>1. ASSUME m = Outside("SKIPPED") PROVE Reached(l, m)
  BY <1>1 DEF Reached, Outcomes
<1>2. ASSUME NEW i \in DOMAIN l.routers, NEW j \in DOMAIN handlers[l.routers[i]],
             m = Stop(l, <<i, j>>)
      PROVE  Reached(l, m)
  <2>1. /\ m.event = l.event /\ m.outcome = l.outcome
        /\ m.phase = IF Filters[handlers[l.routers[i]][j]] = <<>> THEN "handling" ELSE "filtering"
    <3> HIDE DEF m
    <3> QED BY <1>2, StopsAt
  <2> HIDE DEF m
  <2> QED BY <2>1 DEF Reached
<1> HIDE DEF m
<1>3. \/ /\ m = Outside("SKIPPED")
         /\ \A i \in DOMAIN l.routers: \A j \in DOMAIN handlers[l.routers[i]]:
              Sooner(i, j, r, h)
      \/ \E i \in DOMAIN l.routers: \E j \in DOMAIN handlers[l.routers[i]]:
           /\ m = Stop(l, <<i, j>>)
           /\ ~Sooner(i, j, r, h)
           /\ \A a \in DOMAIN l.routers: \A b \in DOMAIN handlers[l.routers[a]]:
                Sooner(a, b, i, j) => Sooner(a, b, r, h)
  BY GoesOn DEF m
<1>4. Reached(l, m)
  <2>1. CASE \E i \in DOMAIN l.routers: \E j \in DOMAIN handlers[l.routers[i]]:
           /\ m = Stop(l, <<i, j>>)
           /\ ~Sooner(i, j, r, h)
           /\ \A a \in DOMAIN l.routers: \A b \in DOMAIN handlers[l.routers[a]]:
                Sooner(a, b, i, j) => Sooner(a, b, r, h)
    BY <1>2, <2>1
  <2> QED BY <1>1, <1>3, <2>1
<1> QED BY <1>4 DEF m

\* A dispatch that ends is a FeedReturn, one that goes on is a stutter.
LEMMA BecomeFeeds ==
    ASSUME RoutingInv, NEW t \in Tasks, feed[t].phase # "outside", NEW m,
           Become(t, m), Reached(feed[t], m)
    PROVE  Feed!DispatchNext \/ UNCHANGED Feed!dispatchVars
<1> DEFINE e == feed[t].event
<1>1. /\ feed' = [feed EXCEPT ![t] = m]
      /\ settled' = IF m.outcome \in {"HANDLED", "SKIPPED"} THEN settled \cup {e} ELSE settled
  BY DEF Become
<1>2. Running' = [Running EXCEPT ![t] = Awaited(m)]
  BY <1>1, RunningStep
<1>3. Running[t] = e /\ e \in Events /\ e # None /\ Running \in [Tasks -> Events \cup {None}]
  <2>1. Running[t] = e /\ e \in Events
    BY AwaitedIn
  <2>2. \A u \in Tasks: Running[u] \in Events \cup {None}
    BY AwaitedIn
  <2> QED BY <2>1, <2>2, RoutingAssumption DEF Running
<1>4. ASSUME NEW outcome \in Outcomes, m = Outside(outcome)
      PROVE  Feed!FeedReturn(t, outcome)
  <2>1. m.outcome = outcome /\ Awaited(m) = None
    BY <1>4, OutsideLocals DEF Awaited
  <2>2. settled' = IF outcome = "ERRORED" THEN settled ELSE settled \cup {e}
    BY <2>1, <1>1 DEF Outcomes
  <2> QED BY <2>1, <2>2, <1>2, <1>3 DEF Feed!FeedReturn, Running
<1>5. ASSUME m.phase # "outside", m.event = e, m.outcome = None
      PROVE  UNCHANGED Feed!dispatchVars
  <2>1. Running' = Running
    BY <1>2, <1>3, <1>5 DEF Awaited
  <2>2. settled' = settled
    BY <1>1, <1>5, RoutingAssumption
  <2> QED BY <2>1, <2>2 DEF Feed!dispatchVars, Running
<1> QED BY <1>4, <1>5 DEF Reached, Feed!DispatchNext, Outcomes, Feed!Outcomes

\* The initial states map to initial states.
LEMMA FeedInit == RoutingInit => Feed!DispatchInit
<1> SUFFICES ASSUME RoutingInit PROVE Feed!DispatchInit
  OBVIOUS
<1>1. \A t \in Tasks: feed[t].phase = "outside"
  BY OutsideLocals DEF RoutingInit
<1> QED BY <1>1 DEF RoutingInit, Feed!DispatchInit

\* Begin is FeedStart, Leave is FeedAbort, a dispatch that ends is FeedReturn
\* with its outcome, and everything else is a stutter.
LEMMA FeedStep ==
    ASSUME RoutingInv, [RoutingNext]_routingVars
    PROVE  [Feed!DispatchNext]_Feed!dispatchVars
<1>1. ASSUME UNCHANGED <<feed, settled>> PROVE UNCHANGED Feed!dispatchVars
  BY <1>1 DEF Feed!dispatchVars
<1>2. ASSUME NEW t \in Tasks, NEW e \in Events, Begin(t, e) PROVE Feed!DispatchNext
  <2> DEFINE m == [Outside(None) EXCEPT !.phase = "entering", !.event = e]
  <2>1. feed[t].phase = "outside" /\ feed' = [feed EXCEPT ![t] = m] /\ settled' = settled
    BY <1>2 DEF Begin
  <2>2. Awaited(m) = e
    <3>1. Outside(None) \in Locals
      BY OutsideLocals
    <3> QED BY <3>1 DEF Awaited, Locals
  <2> HIDE DEF m
  <2>3. Running' = [Running EXCEPT ![t] = e]
    BY <2>1, <2>2, RunningStep
  <2>4. Running[t] = None
    BY <2>1, AwaitedIn
  <2>5. Feed!FeedStart(t, e)
    BY <2>1, <2>3, <2>4 DEF Feed!FeedStart, Running
  <2> QED BY <2>5 DEF Feed!DispatchNext
<1>3. ASSUME NEW t \in Tasks, Leave(t) PROVE Feed!DispatchNext
  <2>1. feed[t].phase # "outside" /\ feed' = [feed EXCEPT ![t] = Outside(None)] /\ settled' = settled
    BY <1>3 DEF Leave
  <2>2. Running' = [Running EXCEPT ![t] = None]
    BY <2>1, RunningStep, OutsideLocals DEF Awaited
  <2>3. Running[t] # None
    BY <2>1, AwaitedIn, RoutingAssumption
  <2>4. Feed!FeedAbort(t)
    BY <2>1, <2>2, <2>3 DEF Feed!FeedAbort, Running
  <2> QED BY <2>4 DEF Feed!DispatchNext
<1>4. ASSUME NEW t \in Tasks, StartWalk(t) PROVE Feed!DispatchNext \/ UNCHANGED Feed!dispatchVars
  <2> DEFINE l == [feed[t] EXCEPT !.routers = Walk]
             m == GoOn(l, 1, 1)
  <2>1. feed[t].phase = "entering" /\ Become(t, m)
    BY <1>4 DEF StartWalk
  <2>2. feed[t] \in Locals /\ feed[t].outcome = None /\ handlers \in HandlerLists
    BY <2>1 DEF RoutingInv, LocalsOK
  <2>3. Walk \in Seq(Routers)
    BY WalkOfForest DEF RoutingInv, WalkIsPreorder
  <2>4. l \in Locals /\ l.event = feed[t].event /\ l.outcome = None
    BY <2>2, <2>3 DEF Locals
  <2> HIDE DEF l
  <2>5. Reached(l, m)
    BY <2>2, <2>4, GoOnReaches
  <2> HIDE DEF m
  <2>6. Reached(feed[t], m)
    BY <2>4, <2>5 DEF Reached
  <2> QED BY <2>1, <2>6, BecomeFeeds
\* A task at a handler goes on from it.
<1>5. ASSUME NEW t \in Tasks, feed[t].phase \in {"filtering", "handling"}
      PROVE  Reached(feed[t], GoOn(feed[t], feed[t].r, feed[t].h + 1))
  <2>1. /\ handlers \in HandlerLists /\ feed[t] \in Locals /\ feed[t].outcome = None
        /\ feed[t].r \in Nat /\ feed[t].h + 1 \in Nat
    BY <1>5, AtAHandler DEF RoutingInv
  <2> QED BY <2>1, GoOnReaches
<1>6. ASSUME NEW t \in Tasks, FilterFails(t) PROVE Feed!DispatchNext \/ UNCHANGED Feed!dispatchVars
  <2>1. feed[t].phase = "filtering" /\ Become(t, GoOn(feed[t], feed[t].r, feed[t].h + 1))
    BY <1>6 DEF FilterFails
  <2> QED BY <2>1, <1>5, BecomeFeeds
<1>7. ASSUME NEW t \in Tasks, NEW adds \in BOOLEAN, FilterPasses(t, adds)
      PROVE  Feed!DispatchNext \/ UNCHANGED Feed!dispatchVars
  <2> DEFINE l == feed[t]
             e == IF adds THEN l.extra \cup {Current(l)} ELSE l.extra
             ph == IF l.f = Len(Filters[Current(l)]) THEN "handling" ELSE l.phase
             m == [l EXCEPT !.extra = e, !.f = l.f + 1, !.phase = ph]
  <2>1. l.phase = "filtering" /\ Become(t, m)
    BY <1>7 DEF FilterPasses
  <2>2. l \in Locals /\ l.outcome = None
    BY <2>1, AtAHandler
  <2>3. ph # "outside"
    BY <2>1
  <2>4. m.phase = ph /\ m.event = l.event /\ m.outcome = None
    <3> HIDE DEF l, e, ph
    <3> QED BY <2>2 DEF Locals
  <2> HIDE DEF m
  <2>5. Reached(feed[t], m)
    BY <2>3, <2>4 DEF Reached
  <2>6. feed[t].phase # "outside"
    BY <2>1
  <2> QED BY <2>1, <2>5, <2>6, BecomeFeeds
<1>8. ASSUME NEW t \in Tasks, NEW how \in Endings, HandlerEnds(t, how)
      PROVE  Feed!DispatchNext \/ UNCHANGED Feed!dispatchVars
  <2> DEFINE l == feed[t]
             m == CASE InnerChain(how) = "return" -> Outside("HANDLED")
                    [] InnerChain(how) = "raise"  -> Outside("ERRORED")
                    [] InnerChain(how) = "skip"   -> GoOn(l, l.r, l.h + 1)
  <2>1. l.phase = "handling" /\ Become(t, m)
    BY <1>8 DEF HandlerEnds
  <2>2. Reached(feed[t], m)
    <3>1. CASE InnerChain(how) = "return"
      <4>1. m = Outside("HANDLED")
        BY <3>1
      <4> HIDE DEF m
      <4> QED BY <4>1 DEF Reached, Outcomes
    <3>2. CASE InnerChain(how) = "raise"
      <4>1. m = Outside("ERRORED")
        BY <3>2
      <4> HIDE DEF m
      <4> QED BY <4>1 DEF Reached, Outcomes
    <3>3. CASE InnerChain(how) = "skip"
      <4>1. m = GoOn(l, l.r, l.h + 1)
        BY <3>3
      <4> HIDE DEF m
      <4> QED BY <4>1, <2>1, <1>5
    <3>4. InnerChain(how) \in Endings
      BY DEF InnerChain, Endings
    <3> QED BY <3>1, <3>2, <3>3, <3>4 DEF Endings
  <2> HIDE DEF m
  <2>3. feed[t].phase # "outside"
    BY <2>1
  <2> QED BY <2>1, <2>2, <2>3, BecomeFeeds
<1>9. CASE \E r \in Routers, h \in Handlers: On(r, h)
  BY <1>1, <1>9 DEF On, historyVars
<1>10. CASE \E r, child \in Routers: KeepsTree(r, child) /\ IncludeRouter(r, child)
  BY <1>1, <1>10 DEF IncludeRouter, historyVars
<1>11. CASE UNCHANGED routingVars
  BY <1>1, <1>11 DEF routingVars, historyVars
<1> QED BY <1>2, <1>3, <1>4, <1>6, <1>7, <1>8, <1>9, <1>10, <1>11 DEF RoutingNext

\* The walk, its filters and SkipHandler implement the dispatcher of module
\* Dispatch behind whose middleware the event has passed.
THEOREM FeedRefinesDispatch == RoutingSpec => FeedSpec
<1>1. RoutingInit => Feed!DispatchInit
  BY FeedInit
<1>2. RoutingInv /\ [RoutingNext]_routingVars => [Feed!DispatchNext]_Feed!dispatchVars
  BY FeedStep
<1> QED BY <1>1, <1>2, RoutingInvariant, PTL DEF RoutingSpec, FeedSpec, Feed!DispatchSpec
=============================================================================
