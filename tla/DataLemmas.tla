----------------------------- MODULE DataLemmas ------------------------------
(***************************************************************************)
(* Lemmas that the proofs of several components need: the least member of  *)
(* a set of naturals and subsets by their size, which stand in for         *)
(* induction (the induction theorems of the library have operators for     *)
(* parameters), and two operators of the community modules that recursive  *)
(* functions compute: FlattenSeq and the sum of MapThenSumSet.             *)
(***************************************************************************)
EXTENDS Integers, Sequences, FiniteSets, SequencesExt, FiniteSetTheorems,
        WellFoundedInduction, TLAPS

\* A set of naturals with a member has a least one.
LEMMA LeastMember ==
  ASSUME NEW T \in SUBSET Nat, T # {}
  PROVE  \E x \in T : \A y \in T : x <= y
<1>1. IsWellFoundedOn(OpToRel(<, Nat), Nat)
  BY NatLessThanWellFounded, Zenon
<1>2. PICK x \in T : \A y \in T : ~(<<y, x>> \in OpToRel(<, Nat))
  BY <1>1, WFMin, Zenon
<1>3. ASSUME NEW y \in T PROVE x <= y
  <2>1. ~(y < x)
    BY <1>2 DEF OpToRel
  <2>2. QED
    BY <2>1
<1>4. QED
  BY <1>3

\* A set that has a and the successor of each of its members in a..b has a..b.
LEMMA Upwards ==
  ASSUME NEW a \in Nat, NEW b \in Nat, NEW T, a \in T,
         \A n \in a..b : n \in T /\ n < b => n + 1 \in T
  PROVE  a..b \subseteq T
<1> DEFINE U == {n \in a..b : n \notin T}
<1>1. SUFFICES ASSUME U # {} PROVE FALSE
  OBVIOUS
<1>2. PICK x \in U : \A y \in U : x <= y
  <2>1. U \in SUBSET Nat
    OBVIOUS
  <2>2. QED
    BY <1>1, <2>1, LeastMember
<1>3. x # a /\ x - 1 \in a..b /\ x - 1 < b
  BY <1>2
<1>4. x - 1 \in T
  BY <1>2, <1>3
<1>5. (x - 1) + 1 \in T
  BY <1>3, <1>4
<1>6. QED
  BY <1>2, <1>5

LEMMA SeqElements ==
  ASSUME NEW S, NEW s \in Seq(S)
  PROVE  Len(s) \in Nat /\ \A i \in 1..Len(s) : s[i] \in S
OBVIOUS

LEMMA SeqEqual ==
  ASSUME NEW S, NEW s \in Seq(S), NEW t \in Seq(S), Len(s) = Len(t),
         \A i \in 1..Len(s) : s[i] = t[i]
  PROVE  s = t
OBVIOUS

LEMMA ConcatElements ==
  ASSUME NEW S, NEW s \in Seq(S), NEW t \in Seq(S)
  PROVE  /\ s \o t \in Seq(S) /\ Len(s \o t) = Len(s) + Len(t)
         /\ \A n \in 1..Len(s) : (s \o t)[n] = s[n]
         /\ \A n \in 1..Len(t) : (s \o t)[Len(s) + n] = t[n]
<1>1. s \o t \in Seq(S) /\ Len(s \o t) = Len(s) + Len(t) /\ Len(s) \in Nat /\ Len(t) \in Nat
  OBVIOUS
<1>2. ASSUME NEW n \in 1..Len(s) PROVE (s \o t)[n] = s[n]
  OBVIOUS
<1>3. ASSUME NEW n \in 1..Len(t) PROVE (s \o t)[Len(s) + n] = t[n]
  <2>1. Len(s) + n \in 1..(Len(s) + Len(t)) /\ (Len(s) + n) - Len(s) = n /\ Len(s) + n > Len(s)
    BY <1>1
  <2>2. QED
    BY <1>1, <2>1
<1>4. QED
  BY <1>1, <1>2, <1>3

LEMMA ConcatOne ==
  ASSUME NEW S, NEW s \in Seq(S), NEW t \in Seq(S)
  PROVE  Len(t) = 1 => s \o t = Append(s, t[1]) /\ t[1] \in S
<1> DEFINE k == Len(s)
           l == Len(t)
           u == s \o t
<1>1. /\ k \in Nat /\ l \in Nat /\ \A n \in 1..l : t[n] \in S
      /\ u \in Seq(S) /\ Len(u) = k + l
  OBVIOUS
<1>2. \A n \in 1..k : u[n] = s[n]
  OBVIOUS
<1>3. \A n \in 1..l : u[k + n] = t[n]
  BY ConcatElements
<1>4. ASSUME NEW x \in S
      PROVE  /\ Append(s, x) \in Seq(S) /\ Len(Append(s, x)) = k + 1
             /\ \A n \in 1..k : Append(s, x)[n] = s[n]
             /\ Append(s, x)[k + 1] = x
  OBVIOUS
<1> HIDE DEF k, l, u
<1>5. SUFFICES ASSUME l = 1 PROVE u = Append(s, t[1]) /\ t[1] \in S
  BY DEF l, u
<1>6. t[1] \in S /\ u[k + 1] = t[1]
  BY <1>1, <1>3, <1>5
<1> DEFINE v == Append(s, t[1])
<1>7. /\ v \in Seq(S) /\ Len(v) = k + 1 /\ v[k + 1] = t[1]
      /\ \A n \in 1..k : v[n] = s[n]
  BY <1>4, <1>6
<1> HIDE DEF v
<1>8. Len(u) = Len(v) /\ \A n \in 1..Len(u) : u[n] = v[n]
  BY <1>1, <1>2, <1>5, <1>6, <1>7
<1>9. u = v
  BY <1>1, <1>7, <1>8, SeqEqual
<1>10. QED
  BY <1>6, <1>9 DEF v

\* A prefix has the first elements.
LEMMA PrefixElements ==
  ASSUME NEW S, NEW s \in Seq(S), NEW t \in Seq(S)
  PROVE  IsPrefix(s, t) <=> Len(s) <= Len(t) /\ \A i \in 1..Len(s) : s[i] = t[i]
<1> DEFINE n == Len(s)
<1>1. SUFFICES ASSUME n <= Len(t)
               PROVE  SubSeq(s, 1, n) = SubSeq(t, 1, n) <=> \A i \in 1..n : s[i] = t[i]
  BY DEF IsPrefix
<1>2. n \in Nat /\ Len(t) \in Nat
  OBVIOUS
<1>3. /\ SubSeq(s, 1, n) \in Seq(S) /\ Len(SubSeq(s, 1, n)) = n
      /\ \A i \in 1..n : SubSeq(s, 1, n)[i] = s[i]
  <2>1. \A i \in 1..n : s[i] \in S
    OBVIOUS
  <2>2. QED
    BY <1>2, <2>1
<1>4. /\ SubSeq(t, 1, n) \in Seq(S) /\ Len(SubSeq(t, 1, n)) = n
      /\ \A i \in 1..n : SubSeq(t, 1, n)[i] = t[i]
  <2>1. \A i \in 1..n : t[i] \in S
    BY <1>1, <1>2
  <2>2. QED
    BY <1>1, <1>2, <2>1
<1> HIDE DEF n
<1>5. ASSUME NEW u \in Seq(S), NEW v \in Seq(S), Len(u) = n, Len(v) = n,
             \A i \in 1..n : u[i] = v[i]
      PROVE  u = v
  BY <1>5
<1>6. QED
  BY <1>3, <1>4, <1>5

(* ---- FlattenSeq ---- *)

\* The function that FlattenSeq computes: what the first i sequences give.
Flattens(s, g) ==
  g = [i \in 1..Len(s) |-> IF i = 1 THEN s[i] ELSE g[i - 1] \o s[i]]

LEMMA FlattensExists ==
  ASSUME NEW S, NEW s \in Seq(Seq(S))
  PROVE  \E g \in [1..Len(s) -> Seq(S)] : Flattens(s, g)
<1> DEFINE good(n, g) ==
             /\ g \in [1..n -> Seq(S)]
             /\ \A i \in 1..n : g[i] = IF i = 1 THEN s[i] ELSE g[i - 1] \o s[i]
           T == {n \in 0..Len(s) : \E g : good(n, g)}
<1>1. 0 \in T
  <2> DEFINE none == [i \in {} |-> <<>>]
  <2>1. 1..0 = {} /\ none \in [{} -> Seq(S)]
    OBVIOUS
  <2> HIDE DEF none
  <2>2. good(0, none)
    BY <2>1
  <2> HIDE DEF good
  <2>3. QED
    BY <2>2
<1>2. ASSUME NEW n \in 0..Len(s), n \in T, n < Len(s) PROVE n + 1 \in T
  <2>1. PICK g : good(n, g)
    BY <1>2
  <2> DEFINE h == [i \in 1..(n + 1) |->
                     IF i <= n THEN g[i]
                     ELSE IF i = 1 THEN s[i] ELSE g[i - 1] \o s[i]]
  <2>2. \A i \in 1..Len(s) : s[i] \in Seq(S)
    OBVIOUS
  <2>3. \A i \in 1..(n + 1) : (i <= n => i \in 1..n) /\ (i # 1 => i - 1 \in 1..n)
    BY <1>2
  <2>4. h \in [1..(n + 1) -> Seq(S)]
    <3>1. ASSUME NEW i \in 1..(n + 1) PROVE h[i] \in Seq(S)
      <4>1. CASE i <= n
        BY <2>1, <2>3, <4>1
      <4>2. CASE ~(i <= n) /\ i = 1
        BY <1>2, <2>2, <4>2
      <4>3. CASE ~(i <= n) /\ i # 1
        <5>1. g[i - 1] \in Seq(S) /\ s[i] \in Seq(S)
          BY <1>2, <2>1, <2>2, <2>3, <4>3
        <5>2. QED
          BY <4>3, <5>1
      <4>4. QED
        BY <4>1, <4>2, <4>3
    <3>2. QED
      BY <3>1
  <2>5. ASSUME NEW i \in 1..(n + 1)
        PROVE  h[i] = IF i = 1 THEN s[i] ELSE h[i - 1] \o s[i]
    <3>1. i # 1 => h[i - 1] = g[i - 1]
      BY <2>3
    <3>2. CASE i <= n
      <4>1. h[i] = g[i] /\ i \in 1..n
        BY <2>3, <3>2
      <4>2. QED
        BY <2>1, <3>1, <4>1
    <3>3. CASE ~(i <= n)
      BY <3>1, <3>3
    <3>4. QED
      BY <3>2, <3>3
  <2> HIDE DEF h
  <2>6. good(n + 1, h)
    BY <2>4, <2>5, Zenon
  <2> HIDE DEF good
  <2>7. QED
    BY <1>2, <2>6
<1> HIDE DEF T
<1>3. Len(s) \in Nat
  OBVIOUS
<1>4. Len(s) \in T
  <2>1. 0..Len(s) \subseteq T
    BY <1>1, <1>2, <1>3, Upwards
  <2>2. QED
    BY <1>3, <2>1
<1>5. PICK g : good(Len(s), g)
  BY <1>4, Zenon DEF T
<1>6. g \in [1..Len(s) -> Seq(S)]
  BY <1>5
<1>7. g = [i \in 1..Len(s) |-> g[i]]
  BY <1>6
<1>8. \A i \in 1..Len(s) : g[i] = IF i = 1 THEN s[i] ELSE g[i - 1] \o s[i]
  BY <1>5
<1>9. Flattens(s, g)
  BY <1>7, <1>8, Zenon DEF Flattens
<1>10. QED
  BY <1>6, <1>9

LEMMA FlattensTypes ==
  ASSUME NEW S, NEW s \in Seq(Seq(S)), NEW g, Flattens(s, g)
  PROVE  /\ g \in [1..Len(s) -> Seq(S)]
         /\ \A i \in 1..Len(s) : g[i] = IF i = 1 THEN s[i] ELSE g[i - 1] \o s[i]
<1> DEFINE T == {i \in 1..Len(s) : g[i] \in Seq(S)}
<1>1. \A i \in 1..Len(s) : g[i] = IF i = 1 THEN s[i] ELSE g[i - 1] \o s[i]
  BY DEF Flattens
<1>2. Len(s) \in Nat /\ \A i \in 1..Len(s) : s[i] \in Seq(S)
  OBVIOUS
<1>3. 1..Len(s) \subseteq T
  <2>1. CASE Len(s) = 0
    BY <2>1
  <2>2. CASE Len(s) # 0
    <3>1. 1 \in T
      BY <1>1, <1>2, <2>2
    <3>2. ASSUME NEW n \in 1..Len(s), n \in T, n < Len(s) PROVE n + 1 \in T
      <4>1. n + 1 \in 1..Len(s) /\ n + 1 # 1 /\ (n + 1) - 1 = n
        BY <1>2, <3>2
      <4>2. g[n + 1] = g[n] \o s[n + 1]
        BY <1>1, <4>1
      <4>3. g[n] \in Seq(S) /\ s[n + 1] \in Seq(S)
        BY <1>2, <3>2, <4>1
      <4>4. g[n + 1] \in Seq(S)
        BY <4>2, <4>3
      <4>5. QED
        BY <4>1, <4>4
    <3> HIDE DEF T
    <3>3. QED
      BY <1>2, <3>1, <3>2, Upwards
  <2>3. QED
    BY <2>1, <2>2
<1>4. g = [i \in 1..Len(s) |-> IF i = 1 THEN s[i] ELSE g[i - 1] \o s[i]]
  BY Zenon DEF Flattens
<1>5. g = [i \in 1..Len(s) |-> g[i]]
  BY <1>1, <1>4, Zenon
<1>6. g \in [1..Len(s) -> Seq(S)]
  BY <1>3, <1>5
<1>7. QED
  BY <1>1, <1>6

\* FlattenSeq is the last of a chain of concatenations.
Chains(s, g, n) ==
  g[1] = s[1] /\ \A i \in 1..n : i < n => g[i + 1] = g[i] \o s[i + 1]

\* Two chains over the same sequences agree as far as the shorter one goes.
LEMMA ChainsAgree ==
  ASSUME NEW n \in Nat \ {0}, NEW m \in Nat, n <= m, NEW s, NEW t, NEW g, NEW h,
         Chains(s, g, n), Chains(t, h, m), \A i \in 1..n : s[i] = t[i]
  PROVE  g[n] = h[n]
<1> DEFINE T == {i \in 1..n : g[i] = h[i]}
<1>1. n \in Nat /\ n \in 1..n /\ 1 \in 1..n
  OBVIOUS
<1>2. 1 \in T
  BY <1>1, Zenon DEF Chains
<1>3. ASSUME NEW i \in 1..n, i \in T, i < n PROVE i + 1 \in T
  <2>1. i + 1 \in 1..n /\ i \in 1..m /\ i < m
    BY <1>3
  <2>2. g[i + 1] = g[i] \o s[i + 1] /\ h[i + 1] = h[i] \o t[i + 1]
    BY <1>3, <2>1, Zenon DEF Chains
  <2>3. g[i] = h[i] /\ s[i + 1] = t[i + 1]
    BY <1>3, <2>1, Zenon
  <2>4. QED
    BY <2>1, <2>2, <2>3, Zenon
<1> HIDE DEF T
<1>4. 1..n \subseteq T
  BY <1>1, <1>2, <1>3, Upwards
<1>5. QED
  BY <1>1, <1>4, Zenon DEF T

LEMMA FlattenSeqChain ==
  ASSUME NEW S, NEW s \in Seq(Seq(S)), s # <<>>
  PROVE  \E g : /\ Flattens(s, g) /\ Chains(s, g, Len(s)) /\ FlattenSeq(s) = g[Len(s)]
                /\ \A i \in 1..Len(s) : g[i] \in Seq(S)
<1> DEFINE g == CHOOSE h : Flattens(s, h)
<1>1. Len(s) # 0 /\ Len(s) \in Nat
  OBVIOUS
<1>2. FlattenSeq(s) = g[Len(s)]
  BY <1>1 DEF FlattenSeq, Flattens
<1>3. \E h : Flattens(s, h)
  BY FlattensExists
<1>4. Flattens(s, g)
  BY <1>3
<1> HIDE DEF g
<1>5. g \in [1..Len(s) -> Seq(S)]
  BY <1>4, FlattensTypes
<1>6. \A i \in 1..Len(s) : g[i] = IF i = 1 THEN s[i] ELSE g[i - 1] \o s[i]
  BY <1>4, FlattensTypes
<1>7. g[1] = s[1]
  BY <1>1, <1>6
<1>8. ASSUME NEW i \in 1..Len(s), i < Len(s) PROVE g[i + 1] = g[i] \o s[i + 1]
  <2>1. i + 1 \in 1..Len(s) /\ i + 1 # 1 /\ (i + 1) - 1 = i
    BY <1>1, <1>8
  <2>2. QED
    BY <1>6, <2>1
<1>9. \A i \in 1..Len(s) : g[i] \in Seq(S)
  BY <1>5
<1>10. QED
  BY <1>2, <1>4, <1>7, <1>8, <1>9, Zenon DEF Chains

LEMMA FlattenSeqEmpty == FlattenSeq(<<>>) = <<>>
BY DEF FlattenSeq

LEMMA FlattenSeqType ==
  ASSUME NEW S, NEW s \in Seq(Seq(S))
  PROVE  FlattenSeq(s) \in Seq(S)
<1>1. CASE s = <<>>
  <2>1. FlattenSeq(s) = <<>>
    BY <1>1, FlattenSeqEmpty, Zenon
  <2>2. QED
    BY <2>1
<1>2. CASE s # <<>>
  <2>1. PICK g : FlattenSeq(s) = g[Len(s)] /\ \A i \in 1..Len(s) : g[i] \in Seq(S)
    BY <1>2, FlattenSeqChain, Zenon
  <2>2. Len(s) \in 1..Len(s)
    BY <1>2
  <2>3. QED
    BY <2>1, <2>2, Zenon
<1>3. QED
  BY <1>1, <1>2

\* What is appended to the sequence comes at the end of what is flattened.
LEMMA FlattenSeqAppend ==
  ASSUME NEW S, NEW s \in Seq(Seq(S)), NEW t \in Seq(S)
  PROVE  FlattenSeq(Append(s, t)) = FlattenSeq(s) \o t
<1> DEFINE u == Append(s, t)
<1>1. u \in Seq(Seq(S))
  OBVIOUS
<1>2. /\ Len(u) = Len(s) + 1 /\ u[Len(s) + 1] = t /\ Len(s) \in Nat
      /\ \A i \in 1..Len(s) : u[i] = s[i]
  OBVIOUS
<1> HIDE DEF u
<1>3. u # <<>>
  BY <1>2
<1>4. PICK h : Flattens(u, h) /\ Chains(u, h, Len(u)) /\ FlattenSeq(u) = h[Len(u)]
  BY <1>1, <1>3, FlattenSeqChain, Zenon
<1>5. CASE s = <<>>
  <2>1. Len(s) = 0
    BY <1>5
  <2>2. Len(u) = 1 /\ h[1] = t
    BY <1>2, <1>4, <2>1 DEF Chains
  <2>3. FlattenSeq(s) = <<>>
    BY <1>5, FlattenSeqEmpty, Zenon
  <2>4. FlattenSeq(u) = t
    BY <1>4, <2>2, Zenon
  <2>5. <<>> \o t = t
    OBVIOUS
  <2>6. QED
    BY <2>3, <2>4, <2>5, Zenon DEF u
<1>6. CASE s # <<>>
  <2>1. PICK g : Chains(s, g, Len(s)) /\ FlattenSeq(s) = g[Len(s)]
    BY <1>6, FlattenSeqChain, Zenon
  <2>2. Len(s) \in Nat \ {0} /\ Len(u) \in Nat /\ Len(s) <= Len(u)
    BY <1>1, <1>2, <1>6
  <2>3. \A i \in 1..Len(s) : s[i] = u[i]
    BY <1>2
  <2>4. g[Len(s)] = h[Len(s)]
    <3>1. Chains(s, g, Len(s)) /\ Chains(u, h, Len(u))
      BY <1>4, <2>1
    <3> DEFINE n == Len(s)
               m == Len(u)
    <3>2. /\ n \in Nat \ {0} /\ m \in Nat /\ n <= m
          /\ Chains(s, g, n) /\ Chains(u, h, m) /\ \A i \in 1..n : s[i] = u[i]
      BY <2>2, <2>3, <3>1
    <3> HIDE DEF n, m
    <3>3. g[n] = h[n]
      BY <3>2, ChainsAgree
    <3>4. QED
      BY <3>3 DEF n
  <2>5. Len(s) \in 1..Len(u) /\ Len(s) < Len(u)
    BY <1>2, <2>2
  <2>6. h[Len(s) + 1] = h[Len(s)] \o u[Len(s) + 1]
    BY <1>4, <2>5, Zenon DEF Chains
  <2>7. FlattenSeq(u) = FlattenSeq(s) \o t
    BY <1>2, <1>4, <2>1, <2>4, <2>6, Zenon
  <2>8. QED
    BY <2>7 DEF u
<1>7. QED
  BY <1>5, <1>6

\* Every element of a concatenation has a place of its own in its parts: at gives
\* the number of the part and the index in it.
Places(s, t, n, at) ==
  /\ at \in [1..Len(t) -> Nat \X Nat]
  /\ \A p \in 1..Len(t) : /\ at[p][1] \in 1..n /\ at[p][2] \in 1..Len(s[at[p][1]])
                          /\ t[p] = s[at[p][1]][at[p][2]]
  /\ \A p, q \in 1..Len(t) : at[p] = at[q] => p = q

LEMMA PlacesExtend ==
  ASSUME NEW S, NEW s, NEW t \in Seq(S), NEW n \in Nat, s[n + 1] \in Seq(S),
         NEW at, Places(s, t, n, at)
  PROVE  \E new : Places(s, t \o s[n + 1], n + 1, new)
<1> DEFINE k == Len(t)
           l == Len(s[n + 1])
           new == [p \in 1..(k + l) |-> IF p <= k THEN at[p] ELSE <<n + 1, p - k>>]
           u == t \o s[n + 1]
<1>1. /\ k \in Nat /\ l \in Nat /\ Len(u) = k + l
      /\ \A p \in 1..k : u[p] = t[p]
      /\ \A p \in 1..(k + l) : p > k => u[p] = s[n + 1][p - k]
  OBVIOUS
<1>2. /\ at \in [1..k -> Nat \X Nat]
      /\ \A p \in 1..k : /\ at[p][1] \in 1..n /\ at[p][2] \in 1..Len(s[at[p][1]])
                         /\ t[p] = s[at[p][1]][at[p][2]]
      /\ \A p, q \in 1..k : at[p] = at[q] => p = q
  BY DEF Places
<1> HIDE DEF k, u
<1>3. \A p \in 1..(k + l) :
        \/ p \in 1..k /\ new[p] = at[p]
        \/ p > k /\ p - k \in 1..l /\ new[p] = <<n + 1, p - k>>
  <2> HIDE DEF l
  <2>1. QED
    BY <1>1
<1> HIDE DEF l
<1>4. new \in [1..(k + l) -> Nat \X Nat]
  BY <1>1, <1>2
<1> HIDE DEF new
<1>5. ASSUME NEW p \in 1..(k + l)
      PROVE  /\ new[p][1] \in 1..(n + 1) /\ new[p][2] \in 1..Len(s[new[p][1]])
             /\ u[p] = s[new[p][1]][new[p][2]]
  <2>1. CASE p \in 1..k /\ new[p] = at[p]
    <3>1. /\ at[p][1] \in 1..n /\ at[p][2] \in 1..Len(s[at[p][1]])
          /\ t[p] = s[at[p][1]][at[p][2]] /\ u[p] = t[p]
      BY <1>1, <1>2, <2>1
    <3>2. 1..n \subseteq 1..(n + 1)
      OBVIOUS
    <3>3. QED
      BY <2>1, <3>1, <3>2, Zenon
  <2>2. CASE p > k /\ p - k \in 1..l /\ new[p] = <<n + 1, p - k>>
    <3>1. u[p] = s[n + 1][p - k]
      BY <1>1, <2>2
    <3>2. new[p][1] = n + 1 /\ new[p][2] = p - k /\ n + 1 \in 1..(n + 1)
      BY <2>2
    <3>3. QED
      BY <2>2, <3>1, <3>2, Zenon DEF l
  <2>3. QED
    BY <1>3, <2>1, <2>2
<1>6. ASSUME NEW p \in 1..(k + l), NEW q \in 1..(k + l), new[p] = new[q]
      PROVE  p = q
  <2>1. \A r \in 1..k : at[r][1] # n + 1
    BY <1>2
  <2>2. CASE new[p][1] = n + 1
    <3>1. new[p][2] = p - k /\ new[q][2] = q - k
      BY <1>3, <1>6, <2>1, <2>2
    <3>2. p - k = q - k
      BY <1>6, <3>1
    <3>3. QED
      BY <1>1, <3>2
  <2>3. CASE new[p][1] # n + 1
    <3>1. p \in 1..k /\ q \in 1..k /\ new[p] = at[p] /\ new[q] = at[q]
      BY <1>3, <1>6, <2>3
    <3>2. QED
      BY <1>2, <1>6, <3>1
  <2>4. QED
    BY <2>2, <2>3
<1>7. Places(s, u, n + 1, new)
  BY <1>1, <1>4, <1>5, <1>6, Zenon DEF Places
<1>8. QED
  BY <1>7 DEF u

LEMMA FlattenSeqPlaces ==
  ASSUME NEW S, NEW s \in Seq(Seq(S))
  PROVE  \E at : Places(s, FlattenSeq(s), Len(s), at)
<1>1. CASE s = <<>>
  <2>1. FlattenSeq(s) = <<>> /\ 1..Len(FlattenSeq(s)) = {}
    BY <1>1, FlattenSeqEmpty
  <2> DEFINE none == [p \in {} |-> <<0, 0>>]
  <2>2. none \in [{} -> Nat \X Nat]
    OBVIOUS
  <2> HIDE DEF none
  <2>3. Places(s, FlattenSeq(s), Len(s), none)
    BY <2>1, <2>2, Zenon DEF Places
  <2>4. QED
    BY <2>3
<1>2. CASE s # <<>>
  <2>1. PICK g : /\ Chains(s, g, Len(s)) /\ FlattenSeq(s) = g[Len(s)]
                 /\ \A i \in 1..Len(s) : g[i] \in Seq(S)
    BY <1>2, FlattenSeqChain, Zenon
  <2>2. Len(s) \in Nat /\ 1 \in 1..Len(s) /\ Len(s) \in 1..Len(s)
    BY <1>2
  <2>3. \A i \in 1..Len(s) : s[i] \in Seq(S)
    OBVIOUS
  <2> DEFINE T == {i \in 1..Len(s) : \E at : Places(s, g[i], i, at)}
  <2>4. 1 \in T
    <3> DEFINE one == [p \in 1..Len(s[1]) |-> <<1, p>>]
    <3>1. Len(s[1]) \in Nat /\ g[1] = s[1]
      BY <2>1, <2>2, <2>3 DEF Chains
    <3>2. one \in [1..Len(s[1]) -> Nat \X Nat]
      BY <3>1
    <3>3. \A p \in 1..Len(s[1]) : one[p][1] = 1 /\ one[p][2] = p
      OBVIOUS
    <3>4. 1 \in 1..1
      OBVIOUS
    <3> HIDE DEF one
    <3>5. Places(s, s[1], 1, one)
      BY <3>2, <3>3, <3>4, Zenon DEF Places
    <3>6. QED
      BY <2>2, <3>1, <3>5, Zenon
  <2>5. ASSUME NEW i \in 1..Len(s), i \in T, i < Len(s) PROVE i + 1 \in T
    <3>1. PICK at : Places(s, g[i], i, at)
      BY <2>5
    <3>2. i \in Nat /\ i + 1 \in 1..Len(s)
      BY <2>2, <2>5
    <3>3. g[i + 1] = g[i] \o s[i + 1]
      BY <2>1, <2>5 DEF Chains
    <3>4. g[i] \in Seq(S) /\ s[i + 1] \in Seq(S)
      BY <2>1, <2>3, <3>2, Zenon
    <3>5. \E new : Places(s, g[i] \o s[i + 1], i + 1, new)
      BY <3>1, <3>2, <3>4, PlacesExtend, Zenon
    <3>6. QED
      BY <3>2, <3>3, <3>5, Zenon
  <2> HIDE DEF T
  <2>6. 1..Len(s) \subseteq T
    <3>1. 1 \in Nat
      OBVIOUS
    <3>2. QED
      BY <2>2, <2>4, <2>5, <3>1, Upwards, Zenon
  <2>7. QED
    BY <2>1, <2>2, <2>6, Zenon DEF T
<1>3. QED
  BY <1>1, <1>2

\* A sequence is the concatenation of its elements.
LEMMA FlattenSeqOfSingles ==
  ASSUME NEW S, NEW t \in Seq(S)
  PROVE  FlattenSeq([n \in 1..Len(t) |-> <<t[n]>>]) = t
<1> DEFINE s == [n \in 1..Len(t) |-> <<t[n]>>]
<1>1. s \in Seq(Seq(S)) /\ Len(s) = Len(t) /\ Len(t) \in Nat
  OBVIOUS
<1>2. \A n \in 1..Len(t) : s[n] = <<t[n]>>
  OBVIOUS
<1> HIDE DEF s
<1>3. CASE s = <<>>
  <2>1. Len(t) = 0
    BY <1>1, <1>3
  <2>2. t = <<>>
    BY <2>1
  <2>3. FlattenSeq(s) = <<>>
    BY <1>3, FlattenSeqEmpty, Zenon
  <2>4. QED
    BY <2>2, <2>3, Zenon DEF s
<1>4. CASE s # <<>>
  <2>1. PICK g : /\ Chains(s, g, Len(s)) /\ FlattenSeq(s) = g[Len(s)]
                 /\ \A i \in 1..Len(s) : g[i] \in Seq(S)
    BY <1>1, <1>4, FlattenSeqChain, Zenon
  <2> DEFINE k == Len(t)
             T == {i \in 1..k : Len(g[i]) = i /\ \A j \in 1..i : g[i][j] = t[j]}
  <2>2. k \in Nat /\ 1 \in 1..k /\ k \in 1..k /\ 1 \in Nat
    BY <1>1, <1>4
  <2>3. \A i \in 1..k : g[i] \in Seq(S)
    BY <1>1, <2>1
  <2>4. 1 \in T
    <3>1. g[1] = <<t[1]>>
      BY <1>2, <2>1, <2>2 DEF Chains
    <3>2. Len(<<t[1]>>) = 1 /\ <<t[1]>>[1] = t[1] /\ 1..1 = {1}
      OBVIOUS
    <3>3. QED
      BY <2>2, <3>1, <3>2
  <2>5. ASSUME NEW i \in 1..k, i \in T, i < k PROVE i + 1 \in T
    <3>1. i + 1 \in 1..k /\ i \in Nat
      BY <2>2, <2>5
    <3>2. g[i + 1] = g[i] \o <<t[i + 1]>>
      <4>1. g[i + 1] = g[i] \o s[i + 1]
        BY <1>1, <2>1, <2>5 DEF Chains
      <4>2. QED
        BY <1>2, <3>1, <4>1
    <3>3. g[i] \in Seq(S) /\ Len(g[i]) = i /\ \A j \in 1..i : g[i][j] = t[j]
      BY <2>3, <2>5
    <3>4. t[i + 1] \in S
      BY <3>1
    <3> HIDE DEF k
    <3>5. Len(g[i + 1]) = i + 1 /\ \A j \in 1..(i + 1) : g[i + 1][j] = t[j]
      BY <3>1, <3>2, <3>3, <3>4
    <3>6. QED
      BY <3>1, <3>5
  <2> HIDE DEF k, T
  <2>6. 1..k \subseteq T
    BY <2>2, <2>4, <2>5, Upwards
  <2>7. g[k] \in Seq(S) /\ Len(g[k]) = k /\ \A j \in 1..k : g[k][j] = t[j]
    BY <2>2, <2>3, <2>6 DEF T
  <2>8. g[k] = t
    BY <2>7 DEF k
  <2>9. QED
    BY <1>1, <2>1, <2>8 DEF k, s
<1>5. QED
  BY <1>3, <1>4

(* ---- Sums ---- *)

\* The member that a sum takes first.
First(s) == CHOOSE x \in s : TRUE

\* The sums of f over subsets of S, as MapThenSumSet computes them.
Sums(S, f, g) ==
  \A s \in SUBSET S : g[s] = IF s = {} THEN 0 ELSE f[First(s)] + g[s \ {First(s)}]

\* The function that MapThenSumSet computes them with.
Summing(S, f, g) ==
  g = [s \in SUBSET S |-> IF s = {} THEN 0 ELSE f[First(s)] + g[s \ {First(s)}]]

LEMMA FirstIsMember ==
  ASSUME NEW S, IsFiniteSet(S), NEW s \in SUBSET S, s # {}
  PROVE  /\ First(s) \in s /\ s \ {First(s)} \in SUBSET S
         /\ Cardinality(s) \in Nat /\ Cardinality(s) > 0
         /\ Cardinality(s \ {First(s)}) = Cardinality(s) - 1
<1>1. First(s) \in s
  BY DEF First
<1>2. IsFiniteSet(s) /\ Cardinality(s) \in Nat
  BY FS_Subset, FS_CardinalityType
<1>3. Cardinality(s) # 0
  BY <1>2, FS_EmptySet
<1>4. Cardinality(s \ {First(s)}) = Cardinality(s) - 1
  BY <1>1, <1>2, FS_RemoveElement
<1>5. QED
  BY <1>1, <1>2, <1>3, <1>4

\* A property of the empty set that each other subset has if the smaller ones
\* have it is one of all subsets.
LEMMA BySize ==
  ASSUME NEW S, IsFiniteSet(S), NEW T,
         \A s \in SUBSET S :
           (\A r \in SUBSET S : Cardinality(r) < Cardinality(s) => r \in T) => s \in T
  PROVE  SUBSET S \subseteq T
<1> DEFINE Bad == {s \in SUBSET S : s \notin T}
           Sizes == {Cardinality(s) : s \in Bad}
<1>1. \A s \in SUBSET S : Cardinality(s) \in Nat
  BY FS_Subset, FS_CardinalityType
<1>2. SUFFICES ASSUME Bad # {} PROVE FALSE
  OBVIOUS
<1>3. Sizes \in SUBSET Nat /\ Sizes # {}
  BY <1>1, <1>2
<1>4. PICK n \in Sizes : \A m \in Sizes : n <= m
  BY <1>3, LeastMember
<1>5. PICK s \in Bad : n = Cardinality(s)
  BY <1>4
<1>6. ASSUME NEW r \in SUBSET S, Cardinality(r) < Cardinality(s) PROVE r \in T
  <2>1. CASE r \in Bad
    <3>1. n <= Cardinality(r)
      BY <1>4, <2>1
    <3>2. QED
      BY <1>1, <1>5, <1>6, <3>1
  <2>2. QED
    BY <2>1
<1>7. QED
  BY <1>5, <1>6

LEMMA SumsAgree ==
  ASSUME NEW S, IsFiniteSet(S), NEW U, IsFiniteSet(U), NEW f, NEW e, NEW g, NEW h,
         Sums(S, f, g), Sums(U, e, h), S \subseteq U, \A x \in S : f[x] = e[x]
  PROVE  \A s \in SUBSET S : g[s] = h[s]
<1> DEFINE T == {s \in SUBSET S : g[s] = h[s]}
<1>1. ASSUME NEW s \in SUBSET S,
             \A r \in SUBSET S : Cardinality(r) < Cardinality(s) => r \in T
      PROVE  s \in T
  <2>1. CASE s = {}
    <3>1. g[s] = 0 /\ h[s] = 0
      BY <2>1 DEF Sums
    <3>2. QED
      BY <3>1
  <2>2. CASE s # {}
    <3>1. /\ First(s) \in S /\ s \ {First(s)} \in SUBSET S
          /\ Cardinality(s \ {First(s)}) < Cardinality(s)
      BY <2>2, FirstIsMember
    <3>2. g[s \ {First(s)}] = h[s \ {First(s)}]
      BY <1>1, <3>1
    <3>3. g[s] = f[First(s)] + g[s \ {First(s)}]
      BY <2>2, Zenon DEF Sums
    <3>4. h[s] = e[First(s)] + h[s \ {First(s)}]
      <4>1. s \in SUBSET U
        OBVIOUS
      <4>2. QED
        BY <2>2, <4>1, Zenon DEF Sums
    <3>5. f[First(s)] = e[First(s)]
      BY <3>1
    <3>6. g[s] = h[s]
      BY <3>2, <3>3, <3>4, <3>5
    <3>7. QED
      BY <3>6
  <2>3. QED
    BY <2>1, <2>2
<1> HIDE DEF T
<1>2. SUBSET S \subseteq T
  BY <1>1, BySize, Zenon
<1>3. QED
  BY <1>2 DEF T

\* In whichever order they are added.
LEMMA SumOfMore ==
  ASSUME NEW S, IsFiniteSet(S), NEW f, NEW g, Sums(S, f, g), \A x \in S : f[x] \in Int
  PROVE  \A s \in SUBSET S : /\ g[s] \in Int
                             /\ \A x \in s : g[s] = f[x] + g[s \ {x}]
<1> DEFINE Fine(s) == /\ g[s] \in Int
                      /\ \A x \in s : g[s] = f[x] + g[s \ {x}]
           T == {s \in SUBSET S : Fine(s)}
<1> HIDE DEF Fine, T
<1>1. ASSUME NEW s \in SUBSET S,
             \A r \in SUBSET S : Cardinality(r) < Cardinality(s) => r \in T
      PROVE  Fine(s)
  <2>1. CASE s = {}
    <3>1. g[s] = 0
      BY <2>1 DEF Sums
    <3>2. QED
      BY <2>1, <3>1 DEF Fine
  <2>2. CASE s # {}
    <3> DEFINE c == First(s)
    <3>1. /\ c \in s /\ s \ {c} \in SUBSET S /\ Cardinality(s) \in Nat
          /\ Cardinality(s \ {c}) = Cardinality(s) - 1
      BY <2>2, FirstIsMember
    <3>2. g[s] = f[c] + g[s \ {c}]
      BY <2>2, Zenon DEF Sums
    <3> HIDE DEF c
    <3>3. Fine(s \ {c})
      <4>1. s \ {c} \in T
        BY <1>1, <3>1
      <4>2. QED
        BY <4>1 DEF T
    <3>4. f[c] \in Int /\ g[s] \in Int
      <4>1. f[c] \in Int /\ g[s \ {c}] \in Int
        BY <3>1, <3>3 DEF Fine
      <4>2. QED
        BY <3>2, <4>1
    <3>5. ASSUME NEW x \in s, x # c PROVE g[s] = f[x] + g[s \ {x}]
      <4> DEFINE both == s \ {c, x}
      <4>1. (s \ {c}) \ {x} = both /\ (s \ {x}) \ {c} = both
        OBVIOUS
      <4>2. s \ {x} \in SUBSET S /\ Cardinality(s \ {x}) < Cardinality(s)
        <5>1. IsFiniteSet(s)
          BY FS_Subset
        <5>2. Cardinality(s \ {x}) = Cardinality(s) - 1
          BY <5>1, FS_RemoveElement
        <5>3. QED
          BY <3>1, <5>2
      <4>3. Fine(s \ {x})
        <5>1. s \ {x} \in T
          BY <1>1, <4>2
        <5>2. QED
          BY <5>1 DEF T
      <4>4. g[s \ {x}] = f[c] + g[both]
        <5>1. c \in s \ {x}
          BY <3>1, <3>5
        <5>2. g[s \ {x}] = f[c] + g[(s \ {x}) \ {c}]
          BY <4>3, <5>1 DEF Fine
        <5>3. QED
          BY <4>1, <5>2
      <4>5. g[s \ {c}] = f[x] + g[both]
        <5>1. x \in s \ {c}
          BY <3>5
        <5>2. g[s \ {c}] = f[x] + g[(s \ {c}) \ {x}]
          BY <3>3, <5>1 DEF Fine
        <5>3. QED
          BY <4>1, <5>2
      <4>6. f[x] \in Int /\ g[both] \in Int
        <5>1. f[x] \in Int
          OBVIOUS
        <5>2. both \in T
          <6>1. both \in SUBSET S /\ IsFiniteSet(s \ {c})
            BY FS_Subset, <3>1
          <6>2. Cardinality(both) = Cardinality(s \ {c}) - 1
            <7>1. x \in s \ {c}
              BY <3>5
            <7>2. Cardinality((s \ {c}) \ {x}) = Cardinality(s \ {c}) - 1
              BY <6>1, <7>1, FS_RemoveElement
            <7>3. QED
              BY <4>1, <7>2
          <6>3. Cardinality(both) < Cardinality(s)
            BY <3>1, <6>2
          <6>4. QED
            BY <1>1, <6>1, <6>3
        <5>3. QED
          BY <5>1, <5>2 DEF T, Fine
      <4> HIDE DEF both
      <4>7. QED
        BY <3>2, <3>4, <4>4, <4>5, <4>6
    <3>6. QED
      BY <3>2, <3>4, <3>5 DEF Fine
  <2>3. QED
    BY <2>1, <2>2
<1>2. \A s \in SUBSET S :
        (\A r \in SUBSET S : Cardinality(r) < Cardinality(s) => r \in T) => s \in T
  BY <1>1 DEF T
<1>3. SUBSET S \subseteq T
  BY <1>2, BySize, Zenon
<1>4. QED
  BY <1>3 DEF T, Fine

LEMMA SumsExist ==
  ASSUME NEW S, IsFiniteSet(S), NEW f
  PROVE  \E g : Summing(S, f, g)
<1> DEFINE Good(n, g) ==
             \A s \in SUBSET S : Cardinality(s) <= n =>
               g[s] = IF s = {} THEN 0 ELSE f[First(s)] + g[s \ {First(s)}]
           T == {n \in Nat : \E g : Good(n, g)}
<1>1. \A s \in SUBSET S : Cardinality(s) \in Nat /\ (Cardinality(s) = 0 => s = {})
  BY FS_Subset, FS_CardinalityType, FS_EmptySet
<1>2. 0 \in T
  <2> DEFINE none == [s \in SUBSET S |-> 0]
  <2>1. Good(0, none)
    BY <1>1
  <2>2. QED
    BY <2>1
<1>3. ASSUME NEW n \in Nat, n \in T PROVE n + 1 \in T
  <2>1. PICK g : Good(n, g)
    BY <1>3
  <2> DEFINE h == [s \in SUBSET S |->
                     IF s = {} THEN 0 ELSE f[First(s)] + g[s \ {First(s)}]]
  <2>2. ASSUME NEW s \in SUBSET S, Cardinality(s) <= n PROVE h[s] = g[s]
    BY <2>1, <2>2
  <2>3. ASSUME NEW s \in SUBSET S, Cardinality(s) <= n + 1
        PROVE  h[s] = IF s = {} THEN 0 ELSE f[First(s)] + h[s \ {First(s)}]
    <3>1. CASE s = {}
      BY <3>1
    <3>2. CASE s # {}
      <4>1. s \ {First(s)} \in SUBSET S /\ Cardinality(s \ {First(s)}) <= n
        BY <2>3, <3>2, FirstIsMember
      <4>2. h[s \ {First(s)}] = g[s \ {First(s)}]
        BY <2>2, <4>1
      <4>3. QED
        BY <3>2, <4>2
    <3>3. QED
      BY <3>1, <3>2
  <2> HIDE DEF h
  <2>4. Good(n + 1, h)
    BY <2>3
  <2> HIDE DEF Good
  <2>5. QED
    BY <2>4
<1> HIDE DEF T
<1>4. Cardinality(S) \in Nat /\ \A s \in SUBSET S : Cardinality(s) <= Cardinality(S)
  BY FS_Subset, FS_CardinalityType
<1>5. Cardinality(S) \in T
  <2>1. \A n \in 0..Cardinality(S) : n \in T /\ n < Cardinality(S) => n + 1 \in T
    BY <1>3
  <2>2. 0..Cardinality(S) \subseteq T
    BY <1>2, <1>4, <2>1, Upwards
  <2>3. QED
    BY <1>4, <2>2
<1>6. PICK g : Good(Cardinality(S), g)
  BY <1>5 DEF T
<1> DEFINE k == [s \in SUBSET S |-> g[s]]
<1>7. \A s \in SUBSET S : g[s] = IF s = {} THEN 0 ELSE f[First(s)] + g[s \ {First(s)}]
  BY <1>4, <1>6
<1>8. ASSUME NEW s \in SUBSET S
      PROVE  k[s] = IF s = {} THEN 0 ELSE f[First(s)] + k[s \ {First(s)}]
  <2>1. s \ {First(s)} \in SUBSET S
    OBVIOUS
  <2>2. k[s] = g[s] /\ k[s \ {First(s)}] = g[s \ {First(s)}]
    BY <2>1
  <2>3. QED
    BY <1>7, <2>2
<1>9. k = [s \in SUBSET S |-> k[s]]
  OBVIOUS
<1> HIDE DEF k
<1>10. k = [s \in SUBSET S |-> IF s = {} THEN 0 ELSE f[First(s)] + k[s \ {First(s)}]]
  BY <1>8, <1>9
<1>11. QED
  BY <1>10 DEF Summing
=============================================================================
