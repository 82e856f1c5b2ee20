--------------------------- MODULE SessionProofs ----------------------------
(***************************************************************************)
(* Proofs about what a session and its agents use: the sub-agents of a     *)
(* dispatch (SubAgents), the dispatch of subtasks (Dispatch), the pool of  *)
(* MCP clients (Pool), the memory of an employee (Brain), the agent loop   *)
(* (AgentTurn) and what fits into its requests (Selection), for any number *)
(* of calls, permits, subtasks, employees, servers, coroutines, processes, *)
(* writes, rounds, messages and tools.                                     *)
(***************************************************************************)
EXTENDS SubAgents, Dispatch, Pool, Brain, AgentTurn, Selection,
        FiniteSetTheorems, DataLemmas, TLAPS

(* ---- SubAgents ---- *)

\* The queue holds waiting agents only, and none of them twice.
QueueInv ==
  /\ waiters \in Seq(Agents)
  /\ \A i, j \in 1..Len(waiters) : waiters[i] = waiters[j] => i = j
  /\ \A i \in 1..Len(waiters) : pc[waiters[i]] = "queued"

PcInv == pc \in [Agents -> Locations] /\ permits \in Nat

Conserved == PcInv /\ QueueInv /\ PermitsConserved

Holding == {"granted", "starting", "reading", "waiting", "timingOut",
            "cancelling"}

Own(a) == IF pc[a] \in Holding THEN 1 ELSE 0

LEMMA HoldersFinite ==
  /\ IsFiniteSet(Holders) /\ Cardinality(Holders) \in Nat
  /\ \A a \in Agents : /\ IsFiniteSet(Holders \ {a})
                       /\ Cardinality(Holders \ {a}) \in Nat
                       /\ Cardinality(Holders)
                            = Cardinality(Holders \ {a}) + Own(a)
<1>1. IsFiniteSet(Holders) /\ Cardinality(Holders) \in Nat
  BY AgentsAssumption, FS_Subset, FS_CardinalityType DEF Holders
<1>2. ASSUME NEW a \in Agents
      PROVE  /\ IsFiniteSet(Holders \ {a})
             /\ Cardinality(Holders \ {a}) \in Nat
             /\ Cardinality(Holders) = Cardinality(Holders \ {a}) + Own(a)
  <2>1. IsFiniteSet(Holders \ {a}) /\ Cardinality(Holders \ {a}) \in Nat
    BY <1>1, FS_Subset, FS_CardinalityType
  <2>2. CASE pc[a] \in Holding
    <3>1. a \in Holders
      BY <2>2 DEF Holders, Holding
    <3>2. Cardinality(Holders \ {a}) = Cardinality(Holders) - 1
      BY <1>1, <3>1, FS_RemoveElement
    <3>3. QED
      BY <1>1, <2>1, <2>2, <3>2 DEF Own
  <2>3. CASE pc[a] \notin Holding
    <3>1. Holders \ {a} = Holders
      BY <2>3 DEF Holders, Holding
    <3>2. QED
      BY <1>1, <2>1, <2>3, <3>1 DEF Own
  <2>4. QED
    BY <2>1, <2>2, <2>3
<1>3. QED
  BY <1>1, <1>2

\* The first n of a queue without repetitions are n agents.
LEMMA PrefixCardinality ==
  ASSUME NEW w \in Seq(Agents), NEW n \in 0..Len(w),
         \A i, j \in 1..Len(w) : w[i] = w[j] => i = j
  PROVE  /\ ToSet(SubSeq(w, 1, n)) = {w[i] : i \in 1..n}
         /\ IsFiniteSet({w[i] : i \in 1..n})
         /\ Cardinality({w[i] : i \in 1..n}) = n
<1>1. Len(w) \in Nat /\ n \in Nat /\ n <= Len(w)
  OBVIOUS
<1>2. ToSet(SubSeq(w, 1, n)) = {w[i] : i \in 1..n}
  <2>1. Len(SubSeq(w, 1, n)) = n /\ DOMAIN SubSeq(w, 1, n) = 1..n
    BY <1>1
  <2>2. \A i \in 1..n : SubSeq(w, 1, n)[i] = w[i]
    BY <1>1
  <2>3. ToSet(SubSeq(w, 1, n)) = {SubSeq(w, 1, n)[i] : i \in 1..n}
    BY <2>1, Zenon DEF ToSet
  <2>4. QED
    BY <2>2, <2>3
<1>3. IsFiniteSet(1..n) /\ Cardinality(1..n) = n
  BY <1>1, FS_Interval
<1> DEFINE T == {w[i] : i \in 1..n}
           f == [i \in 1..n |-> w[i]]
<1>4. f \in Bijection(1..n, T)
  <2>1. f \in [1..n -> T] /\ \A t \in T : \E i \in 1..n : f[i] = t
    OBVIOUS
  <2>2. \A i, j \in 1..n : f[i] = f[j] => i = j
    BY <1>1
  <2>3. QED
    BY <2>1, <2>2 DEF Bijection, Injection, Surjection, IsInjective
<1>5. IsFiniteSet(T) /\ Cardinality(T) = n
  BY <1>3, <1>4, FS_Bijection DEF ExistsBijection
<1>6. QED
  BY <1>2, <1>5

\* Handing permits to the head of the queue keeps the account: the permits and
\* the holders other than a are what they were, and a holds one or does not.
LEMMA MoveConserves ==
  ASSUME PcInv, NEW a \in Agents, NEW l \in Locations \ {"queued"},
         NEW w \in Seq(Agents), NEW n \in 0..Len(w), NEW value \in Nat,
         n <= value,
         \A i, j \in 1..Len(w) : w[i] = w[j] => i = j,
         \A i \in 1..Len(w) : pc[w[i]] = "queued" /\ w[i] # a,
         value + Cardinality(Holders \ {a}) + (IF l \in Holding THEN 1 ELSE 0)
           = MaxConcurrent,
         Move(a, l, w, n, value)
  PROVE  Conserved'
<1> DEFINE T == {w[i] : i \in 1..n}
<1>1. /\ ToSet(SubSeq(w, 1, n)) = T /\ IsFiniteSet(T) /\ Cardinality(T) = n
      /\ Len(w) \in Nat /\ n \in Nat /\ n <= Len(w)
  <2>1. ToSet(SubSeq(w, 1, n)) = T /\ IsFiniteSet(T) /\ Cardinality(T) = n
    BY PrefixCardinality, Zenon
  <2>2. QED
    BY <2>1
<1>2. /\ T \subseteq Agents /\ a \notin T
      /\ \A b \in T : pc[b] = "queued"
  BY <1>1
<1>3. \A b \in Agents :
        pc'[b] = IF b = a THEN l ELSE IF b \in T THEN "granted" ELSE pc[b]
  BY <1>1 DEF Move
<1>4. PcInv'
  <2>1. pc' \in [Agents -> Locations]
    BY <1>3 DEF Move, PcInv, Locations
  <2>2. permits' \in Nat
    BY <1>1 DEF Move
  <2>3. QED
    BY <2>1, <2>2 DEF PcInv
<1>5. QueueInv'
  <2>1. /\ waiters' = SubSeq(w, n + 1, Len(w)) /\ waiters' \in Seq(Agents)
        /\ Len(waiters') = Len(w) - n
        /\ \A i \in 1..(Len(w) - n) : waiters'[i] = w[i + n]
    BY <1>1 DEF Move
  <2>2. ASSUME NEW i \in 1..Len(waiters'), NEW j \in 1..Len(waiters'),
               waiters'[i] = waiters'[j]
        PROVE  i = j
    <3>1. /\ i + n \in 1..Len(w) /\ waiters'[i] = w[i + n]
          /\ j + n \in 1..Len(w) /\ waiters'[j] = w[j + n]
      BY <1>1, <2>1
    <3>2. i + n = j + n
      BY <2>2, <3>1
    <3>3. QED
      BY <1>1, <2>1, <3>2
  <2>3. ASSUME NEW i \in 1..Len(waiters')
        PROVE  pc'[waiters'[i]] = "queued"
    <3>1. i + n \in 1..Len(w) /\ waiters'[i] = w[i + n] /\ i + n \notin 1..n
      BY SMTT(30), <1>1, <2>1
    <3>2. w[i + n] \notin T
      BY <1>1, <3>1
    <3>3. pc[w[i + n]] = "queued" /\ w[i + n] # a /\ w[i + n] \in Agents
      BY <3>1
    <3>4. QED
      BY <1>3, <3>1, <3>2, <3>3
  <2>4. QED
    BY <2>1, <2>2, <2>3 DEF QueueInv
<1>6. PermitsConserved'
  <2> DEFINE H == Holders \ {a}
  <2>1. /\ IsFiniteSet(H) /\ Cardinality(H) \in Nat /\ H \cap T = {}
        /\ a \notin H
    BY <1>2, HoldersFinite DEF Holders
  <2>2. IsFiniteSet(H \cup T) /\ Cardinality(H \cup T) = Cardinality(H) + n
    <3>1. Cardinality(H \cap T) = 0
      BY <2>1, FS_EmptySet
    <3>2. /\ IsFiniteSet(H \cup T)
          /\ Cardinality(H \cup T)
               = Cardinality(H) + Cardinality(T) - Cardinality(H \cap T)
      BY <1>1, <2>1, FS_Union, Zenon
    <3>3. QED
      BY <1>1, <2>1, <3>1, <3>2
  <2>3. permits' = value - n
    BY DEF Move
  <2>4. CASE l \in Holding
    <3>1. Holders' = (H \cup T) \cup {a}
      BY <1>2, <1>3, <2>4 DEF Holders, Holding
    <3>2. Cardinality(Holders') = Cardinality(H) + n + 1
      <4>1. IsFiniteSet(H \cup T) /\ a \notin H \cup T
        BY <1>2, <2>1, <2>2
      <4>2. Cardinality((H \cup T) \cup {a}) = Cardinality(H \cup T) + 1
        BY <4>1, FS_AddElement, Zenon
      <4>3. QED
        BY <2>1, <2>2, <3>1, <4>2
    <3>3. QED
      BY <1>1, <2>1, <2>3, <2>4, <3>2, MaxConcurrentAssumption
      DEF PermitsConserved
  <2>5. CASE l \notin Holding
    <3>1. Holders' = H \cup T
      BY <1>2, <1>3, <2>5 DEF Holders, Holding
    <3>2. QED
      BY <1>1, <2>1, <2>2, <2>3, <2>5, <3>1, MaxConcurrentAssumption
      DEF PermitsConserved
  <2>6. QED
    BY <2>4, <2>5
<1>7. QED
  BY <1>4, <1>5, <1>6 DEF Conserved

\* A free permit is on its way to the queue, if anything was handed over, or
\* if nothing is left of the queue or of the permits.
LEMMA MoveHandsOver ==
  ASSUME PcInv, NEW a \in Agents, NEW l \in Locations,
         NEW w \in Seq(Agents), NEW n \in 0..Len(w), NEW value \in Nat,
         \A i \in 1..Len(w) : w[i] # a,
         Move(a, l, w, n, value),
         n >= 1 \/ n = Len(w) \/ n = value
  PROVE  NoStrandedWaiter'
<1>1. CASE n >= 1
  <2>1. 1 \in 1..Len(w) /\ w[1] \in Agents /\ w[1] # a
    BY <1>1
  <2>2. SubSeq(w, 1, n)[1] = w[1] /\ 1 \in DOMAIN SubSeq(w, 1, n)
    BY <1>1
  <2>3. w[1] \in ToSet(SubSeq(w, 1, n))
    BY <2>2 DEF ToSet
  <2>4. pc'[w[1]] = "granted"
    BY <2>1, <2>3 DEF Move
  <2>5. QED
    BY <2>1, <2>4 DEF NoStrandedWaiter
<1>2. CASE n = Len(w)
  <2>1. waiters' = <<>>
    BY <1>2 DEF Move
  <2>2. QED
    BY <2>1 DEF NoStrandedWaiter
<1>3. CASE n = value
  BY <1>3 DEF Move, NoStrandedWaiter
<1>4. QED
  BY <1>1, <1>2, <1>3

SemInv == Conserved /\ NoStrandedWaiter

\* Whoever owns a permit can give it up.
LEMMA ReleaseStep ==
  ASSUME SemInv, NEW a \in Agents, pc[a] \in Holding,
         NEW l \in {"returned", "raised", "broken", "abandoned"}, ReleaseTo(a, l)
  PROVE  SemInv'
<1> DEFINE n == IF waiters = <<>> THEN 0 ELSE 1
<1>1. /\ waiters \in Seq(Agents) /\ permits \in Nat
      /\ \A i \in 1..Len(waiters) : pc[waiters[i]] = "queued" /\ waiters[i] # a
  BY DEF SemInv, Conserved, QueueInv, PcInv, Holding
<1>2. n \in 0..Len(waiters) /\ (n >= 1 \/ n = Len(waiters)) /\ n <= permits + 1
  BY <1>1
<1>3. permits + 1 + Cardinality(Holders \ {a}) + 0 = MaxConcurrent
  <2>1. /\ Cardinality(Holders) = Cardinality(Holders \ {a}) + 1
        /\ Cardinality(Holders \ {a}) \in Nat
    BY HoldersFinite DEF Own
  <2>2. permits + Cardinality(Holders) = MaxConcurrent
    BY DEF SemInv, Conserved, PermitsConserved
  <2>3. QED
    BY <1>1, <2>1, <2>2
<1>4. l \in Locations \ {"queued"} /\ l \notin Holding
  BY DEF Locations, Holding
<1>5. Move(a, l, waiters, n, permits + 1)
  BY DEF ReleaseTo
<1>6. Conserved'
  <2>1. permits + 1 + Cardinality(Holders \ {a})
          + (IF l \in Holding THEN 1 ELSE 0) = MaxConcurrent
    BY <1>3, <1>4
  <2>2. permits + 1 \in Nat /\ PcInv
        /\ \A i, j \in 1..Len(waiters) : waiters[i] = waiters[j] => i = j
    BY <1>1 DEF SemInv, Conserved, QueueInv
  <2> HIDE DEF n
  <2>3. QED
    BY <1>1, <1>2, <1>4, <1>5, <2>1, <2>2, MoveConserves
<1>7. NoStrandedWaiter'
  <2>1. permits + 1 \in Nat /\ PcInv
    BY <1>1 DEF SemInv, Conserved
  <2> HIDE DEF n
  <2>2. QED
    BY <1>1, <1>2, <1>4, <1>5, <2>1, MoveHandsOver
<1>8. QED
  BY <1>6, <1>7 DEF SemInv

\* The end of acquire(), with the permit kept or given back.
LEMMA WakeStep ==
  ASSUME SemInv, NEW a \in Agents, NEW l \in Locations \ {"queued"},
         NEW w \in Seq(Agents), NEW value \in Nat,
         \A i, j \in 1..Len(w) : w[i] = w[j] => i = j,
         \A i \in 1..Len(w) : pc[w[i]] = "queued" /\ w[i] # a,
         value + Cardinality(Holders \ {a}) + (IF l \in Holding THEN 1 ELSE 0)
           = MaxConcurrent,
         WakeAll(a, l, w, value)
  PROVE  SemInv'
<1> DEFINE n == IF value < Len(w) THEN value ELSE Len(w)
<1>1. /\ n \in 0..Len(w) /\ n <= value /\ (n = Len(w) \/ n = value)
      /\ PcInv /\ Move(a, l, w, n, value)
  BY DEF WakeAll, SemInv, Conserved
<1> HIDE DEF n
<1>2. Conserved'
  BY <1>1, MoveConserves
<1>3. NoStrandedWaiter'
  BY <1>1, MoveHandsOver
<1>4. QED
  BY <1>2, <1>3 DEF SemInv

\* A permit is kept while its owner moves on.
LEMMA KeepStep ==
  ASSUME SemInv, NEW a \in Agents, pc[a] \in Holding \ {"granted"},
         NEW l \in Holding, pc' = [pc EXCEPT ![a] = l], UNCHANGED semVars
  PROVE  SemInv'
<1> USE DEF SemInv, Conserved, semVars
<1>1. \A b \in Agents : pc'[b] = IF b = a THEN l ELSE pc[b]
  BY DEF PcInv
<1>2. PcInv'
  BY DEF PcInv, Holding, Locations
<1>3. Holders' = Holders
  BY <1>1 DEF Holders, Holding
<1>4. QueueInv'
  <2>1. \A i \in 1..Len(waiters) : waiters[i] \in Agents /\ waiters[i] # a
    BY DEF QueueInv, Holding
  <2>2. QED
    BY <1>1, <2>1 DEF QueueInv
<1>5. PermitsConserved' /\ NoStrandedWaiter'
  BY <1>1, <1>3 DEF PermitsConserved, NoStrandedWaiter
<1>6. QED
  BY <1>2, <1>4, <1>5

LEMMA SpawnStepInv ==
  ASSUME SemInv, NEW a \in Agents, Spawn(a)
  PROVE  SemInv'
<1> USE DEF SemInv, Conserved
<1>1. pc[a] = "idle" /\ PcInv /\ a \notin Holders
  BY DEF Spawn, Holders
<1>2. \A i \in 1..Len(waiters) : waiters[i] \in Agents /\ waiters[i] # a
  BY <1>1 DEF QueueInv
<1>3. CASE /\ permits > 0 /\ waiters = <<>>
           /\ permits' = permits - 1 /\ UNCHANGED waiters
           /\ pc' = [pc EXCEPT ![a] = "starting"]
  <2>1. \A b \in Agents : pc'[b] = IF b = a THEN "starting" ELSE pc[b]
    BY <1>1, <1>3 DEF PcInv
  <2>2. PcInv'
    BY <1>3 DEF PcInv, Locations
  <2>3. QueueInv' /\ NoStrandedWaiter'
    BY <1>3, <2>1 DEF QueueInv, NoStrandedWaiter
  <2>4. Holders' = Holders \cup {a}
    BY <2>1 DEF Holders
  <2>5. Cardinality(Holders') = Cardinality(Holders) + 1
    BY <1>1, <2>4, HoldersFinite, FS_AddElement
  <2>6. PermitsConserved'
    BY <1>3, <2>5, HoldersFinite, MaxConcurrentAssumption
    DEF PermitsConserved, PcInv
  <2>7. QED
    BY <2>2, <2>3, <2>6
<1>4. CASE /\ ~(/\ permits > 0 /\ waiters = <<>>
                /\ \A b \in Agents : pc[b] # "granted")
           /\ waiters' = Append(waiters, a) /\ UNCHANGED permits
           /\ pc' = [pc EXCEPT ![a] = "queued"]
  <2>1. \A b \in Agents : pc'[b] = IF b = a THEN "queued" ELSE pc[b]
    BY <1>1, <1>4 DEF PcInv
  <2>2. PcInv'
    BY <1>4 DEF PcInv, Locations
  <2>3. QueueInv'
    <3>1. /\ waiters \in Seq(Agents) /\ waiters' \in Seq(Agents)
          /\ Len(waiters') = Len(waiters) + 1
          /\ \A i \in 1..Len(waiters') :
               waiters'[i] = IF i = Len(waiters') THEN a ELSE waiters[i]
      BY <1>4 DEF QueueInv
    <3>2. \A i, j \in 1..Len(waiters') : waiters'[i] = waiters'[j] => i = j
      BY <1>2, <3>1 DEF QueueInv
    <3>3. \A i \in 1..Len(waiters') : pc'[waiters'[i]] = "queued"
      BY <1>2, <2>1, <3>1 DEF QueueInv
    <3>4. QED
      BY <3>1, <3>2, <3>3 DEF QueueInv
  <2>4. Holders' = Holders
    BY <1>1, <2>1 DEF Holders
  <2>5. PermitsConserved'
    BY <1>4, <2>4 DEF PermitsConserved
  <2>6. NoStrandedWaiter'
    BY <1>1, <1>4, <2>1 DEF NoStrandedWaiter, PcInv
  <2>7. QED
    BY <2>2, <2>3, <2>5, <2>6
<1>5. QED
  BY <1>3, <1>4 DEF Spawn

\* A cancelled waiter leaves the queue; the others keep their order.
LEMMA RemoveAtQueue ==
  ASSUME NEW w \in Seq(Agents), NEW k \in 1..Len(w),
         \A i, j \in 1..Len(w) : w[i] = w[j] => i = j
  PROVE  /\ RemoveAt(w, k) \in Seq(Agents)
         /\ Len(RemoveAt(w, k)) = Len(w) - 1
         /\ \A i \in 1..(Len(w) - 1) :
              RemoveAt(w, k)[i] = IF i < k THEN w[i] ELSE w[i + 1]
         /\ \A i, j \in 1..Len(RemoveAt(w, k)) :
              RemoveAt(w, k)[i] = RemoveAt(w, k)[j] => i = j
<1> DEFINE u == SubSeq(w, 1, k - 1)
           v == SubSeq(w, k + 1, Len(w))
           r == u \o v
<1>1. Len(w) \in Nat /\ k \in Nat /\ 1 <= k /\ k <= Len(w)
  OBVIOUS
<1>2. /\ u \in Seq(Agents) /\ Len(u) = k - 1
      /\ \A i \in 1..(k - 1) : u[i] = w[i]
  BY <1>1
<1>3. /\ v \in Seq(Agents) /\ Len(v) = Len(w) - k
      /\ \A i \in 1..(Len(w) - k) : v[i] = w[i + k]
  BY <1>1
<1> HIDE DEF u, v
<1>4. /\ r \in Seq(Agents) /\ Len(r) = Len(w) - 1
      /\ \A i \in 1..(Len(w) - 1) : r[i] = IF i < k THEN w[i] ELSE w[i + 1]
  <2>1. /\ r \in Seq(Agents) /\ Len(r) = Len(u) + Len(v)
        /\ \A i \in 1..Len(r) : r[i] = IF i <= Len(u) THEN u[i]
                                       ELSE v[i - Len(u)]
    <3>1. u \in Seq(Agents) /\ v \in Seq(Agents)
      BY <1>2, <1>3
    <3>2. r \in Seq(Agents) /\ Len(r) = Len(u) + Len(v)
      BY <3>1
    <3>3. \A i \in 1..(Len(u) + Len(v)) :
            r[i] = IF i <= Len(u) THEN u[i] ELSE v[i - Len(u)]
      BY <3>1
    <3>4. QED
      BY <3>2, <3>3
  <2> HIDE DEF r
  <2>2. Len(r) = Len(w) - 1
    BY <1>1, <1>2, <1>3, <2>1
  <2>3. ASSUME NEW i \in 1..(Len(w) - 1)
        PROVE  r[i] = IF i < k THEN w[i] ELSE w[i + 1]
    <3>1. CASE i < k
      BY <1>1, <1>2, <2>1, <2>2, <3>1
    <3>2. CASE ~(i < k)
      <4>1. i - (k - 1) \in 1..(Len(w) - k) /\ (i - (k - 1)) + k = i + 1
        BY <1>1, <3>2
      <4>2. r[i] = v[i - (k - 1)]
        BY <1>1, <1>2, <2>1, <2>2, <3>2
      <4>3. QED
        BY <1>3, <3>2, <4>1, <4>2
    <3>3. QED
      BY <3>1, <3>2
  <2>4. QED
    BY <2>1, <2>2, <2>3
<1> HIDE DEF r
<1>5. ASSUME NEW i \in 1..Len(r), NEW j \in 1..Len(r), r[i] = r[j]
      PROVE  i = j
  <2> DEFINE old(m) == IF m < k THEN m ELSE m + 1
  <2>1. \A m \in 1..Len(r) : old(m) \in 1..Len(w) /\ r[m] = w[old(m)]
    BY <1>1, <1>4
  <2>2. old(i) = old(j)
    BY <1>5, <2>1
  <2>3. QED
    BY <1>1, <1>4, <2>2
<1>6. RemoveAt(w, k) = r
  BY DEF RemoveAt, r, u, v
<1>7. QED
  BY <1>4, <1>5, <1>6

\* Those that wait behind and before a cancelled waiter go on waiting.
LEMMA OthersQueued ==
  ASSUME SemInv, NEW k \in 1..Len(waiters)
  PROVE  LET w == RemoveAt(waiters, k) IN
         /\ w \in Seq(Agents) /\ Len(w) = Len(waiters) - 1
         /\ \A i, j \in 1..Len(w) : w[i] = w[j] => i = j
         /\ \A i \in 1..Len(w) : pc[w[i]] = "queued" /\ w[i] # waiters[k]
<1> DEFINE w == RemoveAt(waiters, k)
<1>1. /\ waiters \in Seq(Agents) /\ Len(waiters) \in Nat
      /\ \A i, j \in 1..Len(waiters) : waiters[i] = waiters[j] => i = j
      /\ \A i \in 1..Len(waiters) : pc[waiters[i]] = "queued"
  BY DEF SemInv, Conserved, QueueInv
<1>2. /\ w \in Seq(Agents) /\ Len(w) = Len(waiters) - 1
      /\ \A i \in 1..(Len(waiters) - 1) :
           w[i] = IF i < k THEN waiters[i] ELSE waiters[i + 1]
      /\ \A i, j \in 1..Len(w) : w[i] = w[j] => i = j
  BY <1>1, RemoveAtQueue
<1> HIDE DEF w
<1>3. ASSUME NEW i \in 1..Len(w)
      PROVE  \E j \in 1..Len(waiters) : j # k /\ w[i] = waiters[j]
  <2>1. CASE i < k
    BY <1>1, <1>2, <2>1
  <2>2. CASE ~(i < k)
    <3>1. i + 1 \in 1..Len(waiters) /\ i + 1 # k
      BY <1>1, <1>2, <2>2
    <3>2. QED
      BY <1>2, <2>2, <3>1
  <2>3. QED
    BY <2>1, <2>2
<1>4. \A i \in 1..Len(w) : pc[w[i]] = "queued" /\ w[i] # waiters[k]
  BY <1>1, <1>3
<1>5. QED
  BY <1>2, <1>4 DEF w

LEMMA SemStep == SemInv /\ [Next]_vars => SemInv'
<1> SUFFICES ASSUME SemInv, [Next]_vars
             PROVE  SemInv'
  OBVIOUS
<1> USE DEF Holding
<1>1. ASSUME NEW a \in Agents, Resume(a)
      PROVE  SemInv'
  <2>1. /\ waiters \in Seq(Agents) /\ permits \in Nat
        /\ \A i, j \in 1..Len(waiters) : waiters[i] = waiters[j] => i = j
        /\ \A i \in 1..Len(waiters) :
             pc[waiters[i]] = "queued" /\ waiters[i] # a
    BY <1>1 DEF Resume, SemInv, Conserved, QueueInv, PcInv
  <2>2. permits + Cardinality(Holders \ {a}) + 1 = MaxConcurrent
    <3>1. /\ Cardinality(Holders) = Cardinality(Holders \ {a}) + 1
          /\ Cardinality(Holders \ {a}) \in Nat
      BY <1>1, HoldersFinite DEF Own, Resume
    <3>2. QED
      BY <2>1, <3>1 DEF SemInv, Conserved, PermitsConserved
  <2>3. "starting" \in Locations \ {"queued"}
    BY DEF Locations
  <2>4. QED
    BY <1>1, <2>1, <2>2, <2>3, WakeStep DEF Resume
<1>2. ASSUME NEW a \in Agents, CancelGranted(a)
      PROVE  SemInv'
  <2>1. /\ waiters \in Seq(Agents) /\ permits \in Nat /\ permits + 1 \in Nat
        /\ \A i, j \in 1..Len(waiters) : waiters[i] = waiters[j] => i = j
        /\ \A i \in 1..Len(waiters) :
             pc[waiters[i]] = "queued" /\ waiters[i] # a
    BY <1>2 DEF CancelGranted, SemInv, Conserved, QueueInv, PcInv
  <2>2. permits + 1 + Cardinality(Holders \ {a}) + 0 = MaxConcurrent
    <3>1. /\ Cardinality(Holders) = Cardinality(Holders \ {a}) + 1
          /\ Cardinality(Holders \ {a}) \in Nat
      BY <1>2, HoldersFinite DEF Own, CancelGranted
    <3>2. QED
      BY <2>1, <3>1 DEF SemInv, Conserved, PermitsConserved
  <2>3. "raised" \in Locations \ {"queued"}
    BY DEF Locations
  <2>4. QED
    BY <1>2, <2>1, <2>2, <2>3, WakeStep DEF CancelGranted
<1>3. ASSUME NEW a \in Agents, CancelQueued(a)
      PROVE  SemInv'
  <2>1. PICK k \in 1..Len(waiters) :
          waiters[k] = a /\ WakeAll(a, "raised", RemoveAt(waiters, k), permits)
    BY <1>3 DEF CancelQueued, SemInv, Conserved, QueueInv
  <2> DEFINE w == RemoveAt(waiters, k)
  <2>2. permits \in Nat
    BY DEF SemInv, Conserved, PcInv
  <2>3. /\ w \in Seq(Agents)
        /\ \A i, j \in 1..Len(w) : w[i] = w[j] => i = j
    BY OthersQueued
  <2>4. \A i \in 1..Len(w) : pc[w[i]] = "queued" /\ w[i] # a
    BY <2>1, OthersQueued
  <2> HIDE DEF w
  <2>5. permits + Cardinality(Holders \ {a}) + 0 = MaxConcurrent
    <3>1. /\ Cardinality(Holders) = Cardinality(Holders \ {a}) + 0
          /\ Cardinality(Holders \ {a}) \in Nat
      BY <1>3, HoldersFinite DEF Own, CancelQueued
    <3>2. QED
      BY <2>2, <3>1 DEF SemInv, Conserved, PermitsConserved
  <2>6. "raised" \in Locations \ {"queued"}
    BY DEF Locations
  <2>7. WakeAll(a, "raised", w, permits)
    BY <2>1 DEF w
  <2>8. QED
    BY <2>2, <2>3, <2>4, <2>5, <2>6, <2>7, WakeStep
<1>4. ASSUME NEW a \in Agents, ExecRaises(a) \/ CancelStarting(a)
      PROVE  SemInv'
  BY <1>4, ReleaseStep DEF ExecRaises, CancelStarting
<1>5. ASSUME NEW a \in Agents, Finish(a) \/ ReadRaises(a) \/ CancelTerminating(a)
      PROVE  SemInv'
  BY <1>5, ReleaseStep DEF Finish, ReadRaises, CancelTerminating, Leave
<1>6. ASSUME NEW a \in Agents, TimeoutFires(a) \/ CancelSupervising(a)
      PROVE  SemInv'
  <2>1. pc[a] \in {"reading", "waiting"}
    BY <1>6 DEF TimeoutFires, CancelSupervising
  <2>2. PICK l \in {"timingOut", "cancelling"} : Terminate(a, l)
    BY <1>6 DEF TimeoutFires, CancelSupervising
  <2>3. CASE Gone(a)
    BY <2>1, <2>2, <2>3, ReleaseStep DEF Terminate, Leave
  <2>4. CASE ~Gone(a)
    BY <2>1, <2>2, <2>4, KeepStep DEF Terminate
  <2>5. QED
    BY <2>3, <2>4
<1>7. ASSUME NEW a \in Agents, TerminatedInTime(a) \/ Kill(a)
      PROVE  SemInv'
  <2>1. pc[a] \in Holding
    BY <1>7 DEF TerminatedInTime, Kill
  <2>2. \E l \in {"returned", "raised", "broken", "abandoned"} : ReleaseTo(a, l)
    BY <1>7 DEF TerminatedInTime, Kill, Conclude, Leave
  <2>3. QED
    BY <2>1, <2>2, ReleaseStep
<1>8. ASSUME NEW a \in Agents, CreateProcess(a) \/ ReadDone(a)
      PROVE  SemInv'
  <2>1. pc[a] \in Holding \ {"granted"} /\ UNCHANGED semVars
    BY <1>8 DEF CreateProcess, ReadDone
  <2>2. \E l \in Holding : pc' = [pc EXCEPT ![a] = l]
    BY <1>8 DEF CreateProcess, ReadDone
  <2>3. QED
    BY <2>1, <2>2, KeepStep
<1>9. ASSUME NEW a \in Agents, Environment(a)
      PROVE  UNCHANGED <<semVars, pc>>
  BY <1>9 DEF Environment, CloseOutput, Exit
<1>10. CancelAll \/ UNCHANGED vars => UNCHANGED <<semVars, pc>>
  BY DEF CancelAll, vars
<1>11. UNCHANGED <<semVars, pc>> => SemInv'
  BY DEF semVars, SemInv, Conserved, PcInv, QueueInv, PermitsConserved,
         Holders, NoStrandedWaiter
<1>12. QED
  BY <1>1, <1>2, <1>3, <1>4, <1>5, <1>6, <1>7, <1>8, <1>9, <1>10, <1>11,
     SpawnStepInv DEF Next, SpawnStep, Cancel

LEMMA SemInit == Init => SemInv
<1> SUFFICES ASSUME Init PROVE SemInv
  OBVIOUS
<1>1. Holders = {}
  BY DEF Init, Holders
<1>2. Cardinality(Holders) = 0
  BY <1>1, FS_EmptySet
<1>3. PcInv /\ QueueInv /\ NoStrandedWaiter
  BY MaxConcurrentAssumption
  DEF Init, PcInv, QueueInv, NoStrandedWaiter, Locations
<1>4. PermitsConserved
  BY <1>2, MaxConcurrentAssumption DEF Init, PermitsConserved
<1>5. QED
  BY <1>3, <1>4 DEF SemInv, Conserved

LEMMA SemInvariance == Spec => []SemInv
  BY SemInit, SemStep, PTL DEF Spec

\* The semaphore's account is right for every number of spawns and permits,
\* whichever spawn fails, times out or is cancelled at whichever await.
THEOREM PermitConservation == Spec => []PermitsConserved
<1>1. SemInv => PermitsConserved
  BY DEF SemInv, Conserved
<1>2. QED
  BY <1>1, SemInvariance, PTL

\* No permit is forgotten while a spawn waits for one.
THEOREM NoIdlePermit == Spec => []NoStrandedWaiter
<1>1. SemInv => NoStrandedWaiter
  BY DEF SemInv
<1>2. QED
  BY <1>1, SemInvariance, PTL

-----------------------------------------------------------------------------
(* The dict of running processes *)

Supervised == {a \in Agents : pc[a] \in Supervising}

\* The keys of _active are distinct, and all of them are supervised.
ActiveInv ==
  /\ active \in Seq(Agents)
  /\ \A i, j \in 1..Len(active) : active[i] = active[j] => i = j
  /\ ToSet(active) \subseteq Supervised
  /\ cancelAll # "done" => ToSet(active) = Supervised

LEMMA ToSetIs ==
  ASSUME NEW S, NEW s \in Seq(S)
  PROVE  ToSet(s) = {s[i] : i \in 1..Len(s)}
<1>1. DOMAIN s = 1..Len(s)
  OBVIOUS
<1>2. QED
  BY <1>1, Zenon DEF ToSet

\* dict.pop(task_id, None): the other keys stay, in their order.
LEMMA PopKey ==
  ASSUME NEW s \in Seq(Agents), NEW a \in Agents,
         \A i, j \in 1..Len(s) : s[i] = s[j] => i = j
  PROVE  /\ RemoveFirst(s, a) \in Seq(Agents)
         /\ \A i, j \in 1..Len(RemoveFirst(s, a)) :
              RemoveFirst(s, a)[i] = RemoveFirst(s, a)[j] => i = j
         /\ ToSet(RemoveFirst(s, a)) = ToSet(s) \ {a}
<1>1. CASE \E i \in 1..Len(s) : s[i] = a
  <2>1. PICK k \in 1..Len(s) : s[k] = a
    BY <1>1
  <2> DEFINE I == {i \in 1..Len(s) : s[i] = a}
             r == RemoveAt(s, k)
  <2>2. I = {k}
    BY <2>1
  <2>3. Min(I) = k
    <3>1. Min(I) = CHOOSE x \in {k} : \A y \in {k} : x <= y
      BY <2>2 DEF Min
    <3>2. QED
      BY <3>1
  <2>4. SelectInSeq(s, LAMBDA v : v = a) = k
    BY <2>2, <2>3 DEF SelectInSeq
  <2>5. RemoveFirst(s, a) = r
    BY <1>1, <2>4 DEF RemoveFirst
  <2>6. /\ r \in Seq(Agents) /\ Len(r) = Len(s) - 1 /\ Len(s) \in Nat
        /\ \A i \in 1..(Len(s) - 1) : r[i] = IF i < k THEN s[i] ELSE s[i + 1]
        /\ \A i, j \in 1..Len(r) : r[i] = r[j] => i = j
    BY RemoveAtQueue
  <2> HIDE DEF r, I
  <2>7. {r[i] : i \in 1..Len(r)} = {s[i] : i \in 1..Len(s)} \ {a}
    <3>1. ASSUME NEW i \in 1..Len(r)
          PROVE  \E j \in 1..Len(s) : j # k /\ r[i] = s[j]
      <4>1. CASE i < k
        BY <2>6, <4>1
      <4>2. CASE ~(i < k)
        <5>1. i + 1 \in 1..Len(s) /\ i + 1 # k
          BY <2>6, <4>2
        <5>2. QED
          BY <2>6, <4>2, <5>1
      <4>3. QED
        BY <4>1, <4>2
    <3>2. ASSUME NEW j \in 1..Len(s), j # k
          PROVE  \E i \in 1..Len(r) : r[i] = s[j]
      <4>1. CASE j < k
        BY <2>6, <4>1
      <4>2. CASE ~(j < k)
        <5>1. j - 1 \in 1..Len(r) /\ ~(j - 1 < k) /\ (j - 1) + 1 = j
          BY <2>6, <3>2, <4>2
        <5>2. QED
          BY <2>6, <5>1
      <4>3. QED
        BY <4>1, <4>2
    <3>3. \A j \in 1..Len(s) : s[j] # a <=> j # k
      BY <2>1
    <3>4. QED
      BY SMTT(30), <3>1, <3>2, <3>3
  <2>8. ToSet(r) = ToSet(s) \ {a}
    <3>1. ToSet(r) = {r[i] : i \in 1..Len(r)}
      BY <2>6, ToSetIs
    <3>2. ToSet(s) = {s[i] : i \in 1..Len(s)}
      BY ToSetIs
    <3>3. QED
      BY <2>7, <3>1, <3>2, Zenon
  <2>9. QED
    BY <2>5, <2>6, <2>8
<1>2. CASE ~\E i \in 1..Len(s) : s[i] = a
  <2>1. RemoveFirst(s, a) = s
    BY <1>2, Zenon DEF RemoveFirst
  <2>2. a \notin ToSet(s)
    BY <1>2, ToSetIs
  <2>3. QED
    BY <2>1, <2>2
<1>3. QED
  BY <1>1, <1>2

LEMMA PushKey ==
  ASSUME NEW s \in Seq(Agents), NEW a \in Agents,
         \A i, j \in 1..Len(s) : s[i] = s[j] => i = j, a \notin ToSet(s)
  PROVE  /\ Append(s, a) \in Seq(Agents)
         /\ \A i, j \in 1..Len(Append(s, a)) :
              Append(s, a)[i] = Append(s, a)[j] => i = j
         /\ ToSet(Append(s, a)) = ToSet(s) \cup {a}
<1> DEFINE t == Append(s, a)
<1>1. /\ t \in Seq(Agents) /\ Len(t) = Len(s) + 1 /\ Len(s) \in Nat
      /\ \A i \in 1..Len(t) : t[i] = IF i = Len(t) THEN a ELSE s[i]
  OBVIOUS
<1>2. ToSet(s) = {s[i] : i \in 1..Len(s)}
  BY ToSetIs
<1> HIDE DEF t
<1>3. ToSet(t) = {t[i] : i \in 1..Len(t)}
  BY <1>1, ToSetIs
<1>4. \A i \in 1..Len(s) : s[i] # a
  BY <1>2
<1>5. \A i, j \in 1..Len(t) : t[i] = t[j] => i = j
  BY <1>1, <1>4
<1>6. {t[i] : i \in 1..Len(t)} = {s[i] : i \in 1..Len(s)} \cup {a}
  <2>1. t[Len(t)] = a /\ Len(t) \in 1..Len(t)
    BY <1>1
  <2>2. \A i \in 1..Len(s) : i \in 1..Len(t) /\ t[i] = s[i]
    BY <1>1
  <2>3. ASSUME NEW i \in 1..Len(t), i # Len(t)
        PROVE  i \in 1..Len(s) /\ t[i] = s[i]
    BY <1>1, <2>3
  <2>4. QED
    BY <2>1, <2>2, <2>3
<1>7. ToSet(t) = ToSet(s) \cup {a}
  BY <1>2, <1>3, <1>6, Zenon
<1>8. QED
  BY <1>1, <1>5, <1>7 DEF t

-----------------------------------------------------------------------------
(* What a step of one spawn does to it and to the others *)

Acts(a) == Spawn(a) \/ SpawnStep(a) \/ Cancel(a) \/ Environment(a)

\* The others stay where they are, or are handed a permit.
OthersWait(a) ==
  \A b \in Agents \ {a} :
    pc'[b] = pc[b] \/ (pc[b] = "queued" /\ pc'[b] = "granted")

LEMMA MoveOthers ==
  ASSUME PcInv, NEW a \in Agents, NEW l, NEW w \in Seq(Agents),
         NEW n \in 0..Len(w), NEW value,
         \A i \in 1..Len(w) : pc[w[i]] = "queued",
         Move(a, l, w, n, value)
  PROVE  pc'[a] = l /\ OthersWait(a)
<1> DEFINE u == SubSeq(w, 1, n)
<1>1. u \in Seq(Agents) /\ Len(u) = n /\ \A i \in 1..n : u[i] = w[i]
  OBVIOUS
<1>2. \A b \in Agents :
        pc'[b] = IF b = a THEN l
                 ELSE IF b \in ToSet(u) THEN "granted" ELSE pc[b]
  BY DEF Move
<1> HIDE DEF u
<1>3. ToSet(u) = {u[i] : i \in 1..n}
  BY <1>1, ToSetIs
<1>4. \A b \in ToSet(u) : pc[b] = "queued"
  BY <1>1, <1>3
<1>5. QED
  BY <1>2, <1>4 DEF OthersWait

LEMMA ReleaseMoves ==
  ASSUME SemInv, NEW a \in Agents, NEW l, ReleaseTo(a, l)
  PROVE  pc'[a] = l /\ OthersWait(a)
<1> DEFINE n == IF waiters = <<>> THEN 0 ELSE 1
<1>1. /\ waiters \in Seq(Agents) /\ PcInv
      /\ \A i \in 1..Len(waiters) : pc[waiters[i]] = "queued"
  BY DEF SemInv, Conserved, QueueInv
<1>2. n \in 0..Len(waiters) /\ Move(a, l, waiters, n, permits + 1)
  BY <1>1 DEF ReleaseTo
<1> HIDE DEF n
<1>3. QED
  BY <1>1, <1>2, MoveOthers

LEMMA WakeMoves ==
  ASSUME PcInv, NEW a \in Agents, NEW l, NEW w \in Seq(Agents),
         NEW value \in Nat, \A i \in 1..Len(w) : pc[w[i]] = "queued",
         WakeAll(a, l, w, value)
  PROVE  pc'[a] = l /\ OthersWait(a)
<1> DEFINE n == IF value < Len(w) THEN value ELSE Len(w)
<1>1. n \in 0..Len(w) /\ Move(a, l, w, n, value)
  BY DEF WakeAll
<1> HIDE DEF n
<1>2. QED
  BY <1>1, MoveOthers

\* Before the process: spawn() may also give up here, which leaves the prompt.
Enters(a) ==
  /\ pc[a] \in {"idle", "queued", "granted", "starting"}
  /\ pc'[a] \in {"queued", "granted", "starting", "raised"}
  /\ promptFile' = IF pc[a] = "idle" THEN promptFile \cup {a} ELSE promptFile
  /\ UNCHANGED <<procVars, active, result, cancelAll>>

LEMMA EnterStep ==
  ASSUME SemInv, NEW a \in Agents,
         \/ Spawn(a) \/ Resume(a) \/ ExecRaises(a)
         \/ CancelQueued(a) \/ CancelGranted(a) \/ CancelStarting(a)
  PROVE  Enters(a) /\ OthersWait(a)
<1>1. /\ waiters \in Seq(Agents) /\ PcInv /\ permits \in Nat
      /\ pc \in [Agents -> Locations]
      /\ \A i, j \in 1..Len(waiters) : waiters[i] = waiters[j] => i = j
      /\ \A i \in 1..Len(waiters) : pc[waiters[i]] = "queued"
  BY DEF SemInv, Conserved, QueueInv, PcInv
<1>2. CASE Spawn(a)
  BY <1>1, <1>2 DEF Spawn, Enters, OthersWait
<1>3. CASE Resume(a)
  BY <1>1, <1>3, WakeMoves DEF Resume, Enters
<1>4. CASE ExecRaises(a) \/ CancelStarting(a)
  BY <1>4, ReleaseMoves DEF ExecRaises, CancelStarting, Enters
<1>5. CASE CancelGranted(a)
  <2>1. permits + 1 \in Nat
    BY <1>1
  <2>2. QED
    BY <1>1, <1>5, <2>1, WakeMoves DEF CancelGranted, Enters
<1>6. CASE CancelQueued(a)
  <2>1. PICK k \in 1..Len(waiters) :
          WakeAll(a, "raised", RemoveAt(waiters, k), permits)
    BY <1>1, <1>6 DEF CancelQueued
  <2> DEFINE w == RemoveAt(waiters, k)
  <2>2. /\ w \in Seq(Agents) /\ Len(w) = Len(waiters) - 1
        /\ \A i \in 1..(Len(waiters) - 1) :
             w[i] = IF i < k THEN waiters[i] ELSE waiters[i + 1]
    BY <1>1, RemoveAtQueue
  <2> HIDE DEF w
  <2>3. ASSUME NEW i \in 1..Len(w)
        PROVE  pc[w[i]] = "queued"
    <3>1. i \in 1..Len(waiters) /\ i + 1 \in 1..Len(waiters)
      BY <1>1, <2>2
    <3>2. pc[waiters[i]] = "queued" /\ pc[waiters[i + 1]] = "queued"
      BY <1>1, <3>1
    <3>3. w[i] = waiters[i] \/ w[i] = waiters[i + 1]
      BY <2>2
    <3>4. QED
      BY <3>2, <3>3
  <2>4. WakeAll(a, "raised", w, permits)
    BY <2>1 DEF w
  <2>5. QED
    BY <1>1, <1>6, <2>2, <2>3, <2>4, WakeMoves DEF CancelQueued, Enters
<1>7. QED
  BY <1>2, <1>3, <1>4, <1>5, <1>6

\* The end of spawn() once the process exists, and what entitles to it.
Leaves(a) ==
  /\ pc[a] \in Supervising
  /\ \E l \in Over : pc'[a] = l /\ Leave(a, l)
  /\ signal' \in {signal, [signal EXCEPT ![a] = "KILL"]}
  /\ pc'[a] = "returned" => Exited(a) \/ signal'[a] = "KILL"
  /\ pc'[a] = "raised" => Exited(a) \/ signal'[a] = "KILL"
  /\ pc'[a] = "abandoned" =>
       pc[a] \in {"timingOut", "cancelling"} /\ signal' = signal
  /\ UNCHANGED <<proc, eof, cancelAll>>

\* It goes on supervising, having sent SIGTERM if it is about to wait for it.
Supervises(a) ==
  /\ pc[a] \in Supervising /\ pc'[a] \in Supervising
  /\ signal' \in {signal, [signal EXCEPT ![a] = "TERM"]}
  /\ pc'[a] \in {"timingOut", "cancelling"} => Exited(a) \/ signal'[a] = "TERM"
  /\ UNCHANGED <<proc, eof, active, promptFile, result, cancelAll>>

SignalsInv ==
  /\ proc \in [Agents -> {"none", "running", "succeeded", "failed"}]
  /\ signal \in [Agents -> {"none", "TERM", "KILL"}]

LEMMA SuperviseStep ==
  ASSUME SemInv, SignalsInv, NEW a \in Agents,
         \/ ReadDone(a) \/ Finish(a) \/ ReadRaises(a) \/ TimeoutFires(a)
         \/ TerminatedInTime(a) \/ Kill(a)
         \/ CancelSupervising(a) \/ CancelTerminating(a)
  PROVE  (Leaves(a) \/ Supervises(a)) /\ OthersWait(a)
<1> USE DEF Supervising, Over, procVars
<1>1. pc \in [Agents -> Locations]
      /\ proc \in [Agents -> {"none", "running", "succeeded", "failed"}]
      /\ signal \in [Agents -> {"none", "TERM", "KILL"}]
  BY DEF SemInv, Conserved, PcInv, SignalsInv
<1>2. ASSUME NEW l, Leave(a, l)
      PROVE  pc'[a] = l /\ OthersWait(a)
  BY <1>2, ReleaseMoves DEF Leave
<1>3. CASE ReadDone(a)
  BY <1>1, <1>3 DEF ReadDone, Supervises, OthersWait
<1>4. CASE Finish(a) \/ ReadRaises(a) \/ CancelTerminating(a)
  BY <1>2, <1>4 DEF Finish, ReadRaises, CancelTerminating, Leaves
<1>5. CASE TimeoutFires(a) \/ CancelSupervising(a)
  <2>1. PICK l \in {"timingOut", "cancelling"} : Terminate(a, l)
    BY <1>5 DEF TimeoutFires, CancelSupervising
  <2>2. pc[a] \in {"reading", "waiting"} /\ UNCHANGED <<proc, eof, result, cancelAll>>
    BY <1>5 DEF TimeoutFires, CancelSupervising
  <2>3. CASE Gone(a)
    BY <1>2, <2>1, <2>2, <2>3 DEF Terminate, Leaves, Gone
  <2>4. CASE ~Gone(a)
    <3>1. /\ pc' = [pc EXCEPT ![a] = l] /\ UNCHANGED <<active, promptFile>>
          /\ signal' = [signal EXCEPT ![a] = IF Exited(a) THEN signal[a] ELSE "TERM"]
      BY <2>1, <2>4 DEF Terminate
    <3>2. pc'[a] = l /\ OthersWait(a)
      BY <1>1, <3>1 DEF OthersWait
    <3>3. /\ signal' \in {signal, [signal EXCEPT ![a] = "TERM"]}
          /\ Exited(a) \/ signal'[a] = "TERM"
      BY <1>1, <3>1
    <3>4. QED
      BY <2>2, <3>1, <3>2, <3>3 DEF Supervises
  <2>5. QED
    BY <2>3, <2>4
<1>6. CASE TerminatedInTime(a)
  BY <1>2, <1>6 DEF TerminatedInTime, Conclude, Leaves
<1>7. CASE Kill(a)
  <2>1. CASE Gone(a)
    BY <1>2, <1>7, <2>1 DEF Kill, Leaves, Gone
  <2>2. CASE ~Gone(a)
    <3>1. /\ pc[a] \in {"timingOut", "cancelling"} /\ Conclude(a)
          /\ UNCHANGED <<proc, eof, cancelAll>>
          /\ signal' = [signal EXCEPT ![a] = IF Exited(a) THEN signal[a] ELSE "KILL"]
      BY <1>7, <2>2 DEF Kill
    <3>2. /\ signal' \in {signal, [signal EXCEPT ![a] = "KILL"]}
          /\ Exited(a) \/ signal'[a] = "KILL"
      BY <1>1, <3>1
    <3>3. QED
      BY <1>2, <3>1, <3>2 DEF Conclude, Leaves
  <2>3. QED
    BY <2>1, <2>2
<1>8. QED
  BY <1>3, <1>4, <1>5, <1>6, <1>7

LEMMA ActsSplit ==
  ASSUME NEW a \in Agents, Acts(a)
  PROVE  \/ Spawn(a) \/ Resume(a) \/ ExecRaises(a)
         \/ CancelQueued(a) \/ CancelGranted(a) \/ CancelStarting(a)
         \/ ReadDone(a) \/ Finish(a) \/ ReadRaises(a) \/ TimeoutFires(a)
         \/ TerminatedInTime(a) \/ Kill(a)
         \/ CancelSupervising(a) \/ CancelTerminating(a)
         \/ CreateProcess(a) \/ Environment(a)
BY DEF Acts, SpawnStep, Cancel

-----------------------------------------------------------------------------
(* cancel_all() and the dict *)

LEMMA ActiveStep ==
  SemInv /\ SignalsInv /\ ActiveInv /\ [Next]_vars => ActiveInv'
<1> SUFFICES ASSUME SemInv, SignalsInv, ActiveInv, [Next]_vars
             PROVE  ActiveInv'
  OBVIOUS
<1>1. ASSUME UNCHANGED <<active, cancelAll>>, Supervised' = Supervised
      PROVE  ActiveInv'
  BY <1>1 DEF ActiveInv
<1>2. ASSUME NEW a \in Agents, Enters(a), OthersWait(a)
      PROVE  ActiveInv'
  <2>1. UNCHANGED <<active, cancelAll>>
    BY <1>2 DEF Enters
  <2>2. Supervised' = Supervised
    BY <1>2 DEF Enters, OthersWait, Supervised, Supervising
  <2>3. QED
    BY <1>1, <2>1, <2>2
<1>3. ASSUME NEW a \in Agents, Leaves(a), OthersWait(a)
      PROVE  ActiveInv'
  <2>1. Supervised' = Supervised \ {a}
    BY <1>3 DEF Leaves, OthersWait, Supervised, Supervising, Over
  <2>2. active' = RemoveFirst(active, a) /\ cancelAll' = cancelAll
    BY <1>3 DEF Leaves, Leave
  <2>3. /\ active' \in Seq(Agents)
        /\ \A i, j \in 1..Len(active') : active'[i] = active'[j] => i = j
        /\ ToSet(active') = ToSet(active) \ {a}
    BY <2>2, PopKey DEF ActiveInv
  <2>4. QED
    BY <2>1, <2>2, <2>3 DEF ActiveInv
<1>4. ASSUME NEW a \in Agents, Supervises(a), OthersWait(a)
      PROVE  ActiveInv'
  <2>1. UNCHANGED <<active, cancelAll>>
    BY <1>4 DEF Supervises
  <2>2. Supervised' = Supervised
    BY <1>4 DEF Supervises, OthersWait, Supervised, Supervising
  <2>3. QED
    BY <1>1, <2>1, <2>2
<1>5. ASSUME NEW a \in Agents, CreateProcess(a)
      PROVE  ActiveInv'
  <2>1. Supervised' = Supervised \cup {a} /\ a \notin Supervised
    BY <1>5 DEF CreateProcess, Supervised, Supervising, SemInv, Conserved, PcInv
  <2>2. a \notin ToSet(active)
    BY <2>1 DEF ActiveInv
  <2>3. active' = Append(active, a) /\ cancelAll' = cancelAll
    BY <1>5 DEF CreateProcess
  <2>4. /\ active' \in Seq(Agents)
        /\ \A i, j \in 1..Len(active') : active'[i] = active'[j] => i = j
        /\ ToSet(active') = ToSet(active) \cup {a}
    BY <2>2, <2>3, PushKey DEF ActiveInv
  <2>5. QED
    BY <2>1, <2>3, <2>4 DEF ActiveInv
<1>6. ASSUME NEW a \in Agents, Acts(a)
      PROVE  ActiveInv'
  <2>1. CASE Environment(a)
    <3>1. UNCHANGED <<active, cancelAll, pc>>
      BY <2>1 DEF Environment, CloseOutput, Exit
    <3>2. QED
      BY <1>1, <3>1 DEF Supervised
  <2>2. CASE \/ Spawn(a) \/ Resume(a) \/ ExecRaises(a)
             \/ CancelQueued(a) \/ CancelGranted(a) \/ CancelStarting(a)
    BY <1>2, <2>2, EnterStep
  <2>3. CASE \/ ReadDone(a) \/ Finish(a) \/ ReadRaises(a) \/ TimeoutFires(a)
             \/ TerminatedInTime(a) \/ Kill(a)
             \/ CancelSupervising(a) \/ CancelTerminating(a)
    BY <1>3, <1>4, <2>3, SuperviseStep
  <2>4. QED
    BY <1>5, <1>6, <2>1, <2>2, <2>3, ActsSplit
<1>7. CASE CancelAll
  <2>1. Supervised' = Supervised
    BY <1>7 DEF CancelAll, Supervised
  <2>2. CASE cancelAll' = "done" /\ active' = <<>>
    <3>1. ToSet(active') = {} /\ Len(active') = 0 /\ active' \in Seq(Agents)
      BY <2>2 DEF ToSet
    <3>2. QED
      BY <2>2, <3>1 DEF ActiveInv
  <2>3. CASE cancelAll' = "raised" /\ UNCHANGED active
    <3>1. cancelAll = "no"
      BY <1>7 DEF CancelAll
    <3>2. QED
      BY <2>1, <2>3, <3>1 DEF ActiveInv
  <2>4. QED
    BY <1>7, <2>2, <2>3 DEF CancelAll
<1>8. CASE UNCHANGED vars
  BY <1>1, <1>8 DEF vars, Supervised
<1>9. QED
  BY <1>6, <1>7, <1>8 DEF Next, Acts

-----------------------------------------------------------------------------
(* What a spawn leaves behind *)

\* The process of each spawn at each of its locations.
Tidy(a) ==
  /\ pc[a] \in {"idle", "queued", "granted", "starting"} => proc[a] = "none"
  /\ pc[a] \in {"queued", "granted", "starting"} => a \in promptFile
  /\ pc[a] \in Supervising => proc[a] # "none"
  /\ pc[a] \in {"timingOut", "cancelling"} => Exited(a) \/ signal[a] = "TERM"
  /\ pc[a] \in Over =>
       /\ a \in promptFile <=> proc[a] = "none"
       /\ pc[a] \in {"returned", "raised"} =>
            proc[a] = "none" \/ Exited(a) \/ signal[a] = "KILL"
       /\ pc[a] = "abandoned" => Exited(a) \/ signal[a] = "TERM"

TidyInv == \A a \in Agents : Tidy(a)

\* The processes of the others are not touched.
LEMMA OthersTidy ==
  ASSUME SemInv, SignalsInv, TidyInv, NEW a \in Agents, OthersWait(a),
         NEW v \in {"none", "running", "succeeded", "failed"},
         NEW s \in {"none", "TERM", "KILL"},
         proc' \in {proc, [proc EXCEPT ![a] = v]},
         signal' \in {signal, [signal EXCEPT ![a] = s]},
         promptFile' \in {promptFile, promptFile \cup {a}, promptFile \ {a}}
  PROVE  SignalsInv' /\ \A b \in Agents \ {a} : Tidy(b)'
<1>1. SignalsInv'
  BY DEF SignalsInv
<1>2. ASSUME NEW b \in Agents \ {a}
      PROVE  Tidy(b)'
  <2>1. /\ proc'[b] = proc[b] /\ signal'[b] = signal[b]
        /\ b \in promptFile' <=> b \in promptFile
        /\ pc'[b] = pc[b] \/ (pc[b] = "queued" /\ pc'[b] = "granted")
    BY DEF SignalsInv, OthersWait
  <2>2. QED
    BY <2>1 DEF TidyInv, Tidy, Exited, Supervising, Over
<1>3. QED
  BY <1>1, <1>2

LEMMA TidyStep ==
  SemInv /\ SignalsInv /\ TidyInv /\ [Next]_vars => (SignalsInv /\ TidyInv)'
<1> SUFFICES ASSUME SemInv, SignalsInv, TidyInv, [Next]_vars
             PROVE  SignalsInv' /\ TidyInv'
  OBVIOUS
<1>1. ASSUME NEW a \in Agents, Acts(a)
      PROVE  SignalsInv' /\ TidyInv'
  <2>1. SUFFICES ASSUME TRUE
                 PROVE  SignalsInv' /\ Tidy(a)' /\ \A b \in Agents \ {a} : Tidy(b)'
    BY DEF TidyInv
  <2>2. Tidy(a)
    BY DEF TidyInv
  <2>3. CASE \/ Spawn(a) \/ Resume(a) \/ ExecRaises(a)
             \/ CancelQueued(a) \/ CancelGranted(a) \/ CancelStarting(a)
    <3>1. Enters(a) /\ OthersWait(a)
      BY <2>3, EnterStep
    <3>2. SignalsInv' /\ \A b \in Agents \ {a} : Tidy(b)'
      BY <3>1, OthersTidy DEF Enters, procVars, SignalsInv
    <3>3. Tidy(a)'
      BY <2>2, <3>1 DEF Enters, procVars, Tidy, Supervising, Over
    <3>4. QED
      BY <3>2, <3>3
  <2>4. CASE \/ ReadDone(a) \/ Finish(a) \/ ReadRaises(a) \/ TimeoutFires(a)
             \/ TerminatedInTime(a) \/ Kill(a)
             \/ CancelSupervising(a) \/ CancelTerminating(a)
    <3>1. (Leaves(a) \/ Supervises(a)) /\ OthersWait(a)
      BY <2>4, SuperviseStep
    <3>2. CASE Leaves(a)
      <4>1. /\ pc[a] \in Supervising /\ pc'[a] \in Over
            /\ promptFile' = promptFile \ {a} /\ proc' = proc
            /\ signal' \in {signal, [signal EXCEPT ![a] = "KILL"]}
            /\ pc'[a] = "returned" => Exited(a) \/ signal'[a] = "KILL"
            /\ pc'[a] = "raised" => Exited(a) \/ signal'[a] = "KILL"
            /\ pc'[a] = "abandoned" =>
                 pc[a] \in {"timingOut", "cancelling"} /\ signal' = signal
        BY <3>2 DEF Leaves, Leave
      <4>2. SignalsInv' /\ \A b \in Agents \ {a} : Tidy(b)'
        BY <3>1, <4>1, OthersTidy
      <4>3. Exited(a)' = Exited(a)
        BY <4>1 DEF Exited
      <4>4. Tidy(a)'
        BY <2>2, <4>1, <4>3 DEF Tidy, Over, Supervising
      <4>5. QED
        BY <4>2, <4>4
    <3>3. CASE Supervises(a)
      <4>1. /\ pc'[a] \in Supervising /\ promptFile' = promptFile /\ proc' = proc
            /\ signal' \in {signal, [signal EXCEPT ![a] = "TERM"]}
            /\ pc'[a] \in {"timingOut", "cancelling"} => Exited(a) \/ signal'[a] = "TERM"
        BY <3>3 DEF Supervises
      <4>2. SignalsInv' /\ \A b \in Agents \ {a} : Tidy(b)'
        BY <3>1, <4>1, OthersTidy
      <4>3. Exited(a)' = Exited(a)
        BY <4>1 DEF Exited
      <4>4. Tidy(a)'
        BY <2>2, <3>3, <4>1, <4>3 DEF Tidy, Supervises, Supervising, Over
      <4>5. QED
        BY <4>2, <4>4
    <3>4. QED
      BY <3>1, <3>2, <3>3
  <2>5. CASE CreateProcess(a)
    <3>1. /\ OthersWait(a) /\ pc'[a] = "reading"
          /\ proc' = [proc EXCEPT ![a] = "running"]
          /\ signal' = signal /\ promptFile' = promptFile
      BY <2>5 DEF CreateProcess, OthersWait, SemInv, Conserved, PcInv
    <3>2. SignalsInv' /\ \A b \in Agents \ {a} : Tidy(b)'
      BY <3>1, OthersTidy
    <3>3. QED
      BY <3>1, <3>2 DEF Tidy, SignalsInv, Supervising, Over
  <2>6. CASE Environment(a)
    <3>1. /\ OthersWait(a) /\ pc' = pc /\ signal' = signal
          /\ promptFile' = promptFile
          /\ proc' \in {proc, [proc EXCEPT ![a] = "succeeded"],
                              [proc EXCEPT ![a] = "failed"]}
          /\ proc[a] # "none"
      BY <2>6 DEF Environment, CloseOutput, Exit, OthersWait
    <3>2. SignalsInv' /\ \A b \in Agents \ {a} : Tidy(b)'
      BY <3>1, OthersTidy
    <3>3. (Exited(a) => Exited(a)') /\ proc[a] # "none"
      BY <3>1 DEF Exited, SignalsInv
    <3>4. QED
      BY <2>2, <3>1, <3>2, <3>3 DEF Tidy, SignalsInv, Over, Supervising
  <2>7. QED
    BY <1>1, <2>3, <2>4, <2>5, <2>6, ActsSplit
<1>2. CASE CancelAll
  <2>1. /\ UNCHANGED <<pc, proc, promptFile>>
        /\ signal' \in [Agents -> {"none", "TERM", "KILL"}]
        /\ \A a \in Agents : signal'[a] = signal[a] \/ signal[a] = "none"
    BY <1>2 DEF CancelAll, SignalsInv
  <2>2. SignalsInv'
    BY <2>1 DEF SignalsInv
  <2>3. QED
    BY <2>1, <2>2 DEF TidyInv, Tidy, Exited, Over, Supervising
<1>3. CASE UNCHANGED vars
  BY <1>3 DEF vars, procVars, SignalsInv, TidyInv, Tidy, Exited, Over, Supervising
<1>4. QED
  BY <1>1, <1>2, <1>3 DEF Next, Acts

LEMMA AgentsInvariance == Spec => [](SemInv /\ SignalsInv /\ ActiveInv /\ TidyInv)
<1>1. Init => SignalsInv /\ TidyInv
  BY DEF Init, SignalsInv, TidyInv, Tidy, Over, Supervising
<1>2. Init => ActiveInv
  <2> SUFFICES ASSUME Init PROVE ActiveInv
    OBVIOUS
  <2>1. ToSet(active) = {} /\ active \in Seq(Agents) /\ Len(active) = 0
    BY DEF Init, ToSet
  <2>2. Supervised = {}
    BY DEF Init, Supervised, Supervising
  <2>3. QED
    BY <2>1, <2>2 DEF ActiveInv
<1>3. QED
  BY <1>1, <1>2, SemInit, SemStep, ActiveStep, TidyStep, PTL DEF Spec

\* cancel_all() finds in _active every process it ought to terminate and no
\* other, for any number of spawns and whatever ends them.
THEOREM ActiveAreSupervised == Spec => []ActiveIsSupervised
<1>1. ActiveInv => ActiveIsSupervised
  BY DEF ActiveInv, ActiveIsSupervised, Supervised
<1>2. QED
  BY <1>1, AgentsInvariance, PTL

\* Wherever a timeout, a cancellation or an exception hits: a spawn that is over
\* leaves its prompt file exactly if it had no process, and a process that has
\* not exited and was not killed only if a cancellation hit the wait for
\* it after terminate() (then it was terminated) or reading its output raised.
THEOREM SpawnsEndCleanly == Spec => []EndedCleanly
<1>1. TidyInv => EndedCleanly
  BY DEF TidyInv, Tidy, EndedCleanly
<1>2. QED
  BY <1>1, AgentsInvariance, PTL

-----------------------------------------------------------------------------
(* The types *)

\* What PcInv, QueueInv, SignalsInv and ActiveInv leave to be said.
RestTypes ==
  /\ eof \in SUBSET Agents /\ promptFile \in SUBSET Agents
  /\ result \in [Agents -> {"none", "success", "failure", "timeout"}]
  /\ cancelAll \in {"no", "done", "raised"}

LEMMA RestStep == RestTypes /\ [Next]_vars => RestTypes'
<1> SUFFICES ASSUME RestTypes, [Next]_vars PROVE RestTypes'
  OBVIOUS
<1> USE DEF RestTypes, procVars
<1>1. ASSUME NEW a \in Agents, NEW l, Leave(a, l), UNCHANGED <<eof, result, cancelAll>>
      PROVE  RestTypes'
  BY <1>1 DEF Leave
<1>2. ASSUME NEW a \in Agents, Conclude(a), UNCHANGED <<eof, cancelAll>>
      PROVE  RestTypes'
  <2>1. promptFile' = promptFile \ {a}
    BY <1>2 DEF Conclude, Leave
  <2>2. result' \in {result, [result EXCEPT ![a] = "timeout"]}
    BY <1>2 DEF Conclude
  <2>3. QED
    BY <1>2, <2>1, <2>2
<1>3. ASSUME NEW a \in Agents, NEW l, Terminate(a, l), UNCHANGED <<eof, result, cancelAll>>
      PROVE  RestTypes'
  BY <1>1, <1>3 DEF Terminate
<1>4. ASSUME NEW a \in Agents, Spawn(a) \/ Resume(a) \/ CreateProcess(a) \/ ExecRaises(a)
                                 \/ ReadDone(a)
      PROVE  RestTypes'
  BY <1>4 DEF Spawn, Resume, CreateProcess, ExecRaises, ReadDone
<1>5. ASSUME NEW a \in Agents, Finish(a)
      PROVE  RestTypes'
  <2>1. /\ promptFile' = promptFile \ {a} /\ UNCHANGED <<eof, cancelAll>>
        /\ result' \in {[result EXCEPT ![a] = "success"], [result EXCEPT ![a] = "failure"]}
    BY <1>5 DEF Finish, Leave
  <2>2. QED
    BY <2>1
<1>6. ASSUME NEW a \in Agents, ReadRaises(a) \/ TimeoutFires(a) \/ TerminatedInTime(a)
      PROVE  RestTypes'
  BY <1>1, <1>2, <1>3, <1>6 DEF ReadRaises, TimeoutFires, TerminatedInTime
<1>7. ASSUME NEW a \in Agents, Kill(a)
      PROVE  RestTypes'
  BY <1>1, <1>2, <1>7 DEF Kill
<1>8. ASSUME NEW a \in Agents, Cancel(a)
      PROVE  RestTypes'
  BY <1>1, <1>3, <1>8 DEF Cancel, CancelQueued, CancelGranted, CancelStarting,
     CancelSupervising, CancelTerminating
<1>9. ASSUME NEW a \in Agents, Environment(a)
      PROVE  RestTypes'
  BY <1>9 DEF Environment, CloseOutput, Exit
<1>10. CASE CancelAll
  BY <1>10 DEF CancelAll
<1>11. CASE UNCHANGED vars
  BY <1>11 DEF vars
<1>12. QED
  BY <1>4, <1>5, <1>6, <1>7, <1>8, <1>9, <1>10, <1>11 DEF Next, SpawnStep

\* The variables of the manager keep their types; the number of permits stays
\* within its bounds because no path through spawn() puts one back twice.
THEOREM SpawnTypes == Spec => []TypeOK
<1>1. Init => RestTypes
  BY DEF Init, RestTypes
<1>2. SemInv /\ SignalsInv /\ ActiveInv /\ RestTypes => TypeOK
  <2> SUFFICES ASSUME SemInv, SignalsInv, ActiveInv, RestTypes PROVE TypeOK
    OBVIOUS
  <2>1. /\ permits \in Nat /\ pc \in [Agents -> Locations] /\ waiters \in Seq(Agents)
        /\ permits + Cardinality(Holders) = MaxConcurrent
    BY DEF SemInv, Conserved, PcInv, QueueInv, PermitsConserved
  <2>2. Cardinality(Holders) \in Nat
    BY HoldersFinite
  <2>3. permits \in 0..MaxConcurrent
    BY <2>1, <2>2, MaxConcurrentAssumption
  <2>4. QED
    BY <2>1, <2>3 DEF SignalsInv, ActiveInv, RestTypes, TypeOK
<1>3. QED
  BY <1>1, <1>2, RestStep, AgentsInvariance, PTL DEF Spec

-----------------------------------------------------------------------------
(* First come, first served *)

Fits == Holders \in Crews

LEMMA AllFit == SemInv => Fits
<1> SUFFICES ASSUME SemInv PROVE Fits
  OBVIOUS
<1>1. permits \in Nat /\ permits + Cardinality(Holders) = MaxConcurrent
  BY DEF SemInv, Conserved, PcInv, PermitsConserved
<1>2. QED
  BY <1>1, HoldersFinite, MaxConcurrentAssumption DEF Fits, Crews, Holders

\* The first n of the waiters w, and what handing them permits does, as the
\* callers see it, when a goes on to l.
Heads(w, n) == {w[i] : i \in 1..n}

Admits(a, l, w, n) ==
  /\ waiters' = SubSeq(w, n + 1, Len(w))
  /\ l \in Holding => /\ Holders' = (Holders \cup {a}) \cup Heads(w, n)
                      /\ Departed' = Departed
  /\ l \in Over => /\ Holders' = (Holders \ {a}) \cup Heads(w, n)
                   /\ Departed' = Departed \cup {a}

LEMMA MoveAdmits ==
  ASSUME PcInv, NEW a \in Agents, pc[a] \notin Over, NEW l \in Locations,
         NEW w \in Seq(Agents), NEW n \in 0..Len(w), NEW value,
         \A i \in 1..Len(w) : pc[w[i]] = "queued" /\ w[i] # a,
         Move(a, l, w, n, value)
  PROVE  Admits(a, l, w, n)
<1> DEFINE T == Heads(w, n)
<1>1. ToSet(SubSeq(w, 1, n)) = T
  <2> DEFINE u == SubSeq(w, 1, n)
  <2>1. u \in Seq(Agents) /\ Len(u) = n /\ \A i \in 1..n : u[i] = w[i]
    OBVIOUS
  <2> HIDE DEF u
  <2>2. ToSet(u) = {u[i] : i \in 1..n}
    BY <2>1, ToSetIs
  <2>3. QED
    BY <2>1, <2>2 DEF u, Heads
<1>2. \A b \in T : b \in Agents /\ pc[b] = "queued" /\ b # a
  BY DEF Heads
<1> HIDE DEF T
<1>3. /\ waiters' = SubSeq(w, n + 1, Len(w))
      /\ \A b \in Agents :
           pc'[b] = IF b = a THEN l ELSE IF b \in T THEN "granted" ELSE pc[b]
  BY <1>1 DEF Move
<1>4. l \in Holding => Holders' = (Holders \cup {a}) \cup T /\ Departed' = Departed
  BY <1>2, <1>3 DEF Holders, Holding, Departed, Over
<1>5. l \in Over => Holders' = (Holders \ {a}) \cup T /\ Departed' = Departed \cup {a}
  BY <1>2, <1>3 DEF Holders, Holding, Departed, Over
<1>6. QED
  BY <1>3, <1>4, <1>5 DEF T, Admits

\* The queue as the lemmas about handing over need it.
LEMMA QueueFacts ==
  ASSUME SemInv, NEW a \in Agents, pc[a] # "queued"
  PROVE  /\ PcInv /\ waiters \in Seq(Agents) /\ permits \in Nat
         /\ \A i \in 1..Len(waiters) : pc[waiters[i]] = "queued" /\ waiters[i] # a
BY DEF SemInv, Conserved, QueueInv, PcInv

\* The room is kept, whatever the step.
LEMMA FitsNext == SemInv' => Holders' \in Crews
<1>1. SemInv' => Fits'
  BY AllFit, PTL
<1>2. QED
  BY <1>1 DEF Fits

LEMMA ReleaseLeaves ==
  ASSUME SemInv, SemInv', NEW a \in Agents, pc[a] \in Holding, NEW l \in Over,
         ReleaseTo(a, l)
  PROVE  Contract!Leave(a)
<1> DEFINE n == IF waiters = <<>> THEN 0 ELSE 1
<1>1. /\ PcInv /\ waiters \in Seq(Agents) /\ l \in Locations
      /\ \A i \in 1..Len(waiters) : pc[waiters[i]] = "queued" /\ waiters[i] # a
      /\ pc[a] \notin Over
  BY QueueFacts DEF Holding, Over, Locations
<1>2. n \in 0..Len(waiters) /\ Move(a, l, waiters, n, permits + 1)
  BY <1>1 DEF ReleaseTo
<1> HIDE DEF n
<1>3. Admits(a, l, waiters, n)
  BY <1>1, <1>2, MoveAdmits
<1>4. a \in Holders
  BY DEF Holders, Holding
<1>5. Contract!Admit(waiters, Holders \ {a}, n)
  BY <1>3, FitsNext DEF Contract!Admit, Admits, Heads
<1>6. QED
  BY <1>2, <1>3, <1>4, <1>5 DEF Contract!Leave, Admits

\* The end of acquire() lets waiters in, if there are permits for them.
LEMMA WakeAdmits ==
  ASSUME SemInv, SemInv', NEW a \in Agents, pc[a] \notin Over,
         NEW l \in Holding \cup Over, NEW w \in Seq(Agents), NEW value \in Nat,
         \A i \in 1..Len(w) : pc[w[i]] = "queued" /\ w[i] # a,
         WakeAll(a, l, w, value)
  PROVE  \E n \in 0..Len(w) : Admits(a, l, w, n)
<1> DEFINE n == IF value < Len(w) THEN value ELSE Len(w)
<1>1. n \in 0..Len(w) /\ Move(a, l, w, n, value)
  BY DEF WakeAll
<1>2. PcInv /\ l \in Locations
  BY DEF SemInv, Conserved, Holding, Over, Locations
<1> HIDE DEF n
<1>3. QED
  BY <1>1, <1>2, MoveAdmits

LEMMA ResumeLetsIn ==
  ASSUME SemInv, SemInv', NEW a \in Agents, Resume(a)
  PROVE  Contract!LetIn \/ UNCHANGED Contract!contractVars
<1>1. /\ pc[a] = "granted" /\ WakeAll(a, "starting", waiters, permits)
      /\ "starting" \in Holding /\ pc[a] \notin Over /\ a \in Holders
  BY DEF Resume, Holding, Over, Holders
<1>2. /\ waiters \in Seq(Agents) /\ permits \in Nat
      /\ \A i \in 1..Len(waiters) : pc[waiters[i]] = "queued" /\ waiters[i] # a
  BY <1>1, QueueFacts
<1>3. PICK n \in 0..Len(waiters) : Admits(a, "starting", waiters, n)
  BY <1>1, <1>2, WakeAdmits
<1>4. /\ waiters' = SubSeq(waiters, n + 1, Len(waiters))
      /\ Holders' = Holders \cup Heads(waiters, n) /\ Departed' = Departed
  BY <1>1, <1>3 DEF Admits
<1>5. CASE n = 0
  <2>1. waiters' = waiters
    BY <1>2, <1>4, <1>5
  <2>2. Heads(waiters, n) = {}
    BY <1>5 DEF Heads
  <2>3. QED
    BY <1>4, <2>1, <2>2 DEF Contract!contractVars
<1>6. CASE n # 0
  <2>1. n \in 1..Len(waiters)
    BY <1>2, <1>6
  <2>2. Contract!Admit(waiters, Holders, n)
    BY <1>4, FitsNext DEF Contract!Admit, Heads
  <2>3. QED
    BY <1>4, <2>1, <2>2 DEF Contract!LetIn
<1>7. QED
  BY <1>5, <1>6

LEMMA CancelGrantedLeaves ==
  ASSUME SemInv, SemInv', NEW a \in Agents, CancelGranted(a)
  PROVE  Contract!Leave(a)
<1>1. /\ pc[a] = "granted" /\ WakeAll(a, "raised", waiters, permits + 1)
      /\ "raised" \in Over /\ pc[a] \notin Over /\ a \in Holders
  BY DEF CancelGranted, Over, Holders
<1>2. /\ waiters \in Seq(Agents) /\ permits + 1 \in Nat
      /\ \A i \in 1..Len(waiters) : pc[waiters[i]] = "queued" /\ waiters[i] # a
  BY <1>1, QueueFacts
<1>3. PICK n \in 0..Len(waiters) : Admits(a, "raised", waiters, n)
  BY <1>1, <1>2, WakeAdmits
<1>4. Contract!Admit(waiters, Holders \ {a}, n)
  BY <1>1, <1>3, FitsNext DEF Contract!Admit, Admits, Heads
<1>5. QED
  BY <1>1, <1>3, <1>4 DEF Contract!Leave, Admits

LEMMA CancelQueuedGivesUp ==
  ASSUME SemInv, SemInv', NEW a \in Agents, CancelQueued(a)
  PROVE  \E i \in 1..Len(waiters) : Contract!GiveUp(i)
<1>1. PICK k \in 1..Len(waiters) :
        waiters[k] = a /\ WakeAll(a, "raised", RemoveAt(waiters, k), permits)
  BY DEF CancelQueued, SemInv, Conserved, QueueInv
<1> DEFINE w == RemoveAt(waiters, k)
<1>2. /\ w \in Seq(Agents) /\ Len(w) = Len(waiters) - 1
      /\ \A i \in 1..Len(w) : pc[w[i]] = "queued" /\ w[i] # a
  BY <1>1, OthersQueued
<1>3. w = Contract!Without(k)
  BY DEF RemoveAt, Contract!Without
<1>4. WakeAll(a, "raised", w, permits)
  BY <1>1
<1> HIDE DEF w
<1>5. /\ pc[a] = "queued" /\ pc[a] \notin Over /\ a \notin Holders
      /\ "raised" \in Over /\ permits \in Nat
  BY DEF CancelQueued, Over, Holders, SemInv, Conserved, PcInv
<1>6. PICK n \in 0..Len(w) : Admits(a, "raised", w, n)
  BY <1>2, <1>4, <1>5, WakeAdmits
<1>7. /\ waiters' = SubSeq(w, n + 1, Len(w))
      /\ Holders' = Holders \cup Heads(w, n)
      /\ Departed' = Departed \cup {waiters[k]}
  BY <1>1, <1>5, <1>6 DEF Admits
<1>8. Contract!Admit(Contract!Without(k), Holders, n)
  BY <1>3, <1>7, FitsNext DEF Contract!Admit, Heads
<1>9. n \in 0..(Len(waiters) - 1)
  BY <1>2
<1>10. QED
  BY <1>7, <1>8, <1>9 DEF Contract!GiveUp

LEMMA SpawnComes ==
  ASSUME SemInv, SemInv', NEW a \in Agents, Spawn(a)
  PROVE  Contract!Enter(a) \/ Contract!Wait(a)
<1>1. /\ pc[a] = "idle" /\ PcInv
      /\ \A i \in 1..Len(waiters) : waiters[i] # a
  BY QueueFacts DEF Spawn
<1>2. Contract!IsNew(a)
  BY <1>1 DEF Contract!IsNew, Holders, Departed, Over
<1>3. CASE waiters = <<>> /\ UNCHANGED waiters /\ pc' = [pc EXCEPT ![a] = "starting"]
  <2>1. \A b \in Agents : pc'[b] = IF b = a THEN "starting" ELSE pc[b]
    BY <1>1, <1>3 DEF PcInv
  <2>2. Holders' = Holders \cup {a} /\ Departed' = Departed
    BY <1>1, <2>1 DEF Holders, Departed, Over
  <2>3. QED
    BY <1>2, <1>3, <2>2, FitsNext DEF Contract!Enter
<1>4. CASE waiters' = Append(waiters, a) /\ pc' = [pc EXCEPT ![a] = "queued"]
  <2>1. \A b \in Agents : pc'[b] = IF b = a THEN "queued" ELSE pc[b]
    BY <1>1, <1>4 DEF PcInv
  <2>2. Holders' = Holders /\ Departed' = Departed
    BY <1>1, <2>1 DEF Holders, Departed, Over
  <2>3. QED
    BY <1>2, <1>4, <2>2 DEF Contract!Wait
<1>5. QED
  BY <1>3, <1>4 DEF Spawn

\* A step of one agent that keeps its permit is nobody else's business.
LEMMA KeepStutters ==
  ASSUME SemInv, NEW a \in Agents, pc[a] \in Holding, NEW l \in Holding,
         pc' = [pc EXCEPT ![a] = l], UNCHANGED waiters
  PROVE  UNCHANGED Contract!contractVars
<1>1. \A b \in Agents : pc'[b] = IF b = a THEN l ELSE pc[b]
  BY DEF SemInv, Conserved, PcInv
<1>2. Holders' = Holders /\ Departed' = Departed
  BY <1>1 DEF Holders, Holding, Departed, Over
<1>3. QED
  BY <1>2 DEF Contract!contractVars

LEMMA ContractStep ==
  SemInv /\ SemInv' /\ [Next]_vars => [Contract!Next]_Contract!contractVars
<1> SUFFICES ASSUME SemInv, SemInv', [Next]_vars
             PROVE  Contract!Next \/ UNCHANGED Contract!contractVars
  OBVIOUS
<1>1. ASSUME NEW a \in Agents, NEW l \in Over, pc[a] \in Holding, ReleaseTo(a, l)
      PROVE  Contract!Next
  BY <1>1, ReleaseLeaves DEF Contract!Next
<1>2. ASSUME NEW a \in Agents, Spawn(a)
      PROVE  Contract!Next
  BY <1>2, SpawnComes DEF Contract!Next
<1>3. ASSUME NEW a \in Agents, Resume(a)
      PROVE  Contract!Next \/ UNCHANGED Contract!contractVars
  BY <1>3, ResumeLetsIn DEF Contract!Next
<1>4. ASSUME NEW a \in Agents, CancelGranted(a)
      PROVE  Contract!Next
  BY <1>4, CancelGrantedLeaves DEF Contract!Next
<1>5. ASSUME NEW a \in Agents, CancelQueued(a)
      PROVE  Contract!Next
  BY <1>5, CancelQueuedGivesUp DEF Contract!Next
<1>6. ASSUME NEW a \in Agents,
             \/ ExecRaises(a) \/ CancelStarting(a) \/ Finish(a) \/ ReadRaises(a)
             \/ CancelTerminating(a) \/ TerminatedInTime(a) \/ Kill(a)
      PROVE  Contract!Next
  <2>1. /\ pc[a] \in Holding
        /\ \E l \in Over : ReleaseTo(a, l)
    BY <1>6 DEF ExecRaises, CancelStarting, Finish, ReadRaises, CancelTerminating,
                TerminatedInTime, Kill, Conclude, Leave, Holding, Over
  <2>2. QED
    BY <1>1, <2>1
<1>7. ASSUME NEW a \in Agents, TimeoutFires(a) \/ CancelSupervising(a)
      PROVE  Contract!Next \/ UNCHANGED Contract!contractVars
  <2>1. pc[a] \in Holding
    BY <1>7 DEF TimeoutFires, CancelSupervising, Holding
  <2>2. PICK l \in {"timingOut", "cancelling"} : Terminate(a, l)
    BY <1>7 DEF TimeoutFires, CancelSupervising
  <2>3. CASE Gone(a)
    BY <1>1, <2>1, <2>2, <2>3 DEF Terminate, Leave, Over
  <2>4. CASE ~Gone(a)
    BY <2>1, <2>2, <2>4, KeepStutters DEF Terminate, Holding, semVars
  <2>5. QED
    BY <2>3, <2>4
<1>8. ASSUME NEW a \in Agents, CreateProcess(a) \/ ReadDone(a)
      PROVE  UNCHANGED Contract!contractVars
  <2>1. pc[a] \in Holding /\ UNCHANGED waiters
    BY <1>8 DEF CreateProcess, ReadDone, Holding, semVars
  <2>2. \E l \in Holding : pc' = [pc EXCEPT ![a] = l]
    BY <1>8 DEF CreateProcess, ReadDone, Holding
  <2>3. QED
    BY <2>1, <2>2, KeepStutters
<1>9. ASSUME NEW a \in Agents, Environment(a)
      PROVE  UNCHANGED <<waiters, pc>>
  BY <1>9 DEF Environment, CloseOutput, Exit, semVars
<1>10. CancelAll \/ UNCHANGED vars => UNCHANGED <<waiters, pc>>
  BY DEF CancelAll, vars, semVars
<1>11. UNCHANGED <<waiters, pc>> => UNCHANGED Contract!contractVars
  BY DEF Holders, Departed, Contract!contractVars
<1>12. QED
  BY <1>2, <1>3, <1>4, <1>5, <1>6, <1>7, <1>8, <1>9, <1>10, <1>11
  DEF Next, SpawnStep, Cancel

\* For every number of calls and of permits, and wherever calls fail, time out
\* or are cancelled, also between the release of a permit and the step of the
\* waiter it woke: callers get in first come, first served, and no crowd forms.
THEOREM SpawnsImplementContract == Spec => ImplementsContract
<1>1. Init => Contract!Init
  <2> SUFFICES ASSUME Init PROVE Contract!Init
    OBVIOUS
  <2>1. waiters = <<>> /\ Holders = {} /\ Departed = {}
    BY DEF Init, Holders, Departed, Over
  <2>2. QED
    BY <2>1 DEF Contract!Init
<1>2. QED
  BY <1>1, ContractStep, SemInvariance, PTL DEF Spec, ImplementsContract, Contract!Spec

-----------------------------------------------------------------------------
(* ---- Dispatch ---- *)

\* While the session runs no connection is closed: the bundles that are entered
\* and those that are read have both their connections, and a bundle on its way
\* has the first.  Before it runs there are none.
OpenedStaysOpen ==
  /\ sess = "planned" => \A e \in Employees : managers[e] = NoBundle
  /\ sess = "running" =>
    /\ \A e \in Employees : managers[e] # NoBundle =>
         \A d \in Databases : <<managers[e], d>> \in conns
    /\ \A j \in Jobs : at[j] = "openInbox" => <<Bundle(j), "brain">> \in conns
    /\ \A j \in Jobs : at[j] \in {"readBrain", "readInbox"} =>
         \A d \in Databases : <<using[j], d>> \in conns

IDispatch == DispatchTypeOK /\ OpenedStaysOpen /\ WorkingIsShown

LEMMA DispatchInitInv == DispatchInit => IDispatch
<1> SUFFICES ASSUME DispatchInit PROVE IDispatch
  OBVIOUS
<1>1. DispatchTypeOK
  BY DEF DispatchInit, DispatchTypeOK
<1>2. sess = "planned" /\ \A e \in Employees : managers[e] = NoBundle
  BY DEF DispatchInit
<1>3. QED
  BY <1>1, <1>2 DEF IDispatch, OpenedStaysOpen, WorkingIsShown

\* The names of the places, for the provers.
LEMMA PlaceNames ==
  /\ Working = {"openBrain", "openInbox", "readBrain", "readInbox", "status",
                "analyze", "query", "spawn", "retry", "won", "lost"}
  /\ Ended \cap Working = {} /\ "idle" \notin Working
  BY DEF Working, Preparing, Commands, Ended

LEMMA BundleTypes ==
  ASSUME DispatchTypeOK, NEW j \in Jobs
  PROVE  Bundle(j) \in Bundles /\ \A d \in Databases : <<Bundle(j), d>> \in Bundles \X Databases
  BY DEF DispatchTypeOK, Bundle, Bundles

\* A step that takes one job from one place of work to another, and lets the
\* display alone.
WorksOn(j, l) ==
  /\ sess = "running" /\ at[j] \in Working /\ l \in Working
  /\ at' = [at EXCEPT ![j] = l]
  /\ UNCHANGED <<who, text, shown, sess>>

LEMMA ShownWhileWorking ==
  ASSUME IDispatch, NEW j \in Jobs, NEW l, WorksOn(j, l)
  PROVE  WorkingIsShown'
<1>1. /\ \A k \in Jobs \ {j} : at'[k] = at[k]
      /\ at[j] \in Working /\ at'[j] \in Working
      /\ UNCHANGED <<who, shown, sess>>
  BY DEF WorksOn, IDispatch, DispatchTypeOK
<1>2. \A k \in Jobs : at'[k] \in Working <=> at[k] \in Working
  BY <1>1
<1>3. \A e \in Employees : shown[e] \in Jobs \cup {0}
  BY DEF IDispatch, DispatchTypeOK
<1>4. QED
  BY <1>1, <1>2, <1>3 DEF IDispatch, WorkingIsShown

LEMMA TypesWhileWorking ==
  ASSUME IDispatch, NEW j \in Jobs, NEW l, WorksOn(j, l),
         try' \in [Jobs -> {1, 2}],
         managers' \in [Employees -> Bundles \cup {NoBundle}],
         conns' \subseteq Bundles \X Databases,
         using' \in [Jobs -> Bundles \cup {NoBundle}],
         ready' \in {"unknown", "yes", "no"},
         cached' \in {cached, cached \cup {Key(j)}}
  PROVE  DispatchTypeOK'
<1>1. Key(j) \in Texts \X (Jobs \cup {0})
  BY DEF Key, IDispatch, DispatchTypeOK
<1>2. cached' \subseteq Texts \X (Jobs \cup {0})
  BY <1>1 DEF IDispatch, DispatchTypeOK
<1>3. at' \in [Jobs -> {"idle"} \cup Working \cup Ended]
  BY DEF WorksOn, IDispatch, DispatchTypeOK
<1>4. QED
  BY <1>2, <1>3 DEF WorksOn, IDispatch, DispatchTypeOK

\* A step that neither opens nor reads: the spawn, a command, the cache.
LEMMA NoFileStep ==
  ASSUME IDispatch, NEW j \in Jobs, NEW l, WorksOn(j, l),
         l \notin {"openInbox", "readBrain", "readInbox"},
         UNCHANGED <<try, prepVars>>, ready' \in {"unknown", "yes", "no"},
         cached' \in {cached, cached \cup {Key(j)}}
  PROVE  IDispatch'
<1>1. DispatchTypeOK'
  BY TypesWhileWorking DEF IDispatch, DispatchTypeOK, prepVars
<1>2. /\ \A k \in Jobs \ {j} : at'[k] = at[k]
      /\ at'[j] = l /\ UNCHANGED <<sess, try, managers, conns, using>>
  BY DEF WorksOn, IDispatch, DispatchTypeOK, prepVars
<1>3. OpenedStaysOpen'
  BY <1>2 DEF IDispatch, OpenedStaysOpen, Bundle
<1>4. QED
  BY <1>1, <1>3, ShownWhileWorking DEF IDispatch

(* ---- the actions ---- *)

LEMMA StartStep == IDispatch /\ StartJobs => IDispatch'
<1> SUFFICES ASSUME IDispatch, StartJobs PROVE IDispatch'
  OBVIOUS
<1>1. /\ at' = [j \in Jobs |-> "openBrain"] /\ sess' = "running" /\ sess = "planned"
      /\ shown' \in [Employees -> Jobs \cup {0}]
      /\ \A e \in Employees :
           \/ shown'[e] = 0 /\ \A j \in Jobs : who[j] # e
           \/ shown'[e] \in Jobs /\ who[shown'[e]] = e
      /\ UNCHANGED <<who, text, try, prepVars, nexusVars>>
  BY DEF StartJobs
<1>2. "openBrain" \in Working
  BY PlaceNames
<1>3. DispatchTypeOK'
  BY <1>1, <1>2 DEF IDispatch, DispatchTypeOK, prepVars, nexusVars
<1>4. OpenedStaysOpen'
  <2>1. \A j \in Jobs : at'[j] = "openBrain"
    BY <1>1
  <2>2. \A e \in Employees : managers'[e] = NoBundle
    BY <1>1 DEF IDispatch, OpenedStaysOpen, prepVars
  <2>3. QED
    BY <1>1, <2>1, <2>2 DEF OpenedStaysOpen
<1>5. WorkingIsShown'
  <2>1. \A j \in Jobs : at'[j] \in Working
    BY <1>1, <1>2
  <2>2. ASSUME NEW j \in Jobs, shown'[who[j]] # j
        PROVE  \E k \in Jobs \ {j} : who[k] = who[j]
    <3>1. who[j] \in Employees
      BY DEF IDispatch, DispatchTypeOK
    <3>2. shown'[who[j]] \in Jobs /\ who[shown'[who[j]]] = who[j]
      BY <1>1, <3>1
    <3>3. QED
      BY <2>2, <3>2
  <2>3. QED
    BY <1>1, <2>1, <2>2 DEF WorkingIsShown
<1>6. QED
  BY <1>3, <1>4, <1>5 DEF IDispatch

\* A second attempt finds its employee's bundle or starts to open one.
LEMMA FindStep ==
  ASSUME IDispatch, NEW j \in Jobs, FindManagers(j)
  PROVE  IDispatch'
<1> DEFINE found == managers[who[j]]
<1>1. /\ sess = "running" /\ at[j] = "retry" /\ try' = [try EXCEPT ![j] = 2]
      /\ UNCHANGED <<who, text, managers, conns, nexusVars, shown, sess>>
  BY DEF FindManagers, Running
<1>2. who[j] \in Employees /\ found \in Bundles \cup {NoBundle}
  BY DEF IDispatch, DispatchTypeOK
<1>3. PICK l \in {"openBrain", "readBrain"} :
        /\ at' = [at EXCEPT ![j] = l]
        /\ using' = IF l = "openBrain" THEN using ELSE [using EXCEPT ![j] = found]
        /\ l = "readBrain" => found # NoBundle
  BY DEF FindManagers, Goto
<1>4. WorksOn(j, l)
  BY <1>1, <1>3, PlaceNames DEF WorksOn
<1>5. DispatchTypeOK'
  <2>1. /\ try' \in [Jobs -> {1, 2}] /\ using' \in [Jobs -> Bundles \cup {NoBundle}]
        /\ ready' = ready /\ cached' = cached
    BY <1>1, <1>2, <1>3 DEF IDispatch, DispatchTypeOK, nexusVars
  <2>2. QED
    BY <1>1, <1>4, <2>1, TypesWhileWorking DEF IDispatch, DispatchTypeOK
<1>6. OpenedStaysOpen'
  <2>1. /\ \A k \in Jobs \ {j} : at'[k] = at[k] /\ using'[k] = using[k] /\ Bundle(k)' = Bundle(k)
        /\ at'[j] = l /\ (l = "readBrain" => using'[j] = found)
    BY <1>1, <1>3 DEF IDispatch, DispatchTypeOK, Bundle
  <2>2. l = "readBrain" => \A d \in Databases : <<found, d>> \in conns
    BY <1>1, <1>2, <1>3 DEF IDispatch, OpenedStaysOpen
  <2>3. QED
    BY <1>1, <1>3, <2>1, <2>2 DEF IDispatch, OpenedStaysOpen
<1>7. QED
  BY <1>4, <1>5, <1>6, ShownWhileWorking DEF IDispatch

LEMMA OpenBrainStep ==
  ASSUME IDispatch, NEW j \in Jobs, OpenBrain(j)
  PROVE  IDispatch'
<1>1. /\ sess = "running" /\ at[j] = "openBrain" /\ at' = [at EXCEPT ![j] = "openInbox"]
      /\ conns' = conns \cup {<<Bundle(j), "brain">>}
      /\ UNCHANGED <<who, text, try, managers, using, nexusVars, shown, sess>>
  BY DEF OpenBrain, Running, Goto
<1>2. WorksOn(j, "openInbox")
  BY <1>1, PlaceNames DEF WorksOn
<1>3. DispatchTypeOK'
  <2>1. conns' \subseteq Bundles \X Databases
    BY <1>1, BundleTypes DEF IDispatch, DispatchTypeOK, Databases
  <2>2. ready' = ready /\ cached' = cached
    BY <1>1 DEF nexusVars
  <2>3. QED
    BY <1>1, <1>2, <2>1, <2>2, TypesWhileWorking DEF IDispatch, DispatchTypeOK
<1>4. /\ \A k \in Jobs \ {j} : at'[k] = at[k]
      /\ at'[j] = "openInbox" /\ \A k \in Jobs : Bundle(k)' = Bundle(k)
  BY <1>1 DEF IDispatch, DispatchTypeOK, Bundle
<1>5. OpenedStaysOpen'
  BY <1>1, <1>4 DEF IDispatch, OpenedStaysOpen
<1>6. QED
  BY <1>2, <1>3, <1>5, ShownWhileWorking DEF IDispatch

\* The bundle that is entered has its second connection now.
LEMMA OpenInboxStep ==
  ASSUME IDispatch, NEW j \in Jobs, OpenInbox(j)
  PROVE  IDispatch'
<1>1. /\ sess = "running" /\ at[j] = "openInbox" /\ at' = [at EXCEPT ![j] = "readBrain"]
      /\ conns' = conns \cup {<<Bundle(j), "inbox">>}
      /\ managers' = [managers EXCEPT ![who[j]] = Bundle(j)]
      /\ using' = [using EXCEPT ![j] = Bundle(j)]
      /\ UNCHANGED <<who, text, try, nexusVars, shown, sess>>
  BY DEF OpenInbox, Running, Goto
<1>2. WorksOn(j, "readBrain")
  BY <1>1, PlaceNames DEF WorksOn
<1>3. Bundle(j) \in Bundles
  BY BundleTypes DEF IDispatch
<1>4. DispatchTypeOK'
  <2>1. conns' \subseteq Bundles \X Databases
    BY <1>1, BundleTypes DEF IDispatch, DispatchTypeOK, Databases
  <2>2. /\ managers' \in [Employees -> Bundles \cup {NoBundle}]
        /\ using' \in [Jobs -> Bundles \cup {NoBundle}]
    BY <1>1, <1>3 DEF IDispatch, DispatchTypeOK
  <2>3. ready' = ready /\ cached' = cached
    BY <1>1 DEF nexusVars
  <2>4. QED
    BY <1>1, <1>2, <2>1, <2>2, <2>3, TypesWhileWorking DEF IDispatch, DispatchTypeOK
<1>5. \A d \in Databases : <<Bundle(j), d>> \in conns'
  BY <1>1 DEF IDispatch, OpenedStaysOpen, Databases
<1>6. /\ \A k \in Jobs \ {j} : at'[k] = at[k] /\ using'[k] = using[k]
      /\ at'[j] = "readBrain" /\ using'[j] = Bundle(j)
      /\ \A k \in Jobs : Bundle(k)' = Bundle(k)
      /\ \A e \in Employees : managers'[e] \in {managers[e], Bundle(j)}
  BY <1>1 DEF IDispatch, DispatchTypeOK, Bundle
<1>7. OpenedStaysOpen'
  BY <1>1, <1>5, <1>6 DEF IDispatch, OpenedStaysOpen
<1>8. QED
  BY <1>2, <1>4, <1>7, ShownWhileWorking DEF IDispatch

LEMMA ReadBrainStep ==
  ASSUME IDispatch, NEW j \in Jobs, ReadBrain(j)
  PROVE  IDispatch'
<1>1. /\ sess = "running" /\ at[j] = "readBrain" /\ at' = [at EXCEPT ![j] = "readInbox"]
      /\ UNCHANGED <<who, text, try, managers, conns, using, nexusVars, shown, sess>>
  BY DEF ReadBrain, Running, Goto, prepVars
<1>2. WorksOn(j, "readInbox")
  BY <1>1, PlaceNames DEF WorksOn
<1>3. DispatchTypeOK'
  <2>1. ready' = ready /\ cached' = cached
    BY <1>1 DEF nexusVars
  <2>2. QED
    BY <1>1, <1>2, <2>1, TypesWhileWorking DEF IDispatch, DispatchTypeOK
<1>4. /\ \A k \in Jobs \ {j} : at'[k] = at[k]
      /\ at'[j] = "readInbox" /\ \A k \in Jobs : Bundle(k)' = Bundle(k)
  BY <1>1 DEF IDispatch, DispatchTypeOK, Bundle
<1>5. OpenedStaysOpen'
  BY <1>1, <1>4 DEF IDispatch, OpenedStaysOpen
<1>6. QED
  BY <1>2, <1>3, <1>5, ShownWhileWorking DEF IDispatch

\* The places a job goes to without files.
LEMMA Away ==
  \A l \in Commands \cup {"spawn", "retry", "won", "lost"} :
    l \in Working /\ l \notin {"openInbox", "readBrain", "readInbox"}
  BY PlaceNames DEF Commands

LEMMA ReadInboxStep ==
  ASSUME IDispatch, NEW j \in Jobs, NEW again \in BOOLEAN, ReadInbox(j, again)
  PROVE  IDispatch'
<1>1. /\ sess = "running" /\ at[j] = "readInbox"
      /\ UNCHANGED <<who, text, try, prepVars, ready, shown, sess>>
      /\ cached' \in {cached, cached \cup {Key(j)}}
  BY DEF ReadInbox, TaskContext, Goto, Running
<1>2. PICK l \in {"spawn", "query", "status"} : at' = [at EXCEPT ![j] = l]
  BY DEF ReadInbox, TaskContext, Goto
<1>3. l \in Working /\ l \notin {"openInbox", "readBrain", "readInbox"}
  BY <1>2, Away DEF Commands
<1>4. WorksOn(j, l)
  BY <1>1, <1>2, <1>3, PlaceNames DEF WorksOn
<1>5. ready' \in {"unknown", "yes", "no"}
  BY <1>1 DEF IDispatch, DispatchTypeOK
<1>6. QED
  BY <1>1, <1>3, <1>4, <1>5, NoFileStep

LEMMA CommandStep ==
  ASSUME IDispatch, NEW j \in Jobs, NEW ok \in BOOLEAN, CommandEnds(j, ok)
  PROVE  IDispatch'
<1>1. /\ sess = "running" /\ at[j] \in Commands
      /\ UNCHANGED <<who, text, try, prepVars, shown, sess>>
  BY DEF CommandEnds, Running, Commands
<1>2. ready' \in {"unknown", "yes", "no"} /\ cached' \in {cached, cached \cup {Key(j)}}
  BY DEF CommandEnds, IndexKnown, nexusVars, IDispatch, DispatchTypeOK
<1>3. PICK l \in {"analyze", "query", "spawn"} : at' = [at EXCEPT ![j] = l]
  BY DEF CommandEnds, IndexKnown, Goto
<1>4. l \in Working /\ l \notin {"openInbox", "readBrain", "readInbox"} /\ at[j] \in Working
  BY <1>1, <1>3, Away DEF Commands
<1>5. WorksOn(j, l)
  BY <1>1, <1>3, <1>4 DEF WorksOn
<1>6. QED
  BY <1>1, <1>2, <1>4, <1>5, NoFileStep

LEMMA SpawnReturnsStep ==
  ASSUME IDispatch, NEW j \in Jobs, NEW ok \in BOOLEAN, SpawnReturns(j, ok)
  PROVE  IDispatch'
<1>1. /\ sess = "running" /\ at[j] = "spawn"
      /\ UNCHANGED <<who, text, try, prepVars, nexusVars, shown, sess>>
  BY DEF SpawnReturns, Running
<1>2. PICK l \in {"won", "retry", "lost"} : at' = [at EXCEPT ![j] = l]
  BY DEF SpawnReturns, Goto
<1>3. l \in Working /\ l \notin {"openInbox", "readBrain", "readInbox"}
  BY <1>2, Away
<1>4. WorksOn(j, l)
  BY <1>1, <1>2, <1>3, PlaceNames DEF WorksOn
<1>5. ready' \in {"unknown", "yes", "no"} /\ cached' = cached
  BY <1>1 DEF IDispatch, DispatchTypeOK, nexusVars
<1>6. QED
  BY <1>1, <1>3, <1>4, <1>5, NoFileStep

\* A job's end takes its employee off the display: who has another job still
\* has one that explains it.
LEMMA SettleStep ==
  ASSUME IDispatch, NEW j \in Jobs, Settle(j)
  PROVE  IDispatch'
<1>1. /\ sess = "running" /\ at[j] \in Working
      /\ shown' = [shown EXCEPT ![who[j]] = 0] /\ at' = [at EXCEPT ![j] = "done"]
      /\ UNCHANGED <<who, text, try, managers, conns, using, nexusVars, sess>>
  BY PlaceNames DEF Settle, AgentDone, Running, Goto, prepVars
<1>2. "done" \in Ended /\ "done" \notin Working
  BY PlaceNames DEF Ended
<1>3. /\ at' \in [Jobs -> {"idle"} \cup Working \cup Ended]
      /\ shown' \in [Employees -> Jobs \cup {0}]
  BY <1>1, <1>2 DEF IDispatch, DispatchTypeOK
<1>4. DispatchTypeOK'
  BY <1>1, <1>3 DEF IDispatch, DispatchTypeOK, nexusVars
<1>5. /\ \A k \in Jobs \ {j} : at'[k] = at[k]
      /\ at'[j] = "done" /\ \A k \in Jobs : Bundle(k)' = Bundle(k)
      /\ \A e \in Employees : shown'[e] = IF e = who[j] THEN 0 ELSE shown[e]
  BY <1>1 DEF IDispatch, DispatchTypeOK, Bundle
<1>6. OpenedStaysOpen'
  BY <1>1, <1>5 DEF IDispatch, OpenedStaysOpen
<1>7. WorkingIsShown'
  <2>1. ASSUME NEW e \in Employees, shown'[e] # 0
        PROVE  who[shown'[e]] = e /\ at'[shown'[e]] \in Working
    <3>1. e # who[j] /\ shown'[e] = shown[e] /\ shown[e] \in Jobs
      BY <1>5, <2>1 DEF IDispatch, DispatchTypeOK
    <3>2. who[shown[e]] = e /\ at[shown[e]] \in Working
      BY <1>1, <2>1, <3>1 DEF IDispatch, WorkingIsShown
    <3>3. QED
      BY <1>5, <3>1, <3>2
  <2>2. ASSUME NEW k \in Jobs, at'[k] \in Working, shown'[who[k]] # k
        PROVE  \E i \in Jobs \ {k} : who[i] = who[k]
    <3>1. k # j /\ at[k] \in Working /\ who[k] \in Employees
      BY <1>2, <1>5, <2>2 DEF IDispatch, DispatchTypeOK
    <3>2. CASE who[k] = who[j]
      BY <3>1, <3>2
    <3>3. CASE who[k] # who[j]
      BY <1>1, <1>5, <2>2, <3>1, <3>3 DEF IDispatch, WorkingIsShown
    <3>4. QED
      BY <3>2, <3>3
  <2>3. QED
    BY <1>1, <2>1, <2>2 DEF WorkingIsShown
<1>8. QED
  BY <1>4, <1>6, <1>7 DEF IDispatch

\* After the session nothing is promised any more but the types.
LEMMA EndOfSessionStep ==
  ASSUME IDispatch, (\E j \in Jobs : JobRaises(j)) \/ Interrupt \/ Close
  PROVE  IDispatch'
<1>1. sess' \in {"stopping", "closed", "left"}
  BY DEF JobRaises, Interrupt, Close
<1>2. CASE Close
  <2>1. /\ conns' \subseteq conns /\ managers' = [e \in Employees |-> NoBundle]
        /\ UNCHANGED <<who, text, at, try, using, nexusVars, shown>>
    BY <1>2 DEF Close
  <2>2. DispatchTypeOK'
    BY <1>1, <2>1 DEF IDispatch, DispatchTypeOK, nexusVars
  <2>3. QED
    BY <1>1, <2>2 DEF IDispatch, OpenedStaysOpen, WorkingIsShown
<1>3. CASE (\E j \in Jobs : JobRaises(j)) \/ Interrupt
  <2>1. Stop /\ UNCHANGED <<who, text, try, prepVars, nexusVars, shown>>
    BY <1>3 DEF JobRaises, Interrupt
  <2>2. at' \in [Jobs -> {"idle"} \cup Working \cup Ended]
    BY <2>1 DEF Stop, Ended
  <2>3. DispatchTypeOK'
    BY <1>1, <2>1, <2>2 DEF IDispatch, DispatchTypeOK, nexusVars, prepVars
  <2>4. QED
    BY <1>1, <2>3 DEF IDispatch, OpenedStaysOpen, WorkingIsShown
<1>4. QED
  BY <1>2, <1>3

LEMMA DispatchStep == IDispatch /\ [DispatchNext]_dispatchVars => IDispatch'
<1> SUFFICES ASSUME IDispatch, [DispatchNext]_dispatchVars PROVE IDispatch'
  OBVIOUS
<1>1. ASSUME NEW j \in Jobs, Prepare(j)
      PROVE  IDispatch'
  BY <1>1, FindStep, OpenBrainStep, OpenInboxStep, ReadBrainStep, ReadInboxStep,
     CommandStep
  DEF Prepare, CommandTimesOut
<1>2. ASSUME NEW j \in Jobs, JobStep(j)
      PROVE  IDispatch'
  BY <1>1, <1>2, CommandStep, SpawnReturnsStep, SettleStep, EndOfSessionStep DEF JobStep
<1>3. CASE UNCHANGED dispatchVars
  BY <1>3 DEF dispatchVars, prepVars, nexusVars, IDispatch, DispatchTypeOK,
              OpenedStaysOpen, WorkingIsShown, Bundle
<1>4. QED
  BY <1>2, <1>3, StartStep, EndOfSessionStep DEF DispatchNext

LEMMA DispatchInvariance == DispatchSpec => []IDispatch
  BY DispatchInitInv, DispatchStep, PTL DEF DispatchSpec

\* A job reads its employee's memory and mail only through open connections,
\* for any number of jobs that open, replace and read bundles concurrently.
THEOREM ReadsAreOpen == DispatchSpec => []UsedIsOpen
<1>1. IDispatch => UsedIsOpen
  BY DEF IDispatch, OpenedStaysOpen, UsedIsOpen, Running
<1>2. QED
  BY <1>1, DispatchInvariance, PTL

\* The display shows subtasks that are under way, each with the employee that
\* has it, and no employee's only subtask is missing, for any plan.
THEOREM DisplayIsTrue == DispatchSpec => []WorkingIsShown
<1>1. IDispatch => WorkingIsShown
  BY DEF IDispatch
<1>2. QED
  BY <1>1, DispatchInvariance, PTL

(* ---- Pool ---- *)

\* No client has a larger number than the one created last.
NumberedSoFar ==
  /\ \A k \in linked : k <= clients
  /\ \A s \in Servers : pool[s] <= clients
  /\ \A u \in Users : call[u].client <= clients

\* A client that is being connected is known to one coroutine only, and not yet
\* connected; it will be pooled for one server.
ConnectingIsNew ==
  \A u \in Users : call[u].awaits = "connect" =>
    /\ call[u].client > 0 /\ call[u].client \notin linked
    /\ \A s \in Servers : pool[s] # call[u].client
    /\ \A v \in Users \ {u} :
         call[v].awaits \in {"connect", "exit"} => call[v].client # call[u].client
    /\ \E s \in Servers : call[u].of = {s}

IPool == PoolTypeOK /\ NumberedSoFar /\ ConnectingIsNew /\ PooledIsConnected

LEMMA PoolInitInv == PoolInit => IPool
<1> SUFFICES ASSUME PoolInit PROVE IPool
  OBVIOUS
<1>1. NoCall \in Calls
  BY PoolAssumption DEF NoCall, Calls, Uses
<1>2. PoolTypeOK
  BY <1>1, PoolAssumption DEF PoolInit, PoolTypeOK
<1>3. NumberedSoFar /\ ConnectingIsNew /\ PooledIsConnected
  BY DEF PoolInit, NumberedSoFar, ConnectingIsNew, PooledIsConnected, NoCall
<1>4. QED
  BY <1>2, <1>3 DEF IPool

\* The types of a call's parts, and of no call.
LEMMA CallTypes ==
  ASSUME PoolTypeOK
  PROVE  /\ NoCall \in Calls
         /\ \A u \in Users :
              /\ call[u].awaits \in Uses \cup {"connect", "exit", "next"}
              /\ call[u].client \in 0..MaxClients
              /\ call[u].of \in SUBSET Servers /\ call[u].use \in Uses
              /\ call[u].rest \in SUBSET Servers
<1>1. NoCall \in Calls
  BY PoolAssumption DEF NoCall, Calls, Uses
<1>2. \A u \in Users : call[u] \in Calls
  BY DEF PoolTypeOK
<1>3. QED
  BY <1>1, <1>2 DEF Calls

\* What Await and Return do to the calls.
LEMMA AwaitEffect ==
  ASSUME PoolTypeOK, NEW u \in Users,
         NEW what \in Uses \cup {"connect", "exit", "next"},
         NEW k \in 0..MaxClients, Await(u, what, k)
  PROVE  /\ call' \in [Users -> Calls]
         /\ \A v \in Users \ {u} : call'[v] = call[v]
         /\ call'[u].awaits = what /\ call'[u].client = k
<1>1. call \in [Users -> Calls]
  BY DEF PoolTypeOK
<1>2. call' = [call EXCEPT ![u].awaits = what, ![u].client = k]
  BY DEF Await
<1>3. call' \in [Users -> Calls]
  BY <1>1, <1>2 DEF Calls
<1>4. \A v \in Users \ {u} : call'[v] = call[v]
  BY <1>1, <1>2
<1>5. call'[u].awaits = what /\ call'[u].client = k
  <2>1. call'[u] = [call[u] EXCEPT !.awaits = what, !.client = k]
    BY <1>1, <1>2
  <2>2. call[u] = [awaits |-> call[u].awaits, client |-> call[u].client,
                   of |-> call[u].of, use |-> call[u].use, rest |-> call[u].rest]
    BY <1>1 DEF Calls
  <2>3. QED
    BY <2>1, <2>2
<1>6. QED
  BY <1>3, <1>4, <1>5

LEMMA ReturnEffect ==
  ASSUME PoolTypeOK, NEW u \in Users, Return(u)
  PROVE  /\ call' \in [Users -> Calls]
         /\ \A v \in Users \ {u} : call'[v] = call[v]
         /\ call'[u].awaits = "nothing" /\ call'[u].client = 0
<1>1. call' \in [Users -> Calls] /\ \A v \in Users \ {u} : call'[v] = call[v]
  BY CallTypes DEF Return, PoolTypeOK
<1>2. call'[u] = NoCall
  BY DEF Return, PoolTypeOK
<1>3. QED
  BY <1>1, <1>2 DEF NoCall

\* Own, other calls and the pool in the vocabulary of the invariant: a call that
\* is not a connect or an exit after a step has nothing to keep.
LEMMA QuietStep ==
  ASSUME IPool, NEW u \in Users,
         UNCHANGED <<pool, linked, clients>>, open' \subseteq 1..MaxClients,
         call' \in [Users -> Calls],
         \A v \in Users \ {u} : call'[v] = call[v],
         call'[u].awaits \notin {"connect", "exit"}, call'[u].client <= clients
  PROVE  IPool'
<1> USE DEF IPool
<1>1. PoolTypeOK'
  BY DEF PoolTypeOK
<1>2. NumberedSoFar'
  BY DEF NumberedSoFar
<1>3. ConnectingIsNew'
  BY DEF ConnectingIsNew
<1>4. PooledIsConnected'
  BY DEF PooledIsConnected
<1>5. QED
  BY <1>1, <1>2, <1>3, <1>4

LEMMA GetClientStep ==
  ASSUME IPool, NEW u \in Users, NEW s \in Servers, NEW use \in Uses,
         GetClient(u, s, use)
  PROVE  IPool'
<1> USE DEF IPool
<1>1. CASE pool[s] \in linked
  <2>1. use # "nothing" /\ Await(u, use, pool[s]) /\ UNCHANGED <<clients, pool, linked, open>>
    BY <1>1 DEF GetClient
  <2>2. pool[s] \in 0..MaxClients /\ pool[s] <= clients
    BY DEF PoolTypeOK, NumberedSoFar
  <2>3. /\ call' \in [Users -> Calls]
        /\ \A v \in Users \ {u} : call'[v] = call[v]
        /\ call'[u].awaits = use /\ call'[u].client = pool[s]
    BY <2>1, <2>2, AwaitEffect
  <2>4. use \notin {"connect", "exit"}
    BY DEF Uses
  <2>5. open' \subseteq 1..MaxClients
    BY <2>1 DEF PoolTypeOK
  <2>6. QED
    BY <2>1, <2>2, <2>3, <2>4, <2>5, QuietStep
<1>2. CASE pool[s] \notin linked
  <2>1. /\ clients < MaxClients /\ clients' = clients + 1
        /\ call' = [call EXCEPT ![u] = [awaits |-> "connect", client |-> clients + 1,
                                        of |-> {s}, use |-> use, rest |-> {}]]
        /\ UNCHANGED <<pool, linked, open>>
    BY <1>2 DEF GetClient
  <2>2. clients + 1 \in 0..MaxClients
    BY <2>1, PoolAssumption DEF PoolTypeOK
  <2>3. /\ call' \in [Users -> Calls]
        /\ \A v \in Users \ {u} : call'[v] = call[v]
        /\ call'[u].awaits = "connect" /\ call'[u].client = clients + 1
        /\ call'[u].of = {s}
    <3>1. [awaits |-> "connect", client |-> clients + 1, of |-> {s},
           use |-> use, rest |-> {}] \in Calls
      BY <2>2 DEF Calls, Uses
    <3>2. QED
      BY <2>1, <3>1 DEF PoolTypeOK
  <2>4. PoolTypeOK'
    BY <2>1, <2>2, <2>3 DEF PoolTypeOK
  <2>5. /\ clients \in Nat /\ \A k \in linked : k \in Nat
        /\ (\A r \in Servers : pool[r] \in Nat)
        /\ (\A v \in Users : call[v].client \in Nat)
    BY CallTypes DEF PoolTypeOK
  <2>6. NumberedSoFar'
    <3>1. \A v \in Users : call'[v].client <= clients + 1
      BY <2>3, <2>5 DEF NumberedSoFar
    <3>2. (\A k \in linked : k <= clients + 1) /\ \A r \in Servers : pool[r] <= clients + 1
      BY <2>5 DEF NumberedSoFar
    <3>3. QED
      BY <2>1, <3>1, <3>2 DEF NumberedSoFar
  <2>7. ConnectingIsNew'
    BY <2>1, <2>3, <2>5 DEF NumberedSoFar, ConnectingIsNew
  <2>8. PooledIsConnected'
    BY <2>1, <2>3 DEF PooledIsConnected
  <2>9. QED
    BY <2>4, <2>6, <2>7, <2>8
<1>3. QED
  BY <1>1, <1>2

LEMMA ConnectStep ==
  ASSUME IPool, NEW u \in Users, ConnectReturns(u)
  PROVE  IPool'
<1> USE DEF IPool
<1> DEFINE k == call[u].client
<1>1. PICK t \in Servers : call[u].of = {t}
  BY DEF ConnectReturns, ConnectingIsNew
<1>2. k \in 1..MaxClients /\ k <= clients
  BY CallTypes DEF ConnectReturns, ConnectingIsNew, NumberedSoFar
<1>3. linked' = linked \cup {k} /\ open' = open \cup {k} /\ clients' = clients
  BY DEF ConnectReturns
<1>4. pool' \in [Servers -> 0..MaxClients]
      /\ \A s \in Servers : pool'[s] = IF s = t THEN k ELSE pool[s]
  BY <1>1, <1>2 DEF ConnectReturns, PoolTypeOK
<1>5. /\ call' \in [Users -> Calls]
      /\ \A v \in Users \ {u} : call'[v] = call[v]
      /\ call'[u].awaits \in Uses /\ call'[u].client \in {0, k}
  <2>1. CASE call[u].use = "nothing"
    <3>1. Return(u)
      BY <2>1 DEF ConnectReturns
    <3>2. QED
      BY <3>1, ReturnEffect DEF Uses
  <2>2. CASE call[u].use # "nothing"
    <3>1. Await(u, call[u].use, k)
      BY <2>2 DEF ConnectReturns
    <3>2. QED
      BY <3>1, <1>2, CallTypes, AwaitEffect
  <2>3. QED
    BY <2>1, <2>2
<1>7. PoolTypeOK'
  BY <1>2, <1>3, <1>4, <1>5 DEF PoolTypeOK
<1>8. NumberedSoFar'
  BY <1>2, <1>3, <1>4, <1>5 DEF NumberedSoFar, PoolTypeOK
<1>9. ConnectingIsNew'
  BY <1>3, <1>4, <1>5 DEF ConnectReturns, ConnectingIsNew, Uses
<1>10. PooledIsConnected'
  BY <1>2, <1>3, <1>4, <1>5 DEF ConnectReturns, ConnectingIsNew, PooledIsConnected, Uses
<1>11. QED
  BY <1>7, <1>8, <1>9, <1>10

\* The steps that change nothing but their own call, which ends.
LEMMA EndedCallStep ==
  ASSUME IPool, NEW u \in Users,
         \/ \E b \in BOOLEAN : ConnectRaises(u, b)
         \/ ListReturns(u) \/ CallReturns(u)
  PROVE  IPool'
<1>1. PoolTypeOK
  BY DEF IPool
<1>2. UNCHANGED <<pool, linked, clients>> /\ Return(u)
  BY DEF ConnectRaises, ListReturns, CallReturns
<1>3. open' \subseteq 1..MaxClients
  <2>1. ASSUME NEW b \in BOOLEAN, ConnectRaises(u, b) PROVE open' \subseteq 1..MaxClients
    <3>1. call[u].client \in 1..MaxClients
      BY <2>1, CallTypes DEF ConnectRaises, IPool, ConnectingIsNew
    <3>2. QED
      BY <2>1, <3>1 DEF ConnectRaises, IPool, PoolTypeOK
  <2>2. CASE ListReturns(u) \/ CallReturns(u)
    BY <1>1, <2>2 DEF ListReturns, CallReturns, PoolTypeOK
  <2>3. QED
    BY <2>1, <2>2
<1>4. 0 <= clients
  BY <1>1 DEF PoolTypeOK
<1>5. QED
  BY <1>1, <1>2, <1>3, <1>4, ReturnEffect, QuietStep

\* A client leaves the pool before its disconnect begins.
LEMMA DisconnectStep ==
  ASSUME IPool, NEW u \in Users, NEW s \in Servers, NEW rest \in SUBSET Servers,
         Release(u, s, rest)
  PROVE  IPool'
<1> USE DEF IPool
<1>1. /\ pool' = [pool EXCEPT ![s] = 0]
      /\ UNCHANGED <<linked, open, clients>>
  BY DEF Release, Pop
<1>2. PICK now \in {"exit", "next"} :
        /\ now = "exit" <=> pool[s] \in linked
        /\ call' = [call EXCEPT ![u] = [NoCall EXCEPT !.awaits = now,
                                          !.client = pool[s], !.rest = rest]]
  BY DEF Release
<1>3. PoolTypeOK'
  <2>1. pool[s] \in 0..MaxClients
    BY DEF PoolTypeOK
  <2>2. [NoCall EXCEPT !.awaits = now, !.client = pool[s], !.rest = rest] \in Calls
    BY <2>1, PoolAssumption DEF NoCall, Calls, Uses
  <2>3. QED
    BY <1>1, <1>2, <2>2, PoolAssumption DEF PoolTypeOK
<1>4. /\ \A r \in Servers : pool'[r] = IF r = s THEN 0 ELSE pool[r]
      /\ \A v \in Users \ {u} : call'[v] = call[v]
      /\ call'[u].awaits = now /\ call'[u].client = pool[s]
  BY <1>1, <1>2 DEF PoolTypeOK, NoCall
<1>5. NumberedSoFar'
  BY <1>1, <1>4 DEF NumberedSoFar, PoolTypeOK
<1>6. ConnectingIsNew'
  BY <1>1, <1>2, <1>4 DEF ConnectingIsNew
<1>7. PooledIsConnected'
  BY <1>1, <1>2, <1>4 DEF PooledIsConnected
<1>8. QED
  BY <1>3, <1>5, <1>6, <1>7

LEMMA ExitStep ==
  ASSUME IPool, NEW u \in Users, NEW b \in BOOLEAN, ExitReturns(u, b)
  PROVE  IPool'
<1> USE DEF IPool
<1>1. /\ linked' = linked \ {call[u].client} /\ open' \subseteq open
      /\ UNCHANGED <<pool, clients>>
      /\ call' = [call EXCEPT ![u].awaits = "next", ![u].client = 0]
  BY DEF ExitReturns, Await
<1>2. /\ call' \in [Users -> Calls]
      /\ \A v \in Users \ {u} : call'[v] = call[v]
      /\ call'[u].awaits = "next" /\ call'[u].client = 0
  BY AwaitEffect, PoolAssumption DEF ExitReturns
<1>3. PoolTypeOK'
  BY <1>1, <1>2 DEF PoolTypeOK
<1>4. NumberedSoFar'
  BY <1>1, <1>2 DEF NumberedSoFar, PoolTypeOK
<1>5. ConnectingIsNew'
  BY <1>1, <1>2 DEF ConnectingIsNew
<1>6. PooledIsConnected'
  BY <1>1, <1>2 DEF ExitReturns, PooledIsConnected
<1>7. QED
  BY <1>3, <1>4, <1>5, <1>6

LEMMA PoolStep == IPool /\ [PoolNext]_poolVars => IPool'
<1> SUFFICES ASSUME IPool, [PoolNext]_poolVars PROVE IPool'
  OBVIOUS
<1>1. ASSUME NEW u \in Users, NEW s \in Servers, DisconnectServer(u, s)
      PROVE  IPool'
  BY <1>1, DisconnectStep DEF DisconnectServer
<1>2. ASSUME NEW u \in Users, DisconnectAll(u)
      PROVE  IPool'
  <2>1. PICK s \in Servers, rest \in SUBSET Servers : Release(u, s, rest)
    BY <1>2 DEF DisconnectAll
  <2>2. QED
    BY <2>1, DisconnectStep
<1>3. ASSUME NEW u \in Users, NextName(u)
      PROVE  IPool'
  <2>1. CASE call[u].rest = {}
    <3>1. UNCHANGED <<pool, linked, open, clients>> /\ Return(u)
      BY <1>3, <2>1 DEF NextName
    <3>2. PoolTypeOK /\ open' \subseteq 1..MaxClients /\ 0 <= clients
      BY <3>1 DEF IPool, PoolTypeOK
    <3>3. QED
      BY <3>1, <3>2, ReturnEffect, QuietStep
  <2>2. CASE call[u].rest # {}
    <3>1. call[u].rest \in SUBSET Servers
      BY CallTypes DEF IPool
    <3>2. PICK s \in Servers, rest \in SUBSET Servers : Release(u, s, rest)
      BY <1>3, <2>2, <3>1 DEF NextName
    <3>3. QED
      BY <3>2, DisconnectStep
  <2>3. QED
    BY <2>1, <2>2
<1>4. CASE UNCHANGED poolVars
  BY <1>4 DEF poolVars, IPool, PoolTypeOK, NumberedSoFar, ConnectingIsNew,
              PooledIsConnected
<1>5. QED
  BY <1>1, <1>2, <1>3, <1>4, GetClientStep, ConnectStep, EndedCallStep, ExitStep
  DEF PoolNext

LEMMA PoolInvariance == PoolSpec => []IPool
  BY PoolInitInv, PoolStep, PTL DEF PoolSpec

\* The pool, the clients and the calls have their types, for any number of
\* servers, coroutines and clients.
THEOREM PoolTypes == PoolSpec => []PoolTypeOK
<1>1. IPool => PoolTypeOK
  BY DEF IPool
<1>2. QED
  BY <1>1, PoolInvariance, PTL

\* Whoever gets a client out of the pool gets a connected one that nobody is
\* disconnecting, however many coroutines interleave at the awaits of connect
\* and disconnect.
THEOREM PoolIsConnected == PoolSpec => []PooledIsConnected
<1>1. IPool => PooledIsConnected
  BY DEF IPool
<1>2. QED
  BY <1>1, PoolInvariance, PTL

(* ---- Brain ---- *)

\* Memories are numbered: none has a row with a rowid or an id beyond the last.
RowsSoFar ==
  \A r \in Rowids : \A t \in {disk, work} :
    t.row[r] <= written /\ (t.row[r] # 0 => r <= written)

\* A transaction that was begun holds the lock.
BegunHolds ==
  \A c \in Conns : c \in holder <=> doing[c] \in {"inserted", "halfPruned", "changed"}

\* How far the index is behind the table inside a transaction: by the row of one
\* new memory, ahead by the rows that prune is about to delete, or not at all.
NewRowOnly(c) ==
  \E m \in Ids :
    /\ about[c] = {m}
    /\ \A r \in Rowids : work.row[r] = m \/ work.index[r] = work.row[r]
    /\ \A q, r \in Rowids : work.row[q] = m /\ work.row[r] = m => q = r

Behind ==
  \A c \in holder :
    CASE doing[c] = "inserted" -> NewRowOnly(c)
      [] doing[c] = "halfPruned" -> work.index = Delete(Lowest(work, excess[c]), work.row)
      [] OTHER -> work.index = work.row

IBrain == BrainTypeOK /\ RowsSoFar /\ BegunHolds /\ Behind /\ FindableMemory

LEMMA TableTypes ==
  ASSUME NEW t \in Tables
  PROVE  /\ t.row \in [Rowids -> Ids \cup {0}] /\ t.index \in [Rowids -> Ids \cup {0}]
         /\ t.score \in [Ids -> 0..2]
BY DEF Tables

LEMMA Deleted ==
  ASSUME NEW rs, NEW table \in [Rowids -> Ids \cup {0}]
  PROVE  /\ Delete(rs, table) \in [Rowids -> Ids \cup {0}]
         /\ \A r \in Rowids : Delete(rs, table)[r] = 0 \/ Delete(rs, table)[r] = table[r]
BY DEF Delete

\* prune's two deletions select the same rows: the selection does not look at the index.
LEMMA SameSelection ==
  ASSUME NEW t, NEW u, NEW n, u.row = t.row, u.score = t.score
  PROVE  Lowest(u, n) = Lowest(t, n)
BY DEF Lowest, Rows

\* A statement keeps the invariant if the tables it leaves are where the
\* transaction must be.
LEMMA ExecuteStep ==
  ASSUME IBrain, NEW c \in Conns, NEW from, NEW to \in {"inserted", "halfPruned", "changed"},
         NEW tables \in Tables, Execute(c, from, to, tables),
         about' \in [Conns -> SUBSET Ids], UNCHANGED excess,
         written' \in written..MaxWrites,
         \A r \in Rowids : tables.row[r] <= written' /\ (tables.row[r] # 0 => r <= written'),
         Behind'
  PROVE  IBrain'
<1>1. /\ holder \subseteq {c} /\ holder' = {c} /\ work' = tables /\ disk' = disk
      /\ doing' = [doing EXCEPT ![c] = to]
  BY DEF Execute
<1>2. BrainTypeOK'
  <2>1. holder' # {} /\ doing' \in [Conns -> {"nothing", "inserted", "found", "counted",
                                              "halfPruned", "changed"}]
    BY <1>1 DEF IBrain, BrainTypeOK
  <2>2. written' \in 0..MaxWrites
    BY BrainAssumption DEF IBrain, BrainTypeOK
  <2>3. QED
    BY <1>1, <2>1, <2>2 DEF IBrain, BrainTypeOK
<1>3. \A r \in Rowids : disk.row[r] \in Nat /\ r \in Nat
  <2>1. disk.row \in [Rowids -> Ids \cup {0}]
    BY TableTypes DEF IBrain, BrainTypeOK
  <2>2. \A m \in Ids \cup Rowids : m \in Nat
    BY BrainAssumption DEF Ids, Rowids
  <2>3. QED
    BY <2>1, <2>2
<1>4. written \in Nat /\ written' \in Nat /\ written <= written'
  BY BrainAssumption DEF IBrain, BrainTypeOK
<1>5. \A r \in Rowids : disk.row[r] <= written' /\ (disk.row[r] # 0 => r <= written')
  BY <1>3, <1>4 DEF IBrain, RowsSoFar
<1>6. RowsSoFar'
  BY <1>1, <1>5 DEF RowsSoFar
<1>7. BegunHolds'
  BY <1>1 DEF IBrain, BrainTypeOK, BegunHolds
<1>8. FindableMemory'
  BY <1>1 DEF IBrain, FindableMemory
<1>9. QED
  BY <1>2, <1>6, <1>7, <1>8 DEF IBrain

\* The tables before a statement: what the connection has, or nobody.
LEMMA BeforeStatement ==
  ASSUME IBrain, NEW c \in Conns, holder \subseteq {c}
  PROVE  /\ work \in Tables /\ holder \in {{}, {c}}
         /\ doing[c] \notin {"inserted", "halfPruned"} => work.index = work.row
         /\ doing[c] = "inserted" => NewRowOnly(c)
         /\ doing[c] = "halfPruned" =>
              work.index = Delete(Lowest(work, excess[c]), work.row)
         /\ \A r \in Rowids : work.row[r] <= written /\ (work.row[r] # 0 => r <= written)
<1>1. CASE c \in holder
  BY <1>1 DEF IBrain, BrainTypeOK, RowsSoFar, BegunHolds, Behind
<1>2. CASE c \notin holder
  BY <1>2 DEF IBrain, BrainTypeOK, RowsSoFar, BegunHolds, Behind, FindableMemory
<1>3. QED
  BY <1>1, <1>2

\* A row is added within the table, at a rowid that no memory has.
LEMMA NextRow ==
  ASSUME IBrain, written < MaxWrites,
         \A r \in Rowids : work.row[r] # 0 => r <= written
  PROVE  /\ Max(Rows(work) \cup {0}) + 1 \in 1..(written + 1)
         /\ work.row[Max(Rows(work) \cup {0}) + 1] = 0
<1> DEFINE S == Rows(work) \cup {0}
           U == {n \in 0..written : \A x \in S : x <= n}
           top == Max(S)
<1>1. written \in Nat /\ MaxWrites \in Nat /\ \A x \in S : x \in 0..written
  BY BrainAssumption DEF IBrain, BrainTypeOK, Rows, Rowids
<1>2. U \in SUBSET Nat /\ U # {}
  <2>1. written \in U
    BY <1>1
  <2>2. QED
    BY <1>1, <2>1
<1>3. PICK n \in U : \A m \in U : n <= m
  BY <1>2, LeastMember
<1>4. n \in S
  <2>1. SUFFICES ASSUME n \notin S PROVE FALSE
    OBVIOUS
  <2>2. n # 0 /\ n \in 0..written
    BY <2>1
  <2>3. \A x \in S : x <= n - 1
    BY <1>1, <2>1, <2>2
  <2>4. n - 1 \in U
    BY <1>1, <2>2, <2>3
  <2>5. QED
    BY <1>3, <2>2, <2>4
<1>5. \A x \in S : n >= x
  BY <1>1
<1>6. \E x \in S : \A y \in S : x >= y
  BY <1>4, <1>5
<1>7. top \in S /\ \A y \in S : top >= y
  BY <1>6 DEF Max
<1>8. top + 1 \in 1..(written + 1)
  BY <1>1, <1>7
<1>9. top + 1 \in Rowids /\ top + 1 \notin S
  BY <1>1, <1>7, <1>8 DEF Rowids
<1>10. work.row[top + 1] = 0
  BY <1>9 DEF Rows
<1>11. QED
  BY <1>8, <1>10

LEMMA InsertMemoryStep ==
  ASSUME IBrain, NEW c \in Conns, InsertMemory(c)
  PROVE  IBrain'
<1> DEFINE m == written + 1
           rn == Max(Rows(work) \cup {0}) + 1
           tables == [work EXCEPT !.row[rn] = m, !.score[m] = 2]
<1>1. /\ holder \subseteq {c} /\ doing[c] = "nothing" /\ written < MaxWrites /\ written' = m
      /\ Execute(c, "nothing", "inserted", tables)
      /\ work' = tables /\ holder' = {c} /\ doing' = [doing EXCEPT ![c] = "inserted"]
      /\ about' = [about EXCEPT ![c] = {m}] /\ UNCHANGED excess
  BY DEF InsertMemory, Execute
<1>2. /\ work \in Tables /\ work.index = work.row
      /\ \A r \in Rowids : work.row[r] <= written /\ (work.row[r] # 0 => r <= written)
  BY <1>1, BeforeStatement
<1>3. rn \in 1..m /\ work.row[rn] = 0
  BY <1>1, <1>2, NextRow
<1>4. written \in Nat /\ m \in Ids /\ rn \in Rowids /\ m \in written..MaxWrites
  BY <1>1, <1>3, BrainAssumption DEF IBrain, BrainTypeOK, Ids, Rowids
<1>5. /\ tables \in Tables /\ tables.row = [work.row EXCEPT ![rn] = m]
      /\ tables.index = work.index
  <2> HIDE DEF rn, m
  <2> DEFINE rows == [work.row EXCEPT ![rn] = m]
             scores == [work.score EXCEPT ![m] = 2]
  <2>1. rows \in [Rowids -> Ids \cup {0}] /\ scores \in [Ids -> 0..2]
    BY <1>2, <1>4, TableTypes
  <2>2. tables = [work EXCEPT !.row = rows, !.score = scores]
    BY <1>2 DEF Tables
  <2> HIDE DEF tables, rows, scores
  <2>3. /\ tables \in Tables /\ tables.row = rows /\ tables.index = work.index
    BY <1>2, <2>1, <2>2 DEF Tables
  <2>4. QED
    BY <2>3 DEF rows
<1> HIDE DEF rn, m
<1> HIDE DEF tables
<1>6. /\ tables.row[rn] = m /\ \A r \in Rowids : r # rn => tables.row[r] = work.row[r]
      /\ \A r \in Rowids : work.row[r] \in Nat
  BY <1>2, <1>4, <1>5, TableTypes DEF Ids
<1>7. \A r \in Rowids : tables.row[r] <= m /\ (tables.row[r] # 0 => r <= m)
  BY <1>2, <1>3, <1>4, <1>6 DEF m, Rowids
<1>8. about' \in [Conns -> SUBSET Ids] /\ about'[c] = {m} /\ doing'[c] = "inserted"
  BY <1>1, <1>4 DEF IBrain, BrainTypeOK
<1>9. NewRowOnly(c)'
  <2>1. \A r \in Rowids : work'.row[r] = m \/ work'.index[r] = work'.row[r]
    BY <1>1, <1>2, <1>5, <1>6
  <2>2. \A r \in Rowids : work'.row[r] = m => r = rn
    BY <1>1, <1>2, <1>4, <1>6 DEF m
  <2>3. QED
    BY <1>4, <1>8, <2>1, <2>2 DEF NewRowOnly
<1>10. Behind'
  BY <1>1, <1>8, <1>9 DEF Behind
<1>11. QED
  BY <1>1, <1>4, <1>5, <1>7, <1>8, <1>10, ExecuteStep

\* Statements that end the write: the index is where the table is.
LEMMA ChangedStep ==
  ASSUME IBrain, NEW c \in Conns, NEW from, NEW tables \in Tables,
         Execute(c, from, "changed", tables), tables.index = tables.row,
         UNCHANGED <<about, excess, written>>,
         \A r \in Rowids : tables.row[r] \in {0, work.row[r]}
  PROVE  IBrain'
<1>1. /\ holder \subseteq {c} /\ holder' = {c} /\ work' = tables
      /\ doing' = [doing EXCEPT ![c] = "changed"] /\ doing'[c] = "changed"
  BY DEF Execute, IBrain, BrainTypeOK
<1>2. \A r \in Rowids : work.row[r] <= written /\ (work.row[r] # 0 => r <= written)
  BY <1>1, BeforeStatement
<1>3. written \in Nat /\ written' = written /\ written' \in written..MaxWrites
  BY BrainAssumption DEF IBrain, BrainTypeOK
<1>4. \A r \in Rowids : tables.row[r] <= written' /\ (tables.row[r] # 0 => r <= written')
  BY <1>2, <1>3
<1>5. Behind'
  BY <1>1 DEF Behind
<1>6. about' \in [Conns -> SUBSET Ids]
  BY DEF IBrain, BrainTypeOK
<1>7. QED
  BY <1>3, <1>4, <1>5, <1>6, ExecuteStep

LEMMA InsertIndexStep ==
  ASSUME IBrain, NEW c \in Conns, InsertIndex(c)
  PROVE  IBrain'
<1>1. PICK r \in Rowids :
        /\ work.row[r] \in about[c]
        /\ Execute(c, "inserted", "changed", [work EXCEPT !.index[r] = work.row[r]])
  BY DEF InsertIndex
<1> DEFINE tables == [work EXCEPT !.index[r] = work.row[r]]
<1>2. holder \subseteq {c} /\ doing[c] = "inserted"
  BY <1>1 DEF Execute
<1>3. work \in Tables /\ NewRowOnly(c)
  BY <1>2, BeforeStatement
<1>4. /\ tables \in Tables /\ tables.row = work.row
      /\ tables.index = [work.index EXCEPT ![r] = work.row[r]]
  BY <1>3 DEF Tables
<1> HIDE DEF tables
<1>5. \A q \in Rowids : tables.index[q] = tables.row[q]
  BY <1>1, <1>3, <1>4, TableTypes DEF NewRowOnly
<1>6. tables.index = tables.row
  BY <1>4, <1>5, TableTypes
<1>7. QED
  BY <1>1, <1>4, <1>6, ChangedStep DEF InsertIndex, tables

LEMMA BoostStep ==
  ASSUME IBrain, NEW c \in Conns, Boost(c)
  PROVE  IBrain'
<1> DEFINE new == [m \in Ids |-> IF m \in about[c] THEN 2 ELSE work.score[m]]
           tables == [work EXCEPT !.score = new]
<1>1. Execute(c, "found", "changed", tables) /\ holder \subseteq {c} /\ doing[c] = "found"
  BY DEF Boost, Execute
<1>2. work \in Tables /\ work.index = work.row
  BY <1>1, BeforeStatement
<1>3. new \in [Ids -> 0..2]
  BY <1>2, TableTypes
<1> HIDE DEF new
<1>4. tables \in Tables /\ tables.row = work.row /\ tables.index = work.index
  BY <1>2, <1>3 DEF Tables
<1> HIDE DEF tables
<1>5. QED
  BY <1>1, <1>2, <1>4, ChangedStep DEF Boost

LEMMA DecayStep ==
  ASSUME IBrain, NEW c \in Conns, Decay(c)
  PROVE  IBrain'
<1> DEFINE new == [m \in Ids |-> IF work.score[m] = 0 THEN 0 ELSE work.score[m] - 1]
           tables == [work EXCEPT !.score = new]
<1>1. Execute(c, "nothing", "changed", tables) /\ holder \subseteq {c} /\ doing[c] = "nothing"
  BY DEF Decay, Execute
<1>2. work \in Tables /\ work.index = work.row
  BY <1>1, BeforeStatement
<1>3. new \in [Ids -> 0..2]
  BY <1>2, TableTypes
<1> HIDE DEF new
<1>4. tables \in Tables /\ tables.row = work.row /\ tables.index = work.index
  BY <1>2, <1>3 DEF Tables
<1> HIDE DEF tables
<1>5. QED
  BY <1>1, <1>2, <1>4, ChangedStep DEF Decay

LEMMA PruneIndexStep ==
  ASSUME IBrain, NEW c \in Conns, PruneIndex(c)
  PROVE  IBrain'
<1> DEFINE low == Lowest(work, excess[c])
           tables == [work EXCEPT !.index = Delete(low, work.index)]
<1>1. /\ Execute(c, "counted", "halfPruned", tables) /\ holder \subseteq {c}
      /\ doing[c] = "counted" /\ work' = tables /\ holder' = {c}
      /\ doing' = [doing EXCEPT ![c] = "halfPruned"] /\ UNCHANGED <<about, excess, written>>
  BY DEF PruneIndex, Execute
<1>2. /\ work \in Tables /\ work.index = work.row
      /\ \A r \in Rowids : work.row[r] <= written /\ (work.row[r] # 0 => r <= written)
  BY <1>1, BeforeStatement
<1>3. Delete(low, work.index) \in [Rowids -> Ids \cup {0}]
  BY <1>2, Deleted, TableTypes
<1>4. /\ tables \in Tables /\ tables.row = work.row /\ tables.score = work.score
      /\ tables.index = Delete(low, work.row)
  BY <1>2, <1>3 DEF Tables
<1> HIDE DEF low, tables
<1>5. Lowest(work', excess'[c]) = low
  BY <1>1, <1>4, SameSelection DEF low
<1>6. doing'[c] = "halfPruned" /\ about' \in [Conns -> SUBSET Ids]
  BY <1>1 DEF IBrain, BrainTypeOK
<1>7. Behind'
  BY <1>1, <1>4, <1>5, <1>6 DEF Behind
<1>8. written' = written /\ written' \in written..MaxWrites
  BY <1>1, BrainAssumption DEF IBrain, BrainTypeOK
<1>9. QED
  BY <1>1, <1>2, <1>4, <1>6, <1>7, <1>8, ExecuteStep

LEMMA PruneMemoriesStep ==
  ASSUME IBrain, NEW c \in Conns, PruneMemories(c)
  PROVE  IBrain'
<1> DEFINE rest == Delete(Lowest(work, excess[c]), work.row)
           tables == [work EXCEPT !.row = rest]
<1>1. /\ Execute(c, "halfPruned", "changed", tables) /\ holder \subseteq {c}
      /\ doing[c] = "halfPruned" /\ UNCHANGED <<about, excess, written>>
  BY DEF PruneMemories, Execute
<1>2. work \in Tables /\ work.index = rest
  BY <1>1, BeforeStatement
<1>3. /\ rest \in [Rowids -> Ids \cup {0}]
      /\ \A r \in Rowids : rest[r] \in {0, work.row[r]}
  BY <1>2, Deleted, TableTypes
<1> HIDE DEF rest
<1>4. tables \in Tables /\ tables.row = rest /\ tables.index = rest
  BY <1>2, <1>3 DEF Tables
<1> HIDE DEF tables
<1>5. QED
  BY <1>1, <1>3, <1>4, ChangedStep

\* A SELECT changes no table and begins no transaction.
LEMMA SelectStep ==
  ASSUME IBrain, NEW c \in Conns, NEW to \in {"found", "counted"}, Select(c, to),
         about' \in [Conns -> SUBSET Ids], excess' \in [Conns -> 0..MaxWrites],
         \A d \in Conns \ {c} : about'[d] = about[d] /\ excess'[d] = excess[d],
         UNCHANGED written
  PROVE  IBrain'
<1>1. /\ doing[c] = "nothing" /\ doing' = [doing EXCEPT ![c] = to]
      /\ UNCHANGED <<disk, work, holder>>
  BY DEF Select
<1>2. c \notin holder /\ holder \subseteq Conns
  BY <1>1 DEF IBrain, BegunHolds, BrainTypeOK
<1>3. \A d \in holder : doing'[d] = doing[d] /\ about'[d] = about[d] /\ excess'[d] = excess[d]
  BY <1>1, <1>2 DEF IBrain, BrainTypeOK
<1>4. BrainTypeOK' /\ RowsSoFar' /\ BegunHolds' /\ FindableMemory'
  BY <1>1 DEF IBrain, BrainTypeOK, RowsSoFar, BegunHolds, FindableMemory
<1>5. \A d \in holder : NewRowOnly(d) => NewRowOnly(d)'
  BY <1>1, <1>3 DEF NewRowOnly
<1>6. Behind'
  BY <1>1, <1>3, <1>5 DEF IBrain, Behind
<1>7. QED
  BY <1>4, <1>6 DEF IBrain

LEMMA RecallStep ==
  ASSUME IBrain, NEW c \in Conns, NEW m \in Ids, Recall(c, m)
  PROVE  IBrain'
BY SelectStep DEF Recall, IBrain, BrainTypeOK

LEMMA CountStep ==
  ASSUME IBrain, NEW c \in Conns, Count(c)
  PROVE  IBrain'
<1>1. Rows(disk) \in SUBSET (1..MaxWrites) /\ IsFiniteSet(1..MaxWrites)
  BY BrainAssumption, FS_Interval DEF Rows, Rowids
<1>2. Cardinality(Rows(disk)) <= Cardinality(1..MaxWrites) /\ IsFiniteSet(Rows(disk))
  BY <1>1, FS_Subset
<1>3. Cardinality(1..MaxWrites) = MaxWrites
  BY BrainAssumption, FS_Interval
<1>4. Cardinality(Rows(disk)) \in Nat
  BY <1>2, FS_CardinalityType
<1> DEFINE more == Cardinality(Rows(disk)) - MaxStored
<1>5. more \in 0..MaxWrites
  BY <1>2, <1>3, <1>4, BrainAssumption DEF Count
<1>6. excess' = [excess EXCEPT ![c] = more] /\ UNCHANGED <<about, written>> /\ Select(c, "counted")
  BY DEF Count
<1> HIDE DEF more
<1>7. QED
  BY <1>5, <1>6, SelectStep DEF IBrain, BrainTypeOK

\* The end of a transaction leaves nobody in one, or the other one in its own.
LEMMA FinishedStep ==
  ASSUME IBrain, NEW c \in Conns, Finished(c), disk' \in Tables, work' \in Tables,
         disk'.index = disk'.row,
         \A r \in Rowids : \A t \in {disk', work'} :
           t.row[r] <= written /\ (t.row[r] # 0 => r <= written),
         IF c \in holder THEN work' = disk' ELSE UNCHANGED <<disk, work>>
  PROVE  IBrain'
<1>1. /\ holder' = holder \ {c} /\ doing' = [doing EXCEPT ![c] = "nothing"]
      /\ about' = [about EXCEPT ![c] = {}] /\ excess' = [excess EXCEPT ![c] = 0]
      /\ written' = written
  BY DEF Finished
<1>2. holder \subseteq Conns /\ \A d \in holder' : holder = {d} /\ d # c
  BY <1>1 DEF IBrain, BrainTypeOK
<1>3. \A d \in holder' : doing'[d] = doing[d] /\ about'[d] = about[d] /\ excess'[d] = excess[d]
  BY <1>1, <1>2 DEF IBrain, BrainTypeOK
<1>4. BrainTypeOK'
  <2>1. /\ doing' \in [Conns -> {"nothing", "inserted", "found", "counted",
                                   "halfPruned", "changed"}]
        /\ about' \in [Conns -> SUBSET Ids] /\ excess' \in [Conns -> 0..MaxWrites]
    BY <1>1, BrainAssumption DEF IBrain, BrainTypeOK
  <2>2. holder' \in {{}} \cup {{d} : d \in Conns}
    BY <1>1 DEF IBrain, BrainTypeOK
  <2>3. holder' = {} => work' = disk'
    BY <1>1 DEF IBrain, BrainTypeOK
  <2>4. QED
    BY <1>1, <2>1, <2>2, <2>3 DEF IBrain, BrainTypeOK
<1>5. RowsSoFar' /\ FindableMemory'
  BY <1>1 DEF RowsSoFar, FindableMemory
<1>6. BegunHolds'
  BY <1>1 DEF IBrain, BrainTypeOK, BegunHolds
<1>7. Behind'
  <2>1. ASSUME NEW d \in holder' PROVE UNCHANGED <<disk, work>> /\ d \in holder
    BY <1>2, <2>1
  <2>2. \A d \in holder' : NewRowOnly(d) => NewRowOnly(d)'
    BY <1>3, <2>1 DEF NewRowOnly
  <2>3. QED
    BY <1>3, <2>1, <2>2 DEF IBrain, Behind
<1>8. QED
  BY <1>4, <1>5, <1>6, <1>7 DEF IBrain

LEMMA CommitStep ==
  ASSUME IBrain, NEW c \in Conns, Commit(c)
  PROVE  IBrain'
<1>1. doing[c] = "changed" /\ disk' = work /\ work' = work /\ Finished(c)
  BY DEF Commit
<1>2. c \in holder /\ holder = {c}
  BY <1>1 DEF IBrain, BegunHolds, BrainTypeOK
<1>3. work \in Tables /\ work.index = work.row
      /\ \A r \in Rowids : work.row[r] <= written /\ (work.row[r] # 0 => r <= written)
  BY <1>1, <1>2, BeforeStatement
<1>4. QED
  BY <1>1, <1>2, <1>3, FinishedStep

LEMMA RollbackStep ==
  ASSUME IBrain, NEW c \in Conns, Rollback(c)
  PROVE  IBrain'
<1>1. /\ work' = (IF c \in holder THEN disk ELSE work) /\ disk' = disk /\ Finished(c)
  BY DEF Rollback
<1>2. disk \in Tables /\ work \in Tables /\ disk.index = disk.row
  BY DEF IBrain, BrainTypeOK, FindableMemory
<1>3. QED
  BY <1>1, <1>2, FinishedStep DEF IBrain, RowsSoFar

LEMMA BrainInitInv == BrainInit => IBrain
<1> SUFFICES ASSUME BrainInit PROVE IBrain
  OBVIOUS
<1>1. disk \in Tables /\ work = disk /\ \A r \in Rowids : disk.row[r] = 0
  BY DEF BrainInit, Tables
<1>2. BrainTypeOK
  BY <1>1, BrainAssumption DEF BrainInit, BrainTypeOK
<1>3. RowsSoFar /\ BegunHolds /\ Behind /\ FindableMemory
  BY <1>1 DEF BrainInit, RowsSoFar, BegunHolds, Behind, FindableMemory
<1>4. QED
  BY <1>2, <1>3 DEF IBrain

LEMMA BrainStep == IBrain /\ [BrainNext]_brainVars => IBrain'
<1> SUFFICES ASSUME IBrain, [BrainNext]_brainVars PROVE IBrain'
  OBVIOUS
<1>1. CASE UNCHANGED brainVars
  BY <1>1 DEF brainVars, storeVars, IBrain, BrainTypeOK, RowsSoFar, BegunHolds, Behind,
              NewRowOnly, FindableMemory
<1>2. QED
  BY <1>1, InsertMemoryStep, InsertIndexStep, RecallStep, BoostStep, DecayStep, CountStep,
     PruneIndexStep, PruneMemoriesStep, CommitStep, RollbackStep DEF BrainNext

\* Every committed memory of an employee has its full-text entry and every entry
\* its memory, for any connections, memories and limit: whoever writes, recalls,
\* boosts, decays, prunes or dies between the two statements of a change.
THEOREM MemoriesAreFound == BrainSpec => []FindableMemory
<1>1. IBrain => FindableMemory
  BY DEF IBrain
<1>2. QED
  BY <1>1, BrainInitInv, BrainStep, PTL DEF BrainSpec

(* ---- AgentTurn ---- *)

Item == [kind : {"call", "output"}, id : CallIds]
MessageSet == [role : {"user", "assistant", "tool"}, ids : Seq(CallIds)]

\* p lists the places of the items of a kind, in their order.
Lists(in, p, kind) ==
  /\ \A i \in 1..Len(p) : p[i] \in 1..Len(in) /\ in[p[i]].kind = kind
  /\ \A i, j \in 1..Len(p) : i < j => p[i] < p[j]
  /\ \A n \in 1..Len(in) : in[n].kind = kind => \E i \in 1..Len(p) : p[i] = n

\* The outputs there are answer the first calls, in their order.
Pairs(in, called, output) ==
  /\ called \in Seq(Nat) /\ output \in Seq(Nat)
  /\ Lists(in, called, "call") /\ Lists(in, output, "output")
  /\ Len(output) <= Len(called)
  /\ \A n \in 1..Len(output) : called[n] < output[n] /\ in[called[n]].id = in[output[n]].id

\* The calls without an output are those still to run.
LeavesOpen(in, called, output, left) ==
  /\ Len(called) = Len(output) + Len(left)
  /\ \A n \in 1..Len(left) : in[called[Len(output) + n]].id = left[n]

TurnTypes ==
  /\ messages \in Seq(MessageSet) /\ calls \in Seq(CallIds)
  /\ stage \in {"asking", "streaming", "calling", "answered", "raised", "gaveUp"}
  /\ stage = "calling" => calls # <<>>

Unanswered == IF stage = "calling" THEN calls ELSE <<>>

ToAnswer ==
  stage # "raised" =>
    \E called, output : /\ Pairs(Input(messages), called, output)
                      /\ LeavesOpen(Input(messages), called, output, Unanswered)

SentAnswered ==
  /\ sent \in Seq(Item)
  /\ \E called, output : Pairs(sent, called, output) /\ Len(called) = Len(output)

ITurn == TurnTypes /\ ToAnswer /\ SentAnswered

-----------------------------------------------------------------------------
LEMMA ItemsType ==
  ASSUME NEW msg \in MessageSet
  PROVE  /\ Items(msg) \in Seq(Item) /\ Len(Items(msg)) = Len(msg.ids)
         /\ \A n \in 1..Len(msg.ids) :
              /\ Items(msg)[n].kind = IF msg.role = "tool" THEN "output" ELSE "call"
              /\ Items(msg)[n].id = msg.ids[n]
<1>1. msg.ids \in Seq(CallIds)
  BY DEF MessageSet
<1>2. DOMAIN msg.ids = 1..Len(msg.ids) /\ Len(msg.ids) \in Nat
      /\ \A n \in 1..Len(msg.ids) : msg.ids[n] \in CallIds
  BY <1>1
<1>3. ASSUME NEW n \in 1..Len(msg.ids)
      PROVE  [kind |-> IF msg.role = "tool" THEN "output" ELSE "call", id |-> msg.ids[n]]
               \in Item
  BY <1>2 DEF Item
<1>4. QED
  BY <1>2, <1>3 DEF Items

LEMMA InputType ==
  ASSUME NEW msgs \in Seq(MessageSet)
  PROVE  Input(msgs) \in Seq(Item)
<1> DEFINE s == [n \in DOMAIN msgs |-> Items(msgs[n])]
<1>1. \A n \in 1..Len(msgs) : Items(msgs[n]) \in Seq(Item)
  BY ItemsType
<1>2. DOMAIN msgs = 1..Len(msgs) /\ Len(msgs) \in Nat
  OBVIOUS
<1>3. s \in Seq(Seq(Item))
  BY <1>1, <1>2
<1> HIDE DEF s
<1>4. FlattenSeq(s) \in Seq(Item)
  BY <1>3, FlattenSeqType
<1>5. QED
  BY <1>4 DEF Input, s

\* A message adds its items at the end of the input.
LEMMA InputAppend ==
  ASSUME NEW msgs \in Seq(MessageSet), NEW msg \in MessageSet
  PROVE  Input(Append(msgs, msg)) = Input(msgs) \o Items(msg)
<1> DEFINE s == [n \in DOMAIN msgs |-> Items(msgs[n])]
           more == Append(msgs, msg)
           u == [n \in DOMAIN more |-> Items(more[n])]
<1>1. \A n \in 1..Len(msgs) : Items(msgs[n]) \in Seq(Item)
  BY ItemsType
<1>2. DOMAIN msgs = 1..Len(msgs) /\ Len(msgs) \in Nat
  OBVIOUS
<1>3. s \in Seq(Seq(Item)) /\ Len(s) = Len(msgs)
  BY <1>1, <1>2
<1>4. Items(msg) \in Seq(Item)
  BY ItemsType
<1>5. u = Append(s, Items(msg))
  <2>1. /\ DOMAIN more = 1..(Len(msgs) + 1) /\ more[Len(msgs) + 1] = msg
        /\ \A n \in 1..Len(msgs) : more[n] = msgs[n]
    OBVIOUS
  <2> HIDE DEF more
  <2>2. QED
    BY <1>2, <1>3, <1>4, <2>1
<1> HIDE DEF s, u
<1>6. FlattenSeq(u) = FlattenSeq(s) \o Items(msg)
  BY <1>3, <1>4, <1>5, FlattenSeqAppend
<1>7. QED
  BY <1>6 DEF Input, s, u

\* Calls at the end: they are listed after the others, and are left over.
LEMMA CallsAtTheEnd ==
  ASSUME NEW in \in Seq(Item), NEW left \in Seq(CallIds), NEW all,
         Len(all) = Len(in) + Len(left), \A n \in 1..Len(in) : all[n] = in[n],
         \A n \in 1..Len(left) :
           all[Len(in) + n].kind = "call" /\ all[Len(in) + n].id = left[n],
         NEW called, NEW output, Pairs(in, called, output), LeavesOpen(in, called, output, <<>>)
  PROVE  \E new : Pairs(all, new, output) /\ LeavesOpen(all, new, output, left)
<1> DEFINE k == Len(called)
           l == Len(left)
           m == Len(in)
           new == [n \in 1..(k + l) |-> IF n <= k THEN called[n] ELSE m + (n - k)]
<1>1. /\ k \in Nat /\ l \in Nat /\ m \in Nat /\ Len(output) = k
      /\ called \in Seq(Nat) /\ output \in Seq(Nat)
  BY DEF Pairs, LeavesOpen
<1>2. Len(all) = m + l /\ \A n \in 1..m : all[n] = in[n]
  OBVIOUS
<1>3. /\ \A i \in 1..k : called[i] \in 1..m /\ in[called[i]].kind = "call"
      /\ \A i, j \in 1..k : i < j => called[i] < called[j]
      /\ \A n \in 1..m : in[n].kind = "call" => \E i \in 1..k : called[i] = n
  BY DEF Pairs, Lists
<1>4. /\ \A i \in 1..k : output[i] \in 1..m /\ in[output[i]].kind = "output"
      /\ \A i, j \in 1..k : i < j => output[i] < output[j]
      /\ \A n \in 1..m : in[n].kind = "output" => \E i \in 1..k : output[i] = n
      /\ \A n \in 1..k : called[n] < output[n] /\ in[called[n]].id = in[output[n]].id
  BY <1>1 DEF Pairs, Lists
<1>5. \A n \in 1..l : all[m + n].kind = "call" /\ all[m + n].id = left[n]
  OBVIOUS
<1> HIDE DEF k, l, m
<1>6. ASSUME NEW n \in 1..(k + l)
      PROVE  \/ n \in 1..k /\ new[n] = called[n]
             \/ n - k \in 1..l /\ new[n] = m + (n - k) /\ n > k
  BY <1>1
<1>7. new \in Seq(Nat) /\ Len(new) = k + l
  <2>1. \A n \in 1..k : called[n] \in Nat
    BY <1>1 DEF k
  <2>2. \A n \in 1..(k + l) : new[n] \in Nat
    BY <1>1, <1>6, <2>1
  <2>3. new \in [1..(k + l) -> Nat] /\ k + l \in Nat
    BY <1>1, <2>2
  <2> HIDE DEF new
  <2>4. QED
    BY <2>3
<1> HIDE DEF new
<1>8. ASSUME NEW n \in 1..(m + l)
      PROVE  \/ n \in 1..m /\ all[n] = in[n]
             \/ n - m \in 1..l /\ n > m /\ m + (n - m) = n
  <2>1. CASE n <= m
    BY <1>1, <1>2, <2>1
  <2>2. CASE n > m
    <3>1. n - m \in 1..l /\ m + (n - m) = n
      BY <1>1, <2>2
    <3>2. QED
      BY <1>2, <2>2, <3>1
  <2>3. QED
    BY <1>1, <2>1, <2>2
<1>9. Lists(all, new, "call")
  <2>1. ASSUME NEW i \in 1..(k + l) PROVE new[i] \in 1..(m + l) /\ all[new[i]].kind = "call"
    <3>1. CASE i \in 1..k /\ new[i] = called[i]
      <4>1. called[i] \in 1..m /\ in[called[i]].kind = "call" /\ all[called[i]] = in[called[i]]
        BY <1>2, <1>3, <3>1
      <4>2. \A n \in 1..m : n \in 1..(m + l)
        BY <1>1
      <4>3. QED
        BY <3>1, <4>1, <4>2
    <3>2. CASE i - k \in 1..l /\ new[i] = m + (i - k) /\ i > k
      <4> PICK n : n = i - k
        OBVIOUS
      <4>1. n \in 1..l /\ new[i] = m + n
        BY <3>2
      <4>2. m + n \in 1..(m + l)
        BY <1>1, <4>1
      <4>3. all[m + n].kind = "call"
        BY <1>2, <1>5, <4>1
      <4>4. QED
        BY <4>1, <4>2, <4>3
    <3>3. QED
      BY <1>6, <3>1, <3>2
  <2>2. ASSUME NEW i \in 1..(k + l), NEW j \in 1..(k + l), i < j PROVE new[i] < new[j]
    <3>1. CASE j \in 1..k /\ new[j] = called[j]
      <4>1. i \in 1..k /\ ~(i > k)
        BY SMTT(30), <1>1, <2>2, <3>1
      <4>2. new[i] = called[i]
        BY <1>6, <4>1
      <4>3. QED
        BY <1>3, <2>2, <3>1, <4>1, <4>2
    <3>2. CASE j - k \in 1..l /\ new[j] = m + (j - k) /\ j > k
      <4>1. CASE i \in 1..k /\ new[i] = called[i]
        <5>1. new[i] \in 1..m
          BY <1>3, <4>1
        <5>2. QED
          BY SMTT(30), <1>1, <3>2, <5>1
      <4>2. CASE i - k \in 1..l /\ new[i] = m + (i - k)
        BY <1>1, <2>2, <3>2, <4>2
      <4>3. QED
        BY <1>6, <4>1, <4>2
    <3>3. QED
      BY <1>6, <3>1, <3>2
  <2>3. ASSUME NEW n \in 1..(m + l), all[n].kind = "call"
        PROVE  \E i \in 1..(k + l) : new[i] = n
    <3>1. CASE n \in 1..m /\ all[n] = in[n]
      <4>1. PICK i \in 1..k : called[i] = n
        BY <1>3, <2>3, <3>1
      <4>2. i \in 1..(k + l) /\ ~(i > k)
        BY <1>1
      <4>3. QED
        BY <1>6, <4>1, <4>2
    <3>2. CASE n - m \in 1..l /\ n > m /\ m + (n - m) = n
      <4>1. k + (n - m) \in 1..(k + l) /\ ~(k + (n - m) \in 1..k) /\ (k + (n - m)) - k = n - m
        BY <1>1, <3>2
      <4>2. new[k + (n - m)] = n
        BY <1>6, <3>2, <4>1
      <4>3. QED
        BY <4>1, <4>2
    <3>3. QED
      BY <1>8, <3>1, <3>2
  <2>4. QED
    BY <1>2, <1>7, <2>1, <2>2, <2>3 DEF Lists
<1>10. Lists(all, output, "output")
  <2>1. ASSUME NEW i \in 1..k PROVE output[i] \in 1..(m + l) /\ all[output[i]].kind = "output"
    <3>1. output[i] \in 1..m /\ in[output[i]].kind = "output"
      BY <1>4
    <3>2. all[output[i]] = in[output[i]] /\ 1..m \subseteq 1..(m + l)
      BY <1>1, <1>2, <3>1
    <3>3. QED
      BY <3>1, <3>2
  <2>2. ASSUME NEW n \in 1..(m + l), all[n].kind = "output"
        PROVE  \E i \in 1..k : output[i] = n
    BY <1>4, <1>5, <1>8, <2>2
  <2>3. QED
    BY <1>1, <1>2, <1>4, <2>1, <2>2 DEF Lists
<1>11. Pairs(all, new, output)
  <2>1. ASSUME NEW n \in 1..k
        PROVE  new[n] < output[n] /\ all[new[n]].id = all[output[n]].id
    <3>1. n \in 1..(k + l) /\ ~(n > k)
      BY <1>1
    <3>2. new[n] = called[n]
      BY <1>6, <3>1
    <3>3. QED
      BY SMTT(30), <1>2, <1>3, <1>4, <3>2
  <2>2. k <= k + l
    BY <1>1
  <2>3. QED
    BY <1>1, <1>7, <1>9, <1>10, <2>1, <2>2 DEF Pairs
<1>12. LeavesOpen(all, new, output, left)
  <2>1. ASSUME NEW n \in 1..l PROVE all[new[k + n]].id = left[n]
    <3>1. k + n \in 1..(k + l) /\ ~(k + n \in 1..k) /\ (k + n) - k = n
      BY <1>1
    <3>2. new[k + n] = m + n
      BY <1>6, <3>1
    <3>3. QED
      BY <1>2, <1>5, <3>2
  <2>2. QED
    BY <1>1, <1>7, <2>1 DEF LeavesOpen, l
<1>13. QED
  BY <1>11, <1>12

\* An output at the end answers the first of the calls that are left over.
LEMMA OutputAtTheEnd ==
  ASSUME NEW in \in Seq(Item), NEW item \in Item, item.kind = "output",
         NEW left \in Seq(CallIds), left # <<>>, item.id = Head(left),
         NEW called, NEW output, Pairs(in, called, output), LeavesOpen(in, called, output, left)
  PROVE  \E new : /\ Pairs(Append(in, item), called, new)
                  /\ LeavesOpen(Append(in, item), called, new, Tail(left))
<1> DEFINE k == Len(called)
           o == Len(output)
           l == Len(left)
           m == Len(in)
           all == Append(in, item)
           new == Append(output, m + 1)
<1>1. /\ k \in Nat /\ o \in Nat /\ l \in Nat \ {0} /\ m \in Nat /\ k = o + l
      /\ called \in Seq(Nat) /\ output \in Seq(Nat)
      /\ \A n \in 1..l : in[called[o + n]].id = left[n]
  BY DEF Pairs, LeavesOpen
<1>2. /\ all \in Seq(Item) /\ Len(all) = m + 1 /\ all[m + 1] = item
      /\ \A n \in 1..m : all[n] = in[n]
  OBVIOUS
<1>3. /\ \A i \in 1..k : called[i] \in 1..m /\ in[called[i]].kind = "call"
      /\ \A i, j \in 1..k : i < j => called[i] < called[j]
      /\ \A n \in 1..m : in[n].kind = "call" => \E i \in 1..k : called[i] = n
  BY DEF Pairs, Lists
<1>4. /\ \A i \in 1..o : output[i] \in 1..m /\ in[output[i]].kind = "output"
      /\ \A i, j \in 1..o : i < j => output[i] < output[j]
      /\ \A n \in 1..m : in[n].kind = "output" => \E i \in 1..o : output[i] = n
      /\ \A n \in 1..o : called[n] < output[n] /\ in[called[n]].id = in[output[n]].id
  BY DEF Pairs, Lists
<1>5. /\ Tail(left) \in Seq(CallIds) /\ Len(Tail(left)) = l - 1
      /\ \A n \in 1..(l - 1) : Tail(left)[n] = left[n + 1]
      /\ item.id = left[1]
  OBVIOUS
<1>6. /\ new \in Seq(Nat) /\ Len(new) = o + 1 /\ new[o + 1] = m + 1
      /\ \A n \in 1..o : new[n] = output[n]
  <2>1. m + 1 \in Nat
    BY <1>1
  <2>2. QED
    BY <1>1, <2>1
<1> HIDE DEF k, o, l, m, all, new
<1>7. ASSUME NEW n \in 1..(m + 1) PROVE n \in 1..m \/ n = m + 1
  BY <1>1
<1>8. ASSUME NEW n \in 1..(o + 1) PROVE n \in 1..o \/ n = o + 1
  BY <1>1
<1>9. 1..m \subseteq 1..(m + 1) /\ m + 1 \in 1..(m + 1)
      /\ 1..o \subseteq 1..(o + 1) /\ o + 1 \in 1..(o + 1)
      /\ 1..o \subseteq 1..k /\ o + 1 \in 1..k
  BY <1>1
<1>10. Lists(all, called, "call")
  <2>1. \A i \in 1..k : called[i] \in 1..(m + 1) /\ all[called[i]].kind = "call"
    BY <1>2, <1>3, <1>9
  <2>2. ASSUME NEW n \in 1..(m + 1), all[n].kind = "call" PROVE \E i \in 1..k : called[i] = n
    BY <1>2, <1>3, <1>7, <2>2
  <2>3. QED
    BY <1>2, <1>3, <2>1, <2>2 DEF Lists, k
<1>11. Lists(all, new, "output")
  <2>1. ASSUME NEW i \in 1..(o + 1)
        PROVE  new[i] \in 1..(m + 1) /\ all[new[i]].kind = "output"
    <3>1. CASE i \in 1..o
      <4>1. new[i] = output[i] /\ output[i] \in 1..m /\ in[output[i]].kind = "output"
        BY <1>4, <1>6, <3>1
      <4>2. QED
        BY <1>2, <1>9, <4>1
    <3>2. CASE i = o + 1
      BY <1>2, <1>6, <1>9, <3>2
    <3>3. QED
      BY <1>8, <3>1, <3>2
  <2>2. ASSUME NEW i \in 1..(o + 1), NEW j \in 1..(o + 1), i < j PROVE new[i] < new[j]
    <3>1. i \in 1..o /\ new[i] = output[i]
      <4>1. \A x, y \in 1..(o + 1) : x < y => x \in 1..o
        <5>1. o \in Nat
          BY <1>1
        <5>2. QED
          BY <5>1
      <4>2. i \in 1..o
        BY <2>2, <4>1, Zenon
      <4>3. QED
        BY <1>6, <4>2, Zenon
    <3>2. output[i] \in 1..m
      BY <1>4, <3>1
    <3>3. CASE j \in 1..o
      BY <1>4, <1>6, <2>2, <3>1, <3>3
    <3>4. CASE j = o + 1
      BY <1>1, <1>6, <3>1, <3>2, <3>4
    <3>5. QED
      BY <1>8, <3>3, <3>4
  <2>3. ASSUME NEW n \in 1..(m + 1), all[n].kind = "output"
        PROVE  \E i \in 1..(o + 1) : new[i] = n
    <3>1. CASE n \in 1..m
      <4>1. PICK i \in 1..o : output[i] = n
        BY <1>2, <1>4, <2>3, <3>1
      <4>2. QED
        BY <1>6, <1>9, <4>1
    <3>2. CASE n = m + 1
      BY <1>6, <1>9, <3>2
    <3>3. QED
      BY <1>7, <3>1, <3>2
  <2>4. QED
    BY <1>2, <1>6, <2>1, <2>2, <2>3 DEF Lists
<1>12. ASSUME NEW n \in 1..(o + 1)
       PROVE  called[n] < new[n] /\ all[called[n]].id = all[new[n]].id
  <2>1. CASE n \in 1..o
    <3>1. called[n] \in 1..m /\ output[n] \in 1..m
      BY <1>3, <1>4, <1>9, <2>1
    <3>2. new[n] = output[n] /\ all[called[n]] = in[called[n]] /\ all[output[n]] = in[output[n]]
      BY <1>2, <1>6, <2>1, <3>1
    <3>3. QED
      BY <1>4, <2>1, <3>2
  <2>2. CASE n = o + 1
    <3>1. called[n] \in 1..m /\ new[n] = m + 1
      BY <1>3, <1>6, <1>9, <2>2
    <3>2. called[n] < new[n]
      BY <1>1, <3>1
    <3>3. in[called[o + 1]].id = left[1]
      BY <1>1
    <3>4. QED
      BY <1>2, <1>5, <2>2, <3>1, <3>2, <3>3
  <2>3. QED
    BY <1>8, <2>1, <2>2
<1>13. Pairs(all, called, new)
  <2>1. o + 1 <= k
    BY <1>1
  <2>2. QED
    BY <1>1, <1>6, <1>10, <1>11, <1>12, <2>1 DEF Pairs, k
<1>14. LeavesOpen(all, called, new, Tail(left))
  <2>1. k = (o + 1) + (l - 1)
    BY <1>1
  <2>2. ASSUME NEW n \in 1..(l - 1)
        PROVE  all[called[(o + 1) + n]].id = Tail(left)[n]
    <3>1. n + 1 \in 1..l /\ (o + 1) + n = o + (n + 1) /\ o + (n + 1) \in 1..k
      BY <1>1
    <3>2. in[called[o + (n + 1)]].id = left[n + 1] /\ called[o + (n + 1)] \in 1..m
      BY <1>1, <1>3, <3>1
    <3>3. QED
      BY <1>2, <1>5, <3>1, <3>2
  <2>3. QED
    BY <1>5, <1>6, <2>1, <2>2 DEF LeavesOpen, k
<1>15. QED
  BY <1>13, <1>14 DEF all

-----------------------------------------------------------------------------
\* A set that the first i of a growing sequence list has i members.
LEMMA Counted ==
  ASSUME NEW p \in Seq(Nat), NEW S, NEW i \in 0..Len(p),
         \A j, k \in 1..Len(p) : j < k => p[j] < p[k],
         \A j \in 1..i : p[j] \in S,
         \A n \in S : \E j \in 1..i : p[j] = n
  PROVE  Cardinality(S) = i
<1> DEFINE f == [j \in 1..i |-> p[j]]
<1>1. i \in Nat /\ 1..i \subseteq 1..Len(p) /\ \A j \in 1..Len(p) : p[j] \in Nat
  OBVIOUS
<1>2. f \in [1..i -> S]
  OBVIOUS
<1>3. ASSUME NEW j \in 1..i, NEW k \in 1..i, f[j] = f[k] PROVE j = k
  <2>1. p[j] = p[k] /\ j \in 1..Len(p) /\ k \in 1..Len(p) /\ p[j] \in Nat
    BY <1>1, <1>3
  <2>2. ~(j < k) /\ ~(k < j)
    BY <2>1
  <2>3. QED
    BY <2>2
<1>4. \A n \in S : \E j \in 1..i : f[j] = n
  OBVIOUS
<1> HIDE DEF f
<1>5. f \in Bijection(1..i, S)
  BY <1>2, <1>3, <1>4 DEF Bijection, Injection, Surjection, IsInjective
<1>6. ExistsBijection(1..i, S)
  BY <1>5 DEF ExistsBijection
<1>7. QED
  BY <1>1, <1>6, FS_CountingElements

\* The n-th of a kind is the n-th place listed.
LEMMA NumberIsPlace ==
  ASSUME NEW in \in Seq(Item), NEW p \in Seq(Nat), NEW kind, Lists(in, p, kind),
         NEW i \in 1..Len(p)
  PROVE  Cardinality({m \in 1..p[i] : in[m].kind = kind}) = i
<1> DEFINE S == {m \in 1..p[i] : in[m].kind = kind}
<1>1. /\ \A j \in 1..Len(p) : p[j] \in 1..Len(in) /\ in[p[j]].kind = kind
      /\ \A j, k \in 1..Len(p) : j < k => p[j] < p[k]
      /\ \A n \in 1..Len(in) : in[n].kind = kind => \E j \in 1..Len(p) : p[j] = n
  BY DEF Lists
<1>2. i \in 0..Len(p) /\ 1..i \subseteq 1..Len(p) /\ Len(p) \in Nat
  OBVIOUS
<1>3. ASSUME NEW j \in 1..i PROVE p[j] \in S
  <2>1. p[j] \in 1..Len(in) /\ in[p[j]].kind = kind /\ p[i] \in 1..Len(in)
    BY <1>1, <1>2
  <2>2. j = i \/ p[j] < p[i]
    <3>1. j = i \/ j < i
      BY <1>2
    <3>2. QED
      BY <1>1, <1>2, <3>1
  <2>3. QED
    BY <2>1, <2>2
<1>4. ASSUME NEW n \in S PROVE \E j \in 1..i : p[j] = n
  <2>1. n \in 1..p[i] /\ in[n].kind = kind /\ p[i] \in 1..Len(in)
    BY <1>1
  <2>2. n \in 1..Len(in)
    BY <2>1
  <2>3. PICK j \in 1..Len(p) : p[j] = n
    BY <1>1, <2>1, <2>2
  <2>4. ~(i < j)
    BY <1>1, <2>1, <2>3
  <2>5. QED
    BY <1>2, <2>3, <2>4
<1> HIDE DEF S
<1>5. Cardinality(S) = i
  BY SMTT(30), <1>1, <1>2, <1>3, <1>4, Counted
<1>6. QED
  BY <1>5 DEF S

LEMMA AllAreListed ==
  ASSUME NEW in \in Seq(Item), NEW p \in Seq(Nat), NEW kind, Lists(in, p, kind)
  PROVE  Cardinality({n \in DOMAIN in : in[n].kind = kind}) = Len(p)
<1> DEFINE S == {n \in DOMAIN in : in[n].kind = kind}
<1>1. /\ \A j \in 1..Len(p) : p[j] \in 1..Len(in) /\ in[p[j]].kind = kind
      /\ \A j, k \in 1..Len(p) : j < k => p[j] < p[k]
      /\ \A n \in 1..Len(in) : in[n].kind = kind => \E j \in 1..Len(p) : p[j] = n
  BY DEF Lists
<1>2. DOMAIN in = 1..Len(in) /\ Len(p) \in 0..Len(p)
  OBVIOUS
<1>3. (\A j \in 1..Len(p) : p[j] \in S) /\ \A n \in S : \E j \in 1..Len(p) : p[j] = n
  BY <1>1, <1>2
<1> HIDE DEF S
<1>4. Cardinality(S) = Len(p)
  BY <1>1, <1>2, <1>3, Counted
<1>5. QED
  BY <1>4 DEF S

LEMMA SentIsAnswered == SentAnswered => CallsAreAnswered
<1> SUFFICES ASSUME SentAnswered PROVE CallsAreAnswered
  OBVIOUS
<1>1. sent \in Seq(Item) /\ DOMAIN sent = 1..Len(sent)
  BY DEF SentAnswered
<1>2. PICK called, output : Pairs(sent, called, output) /\ Len(called) = Len(output)
  BY DEF SentAnswered
<1>3. /\ called \in Seq(Nat) /\ output \in Seq(Nat)
      /\ Lists(sent, called, "call") /\ Lists(sent, output, "output")
      /\ \A n \in 1..Len(output) :
           called[n] < output[n] /\ sent[called[n]].id = sent[output[n]].id
  BY <1>2 DEF Pairs
<1> DEFINE places(kind) == {n \in DOMAIN sent : sent[n].kind = kind}
           number(n) == Cardinality({m \in 1..n : sent[m].kind = sent[n].kind})
<1>4. Cardinality(places("call")) = Len(called) /\ Cardinality(places("output")) = Len(output)
  BY <1>1, <1>3, AllAreListed
<1>5. ASSUME NEW c \in places("call"), NEW o \in places("output"), number(c) = number(o)
      PROVE  c < o /\ sent[c].id = sent[o].id
  <2>1. PICK i \in 1..Len(called) : called[i] = c
    BY <1>1, <1>3 DEF Lists
  <2>2. PICK j \in 1..Len(output) : output[j] = o
    BY <1>1, <1>3 DEF Lists
  <2>3. number(c) = i
    <3>1. sent \in Seq(Item) /\ called \in Seq(Nat) /\ Lists(sent, called, "call")
      BY <1>1, <1>3
    <3>2. Cardinality({m \in 1..called[i] : sent[m].kind = "call"}) = i
      BY <3>1, NumberIsPlace
    <3>3. QED
      BY <2>1, <3>2
  <2>4. number(o) = j
    <3>1. sent \in Seq(Item) /\ output \in Seq(Nat) /\ Lists(sent, output, "output")
      BY <1>1, <1>3
    <3>2. Cardinality({m \in 1..output[j] : sent[m].kind = "output"}) = j
      BY <3>1, NumberIsPlace
    <3>3. QED
      BY <2>2, <3>2
  <2>5. i = j
    BY <1>5, <2>3, <2>4
  <2>6. QED
    BY <1>3, <2>1, <2>2, <2>5
<1>6. QED
  BY <1>2, <1>4, <1>5 DEF CallsAreAnswered

-----------------------------------------------------------------------------
LEMMA ITurnInit == TurnInit => ITurn
<1> SUFFICES ASSUME TurnInit PROVE ITurn
  OBVIOUS
<1> DEFINE msg == Message("user", <<>>)
<1>1. /\ messages = <<msg>> /\ stage = "asking" /\ calls = <<>> /\ sent = <<>>
  BY DEF TurnInit
<1>2. msg \in MessageSet /\ Len(msg.ids) = 0
  BY DEF Message, MessageSet
<1> HIDE DEF msg
<1>3. TurnTypes
  <2>1. messages \in Seq(MessageSet)
    BY <1>1, <1>2
  <2>2. QED
    BY <1>1, <2>1 DEF TurnTypes
<1>4. Len(Input(messages)) = 0 /\ Input(messages) \in Seq(Item)
  <2>1. <<>> \in Seq(MessageSet) /\ messages = Append(<<>>, msg)
    BY <1>1
  <2>2. Input(messages) = Input(<<>>) \o Items(msg)
    BY <1>2, <2>1, InputAppend
  <2>3. Input(<<>>) = <<>>
    <3>1. [n \in DOMAIN <<>> |-> Items(<<>>[n])] = <<>>
      OBVIOUS
    <3>2. QED
      BY <3>1, FlattenSeqEmpty, Zenon DEF Input
  <2>4. Items(msg) \in Seq(Item) /\ Len(Items(msg)) = 0
    BY <1>2, ItemsType
  <2>5. Items(msg) = <<>>
    BY <2>4
  <2>6. Input(messages) = <<>>
    BY <2>2, <2>3, <2>5
  <2>7. QED
    BY <2>6
<1>5. ASSUME NEW in \in Seq(Item), Len(in) = 0
      PROVE  Pairs(in, <<>>, <<>>) /\ LeavesOpen(in, <<>>, <<>>, <<>>)
  BY <1>5 DEF Pairs, LeavesOpen, Lists
<1>6. ToAnswer
  <2>1. Unanswered = <<>>
    BY <1>1 DEF Unanswered
  <2>2. QED
    BY <1>4, <1>5, <2>1 DEF ToAnswer
<1>7. SentAnswered
  <2>1. sent \in Seq(Item) /\ Len(sent) = 0
    BY <1>1
  <2>2. Pairs(sent, <<>>, <<>>)
    BY <1>5, <2>1
  <2>3. QED
    BY <2>1, <2>2 DEF SentAnswered
<1>8. QED
  BY <1>3, <1>6, <1>7 DEF ITurn

LEMMA RequestKeeps ==
  ASSUME ITurn, Request
  PROVE  ITurn'
<1>1. /\ stage = "asking" /\ stage' = "streaming" /\ sent' = Input(messages)
      /\ calls' = <<>> /\ messages' = messages
  BY DEF Request
<1>2. TurnTypes'
  BY <1>1 DEF ITurn, TurnTypes
<1>3. Unanswered = <<>> /\ Unanswered' = <<>>
  BY <1>1 DEF Unanswered
<1>4. ToAnswer'
  BY <1>1, <1>3 DEF ITurn, ToAnswer
<1>5. SentAnswered'
  <2>1. Input(messages) \in Seq(Item)
    BY InputType DEF ITurn, TurnTypes
  <2>2. PICK called, output : /\ Pairs(Input(messages), called, output)
                            /\ LeavesOpen(Input(messages), called, output, <<>>)
    BY <1>1, <1>3 DEF ITurn, ToAnswer
  <2>3. Len(called) = Len(output)
    BY <2>2 DEF LeavesOpen, Pairs
  <2>4. QED
    BY <1>1, <2>1, <2>2, <2>3 DEF SentAnswered
<1>6. QED
  BY <1>2, <1>4, <1>5 DEF ITurn

LEMMA CallDoneKeeps ==
  ASSUME ITurn, NEW id \in CallIds, CallDone(id)
  PROVE  ITurn'
<1>1. /\ stage = "streaming" /\ calls' = Append(calls, id) /\ stage' = stage
      /\ messages' = messages /\ sent' = sent
  BY DEF CallDone
<1>2. TurnTypes'
  <2>1. Append(calls, id) \in Seq(CallIds)
    BY DEF ITurn, TurnTypes
  <2>2. QED
    BY <1>1, <2>1 DEF ITurn, TurnTypes
<1>3. Unanswered' = Unanswered
  BY <1>1 DEF Unanswered
<1>4. ToAnswer'
  BY <1>1, <1>3 DEF ITurn, ToAnswer
<1>5. SentAnswered'
  BY <1>1 DEF ITurn, SentAnswered
<1>6. QED
  BY <1>2, <1>4, <1>5 DEF ITurn

LEMMA StreamEndsKeeps ==
  ASSUME ITurn, StreamEnds
  PROVE  ITurn'
<1>1. stage = "streaming" /\ calls' = calls /\ sent' = sent
  BY DEF StreamEnds
<1>2. SentAnswered'
  BY <1>1 DEF ITurn, SentAnswered
<1>3. CASE calls = <<>>
  <2>1. stage' = "answered" /\ messages' = messages
    BY <1>3 DEF StreamEnds
  <2>2. TurnTypes'
    BY <1>1, <2>1 DEF ITurn, TurnTypes
  <2>3. Unanswered' = Unanswered
    BY <1>1, <2>1 DEF Unanswered
  <2>4. ToAnswer'
    BY <1>1, <2>1, <2>3 DEF ITurn, ToAnswer
  <2>5. QED
    BY <1>2, <2>2, <2>4 DEF ITurn
<1>4. CASE calls # <<>>
  <2>1. PICK msg : msg = Message("assistant", calls)
    OBVIOUS
  <2>2. /\ stage' = "calling" /\ messages' = Append(messages, msg)
    BY <1>4, <2>1 DEF StreamEnds
  <2>3. messages \in Seq(MessageSet) /\ calls \in Seq(CallIds)
    BY DEF ITurn, TurnTypes
  <2>4. msg \in MessageSet /\ msg.ids = calls /\ msg.role = "assistant"
    BY <2>1, <2>3 DEF Message, MessageSet
  <2>5. TurnTypes'
    <3>1. Append(messages, msg) \in Seq(MessageSet)
      BY <2>3, <2>4
    <3>2. QED
      BY <1>1, <1>4, <2>2, <2>3, <3>1 DEF TurnTypes
  <2>6. PICK called, output : /\ Pairs(Input(messages), called, output)
                            /\ LeavesOpen(Input(messages), called, output, <<>>)
    BY <1>1 DEF ITurn, ToAnswer, Unanswered
  <2>7. /\ Items(msg) \in Seq(Item) /\ Len(Items(msg)) = Len(calls)
        /\ \A n \in 1..Len(calls) : Items(msg)[n].kind = "call" /\ Items(msg)[n].id = calls[n]
    BY <2>4, ItemsType
  <2>8. Input(messages)' = Input(messages) \o Items(msg)
    <3>1. Input(Append(messages, msg)) = Input(messages) \o Items(msg)
      BY <2>3, <2>4, InputAppend
    <3>2. QED
      BY <2>2, <3>1 DEF Input
  <2>9. \E new : /\ Pairs(Input(messages) \o Items(msg), new, output)
                 /\ LeavesOpen(Input(messages) \o Items(msg), new, output, calls)
    <3> DEFINE in == Input(messages)
               items == Items(msg)
               all == in \o items
    <3>1. in \in Seq(Item) /\ items \in Seq(Item)
      BY <2>3, <2>7, InputType
    <3> HIDE DEF in, items
    <3>2. /\ Len(all) = Len(in) + Len(items) /\ \A n \in 1..Len(in) : all[n] = in[n]
          /\ \A n \in 1..Len(items) : all[Len(in) + n] = items[n]
      BY <3>1, ConcatElements
    <3> HIDE DEF all
    <3>3. Len(items) = Len(calls)
          /\ \A n \in 1..Len(calls) : items[n].kind = "call" /\ items[n].id = calls[n]
      BY <2>7 DEF items
    <3>4. Len(all) = Len(in) + Len(calls)
          /\ \A n \in 1..Len(calls) :
               all[Len(in) + n].kind = "call" /\ all[Len(in) + n].id = calls[n]
      BY <3>2, <3>3
    <3>5. Pairs(in, called, output) /\ LeavesOpen(in, called, output, <<>>)
      BY <2>6 DEF in
    <3>6. \E new : Pairs(all, new, output) /\ LeavesOpen(all, new, output, calls)
      BY <2>3, <3>1, <3>2, <3>4, <3>5, CallsAtTheEnd
    <3>7. QED
      BY <3>6 DEF in, items, all
  <2>10. Unanswered' = calls
    BY <1>1, <2>2 DEF Unanswered
  <2>11. ToAnswer'
    BY <2>8, <2>9, <2>10 DEF ToAnswer
  <2>12. QED
    BY <1>2, <2>5, <2>11 DEF ITurn
<1>5. QED
  BY <1>3, <1>4

LEMMA ToolEndsKeeps ==
  ASSUME ITurn, NEW ok \in BOOLEAN, ToolEnds(ok)
  PROVE  ITurn'
<1>1. PICK msg : msg = Message("tool", <<Head(calls)>>)
  OBVIOUS
<1>2. /\ stage = "calling" /\ messages' = Append(messages, msg) /\ calls' = Tail(calls)
      /\ sent' = sent
      /\ IF Len(calls) > 1 THEN stage' = stage ELSE stage' \in {"gaveUp", "asking"}
  BY <1>1 DEF ToolEnds, ToolMessage
<1>3. messages \in Seq(MessageSet) /\ calls \in Seq(CallIds) /\ calls # <<>>
  BY <1>2 DEF ITurn, TurnTypes
<1>4. /\ Head(calls) \in CallIds /\ Tail(calls) \in Seq(CallIds)
      /\ Len(calls) > 1 => Tail(calls) # <<>>
      /\ ~(Len(calls) > 1) => Tail(calls) = <<>>
  <2> DEFINE t == Tail(calls)
  <2>1. /\ Head(calls) \in CallIds /\ t \in Seq(CallIds)
        /\ Len(t) = Len(calls) - 1 /\ Len(calls) \in Nat \ {0}
    BY <1>3
  <2> HIDE DEF t
  <2>2. Len(t) = 0 <=> t = <<>>
    BY <2>1
  <2>3. (Len(calls) > 1 => t # <<>>) /\ (~(Len(calls) > 1) => t = <<>>)
    BY <2>1, <2>2
  <2>4. QED
    BY <2>1, <2>3 DEF t
<1>5. msg \in MessageSet /\ msg.ids = <<Head(calls)>> /\ msg.role = "tool"
  BY <1>1, <1>4 DEF Message, MessageSet
<1>6. TurnTypes'
  <2>1. Append(messages, msg) \in Seq(MessageSet)
    BY <1>3, <1>5
  <2>2. QED
    BY <1>2, <1>4, <2>1 DEF TurnTypes
<1>7. Unanswered = calls /\ Unanswered' = Tail(calls)
  BY <1>2, <1>4 DEF Unanswered
<1>8. PICK called, output : /\ Pairs(Input(messages), called, output)
                          /\ LeavesOpen(Input(messages), called, output, calls)
  BY <1>2, <1>7 DEF ITurn, ToAnswer
<1>9. Input(messages) \in Seq(Item)
  BY <1>3, InputType
<1>10. PICK item \in Item : /\ item.kind = "output" /\ item.id = Head(calls)
                            /\ Input(messages)' = Append(Input(messages), item)
  <2>1. /\ Items(msg) \in Seq(Item) /\ Len(Items(msg)) = 1
        /\ Items(msg)[1].kind = "output" /\ Items(msg)[1].id = Head(calls)
    <3>1. Len(msg.ids) = 1 /\ 1 \in 1..Len(msg.ids) /\ msg.ids[1] = Head(calls)
      BY <1>5
    <3>2. QED
      BY <1>5, <3>1, ItemsType
  <2>2. Input(Append(messages, msg)) = Input(messages) \o Items(msg)
    BY <1>3, <1>5, InputAppend
  <2>3. Input(messages)' = Input(messages) \o Items(msg)
    BY <1>2, <2>2 DEF Input
  <2> DEFINE in == Input(messages)
             items == Items(msg)
  <2>4. in \in Seq(Item) /\ items \in Seq(Item) /\ Len(items) = 1
    BY <1>9, <2>1
  <2> HIDE DEF in, items
  <2>5. in \o items = Append(in, items[1]) /\ items[1] \in Item
    BY <2>4, ConcatOne
  <2>6. QED
    BY <2>1, <2>3, <2>5 DEF in, items
<1>11. \E new : /\ Pairs(Append(Input(messages), item), called, new)
                /\ LeavesOpen(Append(Input(messages), item), called, new, Tail(calls))
  BY <1>3, <1>8, <1>9, <1>10, OutputAtTheEnd
<1>12. ToAnswer'
  BY <1>7, <1>10, <1>11 DEF ToAnswer
<1>13. SentAnswered'
  BY <1>2 DEF ITurn, SentAnswered
<1>14. QED
  BY <1>6, <1>12, <1>13 DEF ITurn

LEMMA TurnInvariant == TurnSpec => []ITurn
<1>1. ITurn /\ [TurnNext]_turnVars => ITurn'
  <2> SUFFICES ASSUME ITurn, [TurnNext]_turnVars PROVE ITurn'
    OBVIOUS
  <2>1. CASE Request
    BY <2>1, RequestKeeps
  <2>2. ASSUME NEW id \in CallIds, CallDone(id) PROVE ITurn'
    BY <2>2, CallDoneKeeps
  <2>3. CASE StreamEnds
    BY <2>3, StreamEndsKeeps
  <2>4. CASE TurnRaises
    BY <2>4 DEF TurnRaises, ITurn, TurnTypes, ToAnswer, SentAnswered
  <2>5. ASSUME NEW ok \in BOOLEAN, ToolEnds(ok) PROVE ITurn'
    BY <2>5, ToolEndsKeeps
  <2>6. CASE UNCHANGED turnVars
    BY <2>6 DEF turnVars, ITurn, TurnTypes, ToAnswer, SentAnswered, Unanswered
  <2>7. QED
    BY <2>1, <2>2, <2>3, <2>4, <2>5, <2>6 DEF TurnNext
<1>2. QED
  BY <1>1, ITurnInit, PTL DEF TurnSpec

\* What the model is asked with answers all its calls, in their order, whichever
\* tools raised and even if ids repeat or are missing.
THEOREM EveryCallIsAnswered == TurnSpec => []CallsAreAnswered
<1>1. ITurn => CallsAreAnswered
  BY SentIsAnswered DEF ITurn
<1>2. QED
  BY <1>1, TurnInvariant, PTL

(* ---- Selection ---- *)

Costs == [x \in Offered |-> CostOf(x)]

\* What is left of the budget is what the choice so far has not spent.
LeftIsUnspent ==
  \E g : Sums(Offered, Costs, g) /\ asked.left = asked.budget - g[Chosen]

\* Each candidate was taken, passed over, or is still to come.
ChoiceSoFar ==
  /\ asked.rest \subseteq Offered /\ Chosen \subseteq Offered \ asked.rest
  /\ asked.required \subseteq Chosen \cup asked.rest
  /\ asked.what = "messages" => asked.required = {}

\* The loop goes through the candidates in their order.
TakenInTurn ==
  /\ \A x \in Offered \ asked.rest, y \in asked.rest : Preferred(x, y)
  /\ \A m, n \in 1..Len(asked.taken) :
       m < n => Preferred(asked.taken[m], asked.taken[n])

\* Only what is required overdraws the budget.
Affordable == Chosen \subseteq asked.required \/ asked.left >= 0

\* What was passed over fits no more, and what came after it was smaller.
PassedOver == (Offered \ asked.rest) \ Chosen
TooLarge ==
  \A x \in PassedOver :
    /\ asked.left < CostOf(x)
    /\ \A y \in Chosen : Preferred(x, y) => CostOf(y) < CostOf(x)

ISelection ==
  /\ SelectionTypeOK
  /\ asked.what = "nothing" => asked = NotAsked
  /\ asked.what # "nothing" =>
       ChoiceSoFar /\ TakenInTurn /\ LeftIsUnspent /\ Affordable /\ TooLarge

LEMMA TotalUnfolds ==
  ASSUME NEW S
  PROVE  \E g : /\ g = CHOOSE h : h = [s \in SUBSET S |->
                         IF s = {} THEN 0 ELSE CostOf(First(s)) + h[s \ {First(s)}]]
               /\ MapThenSumSet(CostOf, S) = g[S]
BY DEF MapThenSumSet, MapThenFoldSet, First

LEMMA TotalIs ==
  ASSUME NEW S, IsFiniteSet(S), NEW f, \A x \in S : f[x] = CostOf(x)
  PROVE  \E g : Sums(S, f, g) /\ MapThenSumSet(CostOf, S) = g[S]
<1> DEFINE Body(g) == [s \in SUBSET S |-> IF s = {} THEN 0
                         ELSE CostOf(First(s)) + g[s \ {First(s)}]]
<1>1. PICK g : g = (CHOOSE h : h = Body(h)) /\ MapThenSumSet(CostOf, S) = g[S]
  BY TotalUnfolds
<1>2. PICK h : Summing(S, f, h)
  BY SumsExist
<1>3. \A s \in SUBSET S : s # {} => f[First(s)] = CostOf(First(s))
  <2>1. \A s \in SUBSET S : s # {} => First(s) \in S
    BY DEF First
  <2>2. QED
    BY <2>1
<1>4. h = Body(h)
  <2>1. \A s \in SUBSET S : (IF s = {} THEN 0 ELSE f[First(s)] + h[s \ {First(s)}])
                             = (IF s = {} THEN 0 ELSE CostOf(First(s)) + h[s \ {First(s)}])
    BY <1>3
  <2>2. QED
    BY <1>2, <2>1 DEF Summing
<1>5. g = Body(g)
  <2> HIDE DEF Body
  <2>1. QED
    BY <1>1, <1>4
<1>6. Sums(S, f, g)
  <2>1. \A s \in SUBSET S : g[s] = IF s = {} THEN 0 ELSE CostOf(First(s)) + g[s \ {First(s)}]
    BY <1>5
  <2>2. QED
    BY <1>3, <2>1 DEF Sums
<1>7. QED
  BY <1>1, <1>6

\* All that is compared is a number.
LEMMA OfferedAreNumbers ==
  ASSUME SelectionTypeOK
  PROVE  /\ IsFiniteSet(Offered) /\ Offered \subseteq Nat
         /\ \A x \in Offered : CostOf(x) \in Nat
<1>1. CASE asked.what = "messages"
  <2>1. Len(convo) \in Nat /\ DOMAIN convo = 1..Len(convo)
        /\ \A n \in 1..Len(convo) : convo[n] \in Nat
    <3>1. convo \in Seq(Lengths)
      BY DEF SelectionTypeOK
    <3>2. /\ Len(convo) \in Nat /\ DOMAIN convo = 1..Len(convo)
          /\ \A n \in 1..Len(convo) : convo[n] \in Lengths
      BY <3>1
    <3>3. Lengths \subseteq Nat
      BY SelectionAssumption
    <3>4. QED
      BY <3>2, <3>3
  <2>2. Offered \subseteq 1..Len(convo)
    BY <1>1, <2>1 DEF Offered, Recent
  <2>3. IsFiniteSet(1..Len(convo))
    BY <2>1, FS_Interval
  <2>4. ASSUME NEW x \in Offered PROVE CostOf(x) \in Nat
    <3>1. convo[x] \div 4 \in Nat
      BY <2>1, <2>2
    <3>2. QED
      BY <1>1, <3>1, SelectionAssumption DEF CostOf, MessageTokens
  <2>5. IsFiniteSet(Offered)
    BY <2>2, <2>3, FS_Subset
  <2>6. QED
    BY <2>1, <2>2, <2>4, <2>5
<1>2. CASE asked.what # "messages"
  <2>1. Offered \subseteq Tools
    BY <1>2 DEF Offered, Visible
  <2>2. ASSUME NEW x \in Offered PROVE CostOf(x) \in Nat
    <3>1. estimate[x] \in Nat
      BY <2>1, SelectionAssumption DEF SelectionTypeOK
    <3>2. QED
      BY <1>2, <3>1, SelectionAssumption DEF CostOf, ToolCost
  <2>3. QED
    BY <2>1, <2>2, SelectionAssumption, FS_Subset
<1>3. QED
  BY <1>1, <1>2

\* The order has no ties and no circles.
LEMMA PreferredIsOrder ==
  ASSUME SelectionTypeOK, NEW x \in Offered, NEW y \in Offered
  PROVE  Preferred(x, y) => ~Preferred(y, x)
<1>1. x \in Nat /\ y \in Nat
  BY OfferedAreNumbers
<1>2. CASE asked.what = "messages"
  BY <1>1, <1>2 DEF Preferred
<1>3. CASE asked.what # "messages"
  <2>1. used[x] \in Nat /\ used[y] \in Nat
    <3>1. x \in Tools /\ y \in Tools
      BY <1>3 DEF Offered, Visible
    <3>2. used \in [Tools -> 0..MaxUses]
      BY DEF SelectionTypeOK
    <3>3. used[x] \in 0..MaxUses /\ used[y] \in 0..MaxUses
      BY <3>1, <3>2, Zenon
    <3>4. QED
      BY <3>3, SelectionAssumption
  <2>2. QED
    BY <1>1, <1>3, <2>1 DEF Preferred, Precedes
<1>4. QED
  BY <1>2, <1>3

LEMMA RequestTypes ==
  ASSUME NEW c \in Requests
  PROVE  /\ c.what \in {"nothing", "messages", "tools"} /\ c.required \subseteq Tools
         /\ c.budget \in Int /\ c.rest \subseteq Nat /\ c.taken \in Seq(Nat)
         /\ c.left \in Int
<1>1. /\ c.what \in {"nothing", "messages", "tools"} /\ c.required \in SUBSET Tools
      /\ c.budget \in Budgets \cup {0} /\ c.rest \in SUBSET Nat /\ c.taken \in Seq(Nat)
      /\ c.left \in Int
  BY DEF Requests
<1>2. c.budget \in Int
  <2>1. Budgets \subseteq Int
    BY SelectionAssumption
  <2>2. c.budget \in Budgets \/ c.budget = 0
    BY <1>1
  <2>3. \A n \in Budgets : n \in Int
    BY <2>1, Zenon
  <2>4. CASE c.budget = 0
    BY <2>4
  <2>5. CASE c.budget \in Budgets
    BY <2>3, <2>5, Zenon
  <2>6. QED
    BY <2>2, <2>4, <2>5
<1>3. QED
  BY <1>1, <1>2

LEMMA RequestGoesOn ==
  ASSUME NEW c \in Requests, NEW r \in SUBSET Nat, NEW t \in Seq(Nat), NEW l \in Int
  PROVE  /\ [c EXCEPT !.rest = r, !.taken = t, !.left = l] \in Requests
         /\ [c EXCEPT !.rest = r] \in Requests
<1>1. [c EXCEPT !.rest = r] \in Requests
  BY DEF Requests
<1>2. [c EXCEPT !.rest = r, !.taken = t, !.left = l] \in Requests
  <2> DEFINE d == [c EXCEPT !.rest = r]
             e == [d EXCEPT !.taken = t]
  <2>1. d \in Requests
    BY <1>1
  <2> HIDE DEF d
  <2>2. e \in Requests
    BY <2>1 DEF Requests
  <2> HIDE DEF e
  <2>3. [e EXCEPT !.left = l] \in Requests
    BY <2>2 DEF Requests
  <2>4. QED
    BY <2>3 DEF d, e
<1>3. QED
  BY <1>1, <1>2

LEMMA NotAskedIsRequest == NotAsked \in Requests
BY DEF NotAsked, Requests

LEMMA SelectionInitInv == SelectionInit => ISelection
<1> SUFFICES ASSUME SelectionInit PROVE ISelection
  OBVIOUS
<1>1. asked = NotAsked
  BY DEF SelectionInit
<1>2. asked \in Requests
  BY <1>1, NotAskedIsRequest
<1>3. convo \in Seq(Lengths) /\ Len(convo) <= MaxMessages
  BY SelectionAssumption DEF SelectionInit
<1>4. SelectionTypeOK
  BY <1>2, <1>3, SelectionAssumption DEF SelectionInit, SelectionTypeOK
<1>5. QED
  BY <1>1, <1>4 DEF ISelection, NotAsked

LEMMA CandidatesAreFinite ==
  ASSUME SelectionTypeOK, NEW required
  PROVE  /\ IsFiniteSet(Recent) /\ Recent \subseteq Nat
         /\ IsFiniteSet(Visible(required)) /\ Visible(required) \subseteq Tools
<1>1. Len(convo) \in Nat /\ DOMAIN convo = 1..Len(convo)
  BY DEF SelectionTypeOK
<1>2. Recent \subseteq 1..Len(convo)
  BY <1>1 DEF Recent
<1>3. IsFiniteSet(Recent)
  <2>1. IsFiniteSet(1..Len(convo))
    BY <1>1, FS_Interval
  <2>2. QED
    BY <1>2, <2>1, FS_Subset
<1>4. Visible(required) \subseteq Tools
  BY DEF Visible
<1>5. IsFiniteSet(Visible(required))
  BY <1>4, SelectionAssumption, FS_Subset
<1>6. QED
  BY <1>1, <1>2, <1>3, <1>4, <1>5

\* A call begins with all candidates to come and the whole budget.
LEMMA RequestStep ==
  ASSUME SelectionTypeOK', asked'.what # "nothing", asked'.taken = <<>>,
         asked'.rest = Offered', IsFiniteSet(Offered'), asked'.required \subseteq Offered',
         asked'.left = asked'.budget, asked'.budget \in Int,
         asked'.what = "messages" => asked'.required = {}
  PROVE  ISelection'
<1>1. Chosen' = {} /\ Len(asked'.taken) = 0
  <2>1. DOMAIN <<>> = {} /\ Len(<<>>) = 0
    OBVIOUS
  <2>2. QED
    BY <2>1, Zenon DEF Chosen, ToSet
<1>2. ChoiceSoFar' /\ Affordable' /\ TooLarge'
  BY <1>1 DEF ChoiceSoFar, Affordable, TooLarge, PassedOver
<1>3. TakenInTurn'
  BY <1>1 DEF TakenInTurn
<1>4. LeftIsUnspent'
  <2>1. PICK g : Summing(Offered', Costs', g)
    BY SumsExist
  <2>2. Sums(Offered', Costs', g)
    BY <2>1 DEF Summing, Sums
  <2>3. g[{}] = 0
    BY <2>2 DEF Sums
  <2>4. asked'.left = asked'.budget - g[Chosen']
    BY <1>1, <2>3
  <2>5. QED
    BY <2>2, <2>4 DEF LeftIsUnspent
<1>5. QED
  BY <1>2, <1>3, <1>4 DEF ISelection

LEMMA AskForContextStep ==
  ASSUME ISelection, AskForContext
  PROVE  ISelection'
<1>1. PICK b \in Budgets : BuildContext(b)
  BY DEF AskForContext
<1>2. UNCHANGED <<convo, used, estimate, hidden>>
  BY DEF AskForContext
<1>3. /\ asked' = [what |-> "messages", required |-> {}, budget |-> b, rest |-> Recent,
                   taken |-> <<>>, left |-> b]
  BY <1>1 DEF BuildContext, NotAsked
<1>4. Recent' = Recent /\ IsFiniteSet(Recent) /\ Recent \subseteq Nat /\ b \in Int
  <2>1. Recent' = Recent
    BY <1>2 DEF Recent
  <2>2. QED
    BY <2>1, CandidatesAreFinite, SelectionAssumption DEF ISelection
<1>5. Offered' = Recent
  BY <1>3, <1>4 DEF Offered
<1>6. asked' \in Requests
  BY <1>3, <1>4 DEF Requests
<1>7. SelectionTypeOK'
  BY <1>2, <1>6 DEF ISelection, SelectionTypeOK
<1>8. QED
  BY <1>3, <1>4, <1>5, <1>7, RequestStep

LEMMA AskForToolsStep ==
  ASSUME ISelection, AskForTools
  PROVE  ISelection'
<1>1. PICK b \in Budgets, required \in SUBSET Tools : Disclose(b, required)
  BY DEF AskForTools
<1>2. UNCHANGED <<convo, used, estimate, hidden>>
  BY DEF AskForTools
<1>3. asked' = [what |-> "tools", required |-> required, budget |-> b,
                rest |-> Visible(required), taken |-> <<>>, left |-> b]
  BY <1>1 DEF Disclose
<1>4. /\ IsFiniteSet(Visible(required)) /\ Visible(required) \subseteq Nat /\ b \in Int
      /\ required \subseteq Visible(required)
  BY CandidatesAreFinite, SelectionAssumption DEF ISelection, Visible
<1>5. Offered' = Visible(required)
  BY <1>2, <1>3 DEF Offered, Visible
<1>6. asked' \in Requests
  BY <1>3, <1>4 DEF Requests
<1>7. SelectionTypeOK'
  BY <1>2, <1>6 DEF ISelection, SelectionTypeOK
<1>8. QED
  BY <1>3, <1>4, <1>5, <1>7, RequestStep

\* What is said or used ends the call.
LEMMA UseStep ==
  ASSUME ISelection, (\E n \in Lengths : Say(n)) \/ (\E t \in Tools : UseTool(t))
  PROVE  ISelection'
<1>1. asked' = NotAsked
  BY DEF Say, UseTool
<1>2. asked' \in Requests
  BY <1>1, NotAskedIsRequest
<1>3. /\ convo' \in Seq(Lengths) /\ Len(convo') <= MaxMessages
      /\ used' \in [Tools -> 0..MaxUses] /\ UNCHANGED <<estimate, hidden>>
  <2>1. CASE \E n \in Lengths : Say(n)
    <3>1. PICK n \in Lengths : Say(n)
      BY <2>1
    <3>2. convo \in Seq(Lengths) /\ Len(convo) < MaxMessages /\ convo' = Append(convo, n)
      BY <3>1 DEF Say, ISelection, SelectionTypeOK
    <3>3. convo' \in Seq(Lengths) /\ Len(convo') = Len(convo) + 1 /\ Len(convo) \in Nat
      BY <3>2
    <3>4. QED
      BY <3>1, <3>2, <3>3, SelectionAssumption DEF Say, ISelection, SelectionTypeOK
  <2>2. CASE \E t \in Tools : UseTool(t)
    <3>1. PICK t \in Tools : UseTool(t)
      BY <2>2
    <3>2. /\ used \in [Tools -> 0..MaxUses] /\ used[t] < MaxUses
          /\ used' = [used EXCEPT ![t] = @ + 1]
      BY <3>1 DEF UseTool, ISelection, SelectionTypeOK
    <3>3. used[t] + 1 \in 0..MaxUses
      BY <3>2, SelectionAssumption
    <3>4. QED
      BY <3>1, <3>2, <3>3 DEF UseTool, ISelection, SelectionTypeOK
  <2>3. QED
    BY <2>1, <2>2
<1>4. SelectionTypeOK'
  BY <1>2, <1>3 DEF ISelection, SelectionTypeOK
<1>5. QED
  BY <1>1, <1>4 DEF ISelection, NotAsked

LEMMA RequiredFirst ==
  ASSUME ChoiceSoFar, asked.what # "nothing", NEW x \in asked.required, NEW y,
         y \notin asked.required
  PROVE  ~Preferred(y, x)
BY DEF ChoiceSoFar, Preferred, Precedes

LEMMA ConsiderStep ==
  ASSUME ISelection, ConsiderNext
  PROVE  ISelection'
<1>1. PICK x \in asked.rest : /\ \A y \in asked.rest \ {x} : Preferred(x, y)
                             /\ asked' = TakeIfFits(x)
  BY DEF ConsiderNext
<1> DEFINE fits == x \in asked.required \/ CostOf(x) <= asked.left
<1>2. UNCHANGED <<convo, used, estimate, hidden>>
  BY DEF ConsiderNext
<1>3. /\ asked \in Requests
      /\ SelectionTypeOK
  BY DEF ISelection, SelectionTypeOK
<1>4. /\ asked'.what = asked.what /\ asked'.required = asked.required
      /\ asked'.budget = asked.budget /\ asked'.rest = asked.rest \ {x}
      /\ fits => asked'.taken = Append(asked.taken, x) /\ asked'.left = asked.left - CostOf(x)
      /\ ~fits => asked'.taken = asked.taken /\ asked'.left = asked.left
  <2>1. asked.what \in {"nothing", "messages", "tools"} /\ asked.taken \in Seq(Nat)
    BY <1>3, RequestTypes
  <2>2. CASE fits
    BY <1>1, <1>3, <2>2 DEF TakeIfFits, Requests
  <2>3. CASE ~fits
    BY <1>1, <1>3, <2>3 DEF TakeIfFits, Requests
  <2>4. QED
    BY <2>2, <2>3
<1>5. asked.what # "nothing"
  BY <1>1 DEF ISelection, NotAsked
<1>6. ChoiceSoFar /\ TakenInTurn /\ LeftIsUnspent /\ Affordable /\ TooLarge
  BY <1>5 DEF ISelection
<1>7. /\ Offered' = Offered /\ \A y : CostOf(y)' = CostOf(y)
      /\ \A y, z : Preferred(y, z)' = Preferred(y, z)
  BY <1>2, <1>4 DEF Offered, Recent, Visible, CostOf, MessageTokens, ToolCost,
                    Preferred, Precedes
<1>8. Costs' = Costs
  BY <1>7 DEF Costs
<1>9. /\ x \in Offered /\ x \notin Chosen /\ x \in Nat /\ CostOf(x) \in Nat
      /\ IsFiniteSet(Offered) /\ \A y \in Offered : CostOf(y) \in Nat
  <2>1. x \in Offered /\ x \notin Chosen
    BY <1>6 DEF ChoiceSoFar
  <2>2. QED
    BY <1>3, <2>1, OfferedAreNumbers
<1>10. asked.left \in Int /\ asked.budget \in Int
  BY <1>3, RequestTypes
<1>11. /\ Len(asked.taken) \in Nat /\ DOMAIN asked.taken = 1..Len(asked.taken)
       /\ \A n \in 1..Len(asked.taken) : asked.taken[n] \in Chosen
  <2>1. asked.taken \in Seq(Nat)
    BY <1>3, RequestTypes
  <2>2. QED
    BY <2>1 DEF Chosen, ToSet
<1>12. fits => /\ Len(asked'.taken) = Len(asked.taken) + 1
               /\ DOMAIN asked'.taken = 1..(Len(asked.taken) + 1)
               /\ asked'.taken[Len(asked.taken) + 1] = x
               /\ \A n \in 1..Len(asked.taken) : asked'.taken[n] = asked.taken[n]
  <2>1. asked.taken \in Seq(Nat) /\ x \in Nat
    BY <1>3, <1>9, RequestTypes
  <2>2. QED
    BY <1>4, <2>1
<1>13. Chosen' = IF fits THEN Chosen \cup {x} ELSE Chosen
  <2>1. CASE fits
    <3>1. Chosen' = {asked'.taken[n] : n \in 1..(Len(asked.taken) + 1)}
      BY <1>12, <2>1 DEF Chosen, ToSet
    <3>2. Chosen = {asked.taken[n] : n \in 1..Len(asked.taken)}
      BY <1>11 DEF Chosen, ToSet
    <3>3. 1..(Len(asked.taken) + 1) = 1..Len(asked.taken) \cup {Len(asked.taken) + 1}
      BY <1>11
    <3>4. QED
      BY <1>12, <2>1, <3>1, <3>2, <3>3
  <2>2. CASE ~fits
    BY <1>4, <2>2 DEF Chosen
  <2>3. QED
    BY <2>1, <2>2
<1> HIDE DEF fits
<1>14. SelectionTypeOK'
  <2>1. /\ asked.rest \ {x} \in SUBSET Nat /\ Append(asked.taken, x) \in Seq(Nat)
        /\ asked.left - CostOf(x) \in Int
    <3>1. asked.rest \subseteq Nat /\ asked.taken \in Seq(Nat)
      BY <1>3, RequestTypes
    <3>2. QED
      BY <1>9, <1>10, <3>1
  <2>2. TakeIfFits(x) \in Requests
    <3>1. /\ [asked EXCEPT !.rest = asked.rest \ {x}, !.taken = Append(asked.taken, x),
                          !.left = asked.left - CostOf(x)] \in Requests
          /\ [asked EXCEPT !.rest = asked.rest \ {x}] \in Requests
      BY <1>3, <2>1, RequestGoesOn
    <3>2. QED
      BY <3>1 DEF TakeIfFits
  <2>3. QED
    BY <1>1, <1>2, <1>3, <2>2 DEF SelectionTypeOK
<1>15. ChoiceSoFar'
  <2>1. \/ x \notin asked.required \/ x \in Chosen'
    BY <1>13 DEF fits
  <2>2. QED
    BY <1>4, <1>6, <1>7, <1>9, <1>13, <2>1 DEF ChoiceSoFar
<1>16. TakenInTurn'
  <2>1. \A y \in Offered \ asked'.rest, z \in asked'.rest : Preferred(y, z)
    BY <1>1, <1>4, <1>6 DEF TakenInTurn
  <2>2. ASSUME NEW m \in 1..Len(asked'.taken), NEW n \in 1..Len(asked'.taken), m < n
        PROVE  Preferred(asked'.taken[m], asked'.taken[n])
    <3>1. CASE ~fits
      BY <1>4, <1>6, <2>2, <3>1 DEF TakenInTurn
    <3>2. CASE fits /\ n \in 1..Len(asked.taken)
      <4>1. m \in 1..Len(asked.taken)
        BY <1>11, <2>2, <3>2
      <4>2. asked'.taken[m] = asked.taken[m] /\ asked'.taken[n] = asked.taken[n]
        BY <1>12, <3>2, <4>1
      <4>3. Preferred(asked.taken[m], asked.taken[n])
        BY <1>6, <2>2, <3>2, <4>1 DEF TakenInTurn
      <4>4. QED
        BY <4>2, <4>3
    <3>3. CASE fits /\ n = Len(asked.taken) + 1
      <4>1. m \in 1..Len(asked.taken)
        BY <1>11, <2>2, <3>3
      <4>2. asked'.taken[m] \in Chosen /\ asked'.taken[n] = x
        BY <1>11, <1>12, <3>3, <4>1
      <4>3. QED
        BY <1>6, <4>2 DEF TakenInTurn, ChoiceSoFar
    <3>4. QED
      BY <1>11, <1>12, <3>1, <3>2, <3>3
  <2>3. QED
    BY <1>7, <2>1, <2>2 DEF TakenInTurn
<1>17. LeftIsUnspent'
  <2>1. PICK g : Sums(Offered, Costs, g) /\ asked.left = asked.budget - g[Chosen]
    BY <1>6 DEF LeftIsUnspent
  <2>2. Chosen \subseteq Offered /\ Chosen' \subseteq Offered
    BY <1>6, <1>9, <1>13 DEF ChoiceSoFar
  <2>3. /\ \A y \in Offered : Costs[y] \in Int
        /\ Costs[x] = CostOf(x)
    BY <1>9 DEF Costs
  <2>4. \A s \in SUBSET Offered : g[s] \in Int /\ \A y \in s : g[s] = Costs[y] + g[s \ {y}]
    <3>1. IsFiniteSet(Offered) /\ Sums(Offered, Costs, g) /\ \A y \in Offered : Costs[y] \in Int
      BY <1>9, <2>1, <2>3
    <3>2. QED
      BY <3>1, SumOfMore
  <2>5. asked'.left = asked'.budget - g[Chosen']
    <3>1. CASE fits
      <4>1. x \in Chosen' /\ Chosen' \ {x} = Chosen
        BY <1>9, <1>13, <3>1
      <4>2. g[Chosen'] = CostOf(x) + g[Chosen] /\ g[Chosen] \in Int
        BY <2>2, <2>3, <2>4, <4>1
      <4>3. QED
        BY <1>4, <1>9, <1>10, <2>1, <3>1, <4>2
    <3>2. CASE ~fits
      BY <1>4, <1>13, <2>1, <3>2
    <3>3. QED
      BY <3>1, <3>2
  <2>6. QED
    BY <1>7, <1>8, <2>1, <2>5 DEF LeftIsUnspent
<1>18. Affordable'
  <2>1. CASE ~fits
    BY <1>4, <1>6, <1>13, <2>1 DEF Affordable
  <2>2. CASE fits /\ x \in asked.required
    <3>1. ASSUME NEW z \in Chosen, z \notin asked.required PROVE FALSE
      <4>1. Preferred(z, x)
        BY <1>6 DEF ChoiceSoFar, TakenInTurn
      <4>2. QED
        BY <1>5, <1>6, <2>2, <3>1, <4>1, RequiredFirst
    <3>2. Chosen' \subseteq asked.required
      BY <1>13, <2>2, <3>1
    <3>3. QED
      BY <1>4, <3>2 DEF Affordable
  <2>3. CASE fits /\ x \notin asked.required
    <3>1. asked'.left >= 0
      BY <1>4, <1>9, <1>10, <2>3 DEF fits
    <3>2. QED
      BY <3>1 DEF Affordable
  <2>4. QED
    BY <2>1, <2>2, <2>3
<1>19. TooLarge'
  <2>1. ASSUME NEW y \in PassedOver'
        PROVE  /\ asked'.left < CostOf(y)
               /\ \A z \in Chosen' : Preferred(y, z) => CostOf(z) < CostOf(y)
    <3>1. CASE fits
      <4>1. y \in PassedOver /\ y \in Offered /\ y \notin asked.required /\ Preferred(y, x)
        BY <1>4, <1>6, <1>7, <1>13, <2>1, <3>1 DEF PassedOver, ChoiceSoFar, TakenInTurn
      <4>2. /\ asked.left < CostOf(y) /\ CostOf(y) \in Nat
            /\ \A z \in Chosen : Preferred(y, z) => CostOf(z) < CostOf(y)
        BY <1>6, <1>9, <4>1 DEF TooLarge
      <4>3. asked'.left < CostOf(y)
        BY <1>4, <1>9, <1>10, <3>1, <4>2
      <4>4. CostOf(x) < CostOf(y)
        <5>1. x \notin asked.required
          BY <1>5, <1>6, <4>1, RequiredFirst
        <5>2. CostOf(x) <= asked.left
          BY <3>1, <5>1 DEF fits
        <5>3. QED
          BY <1>9, <1>10, <4>2, <5>2
      <4>5. QED
        BY <1>13, <3>1, <4>2, <4>3, <4>4
    <3>2. CASE ~fits /\ y # x
      <4>1. y \in PassedOver
        BY <1>4, <1>7, <1>13, <2>1, <3>2 DEF PassedOver
      <4>2. QED
        BY <1>4, <1>6, <1>13, <3>2, <4>1 DEF TooLarge
    <3>3. CASE ~fits /\ y = x
      <4>1. asked.left < CostOf(x)
        BY <1>9, <1>10, <3>3 DEF fits
      <4>2. ASSUME NEW z \in Chosen PROVE ~Preferred(x, z)
        <5>1. z \in Offered /\ Preferred(z, x)
          BY <1>6 DEF ChoiceSoFar, TakenInTurn
        <5>2. QED
          BY <1>3, <1>9, <5>1, PreferredIsOrder
      <4>3. QED
        BY <1>4, <1>13, <3>3, <4>1, <4>2
    <3>4. QED
      BY <3>1, <3>2, <3>3
  <2>2. QED
    BY <1>7, <2>1 DEF TooLarge
<1>20. QED
  BY <1>4, <1>5, <1>14, <1>15, <1>16, <1>17, <1>18, <1>19 DEF ISelection

LEMMA SelectionInvariance == SelectionSpec => []ISelection
<1>1. ISelection /\ [SelectionNext]_selectionVars => ISelection'
  <2> SUFFICES ASSUME ISelection, [SelectionNext]_selectionVars PROVE ISelection'
    OBVIOUS
  <2>1. CASE UNCHANGED selectionVars
    <3>1. UNCHANGED <<convo, used, estimate, hidden, asked>>
      BY <2>1 DEF selectionVars
    <3>2. /\ Offered' = Offered /\ \A y : CostOf(y)' = CostOf(y) /\ Chosen' = Chosen
          /\ \A y, z : Preferred(y, z)' = Preferred(y, z)
      BY <3>1 DEF Offered, Recent, Visible, CostOf, MessageTokens, ToolCost,
                  Preferred, Precedes, Chosen
    <3>3. Costs' = Costs /\ PassedOver' = PassedOver
      BY <3>1, <3>2 DEF Costs, PassedOver
    <3>4. SelectionTypeOK'
      BY <3>1 DEF ISelection, SelectionTypeOK
    <3>5. asked.what # "nothing" => ChoiceSoFar' /\ TakenInTurn' /\ Affordable' /\ TooLarge'
      BY <3>1, <3>2, <3>3 DEF ISelection, ChoiceSoFar, TakenInTurn, Affordable, TooLarge
    <3>6. LeftIsUnspent => LeftIsUnspent'
      BY <3>1, <3>2, <3>3 DEF LeftIsUnspent
    <3>7. QED
      BY <3>1, <3>4, <3>5, <3>6 DEF ISelection
  <2>2. QED
    BY <2>1, UseStep, AskForContextStep, AskForToolsStep, ConsiderStep DEF SelectionNext
<1>2. QED
  BY <1>1, SelectionInitInv, PTL DEF SelectionSpec

LEMMA WhatFits ==
  ASSUME ISelection, asked.what # "nothing", asked.rest = {}
  PROVE  /\ asked.required \subseteq Chosen /\ Chosen \subseteq Offered
         /\ Chosen # asked.required => MapThenSumSet(CostOf, Chosen) <= asked.budget
         /\ \A x \in Offered \ Chosen :
              /\ MapThenSumSet(CostOf, Chosen) + CostOf(x) > asked.budget
              /\ \A y \in Chosen : Preferred(x, y) => CostOf(y) < CostOf(x)
<1>1. ChoiceSoFar /\ LeftIsUnspent /\ Affordable /\ TooLarge /\ SelectionTypeOK
  BY DEF ISelection
<1>2. asked.required \subseteq Chosen /\ Chosen \subseteq Offered
  BY <1>1 DEF ChoiceSoFar
<1>3. /\ IsFiniteSet(Offered) /\ \A x \in Offered : CostOf(x) \in Nat
      /\ asked.budget \in Int
  BY <1>1, OfferedAreNumbers, RequestTypes DEF SelectionTypeOK
<1>4. PICK g : Sums(Offered, Costs, g) /\ asked.left = asked.budget - g[Chosen]
  BY <1>1 DEF LeftIsUnspent
<1>5. \A x \in Offered : Costs[x] = CostOf(x) /\ Costs[x] \in Int
  BY <1>3 DEF Costs
<1>6. g[Chosen] \in Int
  BY <1>2, <1>3, <1>4, <1>5, SumOfMore
<1>7. MapThenSumSet(CostOf, Chosen) = g[Chosen]
  <2>1. IsFiniteSet(Chosen) /\ \A x \in Chosen : Costs[x] = CostOf(x)
    BY <1>2, <1>3, <1>5, FS_Subset
  <2>2. PICK h : Sums(Chosen, Costs, h) /\ MapThenSumSet(CostOf, Chosen) = h[Chosen]
    BY <2>1, TotalIs
  <2>3. \A s \in SUBSET Chosen : h[s] = g[s]
    BY <1>2, <1>3, <1>4, <2>1, <2>2, SumsAgree
  <2>4. QED
    BY <2>2, <2>3
<1>8. ASSUME NEW x \in Offered \ Chosen
      PROVE  /\ g[Chosen] + CostOf(x) > asked.budget
             /\ \A y \in Chosen : Preferred(x, y) => CostOf(y) < CostOf(x)
  <2>1. x \in PassedOver
    BY DEF PassedOver
  <2>2. QED
    BY <1>1, <1>3, <1>4, <1>6, <2>1 DEF TooLarge
<1>9. Chosen # asked.required => g[Chosen] <= asked.budget
  BY <1>1, <1>2, <1>3, <1>4, <1>6 DEF Affordable
<1>10. QED
  BY <1>2, <1>7, <1>8, <1>9

LEMMA ReturnedInOrder ==
  ASSUME ISelection, asked.what # "nothing"
  PROVE  \A m, n \in DOMAIN Returned : m < n =>
           IF asked.what = "messages" THEN Returned[m] < Returned[n]
           ELSE Preferred(Returned[m], Returned[n])
<1> DEFINE k == Len(asked.taken)
<1>1. /\ k \in Nat /\ DOMAIN asked.taken = 1..k
      /\ \A m, n \in 1..k : m < n => Preferred(asked.taken[m], asked.taken[n])
  <2>1. asked.taken \in Seq(Nat)
    BY RequestTypes DEF ISelection, SelectionTypeOK
  <2>2. QED
    BY <2>1 DEF ISelection, TakenInTurn
<1>2. CASE asked.what # "messages"
  BY <1>1, <1>2 DEF Returned
<1>3. CASE asked.what = "messages"
  <2>1. /\ DOMAIN Returned = 1..k
        /\ \A n \in 1..k : Returned[n] = asked.taken[(k - n) + 1]
    BY <1>3 DEF Returned, Reverse
  <2>2. ASSUME NEW m \in 1..k, NEW n \in 1..k, m < n
        PROVE  Returned[m] < Returned[n]
    <3>1. (k - m) + 1 \in 1..k /\ (k - n) + 1 \in 1..k /\ (k - n) + 1 < (k - m) + 1
      BY <1>1, <2>2
    <3>2. Preferred(asked.taken[(k - n) + 1], asked.taken[(k - m) + 1])
      BY <1>1, <3>1
    <3>3. /\ asked.taken[(k - n) + 1] \in Nat /\ asked.taken[(k - m) + 1] \in Nat
      <4>1. asked.taken \in Seq(Nat)
        BY RequestTypes DEF ISelection, SelectionTypeOK
      <4>2. \A i \in 1..k : asked.taken[i] \in Nat
        BY <4>1
      <4>3. QED
        BY <3>1, <4>2
    <3>4. asked.taken[(k - n) + 1] > asked.taken[(k - m) + 1]
      BY <1>3, <3>2 DEF Preferred
    <3>5. QED
      BY <2>1, <3>3, <3>4
  <2>3. QED
    BY <1>3, <2>1, <2>2
<1>4. QED
  BY <1>2, <1>3

\* Whatever fits a budget was chosen well, for any conversation, messages, tools,
\* costs, usage and budget, also one that is overdrawn from the start: what is
\* required is there, the rest fits, what is left out would not, and the order of
\* messages and of tools is kept.
THEOREM ChoicesFit == SelectionSpec => []SelectionFits
<1>1. ISelection => SelectionFits
  BY WhatFits, ReturnedInOrder DEF SelectionFits
<1>2. QED
  BY <1>1, SelectionInvariance, PTL
=============================================================================
