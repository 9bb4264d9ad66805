-------------------------- MODULE TinyMallocProofs --------------------------
(***************************************************************************)
(* Proofs about TinyMalloc for every value of its constants: malloc()      *)
(* gives memory out once, free() finds every block it can look for, the    *)
(* lists lose no chunk, and a chunkinfo_t is always in reserve.            *)
(***************************************************************************)
EXTENDS TinyMalloc, InductionFacts, FiniteSetTheorems, SequenceTheorems

-----------------------------------------------------------------------------
(* Lists.  next[k] is the successor of chunk k, 0 ends a list.             *)

\* f[i] is the chunk i places before the end of the list: from f[n], the head,
\* the successors run once through S.
Runs(next, head, S, n, f) ==
    /\ n \in Nat /\ f \in [0 .. n -> S \cup {0}]
    /\ f[0] = 0 /\ f[n] = head
    /\ \A i \in 1 .. n : f[i] \in S /\ next[f[i]] = f[i - 1]
    /\ \A i, j \in 0 .. n : f[i] = f[j] => i = j
    /\ \A k \in S : \E i \in 1 .. n : f[i] = k

Chain(next, head, S) == 0 \notin S /\ \E n, f : Runs(next, head, S, n, f)

LEMMA ChainEmpty ==
    ASSUME NEW next PROVE Chain(next, 0, {})
<1>1. Runs(next, 0, {}, 0, [i \in 0 .. 0 |-> 0])
  BY DEF Runs
<1>. QED  BY <1>1 DEF Chain

\* Only the successors of its own chunks matter to a list.
LEMMA ChainFrame ==
    ASSUME NEW next, NEW head, NEW S, Chain(next, head, S),
           NEW other, \A k \in S : other[k] = next[k]
    PROVE  Chain(other, head, S)
<1>1. PICK n, f : Runs(next, head, S, n, f)
  BY DEF Chain
<1>2. Runs(other, head, S, n, f)
  BY <1>1 DEF Runs
<1>. QED  BY <1>2 DEF Chain

\* The head, and what follows a chunk.
LEMMA ChainEnds ==
    ASSUME NEW next, NEW head, NEW S, Chain(next, head, S)
    PROVE  /\ head \in S \cup {0} /\ (head = 0 <=> S = {})
           /\ \A k \in S : next[k] \in S \cup {0} /\ next[k] # k /\ next[k] # head
           /\ \A j, k \in S : next[j] = next[k] => j = k
<1>1. PICK n, f : Runs(next, head, S, n, f)
  BY DEF Chain
<1>2. 0 \notin S /\ n \in Nat /\ f[n] = head /\ f[0] = 0
  BY <1>1 DEF Chain, Runs
<1>3. head \in S \cup {0} /\ (head = 0 <=> n = 0)
  BY <1>1, <1>2 DEF Runs
<1>4. n = 0 <=> S = {}
  <2>1. ASSUME n = 0, NEW k \in S PROVE FALSE
    BY <2>1, <1>1 DEF Runs
  <2>2. ASSUME n # 0 PROVE f[n] \in S
    BY <2>2, <1>1 DEF Runs
  <2>. QED  BY <2>1, <2>2
<1>5. ASSUME NEW k \in S PROVE next[k] \in S \cup {0} /\ next[k] # k /\ next[k] # head
  <2>1. PICK i \in 1 .. n : f[i] = k
    BY <1>1 DEF Runs
  <2>2. next[k] = f[i - 1] /\ i - 1 \in 0 .. n /\ i \in 0 .. n /\ n \in 0 .. n /\ i - 1 # n /\ i - 1 # i
    BY <1>1, <1>2, <2>1 DEF Runs
  <2>. QED  BY <1>1, <1>2, <2>1, <2>2 DEF Runs
<1>6. ASSUME NEW j \in S, NEW k \in S, next[j] = next[k] PROVE j = k
  <2>1. PICK i \in 1 .. n : f[i] = k
    BY <1>1 DEF Runs
  <2>2. PICK m \in 1 .. n : f[m] = j
    BY <1>1 DEF Runs
  <2>3. f[i - 1] = f[m - 1] /\ i - 1 \in 0 .. n /\ m - 1 \in 0 .. n
    BY <1>1, <1>2, <2>1, <2>2, <1>6 DEF Runs
  <2>4. i - 1 = m - 1
    BY <1>1, <2>3 DEF Runs
  <2>5. i = m
    BY <1>2, <2>4
  <2>. QED  BY <2>1, <2>2, <2>5
<1>. QED  BY <1>3, <1>4, <1>5, <1>6

\* A chunk in front.
LEMMA ChainFront ==
    ASSUME NEW next, NEW head, NEW S, Chain(next, head, S),
           NEW k, k \notin S, k # 0,
           NEW other, other[k] = head, \A j \in S : other[j] = next[j]
    PROVE  Chain(other, k, S \cup {k})
<1>1. PICK n, f : Runs(next, head, S, n, f)
  BY DEF Chain
<1> DEFINE g == [i \in 0 .. (n + 1) |-> IF i <= n THEN f[i] ELSE k]
<1>2. n \in Nat /\ f[0] = 0 /\ f[n] = head
  BY <1>1 DEF Runs
<1>3. g \in [0 .. (n + 1) -> S \cup {k} \cup {0}]
  BY <1>1, <1>2 DEF Runs
<1>4. g[0] = 0 /\ g[n + 1] = k
  BY <1>2
<1>5. ASSUME NEW i \in 1 .. (n + 1) PROVE g[i] \in S \cup {k} /\ other[g[i]] = g[i - 1]
  <2>1. CASE i <= n
    BY <2>1, <1>1, <1>2 DEF Runs
  <2>2. CASE i = n + 1
    BY <2>2, <1>2
  <2>. QED  BY <1>2, <2>1, <2>2
<1>6. ASSUME NEW i \in 0 .. (n + 1), NEW j \in 0 .. (n + 1), g[i] = g[j] PROVE i = j
  <2>1. \A m \in 0 .. n : f[m] # k
    BY <1>1 DEF Runs
  <2>. QED  BY <1>1, <1>2, <1>6, <2>1 DEF Runs
<1>7. ASSUME NEW j \in S \cup {k} PROVE \E i \in 1 .. (n + 1) : g[i] = j
  <2>1. CASE j = k
    BY <2>1, <1>2, <1>4
  <2>2. CASE j \in S
    <3>1. PICK i \in 1 .. n : f[i] = j
      BY <2>2, <1>1 DEF Runs
    <3>. QED  BY <3>1, <1>2
  <2>. QED  BY <2>1, <2>2
<1>8. Runs(other, k, S \cup {k}, n + 1, g)
  <2> HIDE DEF g
  <2>. QED  BY <1>2, <1>3, <1>4, <1>5, <1>6, <1>7 DEF Runs
<1>. QED  BY <1>8 DEF Chain

\* The head leaves.
LEMMA ChainBehead ==
    ASSUME NEW next, NEW head, NEW S, Chain(next, head, S), head # 0
    PROVE  Chain(next, next[head], S \ {head})
<1>1. PICK n, f : Runs(next, head, S, n, f)
  BY DEF Chain
<1>2. n \in Nat \ {0} /\ f[0] = 0 /\ f[n] = head
  BY <1>1 DEF Runs
<1> DEFINE g == [i \in 0 .. (n - 1) |-> f[i]]
           T == S \ {head}
<1>3. \A i \in 0 .. (n - 1) : i \in 0 .. n /\ f[i] # head /\ g[i] = f[i]
  <2>1. \A i \in 0 .. (n - 1) : i \in 0 .. n /\ i # n /\ n \in 0 .. n
    BY <1>2
  <2>. QED  BY <1>1, <1>2, <2>1 DEF Runs
<1>4. g \in [0 .. (n - 1) -> T \cup {0}]
  BY <1>1, <1>3 DEF Runs
<1>5. \A i \in 1 .. (n - 1) : g[i] \in T /\ next[g[i]] = g[i - 1]
  <2>1. \A i \in 1 .. (n - 1) : i \in 0 .. (n - 1) /\ i - 1 \in 0 .. (n - 1) /\ i \in 1 .. n
    BY <1>2
  <2> HIDE DEF g
  <2>. QED  BY <1>1, <1>3, <2>1 DEF Runs
<1>6. \A i, j \in 0 .. (n - 1) : g[i] = g[j] => i = j
  BY <1>1, <1>3 DEF Runs
<1>7. ASSUME NEW j \in T PROVE \E i \in 1 .. (n - 1) : g[i] = j
  <2>1. PICK i \in 1 .. n : f[i] = j
    BY <1>1 DEF Runs
  <2>2. i # n
    BY <1>2, <2>1
  <2>. QED  BY <1>2, <2>1, <2>2
<1>8. next[head] = f[n - 1]
  BY <1>1, <1>2 DEF Runs
<1>9. g[0] = 0 /\ g[n - 1] = next[head] /\ n - 1 \in Nat
  BY <1>2, <1>8
<1>10. Runs(next, next[head], T, n - 1, g)
  <2> HIDE DEF g, T
  <2>. QED  BY <1>4, <1>5, <1>6, <1>7, <1>9 DEF Runs
<1>. QED  BY <1>10 DEF Chain

\* Chunk k, behind p, leaves.
LEMMA ChainRemove ==
    ASSUME NEW next, NEW head, NEW S, Chain(next, head, S),
           NEW p \in S, NEW k \in S, next[p] = k,
           NEW other, other[p] = next[k], \A j \in S \ {p, k} : other[j] = next[j]
    PROVE  Chain(other, head, S \ {k})
<1>1. PICK n, f : Runs(next, head, S, n, f)
  BY DEF Chain
<1>2. PICK m \in 1 .. n : f[m] = p
  BY <1>1 DEF Runs
<1>3. 0 \notin S /\ n \in Nat /\ f[0] = 0 /\ f[n] = head /\ next[f[m]] = f[m - 1] /\ f[m - 1] = k
  BY <1>1, <1>2 DEF Chain, Runs
<1>4. m - 1 \in 1 .. n /\ m \in 2 .. n
  <2>1. m # 1
    BY <1>3
  <2>. QED  BY <1>2, <1>3, <2>1
<1> DEFINE g == [i \in 0 .. (n - 1) |-> IF i < m - 1 THEN f[i] ELSE f[i + 1]]
           T == S \ {k}
<1>5. \A i \in 0 .. n : i # m - 1 => f[i] # k
  <2>1. m - 1 \in 0 .. n
    BY <1>4
  <2>. QED  BY <1>1, <1>3, <2>1 DEF Runs
<1>6. g \in [0 .. (n - 1) -> T \cup {0}]
  BY <1>1, <1>3, <1>4, <1>5 DEF Runs
<1>7. g[0] = 0 /\ g[n - 1] = head /\ n - 1 \in Nat
  BY <1>1, <1>3, <1>4
<1>8. ASSUME NEW i \in 1 .. (n - 1) PROVE g[i] \in T /\ other[g[i]] = g[i - 1]
  <2>1. CASE i < m - 1
    <3>1. g[i] = f[i] /\ g[i - 1] = f[i - 1] /\ i \in 1 .. n /\ i # m /\ i # m - 1 /\ i \in 0 .. n /\ m \in 0 .. n
      BY <2>1, <1>3, <1>4
    <3>2. f[i] \in S /\ next[f[i]] = f[i - 1] /\ f[i] # k /\ f[i] # p
      BY <3>1, <1>1, <1>2, <1>5 DEF Runs
    <3> HIDE DEF g
    <3>. QED  BY <3>1, <3>2
  <2>2. CASE i = m - 1
    <3>1. g[i] = f[m] /\ g[i - 1] = f[m - 2]
      BY <2>2, <1>3, <1>4
    <3>2. next[k] = f[m - 2]
      <4>1. (m - 1) - 1 = m - 2
        BY <1>4
      <4>. QED  BY <1>1, <1>3, <1>4, <4>1 DEF Runs
    <3>3. m \in 0 .. n /\ m # m - 1
      BY <1>4
    <3> HIDE DEF g
    <3>. QED  BY <3>1, <3>2, <3>3, <1>2, <1>5
  <2>3. CASE i > m - 1
    <3>1. g[i] = f[i + 1] /\ g[i - 1] = f[i] /\ i + 1 \in 1 .. n /\ i + 1 # m /\ i + 1 # m - 1 /\ i + 1 \in 0 .. n /\ m \in 0 .. n
      BY <2>3, <1>3, <1>4
    <3>2. (i + 1) - 1 = i
      OBVIOUS
    <3>3. f[i + 1] \in S /\ next[f[i + 1]] = f[i] /\ f[i + 1] # k
      BY <3>1, <3>2, <1>1, <1>5 DEF Runs
    <3>4. f[i + 1] # p
      BY <3>1, <1>1, <1>2 DEF Runs
    <3> HIDE DEF g
    <3>. QED  BY <3>1, <3>3, <3>4
  <2>. QED  BY <1>4, <2>1, <2>2, <2>3
<1>9. ASSUME NEW i \in 0 .. (n - 1), NEW j \in 0 .. (n - 1), g[i] = g[j] PROVE i = j
  <2> DEFINE at(l) == IF l < m - 1 THEN l ELSE l + 1
  <2>1. \A l \in 0 .. (n - 1) : g[l] = f[at(l)] /\ at(l) \in 0 .. n
    BY <1>3, <1>4
  <2>2. at(i) = at(j)
    <3> HIDE DEF g, at
    <3>. QED  BY <1>1, <1>9, <2>1 DEF Runs
  <2>. QED  BY <1>3, <1>4, <2>2
<1>10. ASSUME NEW j \in T PROVE \E i \in 1 .. (n - 1) : g[i] = j
  <2>1. PICK i \in 1 .. n : f[i] = j
    BY <1>1 DEF Runs
  <2>2. i # m - 1
    BY <1>3, <2>1
  <2>3. CASE i < m - 1
    BY <2>1, <2>3, <1>3, <1>4
  <2>4. CASE i > m - 1
    <3>1. i - 1 \in 1 .. (n - 1) /\ g[i - 1] = f[i]
      BY <2>4, <1>3, <1>4
    <3>. QED  BY <2>1, <3>1
  <2>. QED  BY <1>4, <2>2, <2>3, <2>4
<1>11. Runs(other, head, T, n - 1, g)
  <2> HIDE DEF g, T
  <2>. QED  BY <1>6, <1>7, <1>8, <1>9, <1>10 DEF Runs
<1>. QED  BY <1>3, <1>11 DEF Chain

\* Chunk k comes in behind p.
LEMMA ChainAfter ==
    ASSUME NEW next, NEW head, NEW S, Chain(next, head, S),
           NEW p \in S, NEW k, k \notin S, k # 0,
           NEW other, other[p] = k, other[k] = next[p], \A j \in S \ {p} : other[j] = next[j]
    PROVE  Chain(other, head, S \cup {k})
<1>1. PICK n, f : Runs(next, head, S, n, f)
  BY DEF Chain
<1>2. PICK m \in 1 .. n : f[m] = p
  BY <1>1 DEF Runs
<1>3. 0 \notin S /\ n \in Nat /\ f[0] = 0 /\ f[n] = head /\ next[f[m]] = f[m - 1]
  BY <1>1, <1>2 DEF Chain, Runs
<1> DEFINE g == [i \in 0 .. (n + 1) |-> IF i < m THEN f[i] ELSE IF i = m THEN k ELSE f[i - 1]]
           T == S \cup {k}
<1>4. g \in [0 .. (n + 1) -> T \cup {0}]
  BY <1>1, <1>2, <1>3 DEF Runs
<1>5. g[0] = 0 /\ g[n + 1] = head /\ n + 1 \in Nat
  BY <1>1, <1>2, <1>3
<1>6. ASSUME NEW i \in 1 .. (n + 1) PROVE g[i] \in T /\ other[g[i]] = g[i - 1]
  <2>1. CASE i < m
    <3>1. g[i] = f[i] /\ g[i - 1] = f[i - 1] /\ i \in 1 .. n /\ i # m /\ i \in 0 .. n /\ m \in 0 .. n
      BY <2>1, <1>2, <1>3
    <3>2. f[i] \in S /\ next[f[i]] = f[i - 1] /\ f[i] # p
      BY <3>1, <1>1, <1>2 DEF Runs
    <3> HIDE DEF g
    <3>. QED  BY <3>1, <3>2
  <2>2. CASE i = m
    BY <2>2, <1>2, <1>3
  <2>3. CASE i = m + 1
    <3>1. g[i] = f[m] /\ g[i - 1] = k
      BY <2>3, <1>2, <1>3
    <3> HIDE DEF g
    <3>. QED  BY <3>1, <1>2
  <2>4. CASE i > m + 1
    <3>1. g[i] = f[i - 1] /\ g[i - 1] = f[i - 2] /\ i - 1 \in 1 .. n /\ i - 1 # m /\ i - 1 \in 0 .. n /\ m \in 0 .. n
      BY <2>4, <1>2, <1>3
    <3>2. (i - 1) - 1 = i - 2
      OBVIOUS
    <3>3. f[i - 1] \in S /\ next[f[i - 1]] = f[i - 2] /\ f[i - 1] # p
      BY <3>1, <3>2, <1>1, <1>2 DEF Runs
    <3> HIDE DEF g
    <3>. QED  BY <3>1, <3>3
  <2>. QED  BY <1>2, <2>1, <2>2, <2>3, <2>4
<1>7. ASSUME NEW i \in 0 .. (n + 1), NEW j \in 0 .. (n + 1), g[i] = g[j] PROVE i = j
  <2>1. \A l \in 0 .. n : f[l] # k
    BY <1>1 DEF Runs
  <2>. QED  BY <1>1, <1>2, <1>3, <1>7, <2>1 DEF Runs
<1>8. ASSUME NEW j \in T PROVE \E i \in 1 .. (n + 1) : g[i] = j
  <2>1. CASE j = k
    BY <2>1, <1>2, <1>3
  <2>2. CASE j \in S
    <3>1. PICK i \in 1 .. n : f[i] = j
      BY <2>2, <1>1 DEF Runs
    <3>2. CASE i < m
      BY <3>1, <3>2, <1>2, <1>3
    <3>3. CASE i >= m
      <4>1. i + 1 \in 1 .. (n + 1) /\ g[i + 1] = f[(i + 1) - 1] /\ (i + 1) - 1 = i
        BY <3>3, <1>2, <1>3
      <4>. QED  BY <3>1, <4>1
    <3>. QED  BY <1>2, <3>2, <3>3
  <2>. QED  BY <2>1, <2>2
<1>9. Runs(other, head, T, n + 1, g)
  <2> HIDE DEF g, T
  <2>. QED  BY <1>4, <1>5, <1>6, <1>7, <1>8 DEF Runs
<1>. QED  BY <1>3, <1>9 DEF Chain

-----------------------------------------------------------------------------
(* Walking along a list.                                                   *)

Ids(h) == 1 .. Len(h.chunks)
Links(h) == [k \in Ids(h) |-> h.chunks[k].next]

\* A list has no more chunks than there are.
LEMMA ChainShort ==
    ASSUME NEW N \in Nat, NEW next, NEW head, NEW S \in SUBSET (1 .. N), NEW n, NEW f,
           Runs(next, head, S, n, f)
    PROVE  n <= N
<1>1. n \in Nat
  BY DEF Runs
<1>2. IsFiniteSet(1 .. N) /\ Cardinality(1 .. N) = N /\ IsFiniteSet(1 .. n) /\ Cardinality(1 .. n) = n
  <2>1. 1 \in Int /\ N \in Int /\ n \in Int
    BY <1>1
  <2>. QED  BY <1>1, <2>1, FS_Interval
<1> DEFINE g == [i \in 1 .. n |-> f[i]]
<1>3. g \in [1 .. n -> 1 .. N]
  BY DEF Runs
<1>4. \A i, j \in 1 .. n : g[i] = g[j] => i = j
  BY DEF Runs
<1>5. ASSUME N < n PROVE FALSE
  <2>1. \E i, j \in 1 .. n : i # j /\ g[i] = g[j]
    <3> HIDE DEF g
    <3>. QED  BY <1>2, <1>3, <1>5, FS_PigeonHole
  <2>. QED  BY <1>4, <2>1
<1>. QED  BY <1>1, <1>5

\* The first m steps from head.
Steps(step, D, head, m, w) ==
    /\ w \in [0 .. m -> D] /\ w[0] = head
    /\ \A i \in 1 .. m : w[i] = step[w[i - 1]]

LEMMA StepsExist ==
    ASSUME NEW D, NEW step \in [D -> D], NEW head \in D
    PROVE  \A m \in Nat : \E w : Steps(step, D, head, m, w)
<1> DEFINE S == {m \in Nat : \E w : Steps(step, D, head, m, w)}
<1>1. 0 \in S
  <2>1. Steps(step, D, head, 0, [i \in 0 .. 0 |-> head])
    BY DEF Steps
  <2>. QED  BY <2>1
<1>2. ASSUME NEW m \in Nat, m \in S PROVE m + 1 \in S
  <2>1. PICK w : Steps(step, D, head, m, w)
    BY <1>2
  <2> DEFINE v == [i \in 0 .. (m + 1) |-> IF i <= m THEN w[i] ELSE step[w[m]]]
  <2>2. v \in [0 .. (m + 1) -> D] /\ v[0] = head
    BY <2>1 DEF Steps
  <2>3. ASSUME NEW i \in 1 .. (m + 1) PROVE v[i] = step[v[i - 1]]
    <3>1. CASE i <= m
      BY <3>1, <2>1 DEF Steps
    <3>2. CASE i = m + 1
      BY <3>2, <2>1 DEF Steps
    <3>. QED  BY <3>1, <3>2
  <2>4. Steps(step, D, head, m + 1, v)
    BY <2>2, <2>3 DEF Steps
  <2>. QED  BY <2>4
<1>3. \A m \in Nat : m \in S
  <2> HIDE DEF S
  <2>. QED  BY <1>1, <1>2, Induction
<1>. QED  BY <1>3

\* There are N chunks, and no successor is outside of them.
Nexts(h, N) == Len(h.chunks) = N /\ \A k \in 1 .. N : h.chunks[k].next \in 0 .. N

\* What the code follows from chunk x.
Follow(h, x) == IF x = 0 THEN 0 ELSE h.chunks[x].next

\* Walk is the function its definition describes.
Walks(h, N, head, w) ==
    /\ w \in [0 .. N -> 0 .. N] /\ w[0] = head
    /\ \A i \in 1 .. N : w[i] = Follow(h, w[i - 1])

LEMMA WalkIs ==
    ASSUME NEW h, NEW N \in Nat, Nexts(h, N), NEW head \in 0 .. N
    PROVE  Walks(h, N, head, Walk(h, head))
<1> DEFINE step == [x \in 0 .. N |-> Follow(h, x)]
<1>1. step \in [0 .. N -> 0 .. N]
  BY DEF Follow, Nexts
<1>2. PICK w : Steps(step, 0 .. N, head, N, w)
  <2> HIDE DEF step
  <2>. QED  BY <1>1, StepsExist
<1> DEFINE W(u) == u = [i \in 0 .. N |-> IF i = 0 THEN head ELSE Follow(h, u[i - 1])]
<1>3. w \in [0 .. N -> 0 .. N] /\ w[0] = head /\ \A i \in 1 .. N : w[i] = Follow(h, w[i - 1])
  <2>1. w \in [0 .. N -> 0 .. N] /\ w[0] = head /\ \A i \in 1 .. N : w[i] = step[w[i - 1]]
    <3> HIDE DEF step
    <3>. QED  BY <1>2 DEF Steps
  <2>2. \A i \in 1 .. N : w[i - 1] \in 0 .. N
    BY <2>1
  <2>. QED  BY <2>1, <2>2
<1>4. W(w)
  BY <1>3
<1>5. W(CHOOSE u : W(u))
  BY <1>4
<1> DEFINE u == CHOOSE v : W(v)
<1>6. Walk(h, head) = u
  BY DEF Walk, Follow, Nexts
<1>7. W(u)
  BY <1>5
<1> HIDE DEF u
<1>8. u[0] = head /\ \A i \in 1 .. N : u[i] = Follow(h, u[i - 1])
  BY <1>7
<1> DEFINE R == {i \in Nat : i <= N => u[i] = w[i]}
<1>9. 0 \in R
  BY <1>3, <1>8
<1>10. ASSUME NEW i \in Nat, i \in R PROVE i + 1 \in R
  <2> SUFFICES ASSUME i + 1 <= N PROVE u[i + 1] = w[i + 1]
    OBVIOUS
  <2>1. u[i] = w[i] /\ i + 1 \in 1 .. N /\ (i + 1) - 1 = i
    BY <1>10
  <2>. QED  BY <1>3, <1>8, <2>1
<1>11. \A i \in Nat : i \in R
  <2> HIDE DEF R
  <2>. QED  BY <1>9, <1>10, Induction
<1>12. \A i \in 0 .. N : u[i] = w[i]
  BY <1>11
<1>13. u \in [0 .. N -> 0 .. N]
  <2>1. u = [i \in 0 .. N |-> u[i]]
    BY <1>7
  <2>2. \A i \in 0 .. N : u[i] \in 0 .. N
    BY <1>3, <1>12
  <2>. QED  BY <2>1, <2>2
<1>. QED  BY <1>6, <1>8, <1>13 DEF Walks

\* The places of a list in the order Walk meets them.
Passes(w, N, n, f) == \A i \in 0 .. N : w[i] = IF i <= n THEN f[n - i] ELSE 0

\* On a list Walk goes from the head to the end and stays there.
LEMMA WalkRuns ==
    ASSUME NEW h, NEW N \in Nat, Nexts(h, N), NEW head \in 0 .. N,
           NEW S \in SUBSET (1 .. N), NEW n, NEW f, Runs(Links(h), head, S, n, f)
    PROVE  n \in 0 .. N /\ Passes(Walk(h, head), N, n, f)
<1>1. n \in 0 .. N
  <2>1. n <= N
    BY ChainShort
  <2>. QED  BY <2>1 DEF Runs
<1>2. PICK w : w = Walk(h, head)
  OBVIOUS
<1>3. w[0] = head /\ \A i \in 1 .. N : w[i] = Follow(h, w[i - 1])
  <2>1. Walks(h, N, head, w)
    BY <1>2, WalkIs
  <2>. QED  BY <2>1 DEF Walks
<1>4. f[0] = 0 /\ f[n] = head /\ \A i \in 1 .. n : f[i] \in S /\ Links(h)[f[i]] = f[i - 1]
  BY DEF Runs
<1>5. \A k \in S : k # 0 /\ Follow(h, k) = Links(h)[k]
  BY DEF Links, Ids, Follow, Nexts
<1> DEFINE R == {i \in Nat : i <= N => w[i] = IF i <= n THEN f[n - i] ELSE 0}
<1>6. 0 \in R
  BY <1>1, <1>3, <1>4
<1>7. ASSUME NEW i \in Nat, i \in R PROVE i + 1 \in R
  <2> SUFFICES ASSUME i + 1 <= N PROVE w[i + 1] = IF i + 1 <= n THEN f[n - (i + 1)] ELSE 0
    OBVIOUS
  <2>1. w[i + 1] = Follow(h, w[i])
    <3>1. i + 1 \in 1 .. N /\ (i + 1) - 1 = i
      OBVIOUS
    <3>. QED  BY <1>3, <3>1
  <2>2. w[i] = IF i <= n THEN f[n - i] ELSE 0
    BY <1>7
  <2>3. Follow(h, 0) = 0
    BY DEF Follow
  <2>4. CASE i < n
    <3>1. n - i \in 1 .. n /\ (n - i) - 1 = n - (i + 1) /\ i + 1 <= n /\ i <= n
      BY <2>4, <1>1
    <3>. QED  BY <3>1, <2>1, <2>2, <1>4, <1>5
  <2>5. CASE i = n
    <3>1. n - i = 0 /\ ~ (i + 1 <= n) /\ i <= n
      BY <2>5, <1>1
    <3>. QED  BY <3>1, <2>1, <2>2, <2>3, <1>4
  <2>6. CASE i > n
    <3>1. ~ (i <= n) /\ ~ (i + 1 <= n)
      BY <2>6, <1>1
    <3>. QED  BY <3>1, <2>1, <2>2, <2>3
  <2>. QED  BY <1>1, <2>4, <2>5, <2>6
<1>8. \A i \in Nat : i \in R
  <2> HIDE DEF R
  <2>. QED  BY <1>6, <1>7, Induction
<1>. QED  BY <1>1, <1>2, <1>8 DEF Passes

\* What Seek returns: the first chunk of the list in found, or the end.
LEMMA SeekIs ==
    ASSUME NEW h, NEW N \in Nat, Nexts(h, N), NEW head, NEW S \in SUBSET (1 .. N),
           Chain(Links(h), head, S), NEW found
    PROVE  LET s == Seek(h, head, found) IN
           /\ s.chunk \in (S \cap found) \cup {0} /\ (s.chunk = 0 => S \cap found = {})
           /\ s.prev \in (S \ found) \cup {0} /\ (s.prev = 0 <=> s.chunk = head)
           /\ s.prev # 0 => Links(h)[s.prev] = s.chunk
<1>1. PICK n, f : Runs(Links(h), head, S, n, f)
  BY DEF Chain
<1>2. 0 \notin S /\ head \in 0 .. N
  <2>1. head \in S \cup {0}
    BY ChainEnds
  <2>2. 0 \notin S
    BY DEF Chain
  <2>. QED  BY <2>1, <2>2
<1>3. PICK w : w = Walk(h, head)
  OBVIOUS
<1>4. n \in 0 .. N /\ \A i \in 0 .. N : w[i] = IF i <= n THEN f[n - i] ELSE 0
  <2>1. head \in 0 .. N
    BY <1>2
  <2>2. n \in 0 .. N /\ Passes(Walk(h, head), N, n, f)
    BY <1>1, <2>1, WalkRuns
  <2>. QED  BY <1>3, <2>2 DEF Passes
<1>5. /\ f[0] = 0 /\ f[n] = head /\ \A i \in 1 .. n : f[i] \in S /\ Links(h)[f[i]] = f[i - 1]
      /\ \A i, j \in 0 .. n : f[i] = f[j] => i = j
      /\ \A k \in S : \E i \in 1 .. n : f[i] = k
  BY <1>1 DEF Runs
<1> DEFINE ends == {i \in 0 .. N : w[i] \in found \cup {0}}
           m == CHOOSE i \in ends : \A j \in ends : i <= j
<1>6. n \in ends
  <2>1. n - n = 0 /\ n <= n /\ n \in 0 .. N
    BY <1>4
  <2>. QED  BY <2>1, <1>4, <1>5
<1>7. m \in ends /\ \A j \in ends : m <= j
  <2>1. \E i \in ends : \A j \in ends : i <= j
    <3>1. ends \in SUBSET Nat /\ ends # {}
      BY <1>6
    <3> HIDE DEF ends
    <3>. QED  BY <3>1, LeastNumber
  <2> HIDE DEF ends
  <2>. QED  BY <2>1
<1>8. Seek(h, head, found) = [chunk |-> w[m], prev |-> IF m = 0 THEN 0 ELSE w[m - 1]]
  BY <1>3 DEF Seek, Nexts
<1> HIDE DEF m
<1>9. m \in 0 .. n /\ w[m] = f[n - m] /\ w[m] \in found \cup {0}
      /\ \A j \in 0 .. (m - 1) : w[j] \notin found \cup {0} /\ w[j] = f[n - j]
  <2>1. m \in 0 .. N /\ m <= n /\ w[m] \in found \cup {0}
    BY <1>6, <1>7
  <2>2. \A j \in 0 .. (m - 1) : j \in 0 .. N /\ ~ (m <= j) /\ j <= n
    BY <1>4, <2>1
  <2>3. \A j \in 0 .. (m - 1) : j \notin ends
    <3> HIDE DEF ends
    <3>. QED  BY <1>7, <2>2
  <2>. QED  BY <1>4, <2>1, <2>2, <2>3
<1>10. w[m] \in S \cup {0} /\ (w[m] = 0 => m = n)
  <2>1. CASE m = n
    BY <2>1, <1>4, <1>5, <1>9
  <2>2. CASE m < n
    <3>1. n - m \in 1 .. n
      BY <2>2, <1>4, <1>9
    <3>. QED  BY <3>1, <1>2, <1>5, <1>9
  <2>. QED  BY <1>4, <1>9, <2>1, <2>2
<1>11. ASSUME w[m] = 0 PROVE S \cap found = {}
  <2> SUFFICES ASSUME NEW k \in S, k \in found PROVE FALSE
    OBVIOUS
  <2>1. PICK i \in 1 .. n : f[i] = k
    BY <1>5
  <2>2. n - i \in 0 .. (m - 1) /\ n - (n - i) = i
    BY <1>4, <1>10, <1>11
  <2>. QED  BY <1>9, <2>1, <2>2
<1>12. CASE m = 0
  <2>1. w[m] = head
    <3>1. n - m = n
      BY <1>4, <1>12
    <3>. QED  BY <3>1, <1>5, <1>9
  <2>. QED  BY <1>8, <1>9, <1>10, <1>11, <1>12, <2>1
<1>13. CASE m # 0
  <2>1. m - 1 \in 0 .. (m - 1) /\ n - (m - 1) \in 1 .. n /\ (n - (m - 1)) - 1 = n - m
        /\ n - m \in 0 .. n /\ n - m # n /\ n \in 0 .. n
    BY <1>4, <1>9, <1>13
  <2>2. w[m - 1] = f[n - (m - 1)] /\ w[m - 1] \notin found \cup {0} /\ w[m - 1] \in S
    BY <2>1, <1>5, <1>9
  <2>3. Links(h)[w[m - 1]] = w[m]
    BY <2>1, <2>2, <1>5, <1>9
  <2>4. w[m] # head
    BY <2>1, <1>5, <1>9
  <2>. QED  BY <1>8, <1>9, <1>10, <1>11, <1>13, <2>2, <2>3, <2>4
<1>. QED  BY <1>12, <1>13

\* A chunk of a list is reached once, another one never.
LEMMA ReachesOnce ==
    ASSUME NEW h, NEW N \in Nat, Nexts(h, N), NEW head, NEW S \in SUBSET (1 .. N),
           Chain(Links(h), head, S), NEW k \in 1 .. N
    PROVE  Cardinality({i \in 0 .. Len(h.chunks) : Walk(h, head)[i] = k}) = IF k \in S THEN 1 ELSE 0
<1>1. PICK n, f : Runs(Links(h), head, S, n, f)
  BY DEF Chain
<1>2. 0 \notin S /\ head \in 0 .. N /\ Len(h.chunks) = N
  <2>1. head \in S \cup {0}
    BY ChainEnds
  <2>2. 0 \notin S
    BY DEF Chain
  <2>. QED  BY <2>1, <2>2 DEF Nexts
<1>3. PICK w : w = Walk(h, head)
  OBVIOUS
<1>4. n \in 0 .. N /\ \A i \in 0 .. N : w[i] = IF i <= n THEN f[n - i] ELSE 0
  <2>1. head \in 0 .. N
    BY <1>2
  <2>2. n \in 0 .. N /\ Passes(Walk(h, head), N, n, f)
    BY <1>1, <2>1, WalkRuns
  <2>. QED  BY <1>3, <2>2 DEF Passes
<1>5. /\ f[0] = 0 /\ \A i \in 1 .. n : f[i] \in S
      /\ \A i, j \in 0 .. n : f[i] = f[j] => i = j
      /\ \A j \in S : \E i \in 1 .. n : f[i] = j
  BY <1>1 DEF Runs
<1> DEFINE at == {i \in 0 .. N : w[i] = k}
<1>6. CASE k \in S
  <2>1. PICK j \in 1 .. n : f[j] = k
    BY <1>5, <1>6
  <2>2. n - j \in 0 .. N /\ n - j <= n /\ n - (n - j) = j
    BY <1>4
  <2>3. n - j \in at
    BY <1>4, <2>1, <2>2
  <2>4. ASSUME NEW i \in at PROVE i = n - j
    <3>1. i \in 0 .. N /\ i <= n /\ f[n - i] = k
      BY <1>4
    <3>2. n - i \in 0 .. n /\ j \in 0 .. n
      BY <1>4, <3>1
    <3>3. n - i = j
      BY <1>5, <2>1, <3>1, <3>2
    <3>. QED  BY <1>4, <3>1, <3>3
  <2>5. at = {n - j}
    <3> HIDE DEF at
    <3>. QED  BY <2>3, <2>4
  <2>6. Cardinality({n - j}) = 1
    BY FS_Singleton
  <2>. QED  BY <1>2, <1>3, <1>6, <2>5, <2>6
<1>7. CASE k \notin S
  <2>1. ASSUME NEW i \in at PROVE FALSE
    <3>1. i \in 0 .. N /\ w[i] = k /\ k # 0
      OBVIOUS
    <3>2. i <= n /\ f[n - i] = k
      BY <1>4, <3>1
    <3>3. n - i \in 1 .. n
      BY <1>4, <1>5, <3>1, <3>2
    <3>. QED  BY <1>5, <1>7, <3>2, <3>3
  <2>2. at = {}
    <3> HIDE DEF at
    <3>. QED  BY <2>1
  <2>. QED  BY <1>2, <1>3, <1>7, <2>2, FS_EmptySet
<1>. QED  BY <1>6, <1>7

-----------------------------------------------------------------------------
(* Sizes and classes.                                                      *)

LEMMA PowersOfTwo ==
    /\ Pow2 \in [0 .. UpperPow -> Nat \ {0}]
    /\ Pow2[0] = 1 /\ \A n \in 1 .. UpperPow : Pow2[n] = 2 * Pow2[n - 1]
<1> DEFINE D == Nat \ {0}
           step == [x \in D |-> 2 * x]
           W(u) == u = [n \in 0 .. UpperPow |-> IF n = 0 THEN 1 ELSE 2 * u[n - 1]]
<1>1. UpperPow \in Nat
  BY MallocAssumption
<1>2. step \in [D -> D] /\ 1 \in D
  OBVIOUS
<1>3. PICK w : Steps(step, D, 1, UpperPow, w)
  <2> HIDE DEF step, D
  <2>. QED  BY <1>1, <1>2, StepsExist
<1>4. w \in [0 .. UpperPow -> D] /\ w[0] = 1 /\ \A n \in 1 .. UpperPow : w[n] = 2 * w[n - 1]
  <2>1. w \in [0 .. UpperPow -> D] /\ w[0] = 1 /\ \A n \in 1 .. UpperPow : w[n] = step[w[n - 1]]
    <3> HIDE DEF step, D
    <3>. QED  BY <1>3 DEF Steps
  <2>2. \A n \in 1 .. UpperPow : w[n - 1] \in D
    BY <1>1, <2>1
  <2>. QED  BY <2>1, <2>2
<1>5. W(w)
  BY <1>1, <1>4
<1>6. W(CHOOSE u : W(u))
  BY <1>5
<1>7. W(Pow2)
  BY <1>6 DEF Pow2
<1>8. Pow2[0] = 1 /\ \A n \in 1 .. UpperPow : Pow2[n] = 2 * Pow2[n - 1]
  BY <1>1, <1>7
<1> DEFINE R == {i \in Nat : i <= UpperPow => Pow2[i] = w[i]}
<1>9. 0 \in R
  BY <1>4, <1>8
<1>10. ASSUME NEW i \in Nat, i \in R PROVE i + 1 \in R
  <2> SUFFICES ASSUME i + 1 <= UpperPow PROVE Pow2[i + 1] = w[i + 1]
    OBVIOUS
  <2>1. Pow2[i] = w[i] /\ i + 1 \in 1 .. UpperPow /\ (i + 1) - 1 = i
    BY <1>1, <1>10
  <2>. QED  BY <1>4, <1>8, <2>1
<1>11. \A i \in Nat : i \in R
  <2> HIDE DEF R
  <2>. QED  BY <1>9, <1>10, Induction
<1>12. Pow2 \in [0 .. UpperPow -> D]
  <2>1. Pow2 = [i \in 0 .. UpperPow |-> Pow2[i]]
    BY <1>7
  <2>2. \A i \in 0 .. UpperPow : Pow2[i] \in D
    BY <1>4, <1>11
  <2>. QED  BY <2>1, <2>2
<1>. QED  BY <1>8, <1>12

LEMMA PowersGrow ==
    ASSUME NEW i \in 0 .. UpperPow, NEW j \in 0 .. UpperPow, i < j
    PROVE  Pow2[i] < Pow2[j]
<1> DEFINE S == {n \in Nat : i + n + 1 <= UpperPow => Pow2[i] < Pow2[i + n + 1]}
<1>0. UpperPow \in Nat
  BY MallocAssumption
<1>1. 0 \in S
  <2>1. i + 1 <= UpperPow => i + 1 \in 1 .. UpperPow /\ (i + 1) - 1 = i
    BY <1>0
  <2>2. Pow2[i] \in Nat \ {0}
    BY PowersOfTwo
  <2>3. i + 1 <= UpperPow => Pow2[i + 1] = 2 * Pow2[i]
    BY <2>1, PowersOfTwo
  <2>4. i + 0 + 1 = i + 1
    BY <1>0
  <2>. QED  BY <2>2, <2>3, <2>4
<1>2. ASSUME NEW n \in Nat, n \in S PROVE n + 1 \in S
  <2> SUFFICES ASSUME i + (n + 1) + 1 <= UpperPow PROVE Pow2[i] < Pow2[i + (n + 1) + 1]
    OBVIOUS
  <2> DEFINE m == i + n + 1
  <2>1. m + 1 = i + (n + 1) + 1 /\ m \in 0 .. UpperPow /\ m + 1 \in 1 .. UpperPow /\ (m + 1) - 1 = m
    BY <1>0
  <2>2. Pow2[i] < Pow2[m]
    BY <1>0, <1>2, <2>1
  <2>3. Pow2[m] \in Nat \ {0} /\ Pow2[i] \in Nat /\ Pow2[m + 1] = 2 * Pow2[m]
    <3> HIDE DEF m
    <3>. QED  BY <2>1, PowersOfTwo
  <2>4. Pow2[i] < Pow2[m + 1]
    BY <2>2, <2>3
  <2>. QED  BY <2>1, <2>4
<1>3. \A n \in Nat : n \in S
  <2> HIDE DEF S
  <2>. QED  BY <1>1, <1>2, Induction
<1>4. j - i - 1 \in Nat /\ i + (j - i - 1) + 1 = j /\ j <= UpperPow
  BY <1>0
<1>. QED  BY <1>3, <1>4

\* A class that get_type yields for its own size.
Proper(t) == t \in Types /\ get_type(get_size(t)) = t

LEMMA ClassOfPower ==
    ASSUME NEW i \in (LowerPow + 1) .. UpperPow, NEW size \in Nat,
           size <= Pow2[i], size > Pow2[i - 1]
    PROVE  get_type(size) = i - LowerPow
<1>1. LowerPow \in Nat /\ UpperPow \in Nat /\ LowerPow < UpperPow
  BY MallocAssumption
<1>2. i - 1 \in 0 .. UpperPow /\ i \in 0 .. UpperPow /\ LowerPow \in 0 .. UpperPow
  BY <1>1
<1>3. \A n \in 0 .. UpperPow : Pow2[n] \in Nat
  BY PowersOfTwo
<1>4. ~ (size <= Pow2[LowerPow])
  <2>1. CASE LowerPow = i - 1
    BY <2>1, <1>2, <1>3
  <2>2. CASE LowerPow < i - 1
    BY <2>2, <1>2, <1>3, PowersGrow
  <2>. QED  BY <1>1, <2>1, <2>2
<1>5. size <= Pow2[UpperPow]
  <2>1. CASE i = UpperPow
    BY <2>1
  <2>2. CASE i < UpperPow
    <3>1. Pow2[i] < Pow2[UpperPow] /\ UpperPow \in 0 .. UpperPow
      BY <2>2, <1>1, <1>2, PowersGrow
    <3>. QED  BY <3>1, <1>2, <1>3
  <2>. QED  BY <1>1, <2>1, <2>2
<1>6. ASSUME NEW j \in (LowerPow + 1) .. UpperPow, size <= Pow2[j], size > Pow2[j - 1]
      PROVE  j = i
  <2>1. j \in 0 .. UpperPow /\ j - 1 \in 0 .. UpperPow
    BY <1>1
  <2>2. ASSUME j < i PROVE FALSE
    <3>1. CASE j = i - 1
      BY <3>1, <1>2, <1>3, <1>6, <2>1
    <3>2. CASE j < i - 1
      <4>1. Pow2[j] < Pow2[i - 1]
        BY <3>2, <1>2, <2>1, PowersGrow
      <4>. QED  BY <4>1, <1>2, <1>3, <1>6, <2>1
    <3>. QED  BY <1>1, <2>2, <3>1, <3>2
  <2>3. ASSUME i < j PROVE FALSE
    <3>1. CASE i = j - 1
      BY <3>1, <1>2, <1>3, <1>6, <2>1
    <3>2. CASE i < j - 1
      <4>1. Pow2[i] < Pow2[j - 1]
        BY <3>2, <1>2, <2>1, PowersGrow
      <4>. QED  BY <4>1, <1>2, <1>3, <1>6, <2>1
    <3>. QED  BY <1>1, <2>3, <3>1, <3>2
  <2>. QED  BY <1>1, <2>2, <2>3
<1>7. i = CHOOSE j \in (LowerPow + 1) .. UpperPow : size <= Pow2[j] /\ size > Pow2[j - 1]
  BY <1>6
<1>. QED  BY <1>4, <1>5, <1>7 DEF get_type

LEMMA ClassTypes ==
    /\ LARGE_CHUNK \notin Types /\ Types \subseteq Nat
    /\ \A t \in Types : get_size(t) \in Nat \ {0}
    /\ Pow2[UpperPow] >= 8
<1>1. LowerPow \in Nat /\ UpperPow \in Nat /\ LowerPow < UpperPow /\ 3 <= UpperPow /\ UpperPow - LowerPow < 255
  BY MallocAssumption
<1>2. LARGE_CHUNK \notin Types /\ Types \subseteq Nat
  BY <1>1 DEF LARGE_CHUNK, Types
<1>3. \A t \in Types : t + LowerPow \in 0 .. UpperPow
  BY <1>1 DEF Types
<1>4. \A t \in Types : get_size(t) \in Nat \ {0}
  BY <1>3, PowersOfTwo DEF get_size
<1>5. Pow2[3] = 8
  <2>1. 0 \in 0 .. UpperPow /\ 1 \in 1 .. UpperPow /\ 2 \in 1 .. UpperPow /\ 3 \in 1 .. UpperPow
        /\ 1 - 1 = 0 /\ 2 - 1 = 1 /\ 3 - 1 = 2
    BY <1>1
  <2>. QED  BY <2>1, PowersOfTwo
<1>6. Pow2[UpperPow] >= Pow2[3]
  <2>1. 3 \in 0 .. UpperPow /\ UpperPow \in 0 .. UpperPow
    BY <1>1
  <2>2. CASE UpperPow = 3
    BY <2>2, <1>5
  <2>3. CASE 3 < UpperPow
    <3>1. Pow2[3] < Pow2[UpperPow]
      BY <2>1, <2>3, PowersGrow
    <3>2. Pow2[3] \in Nat /\ Pow2[UpperPow] \in Nat
      BY <2>1, PowersOfTwo
    <3>. QED  BY <3>1, <3>2
  <2>. QED  BY <1>1, <2>2, <2>3
<1>. QED  BY <1>2, <1>4, <1>5, <1>6

\* get_type yields a class whose elements are long enough, or LARGE_CHUNK for
\* what is longer than the largest class.
LEMMA ClassOf ==
    ASSUME NEW size \in Nat \ {0}
    PROVE  /\ get_type(size) = LARGE_CHUNK <=> size > Pow2[UpperPow]
           /\ get_type(size) # LARGE_CHUNK => Proper(get_type(size)) /\ size <= get_size(get_type(size))
<1>1. LowerPow \in Nat /\ UpperPow \in Nat /\ LowerPow < UpperPow /\ 2 * LowerPow <= UpperPow
  BY MallocAssumption
<1>2. \A n \in 0 .. UpperPow : Pow2[n] \in Nat \ {0}
  BY PowersOfTwo
<1>3. LowerPow \in 0 .. UpperPow /\ UpperPow \in 0 .. UpperPow /\ 2 * LowerPow \in 0 .. UpperPow
  BY <1>1
<1>4. Pow2[LowerPow] < Pow2[UpperPow]
  BY <1>1, <1>3, PowersGrow
<1>5. ASSUME NEW i \in (LowerPow + 1) .. UpperPow
      PROVE  get_type(Pow2[i]) = i - LowerPow /\ get_size(i - LowerPow) = Pow2[i] /\ i - LowerPow \in Types
  <2>1. i \in 0 .. UpperPow /\ i - 1 \in 0 .. UpperPow /\ i - 1 < i /\ (i - LowerPow) + LowerPow = i
    BY <1>1
  <2>2. Pow2[i - 1] < Pow2[i]
    BY <2>1, PowersGrow
  <2>3. Pow2[i] \in Nat /\ Pow2[i - 1] \in Nat
    BY <1>2, <2>1
  <2>4. get_type(Pow2[i]) = i - LowerPow
    BY <2>2, <2>3, ClassOfPower
  <2>5. i - LowerPow \in Types
    BY <1>1 DEF Types
  <2>. QED  BY <2>1, <2>4, <2>5 DEF get_size
<1>6. CASE size <= Pow2[LowerPow]
  <2>1. get_type(size) = LowerPow /\ LowerPow \in Types /\ get_size(LowerPow) = Pow2[2 * LowerPow]
    <3>1. LowerPow + LowerPow = 2 * LowerPow /\ LowerPow \in Types
      BY <1>1 DEF Types
    <3>. QED  BY <3>1, <1>6 DEF get_type, get_size
  <2>2. get_type(Pow2[2 * LowerPow]) = LowerPow /\ Pow2[LowerPow] <= Pow2[2 * LowerPow]
    <3>1. CASE LowerPow = 0
      <4>1. 2 * LowerPow = LowerPow
        BY <3>1
      <4>. QED  BY <4>1, <1>2, <1>3 DEF get_type
    <3>2. CASE LowerPow # 0
      <4>1. 2 * LowerPow \in (LowerPow + 1) .. UpperPow /\ 2 * LowerPow - LowerPow = LowerPow /\ LowerPow < 2 * LowerPow
        BY <3>2, <1>1
      <4>2. Pow2[LowerPow] < Pow2[2 * LowerPow]
        BY <4>1, <1>3, PowersGrow
      <4>3. get_type(Pow2[2 * LowerPow]) = 2 * LowerPow - LowerPow
        BY <4>1, <1>5
      <4>. QED  BY <4>1, <4>2, <4>3, <1>2, <1>3
    <3>. QED  BY <3>1, <3>2
  <2>3. ~ (size > Pow2[UpperPow]) /\ size <= Pow2[2 * LowerPow]
    BY <1>2, <1>3, <1>4, <1>6, <2>2
  <2>4. LowerPow # LARGE_CHUNK
    BY <2>1, ClassTypes
  <2>. QED  BY <2>1, <2>2, <2>3, <2>4 DEF Proper
<1>7. CASE size > Pow2[LowerPow] /\ size <= Pow2[UpperPow]
  <2> DEFINE S == {n \in 0 .. UpperPow : size <= Pow2[n]}
  <2>1. S \in SUBSET Nat /\ UpperPow \in S
    BY <1>1, <1>3, <1>7
  <2>2. PICK i \in S : \A k \in S : i <= k
    <3> HIDE DEF S
    <3>. QED  BY <2>1, LeastNumber
  <2>3. i \in 0 .. UpperPow /\ size <= Pow2[i] /\ \A k \in 0 .. UpperPow : k < i => ~ (size <= Pow2[k])
    BY <1>1, <2>2
  <2>4. i > LowerPow
    <3>1. ASSUME i < LowerPow PROVE FALSE
      <4>1. Pow2[i] < Pow2[LowerPow]
        BY <3>1, <1>3, <2>3, PowersGrow
      <4>. QED  BY <4>1, <1>2, <1>3, <1>7, <2>3
    <3>2. ASSUME i = LowerPow PROVE FALSE
      BY <3>2, <1>2, <1>3, <1>7, <2>3
    <3>. QED  BY <1>1, <2>3, <3>1, <3>2
  <2>5. i \in (LowerPow + 1) .. UpperPow /\ i - 1 \in 0 .. UpperPow /\ i - 1 < i
    BY <1>1, <2>3, <2>4
  <2>6. size > Pow2[i - 1]
    <3>1. ~ (size <= Pow2[i - 1]) /\ Pow2[i - 1] \in Nat
      BY <1>2, <2>3, <2>5
    <3>. QED  BY <3>1
  <2>7. get_type(size) = i - LowerPow
    BY <2>3, <2>5, <2>6, ClassOfPower
  <2>8. ~ (size > Pow2[UpperPow])
    BY <1>2, <1>3, <1>7
  <2>9. i - LowerPow # LARGE_CHUNK
    BY <1>5, <2>5, ClassTypes
  <2>10. get_type(Pow2[i]) = i - LowerPow /\ get_size(i - LowerPow) = Pow2[i] /\ i - LowerPow \in Types
    BY <1>5, <2>5
  <2>. QED  BY <2>3, <2>7, <2>8, <2>9, <2>10 DEF Proper
<1>8. CASE size > Pow2[UpperPow]
  <2>1. ~ (size <= Pow2[LowerPow]) /\ ~ (size <= Pow2[UpperPow])
    BY <1>2, <1>3, <1>4, <1>8
  <2>. QED  BY <1>8, <2>1 DEF get_type
<1>. QED  BY <1>2, <1>3, <1>6, <1>7, <1>8

\* The map of used bits and the elements lie behind each other in a chunk.
LEMMA ElementsFit ==
    ASSUME NEW c, c.bytes \in Nat, c.elm_size \in Nat \ {0}
    PROVE  /\ first_element(c) \in Nat /\ max_elements(c) \in Int
           /\ c.elm_size <= c.bytes => first_element(c) >= 8
           /\ \A e \in 0 .. (max_elements(c) - 1) : first_element(c) + e * c.elm_size + c.elm_size <= c.bytes
<1> DEFINE q == c.bytes \div c.elm_size
           r == (q + 7) \div 8
<1>1. q \in Nat /\ (c.elm_size <= c.bytes => q >= 1)
  <2>1. PICK b \in Nat, d \in Nat \ {0} : b = c.bytes /\ d = c.elm_size
    OBVIOUS
  <2>2. b \div d \in Nat /\ b < (b \div d) * d + d
    OBVIOUS
  <2>3. ASSUME d <= b PROVE b \div d # 0
    BY <2>2, <2>3
  <2>. QED  BY <2>1, <2>2, <2>3
<1> HIDE DEF q
<1>2. r \in Nat /\ (q >= 1 => r >= 1)
  BY <1>1
<1> HIDE DEF r
<1>3. first_element(c) = ((r + 8 - 1) \div 8) * 8
  BY DEF first_element, RoundUp, q, r
<1>4. first_element(c) \in Nat /\ (r >= 1 => first_element(c) >= 8)
  BY <1>2, <1>3
<1>5. PICK f \in Nat : f = first_element(c)
  BY <1>4
<1>6. PICK b \in Nat, d \in Nat \ {0} : b = c.bytes /\ d = c.elm_size
  OBVIOUS
<1>7. PICK m \in Int : m = (b - f) \div d /\ m * d <= b - f
  <2>1. PICK n \in Int : n = b - f
    OBVIOUS
  <2>2. n \div d \in Int /\ (n \div d) * d <= n
    BY <2>1
  <2>. QED  BY <2>1, <2>2
<1>8. max_elements(c) = m
  BY <1>5, <1>6, <1>7 DEF max_elements
<1>9. ASSUME NEW e \in 0 .. (m - 1) PROVE f + e * d + d <= b
  <2>1. e \in Nat /\ e + 1 <= m
    OBVIOUS
  <2>2. (e + 1) * d <= m * d
    BY <1>6, <2>1
  <2>3. (e + 1) * d = e * d + d
    BY <1>6, <2>1
  <2>. QED  BY <1>7, <2>2, <2>3
<1>. QED  BY <1>1, <1>2, <1>4, <1>5, <1>6, <1>8, <1>9

\* A chunk holds elements, or is one.
LEMMA LargeHoldsNone ==
    ASSUME NEW c, c.bytes \in Nat, c.bytes >= 8, c.elm_size = c.bytes
    PROVE  max_elements(c) = 0
<1>1. PICK b \in Nat \ {0} : b = c.bytes /\ b >= 8
  OBVIOUS
<1>2. b \div b = 1
  BY <1>1
<1>3. first_element(c) = 8
  BY <1>1, <1>2 DEF first_element, RoundUp
<1>4. (b - 8) \div b = 0
  BY <1>1
<1>. QED  BY <1>1, <1>3, <1>4 DEF max_elements

LEMMA SmallIsNotLarge ==
    ASSUME NEW c, c.bytes \in Nat, c.elm_size \in Nat \ {0}, max_elements(c) >= 1
    PROVE  c.elm_size # c.bytes /\ first_element(c) + c.elm_size <= c.bytes /\ first_element(c) >= 8
<1>1. max_elements(c) \in Int /\ first_element(c) \in Nat
  BY ElementsFit
<1>2. 0 \in 0 .. (max_elements(c) - 1)
  BY <1>1
<1>3. first_element(c) + 0 * c.elm_size + c.elm_size <= c.bytes
  BY <1>2, ElementsFit
<1>4. first_element(c) + c.elm_size <= c.bytes /\ c.elm_size <= c.bytes
  BY <1>1, <1>3
<1>5. first_element(c) >= 8
  BY <1>4, ElementsFit
<1>. QED  BY <1>1, <1>4, <1>5

LEMMA SameElements ==
    ASSUME NEW c, NEW d, d.bytes = c.bytes, d.elm_size = c.elm_size
    PROVE  first_element(d) = first_element(c) /\ max_elements(d) = max_elements(c)
BY DEF first_element, max_elements

\* Where an element lies.
LEMMA ElementIn ==
    ASSUME NEW c, c.bytes \in Nat, c.elm_size \in Nat \ {0}, c.begin \in Nat,
           NEW e \in 0 .. (max_elements(c) - 1)
    PROVE  /\ e \in Nat /\ element(c, e) \in Nat
           /\ c.begin + first_element(c) <= element(c, e) /\ element(c, e) + c.elm_size <= c.begin + c.bytes
           /\ (element(c, e) - c.begin - first_element(c)) \div c.elm_size = e
<1>1. first_element(c) \in Nat /\ max_elements(c) \in Int /\ e \in Nat
  BY ElementsFit
<1>2. first_element(c) + e * c.elm_size + c.elm_size <= c.bytes
  BY ElementsFit
<1>3. PICK f \in Nat, d \in Nat \ {0}, g \in Nat : f = first_element(c) /\ d = c.elm_size /\ g = c.begin
  BY <1>1
<1>4. PICK p \in Nat : p = e * d
  BY <1>1, <1>3
<1>5. p \div d = e
  BY <1>1, <1>3, <1>4
<1>6. element(c, e) = g + f + p
  BY <1>3, <1>4 DEF element
<1>7. g + f + p - g - f = p
  BY <1>3, <1>4
<1>. QED  BY <1>1, <1>2, <1>3, <1>4, <1>5, <1>6, <1>7

LEMMA ElementsApart ==
    ASSUME NEW c, c.bytes \in Nat, c.elm_size \in Nat \ {0}, c.begin \in Nat,
           NEW d \in 0 .. (max_elements(c) - 1), NEW e \in 0 .. (max_elements(c) - 1), d < e
    PROVE  element(c, d) + c.elm_size <= element(c, e)
<1>1. first_element(c) \in Nat /\ d \in Nat /\ e \in Nat
  BY ElementsFit
<1>2. PICK s \in Nat \ {0} : s = c.elm_size
  OBVIOUS
<1>3. d * s + s <= e * s
  BY <1>1
<1>. QED  BY <1>1, <1>2, <1>3 DEF element

\* The class of a chunkinfo_t.
LEMMA InfoClass == Proper(InfoType) /\ InfoSize <= get_size(InfoType) /\ InfoType \in Types /\ InfoType # LARGE_CHUNK
<1>1. InfoSize \in Nat \ {0} /\ InfoSize <= Pow2[UpperPow]
  BY MallocAssumption, SizesAssumption
<1>2. Pow2[UpperPow] \in Nat
  BY MallocAssumption, PowersOfTwo
<1>3. get_type(InfoSize) # LARGE_CHUNK
  BY <1>1, <1>2, ClassOf
<1>. QED  BY <1>1, <1>3, ClassOf DEF Proper, InfoType

-----------------------------------------------------------------------------
(* What holds of a heap between two calls.                                 *)

ChunkT == [elm_size : Nat \ {0}, begin : Nat, bytes : Nat, at : Nat, next : Nat,
           used : SUBSET Nat, nfree : Nat]
HeapT == [chunks : Seq(ChunkT), buckets : [Types -> Nat], nfrees : [Types -> Nat],
          large : Nat, large_free : Nat, next_free : Nat]

Class(h, t) == {k \in Ids(h) : ~ IsLarge(h.chunks[k]) /\ get_type(h.chunks[k].elm_size) = t}
LargeIds(h) == {k \in Ids(h) : IsLarge(h.chunks[k])}

\* A chunk counts its free elements; a small one has the size of its class.
ChunkOK(c) ==
    /\ c.used \subseteq 0 .. (max_elements(c) - 1)
    /\ c.nfree = max_elements(c) - Cardinality(c.used)
    /\ IF IsLarge(c) THEN c.bytes >= 8
       ELSE /\ max_elements(c) >= 1 /\ Proper(get_type(c.elm_size))
            /\ c.elm_size = get_size(get_type(c.elm_size))
Shaped(h) == h \in HeapT /\ \A k \in Ids(h) : ChunkOK(h.chunks[k])

\* Chunks lie behind each other in the order of their numbers.
Laid(h) ==
    /\ \A j, k \in Ids(h) : j < k => h.chunks[j].begin + h.chunks[j].bytes <= h.chunks[k].begin
    /\ \A k \in Ids(h) : h.chunks[k].begin + h.chunks[k].bytes <= h.next_free

\* nfrees is the sum over the class.
Frees(h, t) == [k \in Ids(h) |-> IF k \in Class(h, t) THEN h.chunks[k].nfree ELSE 0]
Counted(h) == \A t \in Types : h.nfrees[t] = SumTo(Frees(h, t), Len(h.chunks))

\* Address a is an element in use of a chunk of class t.
Holds(h, a, t) == \E k \in Class(h, t) : \E e \in h.chunks[k].used : a = element(h.chunks[k], e)

\* Every chunk has a chunkinfo_t of its own.
Informed(h) ==
    /\ \A k \in Ids(h) : Holds(h, h.chunks[k].at, InfoType)
    /\ \A j, k \in Ids(h) : h.chunks[j].at = h.chunks[k].at => j = k

\* Every small chunk is in the list of its class.
Listed(h) ==
    /\ Nexts(h, Len(h.chunks)) /\ h.large \in Ids(h) \cup {0} /\ h.large_free \in Ids(h) \cup {0}
    /\ \A t \in Types : Chain(Links(h), h.buckets[t], Class(h, t))

Sound(h) == Shaped(h) /\ Laid(h) /\ Counted(h) /\ Informed(h)
Good(h) == Sound(h) /\ Listed(h)

\* The large chunks of U are in `large', the others in `large_free'.
Larges(h, U) ==
    /\ U \subseteq LargeIds(h)
    /\ Chain(Links(h), h.large, U) /\ Chain(Links(h), h.large_free, LargeIds(h) \ U)

\* A block in use has the element, or the large chunk, to itself.
Placed(h, b) ==
    IF get_type(b.size) = LARGE_CHUNK
    THEN \E k \in LargeIds(h) : b.ptr = h.chunks[k].begin /\ b.size <= h.chunks[k].bytes
    ELSE Holds(h, b.ptr, get_type(b.size)) /\ \A k \in Ids(h) : b.ptr # h.chunks[k].at
Owned(h, L) ==
    /\ L \in [DOMAIN L -> {1}] /\ DOMAIN L \subseteq [ptr : Nat, size : Requests]
    /\ \A b \in DOMAIN L : Placed(h, b)
    /\ \A b, d \in DOMAIN L : b.ptr = d.ptr => b = d
InUse(h, L) == {k \in LargeIds(h) : \E b \in DOMAIN L : b.ptr = h.chunks[k].begin}

\* The inductive invariant.
Whole(h, L, tng) ==
    /\ Good(h) /\ h.nfrees[InfoType] >= 1 /\ Owned(h, L)
    /\ ~ tng => Larges(h, InUse(h, L))
MallocInv == Whole(heap, live, tangled) /\ halted \in {"no", "chunk"} /\ tangled \in BOOLEAN

-----------------------------------------------------------------------------
(* Changes of a heap.                                                      *)

LEMMA HeapParts ==
    ASSUME NEW h \in HeapT
    PROVE  /\ h.chunks \in Seq(ChunkT) /\ Len(h.chunks) \in Nat /\ DOMAIN h.chunks = Ids(h)
           /\ h.buckets \in [Types -> Nat] /\ h.nfrees \in [Types -> Nat]
           /\ h.large \in Nat /\ h.large_free \in Nat /\ h.next_free \in Nat
           /\ Ids(h) \subseteq Nat \ {0}
<1>1. h.chunks \in Seq(ChunkT) /\ h.buckets \in [Types -> Nat] /\ h.nfrees \in [Types -> Nat]
      /\ h.large \in Nat /\ h.large_free \in Nat /\ h.next_free \in Nat
  BY DEF HeapT
<1>2. Len(h.chunks) \in Nat /\ DOMAIN h.chunks = 1 .. Len(h.chunks)
  BY <1>1
<1>. QED  BY <1>1, <1>2 DEF Ids

LEMMA ChunkIn ==
    ASSUME NEW h \in HeapT, NEW k \in Ids(h)
    PROVE  h.chunks[k] \in ChunkT
BY HeapParts DEF Ids

LEMMA ChunkFields ==
    ASSUME NEW c \in ChunkT
    PROVE  /\ c.elm_size \in Nat \ {0} /\ c.begin \in Nat /\ c.bytes \in Nat /\ c.at \in Nat
           /\ c.next \in Nat /\ c.used \in SUBSET Nat /\ c.nfree \in Nat
BY DEF ChunkT

\* The same chunk, with other elements in use or another successor.
Alike(c, d) == d.elm_size = c.elm_size /\ d.begin = c.begin /\ d.bytes = c.bytes /\ d.at = c.at

LEMMA AlikeFacts ==
    ASSUME NEW c, NEW d, Alike(c, d)
    PROVE  /\ IsLarge(d) <=> IsLarge(c)
           /\ first_element(d) = first_element(c) /\ max_elements(d) = max_elements(c)
           /\ \A e : element(d, e) = element(c, e)
<1>1. first_element(d) = first_element(c) /\ max_elements(d) = max_elements(c)
  BY SameElements DEF Alike
<1>. QED  BY <1>1 DEF Alike, IsLarge, element

\* Chunks do not change their class.
AllAlike(h, g) == Len(g.chunks) = Len(h.chunks) /\ \A k \in Ids(h) : Alike(h.chunks[k], g.chunks[k])

LEMMA AlikeIds ==
    ASSUME NEW h, NEW g, AllAlike(h, g)
    PROVE  Ids(g) = Ids(h) /\ LargeIds(g) = LargeIds(h) /\ \A t : Class(g, t) = Class(h, t)
<1>1. Ids(g) = Ids(h)
  BY DEF AllAlike, Ids
<1>2. \A k \in Ids(h) : IsLarge(g.chunks[k]) <=> IsLarge(h.chunks[k])
  BY AlikeFacts DEF AllAlike
<1>3. \A k \in Ids(h) : g.chunks[k].elm_size = h.chunks[k].elm_size
  BY DEF AllAlike, Alike
<1>4. LargeIds(g) = LargeIds(h)
  BY <1>1, <1>2 DEF LargeIds
<1>5. \A t : Class(g, t) = Class(h, t)
  BY <1>1, <1>2, <1>3 DEF Class
<1>. QED  BY <1>1, <1>4, <1>5

LEMMA AlikeLaid ==
    ASSUME NEW h, NEW g, AllAlike(h, g), g.next_free = h.next_free, Laid(h)
    PROVE  Laid(g)
<1>1. Ids(g) = Ids(h) /\ \A k \in Ids(h) : g.chunks[k].begin = h.chunks[k].begin /\ g.chunks[k].bytes = h.chunks[k].bytes
  BY AlikeIds DEF AllAlike, Alike
<1>. QED  BY <1>1 DEF Laid

\* Only successors and heads of lists have changed.
Relinked(h, g) ==
    /\ h \in HeapT /\ g \in HeapT /\ AllAlike(h, g)
    /\ g.nfrees = h.nfrees /\ g.next_free = h.next_free
    /\ \A k \in Ids(h) : g.chunks[k].used = h.chunks[k].used /\ g.chunks[k].nfree = h.chunks[k].nfree

LEMMA RelinkedAgain ==
    ASSUME NEW h, NEW g, NEW f, Relinked(h, g), Relinked(g, f)
    PROVE  Relinked(h, f)
<1>1. Ids(g) = Ids(h)
  BY AlikeIds DEF Relinked
<1>2. AllAlike(h, f)
  BY <1>1 DEF Relinked, AllAlike, Alike
<1>. QED  BY <1>1, <1>2 DEF Relinked

\* Used elements stay used.
LEMMA HoldsStay ==
    ASSUME NEW h, NEW g, \A t : Class(h, t) \subseteq Class(g, t), Ids(h) \subseteq Ids(g),
           \A k \in Ids(h) : Alike(h.chunks[k], g.chunks[k]) /\ h.chunks[k].used \subseteq g.chunks[k].used
    PROVE  \A a, t : Holds(h, a, t) => Holds(g, a, t)
<1> SUFFICES ASSUME NEW a, NEW t, Holds(h, a, t) PROVE Holds(g, a, t)
  OBVIOUS
<1>1. PICK k \in Class(h, t) : \E e \in h.chunks[k].used : a = element(h.chunks[k], e)
  BY DEF Holds
<1>2. PICK e \in h.chunks[k].used : a = element(h.chunks[k], e)
  BY <1>1
<1>3. k \in Ids(h)
  BY DEF Class
<1>4. e \in g.chunks[k].used /\ element(g.chunks[k], e) = element(h.chunks[k], e)
  BY <1>3, AlikeFacts
<1>. QED  BY <1>1, <1>2, <1>4 DEF Holds

LEMMA RelinkedHolds ==
    ASSUME NEW h, NEW g, Relinked(h, g)
    PROVE  \A a, t : Holds(g, a, t) <=> Holds(h, a, t)
<1>1. Ids(g) = Ids(h) /\ \A t : Class(g, t) = Class(h, t)
  BY AlikeIds DEF Relinked
<1>2. \A k \in Ids(h) : Alike(h.chunks[k], g.chunks[k]) /\ Alike(g.chunks[k], h.chunks[k]) /\ g.chunks[k].used = h.chunks[k].used
  BY DEF Relinked, AllAlike, Alike
<1>3. \A a, t : Holds(h, a, t) => Holds(g, a, t)
  BY <1>1, <1>2, HoldsStay
<1>4. \A a, t : Holds(g, a, t) => Holds(h, a, t)
  BY <1>1, <1>2, HoldsStay
<1>. QED  BY <1>3, <1>4

LEMMA AlikeChunkOK ==
    ASSUME NEW c, NEW d, Alike(c, d), d.used = c.used, d.nfree = c.nfree, ChunkOK(c)
    PROVE  ChunkOK(d)
<1>1. (IsLarge(d) <=> IsLarge(c)) /\ max_elements(d) = max_elements(c)
  BY AlikeFacts
<1>. QED  BY <1>1 DEF ChunkOK, Alike

LEMMA RelinkedSound ==
    ASSUME NEW h, NEW g, Relinked(h, g), Sound(h)
    PROVE  Sound(g)
<1>1. Ids(g) = Ids(h) /\ LargeIds(g) = LargeIds(h) /\ \A t : Class(g, t) = Class(h, t)
  BY AlikeIds DEF Relinked
<1>2. \A k \in Ids(h) : Alike(h.chunks[k], g.chunks[k]) /\ g.chunks[k].used = h.chunks[k].used
                        /\ g.chunks[k].nfree = h.chunks[k].nfree
  BY DEF Relinked, AllAlike
<1>3. Shaped(g)
  <2>1. \A k \in Ids(h) : ChunkOK(h.chunks[k])
    BY DEF Sound, Shaped
  <2>2. \A k \in Ids(h) : ChunkOK(g.chunks[k])
    BY <1>2, <2>1, AlikeChunkOK
  <2>. QED  BY <1>1, <2>2 DEF Shaped, Relinked
<1>4. Laid(g)
  BY AlikeLaid DEF Relinked, Sound
<1>5. Counted(g)
  <2>1. \A t : Frees(g, t) = Frees(h, t)
    BY <1>1, <1>2 DEF Frees
  <2>. QED  BY <2>1 DEF Counted, Relinked, AllAlike, Sound
<1>6. Informed(g)
  <2>1. \A k \in Ids(h) : g.chunks[k].at = h.chunks[k].at
    BY <1>2 DEF Alike
  <2>2. \A a, t : Holds(g, a, t) <=> Holds(h, a, t)
    BY RelinkedHolds
  <2>. QED  BY <1>1, <2>1, <2>2 DEF Informed, Sound
<1>. QED  BY <1>3, <1>4, <1>5, <1>6 DEF Sound

LEMMA SetNextIs ==
    ASSUME NEW h \in HeapT, NEW k \in Ids(h), NEW to \in Nat
    PROVE  LET g == SetNext(h, k, to) IN
           /\ Relinked(h, g) /\ Links(g) = [Links(h) EXCEPT ![k] = to]
           /\ g.buckets = h.buckets /\ g.large = h.large /\ g.large_free = h.large_free
<1> DEFINE d == [h.chunks[k] EXCEPT !.next = to]
           s == [h.chunks EXCEPT ![k] = d]
           g == SetNext(h, k, to)
<1>1. h.chunks[k] \in ChunkT /\ h.chunks \in Seq(ChunkT) /\ DOMAIN h.chunks = Ids(h) /\ k \in 1 .. Len(h.chunks)
  BY HeapParts, ChunkIn DEF Ids
<1>2. d \in ChunkT /\ d.next = to /\ Alike(h.chunks[k], d) /\ d.used = h.chunks[k].used /\ d.nfree = h.chunks[k].nfree
  BY <1>1 DEF ChunkT, Alike
<1>3. s \in Seq(ChunkT) /\ Len(s) = Len(h.chunks)
  <2> HIDE DEF d
  <2>. QED  BY <1>1, <1>2, ExceptSeq
<1>4. \A j \in Ids(h) : s[j] = IF j = k THEN d ELSE h.chunks[j]
  <2> HIDE DEF d
  <2>. QED  BY <1>1
<1>5. g = [h EXCEPT !.chunks = s]
  BY DEF SetNext
<1> HIDE DEF d, s, g
<1>6. g \in HeapT /\ g.chunks = s /\ g.buckets = h.buckets /\ g.large = h.large /\ g.large_free = h.large_free
      /\ g.nfrees = h.nfrees /\ g.next_free = h.next_free
  BY <1>3, <1>5 DEF HeapT
<1>7. \A c : Alike(c, c)
  BY DEF Alike
<1>8. AllAlike(h, g)
  BY <1>2, <1>3, <1>4, <1>6, <1>7 DEF AllAlike
<1>9. Relinked(h, g)
  BY <1>2, <1>4, <1>6, <1>8 DEF Relinked
<1>10. Links(g) = [Links(h) EXCEPT ![k] = to]
  <2>1. Ids(g) = Ids(h)
    BY <1>8, AlikeIds
  <2>. QED  BY <1>2, <1>4, <1>6, <2>1 DEF Links
<1>. QED  BY <1>6, <1>9, <1>10 DEF g

\* A new head for the list of a class.
LEMMA SetBucketIs ==
    ASSUME NEW h \in HeapT, NEW t \in Types, NEW k \in Nat
    PROVE  LET g == [h EXCEPT !.buckets[t] = k] IN
           /\ Relinked(h, g) /\ Links(g) = Links(h)
           /\ g.buckets = [h.buckets EXCEPT ![t] = k] /\ g.large = h.large /\ g.large_free = h.large_free
<1> DEFINE g == [h EXCEPT !.buckets[t] = k]
<1>1. h.buckets \in [Types -> Nat]
  BY HeapParts
<1>2. [h.buckets EXCEPT ![t] = k] \in [Types -> Nat]
  BY <1>1
<1>3. g \in HeapT /\ g.chunks = h.chunks /\ g.buckets = [h.buckets EXCEPT ![t] = k]
      /\ g.large = h.large /\ g.large_free = h.large_free /\ g.nfrees = h.nfrees /\ g.next_free = h.next_free
  BY <1>2 DEF HeapT
<1> HIDE DEF g
<1>4. Relinked(h, g) /\ Links(g) = Links(h)
  BY <1>3 DEF Relinked, AllAlike, Alike, Links, Ids
<1>. QED  BY <1>3, <1>4 DEF g

\* The successors of a heap as numbers of chunks.
LEMMA NextsAre ==
    ASSUME NEW h \in HeapT
    PROVE  Nexts(h, Len(h.chunks)) <=> \A k \in Ids(h) : Links(h)[k] \in Ids(h) \cup {0}
<1>1. Len(h.chunks) \in Nat
  BY HeapParts
<1>2. \A k \in Ids(h) : Links(h)[k] = h.chunks[k].next
  BY DEF Links
<1>3. Ids(h) \cup {0} = 0 .. Len(h.chunks)
  BY <1>1 DEF Ids
<1>. QED  BY <1>2, <1>3 DEF Nexts, Ids

\* Chunk k moves, or comes, to the front of the list of its class, from S.
Fronted(h, g, k, t, S) ==
    /\ Relinked(h, g) /\ Nexts(g, Len(g.chunks))
    /\ Chain(Links(g), g.buckets[t], S \cup {k})
    /\ \A u \in Types : u # t => g.buckets[u] = h.buckets[u]
    /\ g.large = h.large /\ g.large_free = h.large_free
    /\ \A j \in Ids(h) : j \notin S \cup {k} => Links(g)[j] = Links(h)[j]

LEMMA PutFrontIs ==
    ASSUME NEW h \in HeapT, Nexts(h, Len(h.chunks)), NEW k \in Ids(h),
           NEW t \in Types, t = get_type(h.chunks[k].elm_size),
           NEW S \in SUBSET Ids(h), Chain(Links(h), h.buckets[t], S), NEW prev,
           \/ k \notin S /\ prev = 0
           \/ /\ k \in S /\ prev \in S \cup {0} /\ (prev = 0 <=> k = h.buckets[t])
              /\ prev # 0 => Links(h)[prev] = k
    PROVE  Fronted(h, put_front(h, k, prev), k, t, S)
<1> DEFINE g == put_front(h, k, prev)
           b == h.buckets[t]
<1>1. h.buckets \in [Types -> Nat] /\ 0 \notin Ids(h) /\ b \in Nat /\ k \in Nat /\ h.chunks[k].next \in Nat
  BY HeapParts, ChunkIn, ChunkFields
<1>2. b \in S \cup {0}
  BY ChainEnds
<1>3. \A j \in Ids(h) : Links(h)[j] \in Ids(h) \cup {0} /\ Links(h)[j] = h.chunks[j].next
  BY NextsAre DEF Links
<1>4. CASE b = k
  <2>1. g = h
    BY <1>4 DEF put_front
  <2>2. k \in S /\ S \cup {k} = S
    BY <1>1, <1>2, <1>4
  <2>3. Relinked(h, h)
    BY DEF Relinked, AllAlike, Alike
  <2>. QED  BY <2>1, <2>2, <2>3 DEF Fronted
<1>5. CASE b # k
  <2> DEFINE out == IF prev = 0 THEN h ELSE SetNext(h, prev, h.chunks[k].next)
             mid == SetNext(out, k, b)
  <2>1. g = [mid EXCEPT !.buckets[t] = k]
    BY <1>5 DEF put_front
  <2>2. Relinked(h, out) /\ out.buckets = h.buckets /\ out.large = h.large /\ out.large_free = h.large_free
        /\ Links(out) = IF prev = 0 THEN Links(h) ELSE [Links(h) EXCEPT ![prev] = h.chunks[k].next]
    <3>1. CASE prev = 0
      BY <3>1 DEF Relinked, AllAlike, Alike
    <3>2. CASE prev # 0
      <4>1. prev \in Ids(h)
        BY <3>2
      <4>. QED  BY <3>2, <4>1, <1>1, SetNextIs
    <3>. QED  BY <3>1, <3>2
  <2> HIDE DEF out
  <2>3. out \in HeapT /\ Ids(out) = Ids(h)
    BY <2>2, AlikeIds DEF Relinked
  <2>4. Relinked(out, mid) /\ mid.buckets = h.buckets /\ mid.large = h.large /\ mid.large_free = h.large_free
        /\ Links(mid) = [Links(out) EXCEPT ![k] = b]
    <3>1. k \in Ids(out) /\ b \in Nat
      BY <1>1, <2>3
    <3> HIDE DEF b, g
    <3>2. /\ Relinked(out, mid) /\ Links(mid) = [Links(out) EXCEPT ![k] = b]
          /\ mid.buckets = out.buckets /\ mid.large = out.large /\ mid.large_free = out.large_free
      BY <2>3, <3>1, SetNextIs
    <3> HIDE DEF mid
    <3>. QED  BY <2>2, <3>2
  <2> HIDE DEF mid
  <2>5. mid \in HeapT /\ Ids(mid) = Ids(h)
    BY <2>3, <2>4, AlikeIds DEF Relinked
  <2>6. Relinked(mid, g) /\ Links(g) = Links(mid) /\ g.buckets = [h.buckets EXCEPT ![t] = k]
        /\ g.large = h.large /\ g.large_free = h.large_free
    <3> HIDE DEF g
    <3>1. /\ Relinked(mid, g) /\ Links(g) = Links(mid) /\ g.buckets = [mid.buckets EXCEPT ![t] = k]
          /\ g.large = mid.large /\ g.large_free = mid.large_free
      BY <1>1, <2>1, <2>5, SetBucketIs
    <3>. QED  BY <2>4, <3>1
  <2>7. Relinked(h, g)
    BY <2>2, <2>4, <2>6, RelinkedAgain
  <2> HIDE DEF g
  <2>8. g.buckets[t] = k /\ \A u \in Types : u # t => g.buckets[u] = h.buckets[u]
    BY <1>1, <2>6
  <2>9. \A j \in Ids(h) : Links(g)[j] = IF j = k THEN b ELSE IF prev # 0 /\ j = prev THEN Links(h)[k] ELSE Links(h)[j]
    <3>1. Links(h) = [j \in Ids(h) |-> Links(h)[j]]
      BY DEF Links
    <3>2. Links(g) = [Links(out) EXCEPT ![k] = b]
      BY <2>4, <2>6
    <3>3. h.chunks[k].next = Links(h)[k]
      BY <1>3
    <3>. QED  BY <2>2, <3>1, <3>2, <3>3
  <2>10. Nexts(g, Len(g.chunks))
    <3>1. Ids(g) = Ids(h) /\ g \in HeapT
      BY <2>7, AlikeIds DEF Relinked
    <3>2. \A j \in Ids(h) : Links(g)[j] \in Ids(h) \cup {0}
      BY <1>2, <1>3, <2>9
    <3>. QED  BY <3>1, <3>2, NextsAre
  <2>11. Chain(Links(g), k, S \cup {k})
    <3>1. CASE k \notin S
      <4>1. \A j \in S : Links(g)[j] = Links(h)[j]
        BY <2>9, <3>1
      <4>. QED  BY <1>1, <2>9, <3>1, <4>1, ChainFront
    <3>2. CASE k \in S
      <4>1. prev \in S /\ prev # 0 /\ Links(h)[prev] = k
        BY <1>5, <3>2
      <4>2. prev # k
        BY <4>1, <3>2, ChainEnds
      <4> DEFINE rest == [Links(h) EXCEPT ![prev] = Links(h)[k]]
      <4>3. \A j \in Ids(h) : rest[j] = IF j = prev THEN Links(h)[k] ELSE Links(h)[j]
        BY <4>1 DEF Links
      <4> HIDE DEF rest
      <4>4. Chain(rest, b, S \ {k})
        BY <3>2, <4>1, <4>3, ChainRemove
      <4>5. \A j \in S \ {k} : Links(g)[j] = rest[j]
        BY <2>9, <4>1, <4>3
      <4>6. Links(g)[k] = b
        BY <2>9
      <4>7. Chain(Links(g), k, (S \ {k}) \cup {k})
        BY <1>1, <4>4, <4>5, <4>6, ChainFront
      <4>8. (S \ {k}) \cup {k} = S \cup {k}
        OBVIOUS
      <4>. QED  BY <4>7, <4>8
    <3>. QED  BY <3>1, <3>2
  <2>12. \A j \in Ids(h) : j \notin S \cup {k} => Links(g)[j] = Links(h)[j]
    <3>1. prev \in S \cup {0}
      OBVIOUS
    <3>. QED  BY <2>9, <3>1
  <2>13. Chain(Links(g), g.buckets[t], S \cup {k})
    BY <2>8, <2>11
  <2>14. Fronted(h, g, k, t, S)
    BY <2>6, <2>7, <2>8, <2>10, <2>12, <2>13 DEF Fronted
  <2>. QED  BY <2>14 DEF g
<1>. QED  BY <1>4, <1>5

\* With the lists of all classes.
LEMMA PutFrontListed ==
    ASSUME NEW h \in HeapT, NEW g, NEW k \in Ids(h), NEW t \in Types, k \in Class(h, t),
           h.large \in Ids(h) \cup {0}, h.large_free \in Ids(h) \cup {0},
           \A u \in Types : u # t => Chain(Links(h), h.buckets[u], Class(h, u)),
           NEW S \in SUBSET Class(h, t), S \cup {k} = Class(h, t), Fronted(h, g, k, t, S)
    PROVE  Listed(g)
<1> USE DEF Fronted
<1>1. Ids(g) = Ids(h) /\ \A u : Class(g, u) = Class(h, u)
  BY AlikeIds DEF Relinked
<1>2. ASSUME NEW u \in Types PROVE Chain(Links(g), g.buckets[u], Class(g, u))
  <2>1. CASE u = t
    BY <1>1, <2>1
  <2>2. CASE u # t
    <3>1. \A j \in Class(h, u) : j \in Ids(h) /\ j \notin Class(h, t)
      BY <2>2 DEF Class
    <3>2. \A j \in Class(h, u) : Links(g)[j] = Links(h)[j]
      BY <3>1
    <3>3. Chain(Links(g), h.buckets[u], Class(h, u))
      BY <2>2, <3>2, ChainFrame
    <3>. QED  BY <1>1, <2>2, <3>3
  <2>. QED  BY <2>1, <2>2
<1>. QED  BY <1>1, <1>2 DEF Listed

-----------------------------------------------------------------------------
(* Where chunks and elements lie.                                          *)

LEMMA ChunksApart ==
    ASSUME NEW h \in HeapT, Laid(h), NEW j \in Ids(h), NEW k \in Ids(h), j # k
    PROVE  \/ h.chunks[j].begin + h.chunks[j].bytes <= h.chunks[k].begin
           \/ h.chunks[k].begin + h.chunks[k].bytes <= h.chunks[j].begin
<1>1. j \in Nat /\ k \in Nat
  BY HeapParts
<1>2. j < k \/ k < j
  BY <1>1
<1>. QED  BY <1>2 DEF Laid

\* The numbers of a chunk.
LEMMA ChunkNumbers ==
    ASSUME NEW h, Shaped(h), NEW k \in Ids(h)
    PROVE  LET c == h.chunks[k] IN
           /\ c \in ChunkT /\ c.elm_size \in Nat \ {0} /\ c.begin \in Nat /\ c.bytes \in Nat /\ c.at \in Nat
           /\ c.used \in SUBSET (0 .. (max_elements(c) - 1)) /\ c.nfree \in Nat
           /\ first_element(c) \in Nat /\ max_elements(c) \in Nat
           /\ IsLarge(c) => max_elements(c) = 0 /\ c.used = {}
           /\ c.bytes > 0
<1> DEFINE c == h.chunks[k]
<1>1. c \in ChunkT /\ ChunkOK(c)
  BY ChunkIn DEF Shaped
<1> HIDE DEF c
<1>2. c.elm_size \in Nat \ {0} /\ c.begin \in Nat /\ c.bytes \in Nat /\ c.at \in Nat /\ c.nfree \in Nat
  BY <1>1, ChunkFields
<1>3. first_element(c) \in Nat /\ max_elements(c) \in Int
  BY <1>2, ElementsFit
<1>4. c.used \in SUBSET (0 .. (max_elements(c) - 1))
  BY <1>1 DEF ChunkOK
<1>5. CASE IsLarge(c)
  <2>1. c.bytes >= 8 /\ c.elm_size = c.bytes
    BY <1>1, <1>5 DEF ChunkOK, IsLarge
  <2>2. max_elements(c) = 0
    BY <1>2, <2>1, LargeHoldsNone
  <2>3. c.used = {}
    BY <1>4, <2>2
  <2>. QED  BY <1>1, <1>2, <1>3, <1>4, <2>1, <2>2, <2>3 DEF c
<1>6. CASE ~ IsLarge(c)
  <2>1. max_elements(c) >= 1
    BY <1>1, <1>6 DEF ChunkOK
  <2>2. first_element(c) + c.elm_size <= c.bytes
    BY <1>2, <2>1, SmallIsNotLarge
  <2>3. c.bytes > 0 /\ max_elements(c) \in Nat
    BY <1>2, <1>3, <2>1, <2>2
  <2>. QED  BY <1>1, <1>2, <1>3, <1>4, <1>6, <2>3 DEF c
<1>. QED  BY <1>5, <1>6

LEMMA ElementsDisjoint ==
    ASSUME NEW h, Shaped(h), Laid(h), NEW j \in Ids(h), NEW k \in Ids(h),
           NEW d \in 0 .. (max_elements(h.chunks[j]) - 1), NEW e \in 0 .. (max_elements(h.chunks[k]) - 1),
           j # k \/ d # e
    PROVE  \/ element(h.chunks[j], d) + h.chunks[j].elm_size <= element(h.chunks[k], e)
           \/ element(h.chunks[k], e) + h.chunks[k].elm_size <= element(h.chunks[j], d)
<1> DEFINE b == h.chunks[j]
           c == h.chunks[k]
<1>1. b.elm_size \in Nat \ {0} /\ b.begin \in Nat /\ b.bytes \in Nat /\ first_element(b) \in Nat
      /\ c.elm_size \in Nat \ {0} /\ c.begin \in Nat /\ c.bytes \in Nat /\ first_element(c) \in Nat
      /\ max_elements(b) \in Nat
  BY ChunkNumbers
<1>2. CASE j # k
  <2>1. b.begin + b.bytes <= c.begin \/ c.begin + c.bytes <= b.begin
    BY <1>2, ChunksApart DEF Shaped
  <2>2. element(b, d) \in Nat /\ b.begin + first_element(b) <= element(b, d) /\ element(b, d) + b.elm_size <= b.begin + b.bytes
    <3> HIDE DEF b
    <3>. QED  BY <1>1, ElementIn DEF b
  <2>3. element(c, e) \in Nat /\ c.begin + first_element(c) <= element(c, e) /\ element(c, e) + c.elm_size <= c.begin + c.bytes
    <3> HIDE DEF c
    <3>. QED  BY <1>1, ElementIn DEF c
  <2> HIDE DEF b, c
  <2>4. element(b, d) + b.elm_size <= element(c, e) \/ element(c, e) + c.elm_size <= element(b, d)
    BY <1>1, <2>1, <2>2, <2>3
  <2>. QED  BY <2>4 DEF b, c
<1>3. CASE j = k /\ d < e
  BY <1>1, <1>3, ElementsApart
<1>4. CASE j = k /\ e < d
  BY <1>1, <1>4, ElementsApart
<1>5. j # k \/ d < e \/ e < d
  BY <1>1
<1>. QED  BY <1>2, <1>3, <1>4, <1>5

\* An address is an element of one chunk only.
LEMMA OneElement ==
    ASSUME NEW h, Shaped(h), Laid(h), NEW j \in Ids(h), NEW k \in Ids(h),
           NEW d \in 0 .. (max_elements(h.chunks[j]) - 1), NEW e \in 0 .. (max_elements(h.chunks[k]) - 1),
           element(h.chunks[j], d) = element(h.chunks[k], e)
    PROVE  j = k /\ d = e
<1>1. h.chunks[j].elm_size \in Nat \ {0} /\ h.chunks[k].elm_size \in Nat \ {0}
      /\ h.chunks[j].begin \in Nat /\ h.chunks[j].bytes \in Nat
  BY ChunkNumbers
<1>2. element(h.chunks[j], d) \in Nat
  BY <1>1, ElementIn
<1>3. ASSUME j # k \/ d # e PROVE FALSE
  <2>1. \/ element(h.chunks[j], d) + h.chunks[j].elm_size <= element(h.chunks[k], e)
        \/ element(h.chunks[k], e) + h.chunks[k].elm_size <= element(h.chunks[j], d)
    BY <1>3, ElementsDisjoint
  <2>. QED  BY <1>1, <1>2, <2>1
<1>. QED  BY <1>3

-----------------------------------------------------------------------------
(* Taking an element and giving it back.                                   *)

\* Chunk k of class t has other elements in use, and nfrees tells.
Marked(h, g, k, t) ==
    /\ g \in HeapT /\ AllAlike(h, g) /\ Links(g) = Links(h)
    /\ g.buckets = h.buckets /\ g.large = h.large /\ g.large_free = h.large_free /\ g.next_free = h.next_free
    /\ \A j \in Ids(h) : j # k => g.chunks[j] = h.chunks[j]
    /\ g.nfrees[t] = h.nfrees[t] + g.chunks[k].nfree - h.chunks[k].nfree
    /\ \A u \in Types : u # t => g.nfrees[u] = h.nfrees[u]

LEMMA MarkedSound ==
    ASSUME NEW h, Sound(h), NEW t \in Types, NEW k \in Class(h, t), NEW g, Marked(h, g, k, t),
           ChunkOK(g.chunks[k]), Informed(g)
    PROVE  Sound(g)
<1>1. h \in HeapT /\ g \in HeapT /\ Ids(g) = Ids(h) /\ \A u : Class(g, u) = Class(h, u)
  BY AlikeIds DEF Marked, Sound, Shaped
<1>2. k \in Ids(h) /\ Len(g.chunks) = Len(h.chunks) /\ \A j \in Ids(h) : j # k => g.chunks[j] = h.chunks[j]
  BY DEF Class, Marked, AllAlike
<1>3. Shaped(g)
  BY <1>1, <1>2 DEF Shaped, Sound
<1>4. Laid(g)
  BY AlikeLaid DEF Marked, Sound
<1>5. Counted(g)
  <2> SUFFICES ASSUME NEW u \in Types PROVE g.nfrees[u] = SumTo(Frees(g, u), Len(g.chunks))
    BY DEF Counted
  <2>1. h.nfrees[u] = SumTo(Frees(h, u), Len(h.chunks))
    BY DEF Counted, Sound
  <2>2. PICK n \in Nat : n = Len(h.chunks) /\ Ids(h) = 1 .. n
    BY <1>1, HeapParts DEF Ids
  <2>3. \A j \in Ids(h) : h.chunks[j].nfree \in Nat /\ g.chunks[j].nfree \in Nat
    BY <1>1, ChunkIn, ChunkFields
  <2>4. Frees(h, u) \in [1 .. n -> Int] /\ Frees(g, u) \in [1 .. n -> Int]
    BY <1>1, <2>2, <2>3 DEF Frees
  <2>5. CASE u = t
    <3>1. \A j \in 1 .. n : j # k => Frees(g, u)[j] = Frees(h, u)[j]
      BY <1>1, <1>2, <2>2 DEF Frees
    <3>2. Frees(g, u)[k] = g.chunks[k].nfree /\ Frees(h, u)[k] = h.chunks[k].nfree
      BY <1>1, <1>2, <2>5 DEF Frees
    <3>3. SumTo(Frees(g, u), n) = SumTo(Frees(h, u), n) + Frees(g, u)[k] - Frees(h, u)[k]
      BY <1>2, <2>2, <2>4, <3>1, SumToChange
    <3>4. g.nfrees[t] = h.nfrees[t] + g.chunks[k].nfree - h.chunks[k].nfree
      BY DEF Marked
    <3>. QED  BY <1>2, <2>1, <2>2, <2>5, <3>2, <3>3, <3>4
  <2>6. CASE u # t
    <3>1. k \notin Class(h, u)
      BY <2>6 DEF Class
    <3>2. Frees(g, u) = Frees(h, u)
      BY <1>1, <1>2, <3>1 DEF Frees
    <3>. QED  BY <1>2, <2>1, <2>6, <3>2 DEF Marked
  <2>. QED  BY <2>5, <2>6
<1>. QED  BY <1>3, <1>4, <1>5 DEF Sound

\* A chunk with a free element has one to give.
LEMMA FreeElement ==
    ASSUME NEW h, Sound(h), NEW k \in Ids(h), h.chunks[k].nfree # 0
    PROVE  LET c == h.chunks[k] IN
           /\ alloc_free(c) \in 0 .. (max_elements(c) - 1) /\ alloc_free(c) \notin c.used
           /\ IsFiniteSet(c.used)
<1> DEFINE c == h.chunks[k]
           m == max_elements(c)
<1>1. c.used \in SUBSET (0 .. (m - 1)) /\ m \in Nat /\ c.nfree \in Nat
  BY ChunkNumbers DEF Sound
<1>2. c.nfree = m - Cardinality(c.used)
  BY DEF Sound, Shaped, ChunkOK
<1> HIDE DEF m, c
<1>3. IsFiniteSet(0 .. (m - 1)) /\ Cardinality(0 .. (m - 1)) = m
  <2>1. 0 \in Int /\ m - 1 \in Int
    BY <1>1
  <2>2. IsFiniteSet(0 .. (m - 1)) /\ Cardinality(0 .. (m - 1)) = IF 0 > m - 1 THEN 0 ELSE (m - 1) - 0 + 1
    BY <2>1, FS_Interval
  <2>. QED  BY <1>1, <2>2
<1>4. IsFiniteSet(c.used)
  BY <1>1, <1>3, FS_Subset
<1>5. c.used # 0 .. (m - 1)
  <2>1. ASSUME c.used = 0 .. (m - 1) PROVE FALSE
    <3>1. c.nfree = 0
      BY <1>1, <1>2, <1>3, <2>1
    <3>. QED  BY <3>1 DEF c
  <2>. QED  BY <2>1
<1>6. \E e \in 0 .. (m - 1) : e \notin c.used
  BY <1>1, <1>5
<1>7. alloc_free(c) \in 0 .. (m - 1) /\ alloc_free(c) \notin c.used
  BY <1>6 DEF alloc_free, m
<1>. QED  BY <1>4, <1>7 DEF m, c

\* A heap with another chunk k and another count of its class.
Remade(h, k, d, t, n) == [h EXCEPT !.chunks = [h.chunks EXCEPT ![k] = d], !.nfrees = [h.nfrees EXCEPT ![t] = n]]

LEMMA MarkedIs ==
    ASSUME NEW h \in HeapT, NEW k \in Ids(h), NEW d \in ChunkT, Alike(h.chunks[k], d), d.next = h.chunks[k].next,
           NEW t \in Types, NEW n \in Nat, n = h.nfrees[t] + d.nfree - h.chunks[k].nfree,
           NEW g, g = Remade(h, k, d, t, n)
    PROVE  /\ Marked(h, g, k, t) /\ g.chunks[k] = d
           /\ g.nfrees = [h.nfrees EXCEPT ![t] = n]
<1> DEFINE s == [h.chunks EXCEPT ![k] = d]
           m == [h.nfrees EXCEPT ![t] = n]
<1>1. h.chunks \in Seq(ChunkT) /\ DOMAIN h.chunks = Ids(h) /\ k \in 1 .. Len(h.chunks) /\ h.nfrees \in [Types -> Nat]
  BY HeapParts DEF Ids
<1>2. s \in Seq(ChunkT) /\ Len(s) = Len(h.chunks)
  BY <1>1, ExceptSeq
<1>3. \A j \in Ids(h) : s[j] = IF j = k THEN d ELSE h.chunks[j]
  BY <1>1
<1>4. m \in [Types -> Nat] /\ m[t] = n /\ \A u \in Types : u # t => m[u] = h.nfrees[u]
  BY <1>1
<1>5. g = [h EXCEPT !.chunks = s, !.nfrees = m]
  BY DEF Remade
<1> HIDE DEF s, m
<1>6. g \in HeapT /\ g.chunks = s /\ g.nfrees = m /\ g.buckets = h.buckets
      /\ g.large = h.large /\ g.large_free = h.large_free /\ g.next_free = h.next_free
  BY <1>2, <1>4, <1>5 DEF HeapT
<1>7. \A c : Alike(c, c)
  BY DEF Alike
<1>8. AllAlike(h, g)
  BY <1>2, <1>3, <1>6, <1>7 DEF AllAlike
<1>9. Links(g) = Links(h)
  <2>1. Ids(g) = Ids(h)
    BY <1>8, AlikeIds
  <2>. QED  BY <1>3, <1>6, <2>1 DEF Links
<1>10. g.chunks[k] = d
  BY <1>3, <1>6
<1>. QED  BY <1>3, <1>4, <1>6, <1>8, <1>9, <1>10 DEF Marked, m

\* Element e of chunk k is taken.
Taken(h, k, t, e) ==
    [h EXCEPT !.chunks[k].used = @ \cup {e}, !.chunks[k].nfree = @ - 1, !.nfrees[t] = @ - 1]

\* What it is to take element e, at address a: no one had it.
Gave(h, g, k, t, a) ==
    /\ Marked(h, g, k, t) /\ Sound(g) /\ g.nfrees = [h.nfrees EXCEPT ![t] = @ - 1]
    /\ h.nfrees[t] >= 1
    /\ \A j \in Ids(h) : h.chunks[j].used \subseteq g.chunks[j].used
    /\ Holds(g, a, t) /\ \A u : ~ Holds(h, a, u)

LEMMA TakenIs ==
    ASSUME NEW h, Sound(h), NEW t \in Types, NEW k \in Class(h, t), h.chunks[k].nfree # 0,
           NEW e, e = alloc_free(h.chunks[k]), NEW g, g = Taken(h, k, t, e)
    PROVE  Gave(h, g, k, t, element(h.chunks[k], e))
<1> DEFINE c == h.chunks[k]
           d == [c EXCEPT !.used = @ \cup {e}, !.nfree = @ - 1]
           n == h.nfrees[t] - 1
<1>1. k \in Ids(h) /\ h \in HeapT /\ Shaped(h) /\ Laid(h)
  BY DEF Class, Sound, Shaped
<1>2. e \in 0 .. (max_elements(c) - 1) /\ e \notin c.used /\ IsFiniteSet(c.used)
  BY <1>1, FreeElement
<1>3. c \in ChunkT /\ c.nfree \in Nat \ {0} /\ max_elements(c) \in Nat /\ c.used \in SUBSET (0 .. (max_elements(c) - 1))
  BY <1>1, ChunkNumbers
<1>4. d \in ChunkT /\ Alike(c, d) /\ d.next = c.next /\ d.used = c.used \cup {e} /\ d.nfree = c.nfree - 1
  <2> HIDE DEF c
  <2>1. e \in Nat /\ c.nfree - 1 \in Nat
    BY <1>2, <1>3
  <2>. QED  BY <1>3, <2>1 DEF ChunkT, Alike
<1>5. h.nfrees[t] >= 1 /\ n \in Nat /\ h.nfrees[t] \in Nat
  <2>1. PICK N \in Nat : N = Len(h.chunks) /\ Ids(h) = 1 .. N
    BY <1>1, HeapParts DEF Ids
  <2>2. Frees(h, t) \in [1 .. N -> Nat]
    <3>1. \A j \in Ids(h) : h.chunks[j].nfree \in Nat
      BY <1>1, ChunkIn, ChunkFields
    <3>. QED  BY <2>1, <3>1 DEF Frees
  <2>3. Frees(h, t)[k] = c.nfree
    BY <1>1 DEF Frees
  <2>4. Frees(h, t)[k] <= SumTo(Frees(h, t), N) /\ SumTo(Frees(h, t), N) \in Nat
    BY <1>1, <2>1, <2>2, SumToMember
  <2>5. h.nfrees[t] = SumTo(Frees(h, t), N)
    BY <2>1 DEF Sound, Counted
  <2>. QED  BY <1>3, <2>3, <2>4, <2>5
<1>6. g = Remade(h, k, d, t, n)
  BY DEF Taken, Remade
<1>7. Marked(h, g, k, t) /\ g.chunks[k] = d /\ g.nfrees = [h.nfrees EXCEPT ![t] = n]
  <2>1. n = h.nfrees[t] + d.nfree - c.nfree
    BY <1>3, <1>4, <1>5
  <2> HIDE DEF d, n
  <2>. QED  BY <1>1, <1>4, <1>5, <1>6, <2>1, MarkedIs
<1> HIDE DEF d
<1>8. ChunkOK(d)
  <2>1. ChunkOK(c)
    BY <1>1 DEF Shaped
  <2>2. (IsLarge(d) <=> IsLarge(c)) /\ max_elements(d) = max_elements(c) /\ d.elm_size = c.elm_size /\ d.bytes = c.bytes
    BY <1>4, AlikeFacts DEF Alike
  <2>3. Cardinality(d.used) = Cardinality(c.used) + 1
    <3> HIDE DEF c
    <3>1. Cardinality(c.used \cup {e}) = Cardinality(c.used) + 1
      BY <1>2, FS_AddElement
    <3>. QED  BY <1>4, <3>1
  <2>4. c.nfree = max_elements(c) - Cardinality(c.used) /\ Cardinality(c.used) \in Nat
    BY <1>2, <2>1, FS_CardinalityType DEF ChunkOK
  <2>5. d.nfree = max_elements(d) - Cardinality(d.used)
    BY <1>3, <1>4, <2>2, <2>3, <2>4
  <2>6. d.used \subseteq 0 .. (max_elements(d) - 1)
    BY <1>2, <1>3, <1>4, <2>2
  <2> HIDE DEF c
  <2>. QED  BY <2>1, <2>2, <2>5, <2>6 DEF ChunkOK
<1>9. Ids(g) = Ids(h) /\ \A u : Class(g, u) = Class(h, u)
  BY <1>7, AlikeIds DEF Marked
<1>10. \A j \in Ids(h) : Alike(h.chunks[j], g.chunks[j]) /\ h.chunks[j].used \subseteq g.chunks[j].used
  <2>1. \A j \in Ids(h) : Alike(h.chunks[j], g.chunks[j])
    BY <1>7 DEF Marked, AllAlike
  <2>2. \A j \in Ids(h) : j # k => g.chunks[j] = h.chunks[j]
    BY <1>7 DEF Marked
  <2>3. h.chunks[k].used \subseteq g.chunks[k].used
    BY <1>4, <1>7
  <2>. QED  BY <2>1, <2>2, <2>3
<1>11. \A a, u : Holds(h, a, u) => Holds(g, a, u)
  BY <1>9, <1>10, HoldsStay
<1>12. Informed(g)
  <2>1. \A j \in Ids(h) : g.chunks[j].at = h.chunks[j].at
    BY <1>10 DEF Alike
  <2>. QED  BY <1>9, <1>11, <2>1 DEF Informed, Sound
<1>13. Sound(g)
  BY <1>7, <1>8, <1>12, MarkedSound
<1>14. Holds(g, element(c, e), t)
  <2>1. element(d, e) = element(c, e) /\ e \in d.used
    BY <1>4, AlikeFacts
  <2>. QED  BY <1>7, <1>9, <2>1 DEF Holds
<1>15. ASSUME NEW u, Holds(h, element(c, e), u) PROVE FALSE
  <2>1. PICK j \in Class(h, u) : \E f \in h.chunks[j].used : element(c, e) = element(h.chunks[j], f)
    BY <1>15 DEF Holds
  <2>2. PICK f \in h.chunks[j].used : element(c, e) = element(h.chunks[j], f)
    BY <2>1
  <2>3. j \in Ids(h) /\ f \in 0 .. (max_elements(h.chunks[j]) - 1)
    <3>1. j \in Ids(h)
      BY DEF Class
    <3>. QED  BY <1>1, <3>1, ChunkNumbers
  <2>4. j = k /\ f = e
    BY <1>1, <1>2, <2>2, <2>3, OneElement
  <2>. QED  BY <1>2, <2>2, <2>4
<1>. QED  BY <1>5, <1>7, <1>10, <1>13, <1>14, <1>15 DEF Gave

\* g has the chunks of h, the elements in use there, and chunks that took theirs
\* for their chunkinfo_t.
Grown(h, g) ==
    /\ Ids(h) \subseteq Ids(g)
    /\ \A k \in Ids(h) : Alike(h.chunks[k], g.chunks[k]) /\ h.chunks[k].used \subseteq g.chunks[k].used
    /\ \A k \in Ids(g) : k \notin Ids(h) => \A t : ~ Holds(h, g.chunks[k].at, t)

LEMMA GrownHolds ==
    ASSUME NEW h, NEW g, Grown(h, g)
    PROVE  /\ \A t : Class(h, t) \subseteq Class(g, t)
           /\ \A a, t : Holds(h, a, t) => Holds(g, a, t)
           /\ LargeIds(h) = LargeIds(g) \cap Ids(h)
<1>1. \A k \in Ids(h) : (IsLarge(g.chunks[k]) <=> IsLarge(h.chunks[k])) /\ g.chunks[k].elm_size = h.chunks[k].elm_size
  <2>1. \A k \in Ids(h) : IsLarge(g.chunks[k]) <=> IsLarge(h.chunks[k])
    BY AlikeFacts DEF Grown
  <2>. QED  BY <2>1 DEF Grown, Alike
<1>2. \A t : Class(h, t) \subseteq Class(g, t)
  BY <1>1 DEF Class, Grown
<1>3. LargeIds(h) = LargeIds(g) \cap Ids(h)
  BY <1>1 DEF LargeIds, Grown
<1>4. \A a, t : Holds(h, a, t) => Holds(g, a, t)
  BY <1>2, HoldsStay DEF Grown
<1>. QED  BY <1>2, <1>3, <1>4

LEMMA GrownAgain ==
    ASSUME NEW h, NEW g, NEW f, Grown(h, g), Grown(g, f)
    PROVE  Grown(h, f)
<1>1. \A a, t : Holds(h, a, t) => Holds(g, a, t)
  BY GrownHolds
<1>2. Ids(h) \subseteq Ids(g) /\ Ids(g) \subseteq Ids(f)
  BY DEF Grown
<1>3. \A k \in Ids(h) : Alike(h.chunks[k], f.chunks[k]) /\ h.chunks[k].used \subseteq f.chunks[k].used
  BY <1>2 DEF Grown, Alike
<1>4. ASSUME NEW k \in Ids(f), k \notin Ids(h), NEW t PROVE ~ Holds(h, f.chunks[k].at, t)
  <2>1. CASE k \in Ids(g)
    <3>1. f.chunks[k].at = g.chunks[k].at
      BY <2>1 DEF Grown, Alike
    <3>. QED  BY <1>4, <2>1, <3>1 DEF Grown
  <2>2. CASE k \notin Ids(g)
    BY <1>1, <2>2 DEF Grown
  <2>. QED  BY <2>1, <2>2
<1>. QED  BY <1>2, <1>3, <1>4 DEF Grown

\* nfrees of a class tells that a chunk of it has a free element.
LEMMA FreeSomewhere ==
    ASSUME NEW h, Sound(h), NEW t \in Types
    PROVE  /\ \A k \in Class(h, t) : h.chunks[k].nfree <= h.nfrees[t]
           /\ h.nfrees[t] # 0 => \E k \in Class(h, t) : h.chunks[k].nfree # 0
<1>1. h \in HeapT
  BY DEF Sound, Shaped
<1>2. PICK N \in Nat : N = Len(h.chunks) /\ Ids(h) = 1 .. N
  BY <1>1, HeapParts DEF Ids
<1>3. Frees(h, t) \in [1 .. N -> Nat] /\ \A k \in 1 .. N : Frees(h, t)[k] = IF k \in Class(h, t) THEN h.chunks[k].nfree ELSE 0
  <2>1. \A j \in Ids(h) : h.chunks[j].nfree \in Nat
    BY <1>1, ChunkIn, ChunkFields
  <2>. QED  BY <1>2, <2>1 DEF Frees
<1>4. h.nfrees[t] = SumTo(Frees(h, t), N)
  BY <1>2 DEF Sound, Counted
<1>5. (\A k \in 1 .. N : Frees(h, t)[k] <= h.nfrees[t]) /\ (h.nfrees[t] # 0 => \E k \in 1 .. N : Frees(h, t)[k] # 0)
  BY <1>3, <1>4, SumToMember
<1>6. Class(h, t) \subseteq 1 .. N
  BY <1>2 DEF Class
<1>. QED  BY <1>3, <1>5, <1>6

\* What an operation on the lists of small chunks leaves alone.
Aside(h, g) ==
    /\ g.next_free = h.next_free /\ g.large = h.large /\ g.large_free = h.large_free
    /\ \A k \in LargeIds(h) : Links(g)[k] = Links(h)[k]

LEMMA TakeElementIs ==
    ASSUME NEW h, Good(h), NEW t \in Types, h.nfrees[t] # 0, NEW r, r = TakeElement(h, t)
    PROVE  /\ Good(r.heap) /\ Grown(h, r.heap) /\ AllAlike(h, r.heap) /\ Aside(h, r.heap)
           /\ r.heap.nfrees = [h.nfrees EXCEPT ![t] = @ - 1]
           /\ r.ptr \in Nat /\ Holds(r.heap, r.ptr, t) /\ \A u : ~ Holds(h, r.ptr, u)
<1> DEFINE found == {k \in DOMAIN h.chunks : h.chunks[k].nfree # 0}
           s == Seek(h, h.buckets[t], found)
<1>1. h \in HeapT /\ Sound(h) /\ Listed(h) /\ Shaped(h) /\ DOMAIN h.chunks = Ids(h)
  BY HeapParts DEF Good, Sound, Shaped
<1>2. PICK N \in Nat : N = Len(h.chunks) /\ Ids(h) = 1 .. N /\ Nexts(h, N)
  BY <1>1, HeapParts DEF Ids, Listed
<1>3. Class(h, t) \in SUBSET (1 .. N) /\ Chain(Links(h), h.buckets[t], Class(h, t))
  BY <1>1, <1>2 DEF Class, Listed
<1> HIDE DEF found
<1>4. /\ s.chunk \in (Class(h, t) \cap found) \cup {0} /\ (s.chunk = 0 => Class(h, t) \cap found = {})
      /\ s.prev \in (Class(h, t) \ found) \cup {0} /\ (s.prev = 0 <=> s.chunk = h.buckets[t])
      /\ s.prev # 0 => Links(h)[s.prev] = s.chunk
  BY <1>2, <1>3, SeekIs
<1> HIDE DEF s
<1>5. PICK k, prev : k = s.chunk /\ prev = s.prev
  OBVIOUS
<1>6. k \in Class(h, t) /\ h.chunks[k].nfree # 0 /\ k \in Ids(h)
  <2>1. PICK j \in Class(h, t) : h.chunks[j].nfree # 0
    BY <1>1, FreeSomewhere
  <2>2. j \in Class(h, t) \cap found
    BY <1>1, <2>1 DEF Class, found
  <2>3. k \in Class(h, t) \cap found
    BY <1>4, <1>5, <2>2
  <2>. QED  BY <2>3 DEF Class, found
<1>7. PICK e : e = alloc_free(h.chunks[k])
  OBVIOUS
<1>8. PICK g : g = Taken(h, k, t, e)
  OBVIOUS
<1>9. r = [heap |-> IF h.chunks[k].nfree > 1 THEN put_front(g, k, prev) ELSE g, ptr |-> element(h.chunks[k], e)]
  <2>1. TakeElement(h, t) =
            [heap |-> IF h.chunks[s.chunk].nfree > 1
                      THEN put_front(Taken(h, s.chunk, t, alloc_free(h.chunks[s.chunk])), s.chunk, s.prev)
                      ELSE Taken(h, s.chunk, t, alloc_free(h.chunks[s.chunk])),
             ptr |-> element(h.chunks[s.chunk], alloc_free(h.chunks[s.chunk]))]
    BY Zenon DEF TakeElement, Taken, s, found
  <2>. QED  BY <1>5, <1>7, <1>8, <2>1
<1>10. /\ Marked(h, g, k, t) /\ Sound(g) /\ g.nfrees = [h.nfrees EXCEPT ![t] = @ - 1]
       /\ \A j \in Ids(h) : h.chunks[j].used \subseteq g.chunks[j].used
       /\ Holds(g, element(h.chunks[k], e), t) /\ \A u : ~ Holds(h, element(h.chunks[k], e), u)
  <2>1. Gave(h, g, k, t, element(h.chunks[k], e))
    BY <1>1, <1>6, <1>7, <1>8, TakenIs
  <2>. QED  BY <2>1 DEF Gave
<1>11. g \in HeapT /\ AllAlike(h, g) /\ Ids(g) = Ids(h) /\ Len(g.chunks) = N /\ (\A u : Class(g, u) = Class(h, u))
       /\ Links(g) = Links(h) /\ g.buckets = h.buckets /\ Aside(h, g)
  <2>1. g \in HeapT /\ AllAlike(h, g) /\ Links(g) = Links(h) /\ g.buckets = h.buckets
        /\ g.large = h.large /\ g.large_free = h.large_free /\ g.next_free = h.next_free
    BY <1>10 DEF Marked
  <2>2. Ids(g) = Ids(h) /\ \A u : Class(g, u) = Class(h, u)
    BY <2>1, AlikeIds
  <2>3. Len(g.chunks) = N
    BY <1>2, <2>1 DEF AllAlike
  <2>. QED  BY <2>1, <2>2, <2>3 DEF Aside
<1>12. Nexts(g, Len(g.chunks))
  BY <1>1, <1>2, <1>11, NextsAre
<1>13. \A u \in Types : Chain(Links(g), g.buckets[u], Class(g, u))
  BY <1>1, <1>11 DEF Listed
<1>14. element(h.chunks[k], e) \in Nat
  <2>1. h.chunks[k].bytes \in Nat /\ h.chunks[k].elm_size \in Nat \ {0} /\ h.chunks[k].begin \in Nat
    BY <1>1, <1>6, ChunkNumbers
  <2>2. e \in 0 .. (max_elements(h.chunks[k]) - 1)
    BY <1>1, <1>6, <1>7, FreeElement
  <2>. QED  BY <2>1, <2>2, ElementIn
<1>15. CASE ~ (h.chunks[k].nfree > 1)
  <2>1. r.heap = g /\ r.ptr = element(h.chunks[k], e)
    BY <1>9, <1>15
  <2>2. Listed(g)
    BY <1>1, <1>11, <1>12, <1>13 DEF Listed, Aside
  <2>3. Grown(h, g)
    BY <1>10, <1>11 DEF Grown, AllAlike
  <2>. QED  BY <1>10, <1>11, <1>14, <2>1, <2>2, <2>3 DEF Good
<1>16. CASE h.chunks[k].nfree > 1
  <2> DEFINE f == put_front(g, k, prev)
             S == Class(g, t)
  <2>1. r.heap = f /\ r.ptr = element(h.chunks[k], e)
    BY <1>9, <1>16
  <2>2. k \in Ids(g) /\ S \in SUBSET Ids(g) /\ k \in S /\ S \cup {k} = S /\ t = get_type(g.chunks[k].elm_size)
    BY <1>6, <1>11 DEF Class
  <2>3. prev \in S \cup {0} /\ (prev = 0 <=> k = g.buckets[t]) /\ (prev # 0 => Links(g)[prev] = k)
    BY <1>4, <1>5, <1>11
  <2>4. Fronted(g, f, k, t, S)
    <3>1. Chain(Links(g), g.buckets[t], S)
      BY <1>13
    <3> HIDE DEF S
    <3>. QED  BY <1>11, <1>12, <2>2, <2>3, <3>1, PutFrontIs
  <2> HIDE DEF f
  <2>5. Listed(f)
    <3>1. g.large \in Ids(g) \cup {0} /\ g.large_free \in Ids(g) \cup {0}
      BY <1>1, <1>11 DEF Listed, Aside
    <3>. QED  BY <1>11, <1>13, <2>2, <2>4, <3>1, PutFrontListed
  <2>6. Sound(f)
    BY <1>10, <2>4, RelinkedSound DEF Fronted
  <2>7. AllAlike(h, f) /\ Ids(f) = Ids(h)
    <3>1. AllAlike(g, f) /\ Ids(f) = Ids(g)
      BY <2>4, AlikeIds DEF Relinked, Fronted
    <3>. QED  BY <1>11, <3>1 DEF AllAlike, Alike
  <2>8. Grown(h, f)
    <3>1. \A j \in Ids(h) : h.chunks[j].used \subseteq f.chunks[j].used
      BY <1>10, <1>11, <2>4 DEF Relinked, Fronted
    <3>. QED  BY <2>7, <3>1 DEF Grown, AllAlike
  <2>9. Aside(h, f)
    <3>1. \A j \in LargeIds(h) : j \in Ids(g) /\ j \notin S \cup {k}
      BY <1>6, <1>11 DEF LargeIds, Class
    <3>2. \A j \in LargeIds(h) : Links(f)[j] = Links(h)[j]
      <4> HIDE DEF S
      <4>. QED  BY <1>11, <2>4, <3>1 DEF Fronted
    <3>. QED  BY <1>11, <2>4, <3>2 DEF Aside, Relinked, Fronted
  <2>10. f.nfrees = g.nfrees /\ Holds(f, element(h.chunks[k], e), t)
    BY <1>10, <2>4, RelinkedHolds DEF Relinked, Fronted
  <2>. QED  BY <1>10, <1>14, <2>1, <2>5, <2>6, <2>7, <2>8, <2>9, <2>10 DEF Good
<1>. QED  BY <1>15, <1>16

-----------------------------------------------------------------------------
(* The lists of large chunks.                                              *)

Lists == {"large", "large_free"}

Headed(h, g, list, k) ==
    /\ Relinked(h, g) /\ Links(g) = Links(h) /\ g.buckets = h.buckets
    /\ g[list] = k /\ \A l \in Lists : l # list => g[l] = h[l]

LEMMA SetHeadIs ==
    ASSUME NEW h \in HeapT, NEW list \in Lists, NEW k \in Nat
    PROVE  Headed(h, [h EXCEPT ![list] = k], list, k)
<1> DEFINE g == [h EXCEPT ![list] = k]
<1>1. CASE list = "large"
  <2>1. g \in HeapT /\ g.chunks = h.chunks /\ g.buckets = h.buckets /\ g.nfrees = h.nfrees /\ g.next_free = h.next_free
        /\ g["large"] = k /\ g["large_free"] = h["large_free"]
    BY <1>1 DEF HeapT
  <2> HIDE DEF g
  <2>2. Relinked(h, g) /\ Links(g) = Links(h)
    BY <2>1 DEF Relinked, AllAlike, Alike, Links, Ids
  <2>. QED  BY <1>1, <2>1, <2>2 DEF Lists, g, Headed
<1>2. CASE list = "large_free"
  <2>1. g \in HeapT /\ g.chunks = h.chunks /\ g.buckets = h.buckets /\ g.nfrees = h.nfrees /\ g.next_free = h.next_free
        /\ g["large_free"] = k /\ g["large"] = h["large"]
    BY <1>2 DEF HeapT
  <2> HIDE DEF g
  <2>2. Relinked(h, g) /\ Links(g) = Links(h)
    BY <2>1 DEF Relinked, AllAlike, Alike, Links, Ids
  <2>. QED  BY <1>2, <2>1, <2>2 DEF Lists, g, Headed
<1>. QED  BY <1>1, <1>2 DEF Lists

\* Only chunks of T and the head of one list have changed.
Spliced(h, g, list, T) ==
    /\ Relinked(h, g) /\ Nexts(g, Len(g.chunks)) /\ g.buckets = h.buckets
    /\ g[list] \in Ids(g) \cup {0} /\ \A l \in Lists : l # list => g[l] = h[l]
    /\ \A j \in Ids(h) : j \notin T => Links(g)[j] = Links(h)[j]

\* Chunk k, found behind prev, leaves a list.
LEMMA UnlinkIs ==
    ASSUME NEW h \in HeapT, Nexts(h, Len(h.chunks)), NEW list \in Lists, NEW S \in SUBSET Ids(h),
           Chain(Links(h), h[list], S), NEW k \in S, NEW prev \in S \cup {0},
           prev = 0 <=> k = h[list], prev # 0 => Links(h)[prev] = k
    PROVE  LET g == Unlink(h, list, k, prev) IN
           /\ Spliced(h, g, list, S) /\ Chain(Links(g), g[list], S \ {k})
<1> DEFINE g == Unlink(h, list, k, prev)
<1>1. k \in Ids(h) /\ k # 0 /\ h.chunks[k].next \in Nat /\ Links(h)[k] = h.chunks[k].next
      /\ \A j \in Ids(h) : Links(h)[j] \in Ids(h) \cup {0}
  <2>1. k \in Ids(h) /\ k # 0
    BY HeapParts
  <2>. QED  BY <2>1, ChunkIn, ChunkFields, NextsAre DEF Links
<1>2. CASE prev = 0
  <2>1. g = [h EXCEPT ![list] = h.chunks[k].next]
    BY <1>2 DEF Unlink
  <2> HIDE DEF g
  <2>2. Relinked(h, g) /\ Links(g) = Links(h) /\ g.buckets = h.buckets
        /\ g[list] = h.chunks[k].next /\ \A l \in Lists : l # list => g[l] = h[l]
    <3>1. Headed(h, g, list, h.chunks[k].next)
      BY <1>1, <2>1, SetHeadIs
    <3>. QED  BY <3>1 DEF Headed
  <2>3. Ids(g) = Ids(h) /\ g \in HeapT
    BY <2>2, AlikeIds DEF Relinked
  <2>4. Nexts(g, Len(g.chunks))
    BY <1>1, <2>2, <2>3, NextsAre
  <2>5. Chain(Links(g), g[list], S \ {k})
    BY <1>1, <1>2, <2>2, ChainBehead
  <2>6. g[list] \in Ids(g) \cup {0}
    BY <1>1, <2>2, <2>3
  <2>. QED  BY <2>2, <2>4, <2>5, <2>6 DEF Spliced, g
<1>3. CASE prev # 0
  <2>1. g = SetNext(h, prev, h.chunks[k].next)
    BY <1>3 DEF Unlink
  <2> HIDE DEF g
  <2>2. prev \in Ids(h) /\ prev \in S
    BY <1>3
  <2>3. Relinked(h, g) /\ Links(g) = [Links(h) EXCEPT ![prev] = Links(h)[k]]
        /\ g.buckets = h.buckets /\ g.large = h.large /\ g.large_free = h.large_free
    BY <1>1, <2>1, <2>2, SetNextIs
  <2>4. \A l \in Lists : g[l] = h[l]
    BY <2>3 DEF Lists
  <2>5. Ids(g) = Ids(h) /\ g \in HeapT
    BY <2>3, AlikeIds DEF Relinked
  <2>6. \A j \in Ids(h) : Links(g)[j] = IF j = prev THEN Links(h)[k] ELSE Links(h)[j]
    <3>1. Links(h) = [j \in Ids(h) |-> Links(h)[j]]
      BY DEF Links
    <3>. QED  BY <2>3, <3>1
  <2>7. Nexts(g, Len(g.chunks))
    BY <1>1, <2>5, <2>6, NextsAre
  <2>8. Chain(Links(g), h[list], S \ {k})
    <3>1. Links(h)[prev] = k /\ Links(g)[prev] = Links(h)[k] /\ \A j \in S \ {prev, k} : Links(g)[j] = Links(h)[j]
      BY <1>3, <2>2, <2>6
    <3>. QED  BY <2>2, <3>1, ChainRemove
  <2>9. h[list] \in Ids(h) \cup {0}
    BY ChainEnds
  <2>. QED  BY <2>2, <2>3, <2>4, <2>5, <2>6, <2>7, <2>8, <2>9 DEF Spliced, g
<1>. QED  BY <1>2, <1>3

\* Chunk k comes into a list; the list is whole unless k keeps an old successor.
LEMMA PutSortedIs ==
    ASSUME NEW h \in HeapT, Nexts(h, Len(h.chunks)), NEW list \in Lists, NEW S \in SUBSET Ids(h),
           Chain(Links(h), h[list], S), NEW k \in Ids(h), k \notin S
    PROVE  LET g == put_sorted(h, list, k) IN
           /\ Spliced(h, g, list, S \cup {k})
           /\ ~ Tangles(h, list, k) => Chain(Links(g), g[list], S \cup {k})
<1> DEFINE g == put_sorted(h, list, k)
           found == {j \in DOMAIN h.chunks : h.chunks[j].elm_size >= h.chunks[k].elm_size}
<1>1. PICK p : p = PlaceOf(h, list, k)
  OBVIOUS
<1>2. PICK N \in Nat : N = Len(h.chunks) /\ Ids(h) = 1 .. N /\ Nexts(h, N)
  BY HeapParts DEF Ids
<1>3. /\ p.chunk \in (S \cap found) \cup {0}
      /\ p.prev \in (S \ found) \cup {0} /\ (p.prev = 0 <=> p.chunk = h[list])
      /\ p.prev # 0 => Links(h)[p.prev] = p.chunk
  <2>1. p = Seek(h, h[list], found)
    BY <1>1 DEF PlaceOf
  <2> HIDE DEF found
  <2>. QED  BY <1>2, <2>1, SeekIs
<1> HIDE DEF found
<1>4. PICK chunk, prev : chunk = p.chunk /\ prev = p.prev
  OBVIOUS
<1>5. g = IF prev = 0 THEN [SetNext(h, k, h[list]) EXCEPT ![list] = k]
          ELSE IF chunk # 0 THEN SetNext(SetNext(h, k, chunk), prev, k)
          ELSE SetNext(h, prev, k)
  BY <1>1, <1>4 DEF put_sorted
<1> HIDE DEF g
<1>6. chunk \in S \cup {0} /\ prev \in S \cup {0} /\ (prev # 0 => Links(h)[prev] = chunk)
  BY <1>3, <1>4
<1>7. k # 0 /\ k \in Nat /\ h[list] \in S \cup {0} /\ S \cup {0} \subseteq Nat /\ \A j \in Ids(h) : Links(h)[j] \in Ids(h) \cup {0}
  <2>1. h[list] \in S \cup {0}
    BY ChainEnds
  <2>2. \A j \in Ids(h) : Links(h)[j] \in Ids(h) \cup {0}
    BY NextsAre
  <2>. QED  BY HeapParts, <2>1, <2>2
<1>8. Links(h) = [j \in Ids(h) |-> Links(h)[j]] /\ Links(h)[k] = h.chunks[k].next
  BY DEF Links
<1>9. CASE prev = 0
  <2> DEFINE mid == SetNext(h, k, h[list])
  <2>1. Relinked(h, mid) /\ Links(mid) = [Links(h) EXCEPT ![k] = h[list]]
        /\ mid.buckets = h.buckets /\ mid.large = h.large /\ mid.large_free = h.large_free
    <3>1. h[list] \in Nat
      BY <1>7
    <3>. QED  BY <3>1, SetNextIs
  <2>2. g = [mid EXCEPT ![list] = k]
    BY <1>5, <1>9
  <2> HIDE DEF mid
  <2>3. mid \in HeapT /\ \A l \in Lists : mid[l] = h[l]
    BY <2>1 DEF Relinked, Lists
  <2>4. Relinked(mid, g) /\ Links(g) = Links(mid) /\ g.buckets = mid.buckets
        /\ g[list] = k /\ \A l \in Lists : l # list => g[l] = mid[l]
    <3>1. Headed(mid, g, list, k)
      BY <1>7, <2>2, <2>3, SetHeadIs
    <3>. QED  BY <3>1 DEF Headed
  <2>5. Relinked(h, g)
    BY <2>1, <2>4, RelinkedAgain
  <2>6. Ids(g) = Ids(h) /\ g \in HeapT
    BY <2>5, AlikeIds DEF Relinked
  <2>7. \A j \in Ids(h) : Links(g)[j] = IF j = k THEN h[list] ELSE Links(h)[j]
    BY <1>8, <2>1, <2>4
  <2>8. Nexts(g, Len(g.chunks))
    BY <1>7, <2>6, <2>7, NextsAre
  <2>9. Chain(Links(g), k, S \cup {k})
    <3>1. Links(g)[k] = h[list] /\ \A j \in S : Links(g)[j] = Links(h)[j]
      BY <2>7
    <3>. QED  BY <1>7, <3>1, ChainFront
  <2>10. Spliced(h, g, list, S \cup {k})
    BY <2>1, <2>3, <2>4, <2>5, <2>6, <2>7, <2>8 DEF Spliced
  <2>. QED  BY <2>4, <2>9, <2>10 DEF g
<1>10. CASE prev # 0 /\ chunk # 0
  <2> DEFINE mid == SetNext(h, k, chunk)
  <2>0. chunk \in Nat /\ prev \in Ids(h) /\ prev # k
    BY <1>6, <1>7, <1>10
  <2>1. Relinked(h, mid) /\ Links(mid) = [Links(h) EXCEPT ![k] = chunk]
        /\ mid.buckets = h.buckets /\ mid.large = h.large /\ mid.large_free = h.large_free
    BY <2>0, SetNextIs
  <2>2. g = SetNext(mid, prev, k)
    BY <1>5, <1>10
  <2> HIDE DEF mid
  <2>3. mid \in HeapT /\ Ids(mid) = Ids(h)
    BY <2>1, AlikeIds DEF Relinked
  <2>4. Relinked(mid, g) /\ Links(g) = [Links(mid) EXCEPT ![prev] = k]
        /\ g.buckets = mid.buckets /\ g.large = mid.large /\ g.large_free = mid.large_free
    BY <1>7, <2>0, <2>2, <2>3, SetNextIs
  <2>5. Relinked(h, g) /\ g.buckets = h.buckets /\ \A l \in Lists : g[l] = h[l]
    BY <2>1, <2>4, RelinkedAgain DEF Lists
  <2>6. Ids(g) = Ids(h) /\ g \in HeapT
    BY <2>5, AlikeIds DEF Relinked
  <2>7. \A j \in Ids(h) : Links(g)[j] = IF j = prev THEN k ELSE IF j = k THEN chunk ELSE Links(h)[j]
    BY <1>8, <2>1, <2>4
  <2>8. Nexts(g, Len(g.chunks))
    BY <1>6, <1>7, <2>6, <2>7, NextsAre
  <2>9. Chain(Links(g), h[list], S \cup {k})
    <3>1. prev \in S /\ Links(h)[prev] = chunk /\ Links(g)[prev] = k /\ Links(g)[k] = chunk
          /\ \A j \in S \ {prev} : Links(g)[j] = Links(h)[j]
      BY <1>6, <1>10, <2>0, <2>7
    <3>. QED  BY <1>7, <3>1, ChainAfter
  <2>10. Spliced(h, g, list, S \cup {k})
    <3>1. g[list] \in Ids(g) \cup {0}
      BY <1>7, <2>5, <2>6
    <3>2. prev \in S
      BY <1>6, <1>10
    <3>3. \A j \in Ids(h) : j \notin S \cup {k} => Links(g)[j] = Links(h)[j]
      BY <2>7, <3>2
    <3>. QED  BY <2>5, <2>8, <3>1, <3>3 DEF Spliced
  <2>. QED  BY <2>5, <2>9, <2>10 DEF g
<1>11. CASE prev # 0 /\ chunk = 0
  <2>0. prev \in Ids(h) /\ prev # k
    BY <1>6, <1>11, HeapParts
  <2>1. g = SetNext(h, prev, k)
    BY <1>5, <1>11
  <2>2. Relinked(h, g) /\ Links(g) = [Links(h) EXCEPT ![prev] = k]
        /\ g.buckets = h.buckets /\ g.large = h.large /\ g.large_free = h.large_free
    BY <1>7, <2>0, <2>1, SetNextIs
  <2>3. Ids(g) = Ids(h) /\ g \in HeapT /\ \A l \in Lists : g[l] = h[l]
    BY <2>2, AlikeIds DEF Relinked, Lists
  <2>4. \A j \in Ids(h) : Links(g)[j] = IF j = prev THEN k ELSE Links(h)[j]
    BY <1>8, <2>2
  <2>5. Nexts(g, Len(g.chunks))
    BY <1>7, <2>3, <2>4, NextsAre
  <2>6. ASSUME ~ Tangles(h, list, k) PROVE Chain(Links(g), h[list], S \cup {k})
    <3>1. Links(h)[k] = 0
      BY <1>1, <1>4, <1>8, <1>11, <2>6 DEF Tangles
    <3>2. prev \in S /\ Links(h)[prev] = chunk /\ Links(g)[prev] = k /\ Links(g)[k] = chunk
          /\ \A j \in S \ {prev} : Links(g)[j] = Links(h)[j]
      BY <1>6, <1>11, <2>0, <2>4, <3>1
    <3>. QED  BY <1>7, <3>2, ChainAfter
  <2>7. Spliced(h, g, list, S \cup {k})
    <3>1. g[list] \in Ids(g) \cup {0}
      BY <1>7, <2>3
    <3>2. prev \in S
      BY <1>6, <1>11
    <3>3. \A j \in Ids(h) : j \notin S \cup {k} => Links(g)[j] = Links(h)[j]
      BY <2>4, <3>2
    <3>. QED  BY <2>2, <2>3, <2>5, <3>1, <3>3 DEF Spliced
  <2>. QED  BY <2>3, <2>6, <2>7 DEF g
<1>. QED  BY <1>9, <1>10, <1>11

-----------------------------------------------------------------------------
(* A new chunk.                                                            *)

LEMMA NewChunkIs ==
    ASSUME NEW elm \in Nat \ {0}, NEW begin \in Nat, NEW bytes \in Nat, NEW at \in Nat, NEW n \in Nat,
           n = max_elements([elm_size |-> elm, bytes |-> bytes])
    PROVE  LET c == NewChunk(elm, begin, bytes, at) IN
           /\ c \in ChunkT /\ c.elm_size = elm /\ c.begin = begin /\ c.bytes = bytes /\ c.at = at
           /\ c.next = 0 /\ c.used = {} /\ c.nfree = n /\ max_elements(c) = n
<1> DEFINE b == [elm_size |-> elm, begin |-> begin, bytes |-> bytes, at |-> at,
                 next |-> 0, used |-> {}, nfree |-> 0]
           c == NewChunk(elm, begin, bytes, at)
<1>1. max_elements(b) = n
  <2>1. b.bytes = bytes /\ b.elm_size = elm
    OBVIOUS
  <2> HIDE DEF b
  <2>. QED  BY <2>1 DEF max_elements, first_element
<1>2. c = [b EXCEPT !.nfree = n]
  <2>1. c = [b EXCEPT !.nfree = max_elements(b)]
    BY DEF NewChunk
  <2>. QED  BY <1>1, <2>1
<1>3. c \in ChunkT /\ c.elm_size = elm /\ c.begin = begin /\ c.bytes = bytes /\ c.at = at
      /\ c.next = 0 /\ c.used = {} /\ c.nfree = n
  <2> HIDE DEF c
  <2>. QED  BY <1>2 DEF ChunkT
<1>4. max_elements(c) = n
  <2>1. b.bytes = bytes /\ b.elm_size = elm
    OBVIOUS
  <2> HIDE DEF b, c
  <2>. QED  BY <1>1, <1>3, <2>1, SameElements
<1>. QED  BY <1>3, <1>4 DEF c

\* g is h with one more chunk, like c, of class t.
Joined(h, g, c, t) ==
    /\ h \in HeapT /\ g \in HeapT /\ c \in ChunkT /\ Len(g.chunks) = Len(h.chunks) + 1
    /\ \A j \in Ids(h) : /\ Alike(h.chunks[j], g.chunks[j])
                         /\ g.chunks[j].used = h.chunks[j].used /\ g.chunks[j].nfree = h.chunks[j].nfree
    /\ LET d == g.chunks[Len(h.chunks) + 1] IN Alike(c, d) /\ d.used = c.used /\ d.nfree = c.nfree
    /\ g.next_free = h.next_free + c.bytes
    /\ \A u \in Types : g.nfrees[u] = h.nfrees[u] + IF u = t THEN c.nfree ELSE 0

\* A chunk that may join a heap.
Fits(h, c, t) ==
    /\ ChunkOK(c) /\ c.used = {} /\ c.begin = h.next_free
    /\ Holds(h, c.at, InfoType) /\ \A j \in Ids(h) : h.chunks[j].at # c.at
    /\ t = IF IsLarge(c) THEN LARGE_CHUNK ELSE get_type(c.elm_size)

LEMMA JoinedIds ==
    ASSUME NEW h, NEW g, NEW c, NEW t, Joined(h, g, c, t), Fits(h, c, t)
    PROVE  LET k == Len(h.chunks) + 1 IN
           /\ Ids(g) = Ids(h) \cup {k} /\ k \notin Ids(h)
           /\ \A u \in Types : Class(g, u) = Class(h, u) \cup IF u = t THEN {k} ELSE {}
           /\ LargeIds(g) = LargeIds(h) \cup IF t = LARGE_CHUNK THEN {k} ELSE {}
<1> DEFINE k == Len(h.chunks) + 1
<1>1. Ids(g) = Ids(h) \cup {k} /\ k \notin Ids(h)
  <2>1. Len(h.chunks) \in Nat /\ Len(g.chunks) = Len(h.chunks) + 1
    BY HeapParts DEF Joined
  <2>. QED  BY <2>1 DEF Ids
<1>2. \A j \in Ids(h) : (IsLarge(g.chunks[j]) <=> IsLarge(h.chunks[j])) /\ g.chunks[j].elm_size = h.chunks[j].elm_size
  <2>1. \A j \in Ids(h) : Alike(h.chunks[j], g.chunks[j])
    BY DEF Joined
  <2>2. \A j \in Ids(h) : IsLarge(g.chunks[j]) <=> IsLarge(h.chunks[j])
    BY <2>1, AlikeFacts
  <2>. QED  BY <2>1, <2>2 DEF Alike
<1>3. (IsLarge(g.chunks[k]) <=> IsLarge(c)) /\ g.chunks[k].elm_size = c.elm_size
  <2>1. Alike(c, g.chunks[k])
    BY DEF Joined
  <2>. QED  BY <2>1, AlikeFacts DEF Alike
<1>4. LARGE_CHUNK \notin Types
  BY ClassTypes
<1>5. (IsLarge(c) => t = LARGE_CHUNK) /\ (~ IsLarge(c) => t = get_type(c.elm_size) /\ t \in Types)
  BY DEF Fits, ChunkOK, Proper
<1> HIDE DEF k
<1>6. ASSUME NEW u \in Types PROVE Class(g, u) = Class(h, u) \cup IF u = t THEN {k} ELSE {}
  <2>1. CASE u = t
    <3>1. ~ IsLarge(g.chunks[k]) /\ get_type(g.chunks[k].elm_size) = u
      BY <1>3, <1>4, <1>5, <2>1
    <3>. QED  BY <1>1, <1>2, <2>1, <3>1 DEF Class
  <2>2. CASE u # t
    <3>1. IsLarge(g.chunks[k]) \/ get_type(g.chunks[k].elm_size) # u
      BY <1>3, <1>5, <2>2
    <3>. QED  BY <1>1, <1>2, <2>2, <3>1 DEF Class
  <2>. QED  BY <2>1, <2>2
<1>7. LargeIds(g) = LargeIds(h) \cup IF t = LARGE_CHUNK THEN {k} ELSE {}
  <2>1. IsLarge(g.chunks[k]) <=> t = LARGE_CHUNK
    BY <1>3, <1>4, <1>5
  <2>. QED  BY <1>1, <1>2, <2>1 DEF LargeIds
<1>. QED  BY <1>1, <1>6, <1>7 DEF k

LEMMA JoinedSound ==
    ASSUME NEW h, Sound(h), NEW g, NEW c, NEW t, Joined(h, g, c, t), Fits(h, c, t)
    PROVE  Sound(g)
<1> DEFINE k == Len(h.chunks) + 1
           d == g.chunks[k]
<1>1. Ids(g) = Ids(h) \cup {k} /\ k \notin Ids(h) /\ \A u \in Types : Class(g, u) = Class(h, u) \cup IF u = t THEN {k} ELSE {}
  BY JoinedIds
<1>2. \A j \in Ids(h) : /\ Alike(h.chunks[j], g.chunks[j])
                        /\ g.chunks[j].used = h.chunks[j].used /\ g.chunks[j].nfree = h.chunks[j].nfree
  BY DEF Joined
<1>3. Alike(c, d) /\ d.used = c.used /\ d.nfree = c.nfree
  BY DEF Joined
<1>4. h \in HeapT /\ g \in HeapT /\ c \in ChunkT /\ Shaped(h) /\ Laid(h)
  BY DEF Joined, Sound
<1>5. PICK N \in Nat : N = Len(h.chunks) /\ Ids(h) = 1 .. N /\ k = N + 1 /\ Len(g.chunks) = N + 1
  <2>1. Len(h.chunks) \in Nat
    BY <1>4, HeapParts
  <2>. QED  BY <2>1 DEF Ids, Joined
<1> HIDE DEF k, d
<1>6. Shaped(g)
  <2>1. \A j \in Ids(h) : ChunkOK(g.chunks[j])
    <3>1. \A j \in Ids(h) : ChunkOK(h.chunks[j])
      BY <1>4 DEF Shaped
    <3>. QED  BY <1>2, <3>1, AlikeChunkOK
  <2>2. ChunkOK(d)
    BY <1>3, AlikeChunkOK DEF Fits
  <2>. QED  BY <1>1, <1>4, <2>1, <2>2 DEF Shaped, d
<1>7. Laid(g)
  <2>1. d.begin = h.next_free /\ d.bytes = c.bytes /\ g.next_free = h.next_free + c.bytes
        /\ c.bytes \in Nat /\ h.next_free \in Nat
    BY <1>3, <1>4, HeapParts, ChunkFields DEF Alike, Fits, Joined
  <2>2. \A j \in Ids(h) : /\ g.chunks[j].begin = h.chunks[j].begin /\ g.chunks[j].bytes = h.chunks[j].bytes
                          /\ h.chunks[j].begin \in Nat /\ h.chunks[j].bytes \in Nat
                          /\ h.chunks[j].begin + h.chunks[j].bytes <= h.next_free
    <3>1. \A j \in Ids(h) : h.chunks[j].begin \in Nat /\ h.chunks[j].bytes \in Nat
      BY <1>4, ChunkNumbers
    <3>. QED  BY <1>2, <1>4, <3>1 DEF Alike, Laid
  <2>3. \A j \in Ids(g) : g.chunks[j].begin + g.chunks[j].bytes <= g.next_free
    BY <1>1, <2>1, <2>2 DEF d
  <2>4. ASSUME NEW i \in Ids(g), NEW j \in Ids(g), i < j
        PROVE  g.chunks[i].begin + g.chunks[i].bytes <= g.chunks[j].begin
    <3>1. i \in Ids(h)
      BY <1>1, <1>5, <2>4
    <3>2. CASE j \in Ids(h)
      <4>1. h.chunks[i].begin + h.chunks[i].bytes <= h.chunks[j].begin
        BY <1>4, <2>4, <3>1, <3>2 DEF Laid
      <4>. QED  BY <2>2, <3>1, <3>2, <4>1
    <3>3. CASE j = k
      BY <2>1, <2>2, <3>1, <3>3 DEF d
    <3>. QED  BY <1>1, <3>2, <3>3
  <2>. QED  BY <2>3, <2>4 DEF Laid
<1>8. Counted(g)
  <2> SUFFICES ASSUME NEW u \in Types PROVE g.nfrees[u] = SumTo(Frees(g, u), Len(g.chunks))
    BY DEF Counted
  <2>1. h.nfrees[u] = SumTo(Frees(h, u), N)
    BY <1>5 DEF Sound, Counted
  <2>2. \A j \in Ids(h) : h.chunks[j].nfree \in Nat
    BY <1>4, ChunkNumbers
  <2>3. c.nfree \in Nat
    BY <1>4, ChunkFields
  <2>4. Frees(h, u) \in [1 .. N -> Int]
    BY <1>5, <2>2 DEF Frees
  <2>5. Ids(g) = 1 .. (N + 1)
    BY <1>5 DEF Ids
  <2>6. \A j \in 1 .. N : Frees(g, u)[j] = Frees(h, u)[j]
    <3>1. \A j \in 1 .. N : j \in Ids(h) /\ j \in Ids(g) /\ j # k
      BY <1>1, <1>5
    <3>2. \A j \in 1 .. N : j \in Class(g, u) <=> j \in Class(h, u)
      BY <1>1, <3>1
    <3>. QED  BY <1>2, <3>1, <3>2 DEF Frees
  <2>7. Frees(g, u)[N + 1] = IF u = t THEN c.nfree ELSE 0
    <3>1. k \in Ids(g) /\ k = N + 1 /\ (k \in Class(g, u) <=> u = t)
      <4>1. k \notin Class(h, u)
        BY <1>1 DEF Class
      <4>. QED  BY <1>1, <1>5, <4>1
    <3>2. Frees(g, u)[k] = IF k \in Class(g, u) THEN d.nfree ELSE 0
      BY <3>1 DEF Frees, d
    <3>. QED  BY <1>3, <3>1, <3>2
  <2>8. Frees(g, u) \in [1 .. (N + 1) -> Int]
    <3>1. \A j \in Ids(g) : g.chunks[j].nfree \in Nat
      BY <1>4, <1>6, ChunkNumbers
    <3>. QED  BY <2>5, <3>1 DEF Frees
  <2>9. SumTo(Frees(g, u), N + 1) = SumTo(Frees(h, u), N) + Frees(g, u)[N + 1]
    BY <2>4, <2>6, <2>8, SumToAppend
  <2>10. g.nfrees[u] = h.nfrees[u] + IF u = t THEN c.nfree ELSE 0
    BY DEF Joined
  <2>. QED  BY <1>5, <2>1, <2>7, <2>9, <2>10
<1>9. Informed(g)
  <2>1. \A a : \A u \in Types : Holds(h, a, u) => Holds(g, a, u)
    <3> SUFFICES ASSUME NEW a, NEW u \in Types, Holds(h, a, u) PROVE Holds(g, a, u)
      OBVIOUS
    <3>1. PICK j \in Class(h, u) : \E e \in h.chunks[j].used : a = element(h.chunks[j], e)
      BY DEF Holds
    <3>2. PICK e \in h.chunks[j].used : a = element(h.chunks[j], e)
      BY <3>1
    <3>3. j \in Ids(h) /\ j \in Class(g, u)
      BY <1>1 DEF Class
    <3>4. e \in g.chunks[j].used /\ element(g.chunks[j], e) = element(h.chunks[j], e)
      BY <1>2, <3>3, AlikeFacts
    <3>. QED  BY <3>2, <3>3, <3>4 DEF Holds
  <2>2. InfoType \in Types
    BY InfoClass
  <2>3. d.at = c.at /\ Holds(h, c.at, InfoType) /\ \A j \in Ids(h) : h.chunks[j].at # c.at /\ g.chunks[j].at = h.chunks[j].at
    BY <1>2, <1>3 DEF Alike, Fits
  <2>4. \A j \in Ids(g) : Holds(g, g.chunks[j].at, InfoType)
    <3>1. \A j \in Ids(h) : Holds(h, h.chunks[j].at, InfoType)
      BY DEF Sound, Informed
    <3>. QED  BY <1>1, <2>1, <2>2, <2>3, <3>1 DEF d
  <2>5. \A i, j \in Ids(h) : h.chunks[i].at = h.chunks[j].at => i = j
    BY DEF Sound, Informed
  <2>6. \A i, j \in Ids(g) : g.chunks[i].at = g.chunks[j].at => i = j
    BY <1>1, <2>3, <2>5 DEF d
  <2>. QED  BY <2>4, <2>6 DEF Informed
<1>. QED  BY <1>6, <1>7, <1>8, <1>9 DEF Sound

\* A chunk behind the others, not yet in a list.
Added(h, c, bytes) == [h EXCEPT !.chunks = Append(@, c), !.next_free = @ + bytes]
Behind(h, g, c) ==
    /\ g \in HeapT /\ Len(g.chunks) = Len(h.chunks) + 1 /\ Ids(g) = Ids(h) \cup {Len(h.chunks) + 1}
    /\ Len(h.chunks) + 1 \notin Ids(h)
    /\ g.chunks[Len(h.chunks) + 1] = c /\ \A j \in Ids(h) : g.chunks[j] = h.chunks[j]
    /\ g.buckets = h.buckets /\ g.nfrees = h.nfrees /\ g.large = h.large /\ g.large_free = h.large_free
    /\ g.next_free = h.next_free + c.bytes
    /\ Links(g)[Len(h.chunks) + 1] = c.next /\ \A j \in Ids(h) : Links(g)[j] = Links(h)[j]

LEMMA AddedIs ==
    ASSUME NEW h \in HeapT, NEW c \in ChunkT
    PROVE  Behind(h, Added(h, c, c.bytes), c)
<1> DEFINE g == Added(h, c, c.bytes)
           k == Len(h.chunks) + 1
           s == Append(h.chunks, c)
<1>1. h.chunks \in Seq(ChunkT) /\ Len(h.chunks) \in Nat /\ h.next_free \in Nat /\ c.bytes \in Nat
  BY HeapParts, ChunkFields
<1>2. s \in Seq(ChunkT) /\ Len(s) = k /\ s[k] = c /\ \A j \in 1 .. Len(h.chunks) : s[j] = h.chunks[j]
  BY <1>1
<1>3. h.next_free + c.bytes \in Nat
  BY <1>1
<1>4. g = [h EXCEPT !.chunks = s, !.next_free = h.next_free + c.bytes]
  BY DEF Added
<1> HIDE DEF s, g
<1>5. g \in HeapT /\ g.chunks = s /\ g.buckets = h.buckets /\ g.nfrees = h.nfrees /\ g.large = h.large
      /\ g.large_free = h.large_free /\ g.next_free = h.next_free + c.bytes
  BY <1>2, <1>3, <1>4 DEF HeapT
<1>6. Ids(g) = Ids(h) \cup {k} /\ k \notin Ids(h) /\ Ids(h) = 1 .. Len(h.chunks)
  BY <1>1, <1>2, <1>5 DEF Ids
<1>7. g.chunks[k] = c /\ \A j \in Ids(h) : g.chunks[j] = h.chunks[j]
  BY <1>2, <1>5, <1>6
<1>8. Links(g)[k] = c.next /\ \A j \in Ids(h) : Links(g)[j] = Links(h)[j]
  BY <1>6, <1>7 DEF Links
<1>. QED  BY <1>2, <1>5, <1>6, <1>7, <1>8 DEF Behind, g

\* Lists of large chunks that an operation left alone.
LEMMA AsideLarges ==
    ASSUME NEW h, NEW g, LargeIds(g) = LargeIds(h), Aside(h, g), NEW U, Larges(h, U)
    PROVE  Larges(g, U)
<1>1. U \subseteq LargeIds(h) /\ Chain(Links(h), h.large, U) /\ Chain(Links(h), h.large_free, LargeIds(h) \ U)
  BY DEF Larges
<1>2. \A j \in LargeIds(h) : Links(g)[j] = Links(h)[j]
  BY DEF Aside
<1>3. Chain(Links(g), h.large, U)
  BY <1>1, <1>2, ChainFrame
<1>4. \A j \in LargeIds(h) \ U : Links(g)[j] = Links(h)[j]
  BY <1>2
<1>5. Chain(Links(g), h.large_free, LargeIds(h) \ U)
  BY <1>1, <1>4, ChainFrame
<1>. QED  BY <1>1, <1>3, <1>5 DEF Larges, Aside

\* The chunkinfo_t for a new chunk, and what the chunk is then like.
MadeFor(h, i, c, elm, bytes, n, t) ==
    /\ c \in ChunkT /\ c.next = 0 /\ c.elm_size = elm /\ c.bytes = bytes /\ c.nfree = n /\ c.begin = h.next_free
    /\ Fits(i.heap, c, t) /\ \A u : ~ Holds(h, c.at, u)

LEMMA InfoTaken ==
    ASSUME NEW h, Good(h), h.nfrees[InfoType] # 0, NEW i, i = TakeElement(h, InfoType),
           NEW elm \in Nat \ {0}, NEW bytes \in Nat, NEW n \in Nat, n = max_elements([elm_size |-> elm, bytes |-> bytes]),
           NEW t, \/ t = LARGE_CHUNK /\ elm = bytes /\ bytes >= 8
                  \/ t \in Types /\ Proper(t) /\ elm = get_size(t) /\ n >= 1,
           NEW c, c = NewChunk(elm, h.next_free, bytes, i.ptr)
    PROVE  MadeFor(h, i, c, elm, bytes, n, t)
<1>1. InfoType \in Types
  BY InfoClass
<1>2. /\ Good(i.heap) /\ Grown(h, i.heap) /\ AllAlike(h, i.heap) /\ Aside(h, i.heap)
      /\ i.ptr \in Nat /\ Holds(i.heap, i.ptr, InfoType) /\ \A u : ~ Holds(h, i.ptr, u)
  BY <1>1, TakeElementIs
<1>3. h.next_free \in Nat /\ h \in HeapT
  BY HeapParts DEF Good, Sound, Shaped
<1>4. /\ c \in ChunkT /\ c.elm_size = elm /\ c.begin = h.next_free /\ c.bytes = bytes /\ c.at = i.ptr
      /\ c.next = 0 /\ c.used = {} /\ c.nfree = n /\ max_elements(c) = n
  BY <1>2, <1>3, NewChunkIs
<1>5. IsLarge(c) <=> t = LARGE_CHUNK
  <2>1. CASE t = LARGE_CHUNK
    <3>1. elm = bytes
      BY <2>1, ClassTypes
    <3>. QED  BY <1>4, <2>1, <3>1 DEF IsLarge
  <2>2. CASE t # LARGE_CHUNK
    <3>1. max_elements(c) >= 1
      BY <1>4, <2>2
    <3>2. c.elm_size # c.bytes
      BY <1>4, <3>1, SmallIsNotLarge
    <3>. QED  BY <2>2, <3>2 DEF IsLarge
  <2>. QED  BY <2>1, <2>2
<1>6. ~ IsLarge(c) => t = get_type(c.elm_size) /\ Proper(t) /\ n >= 1 /\ elm = get_size(t)
  BY <1>4, <1>5 DEF Proper
<1>7. IsLarge(c) => c.bytes >= 8
  <2>1. t = LARGE_CHUNK => bytes >= 8
    BY ClassTypes
  <2>. QED  BY <1>4, <1>5, <2>1
<1>8. ChunkOK(c)
  <2>1. Cardinality({}) = 0
    BY FS_EmptySet
  <2>2. c.nfree = max_elements(c) - Cardinality(c.used)
    BY <1>4, <2>1
  <2>. QED  BY <1>4, <1>6, <1>7, <2>2 DEF ChunkOK
<1>9. \A j \in Ids(i.heap) : i.heap.chunks[j].at # c.at
  <2>1. Ids(i.heap) = Ids(h) /\ \A j \in Ids(h) : i.heap.chunks[j].at = h.chunks[j].at
    BY <1>2, AlikeIds DEF AllAlike, Alike
  <2>2. \A j \in Ids(h) : Holds(h, h.chunks[j].at, InfoType)
    BY DEF Good, Sound, Informed
  <2>. QED  BY <1>2, <1>4, <2>1, <2>2
<1>10. i.heap.next_free = h.next_free
  BY <1>2 DEF Aside
<1>11. t = IF IsLarge(c) THEN LARGE_CHUNK ELSE get_type(c.elm_size)
  BY <1>5, <1>6
<1>12. Fits(i.heap, c, t)
  BY <1>2, <1>4, <1>8, <1>9, <1>10, <1>11 DEF Fits
<1>. QED  BY <1>2, <1>4, <1>12 DEF MadeFor

\* A chunk that took an element of h for its chunkinfo_t makes h grow.
LEMMA JoinedGrown ==
    ASSUME NEW h, NEW i, Grown(h, i), AllAlike(h, i), NEW g, NEW c, NEW t, Joined(i, g, c, t), Fits(i, c, t),
           \A u : ~ Holds(h, c.at, u)
    PROVE  Grown(h, g)
<1>1. Ids(i) = Ids(h)
  BY AlikeIds
<1>2. Ids(g) = Ids(i) \cup {Len(i.chunks) + 1}
  BY JoinedIds
<1>3. \A k \in Ids(h) : Alike(h.chunks[k], g.chunks[k]) /\ h.chunks[k].used \subseteq g.chunks[k].used
  <2>1. \A k \in Ids(h) : Alike(h.chunks[k], i.chunks[k]) /\ h.chunks[k].used \subseteq i.chunks[k].used
    BY DEF Grown
  <2>2. \A k \in Ids(h) : Alike(i.chunks[k], g.chunks[k]) /\ g.chunks[k].used = i.chunks[k].used
    BY <1>1 DEF Joined
  <2>. QED  BY <2>1, <2>2 DEF Alike
<1>4. g.chunks[Len(i.chunks) + 1].at = c.at
  BY DEF Joined, Alike
<1>. QED  BY <1>1, <1>2, <1>3, <1>4 DEF Grown

\* A chunk that is put into a list joins the heap.
Tallied(f, g, c, t) == \A u \in Types : g.nfrees[u] = f.nfrees[u] + IF u = t THEN c.nfree ELSE 0

LEMMA JoinedIs ==
    ASSUME NEW h \in HeapT, NEW c \in ChunkT, NEW a, Behind(h, a, c), NEW f, Relinked(a, f),
           NEW g \in HeapT, g.chunks = f.chunks, g.next_free = f.next_free, NEW t, Tallied(f, g, c, t)
    PROVE  Joined(h, g, c, t)
<1> DEFINE k == Len(h.chunks) + 1
<1>1. /\ Len(a.chunks) = k /\ Ids(a) = Ids(h) \cup {k} /\ a.chunks[k] = c
      /\ \A j \in Ids(h) : a.chunks[j] = h.chunks[j]
      /\ a.nfrees = h.nfrees /\ a.next_free = h.next_free + c.bytes
  BY DEF Behind
<1>2. /\ Len(f.chunks) = Len(a.chunks) /\ f.nfrees = a.nfrees /\ f.next_free = a.next_free
      /\ \A j \in Ids(a) : Alike(a.chunks[j], f.chunks[j])
      /\ \A j \in Ids(a) : f.chunks[j].used = a.chunks[j].used /\ f.chunks[j].nfree = a.chunks[j].nfree
  BY DEF Relinked, AllAlike
<1>3. Len(g.chunks) = k
  BY <1>1, <1>2
<1>4. \A j \in Ids(h) : /\ Alike(h.chunks[j], g.chunks[j])
                        /\ g.chunks[j].used = h.chunks[j].used /\ g.chunks[j].nfree = h.chunks[j].nfree
  BY <1>1, <1>2
<1>5. Alike(c, g.chunks[k]) /\ g.chunks[k].used = c.used /\ g.chunks[k].nfree = c.nfree
  BY <1>1, <1>2
<1>6. \A u \in Types : g.nfrees[u] = h.nfrees[u] + IF u = t THEN c.nfree ELSE 0
  BY <1>1, <1>2 DEF Tallied
<1>7. g.next_free = h.next_free + c.bytes
  BY <1>1, <1>2
<1> HIDE DEF k
<1>8. k = Len(h.chunks) + 1
  BY DEF k
<1>. QED  BY <1>3, <1>4, <1>5, <1>6, <1>7, <1>8, Zenon DEF Joined

\* The lists of a heap in one with a chunk more.
LEMMA BehindLists ==
    ASSUME NEW h \in HeapT, NEW c \in ChunkT, c.next = 0, NEW a, Behind(h, a, c), Nexts(h, Len(h.chunks))
    PROVE  /\ Nexts(a, Len(a.chunks))
           /\ \A head, S : S \subseteq Ids(h) /\ Chain(Links(h), head, S) => Chain(Links(a), head, S)
<1>1. \A j \in Ids(h) : Links(h)[j] \in Ids(h) \cup {0}
  BY NextsAre
<1>2. \A j \in Ids(a) : Links(a)[j] \in Ids(a) \cup {0}
  BY <1>1 DEF Behind
<1>3. Nexts(a, Len(a.chunks))
  BY <1>2, NextsAre DEF Behind
<1>4. ASSUME NEW head, NEW S, S \subseteq Ids(h), Chain(Links(h), head, S) PROVE Chain(Links(a), head, S)
  <2>1. \A j \in S : Links(a)[j] = Links(h)[j]
    BY <1>4 DEF Behind
  <2>. QED  BY <1>4, <2>1, ChainFrame
<1>. QED  BY <1>3, <1>4

\* What a call that makes small chunks and takes elements leaves behind.
Extended(h, g) ==
    /\ Good(g) /\ Grown(h, g) /\ LargeIds(g) = LargeIds(h)
    /\ \A U : Larges(h, U) => Larges(g, U)

LEMMA ExtendedAgain ==
    ASSUME NEW h, NEW g, NEW f, Extended(h, g), Extended(g, f)
    PROVE  Extended(h, f)
<1>1. Grown(h, f)
  BY GrownAgain DEF Extended
<1>. QED  BY <1>1 DEF Extended

LEMMA TakenExtended ==
    ASSUME NEW h, Good(h), NEW t \in Types, h.nfrees[t] # 0, NEW r, r = TakeElement(h, t)
    PROVE  Extended(h, r.heap)
<1>1. Good(r.heap) /\ Grown(h, r.heap) /\ AllAlike(h, r.heap) /\ Aside(h, r.heap)
  BY TakeElementIs
<1>2. LargeIds(r.heap) = LargeIds(h)
  BY <1>1, AlikeIds
<1>3. \A U : Larges(h, U) => Larges(r.heap, U)
  BY <1>1, <1>2, AsideLarges
<1>. QED  BY <1>1, <1>2, <1>3 DEF Extended

\* A small chunk comes to the front of its list.
LEMMA SmallJoins ==
    ASSUME NEW h, Good(h), NEW c \in ChunkT, c.next = 0, NEW t \in Types, Fits(h, c, t),
           NEW a, a = Added(h, c, c.bytes), NEW k, k = Len(h.chunks) + 1,
           NEW f, f = put_front(a, k, 0), NEW g, g = [f EXCEPT !.nfrees[t] = @ + c.nfree]
    PROVE  /\ Joined(h, g, c, t) /\ Good(g) /\ LargeIds(g) = LargeIds(h)
           /\ \A U : Larges(h, U) => Larges(g, U)
<1>1. /\ h \in HeapT /\ Nexts(h, Len(h.chunks)) /\ Sound(h)
      /\ h.large \in Ids(h) \cup {0} /\ h.large_free \in Ids(h) \cup {0}
      /\ \A u \in Types : Chain(Links(h), h.buckets[u], Class(h, u))
  BY DEF Good, Sound, Shaped, Listed
<1>2. Behind(h, a, c)
  BY <1>1, AddedIs
<1>3. Nexts(a, Len(a.chunks)) /\ \A head, S : S \subseteq Ids(h) /\ Chain(Links(h), head, S) => Chain(Links(a), head, S)
  BY <1>1, <1>2, BehindLists
<1>4. /\ a \in HeapT /\ k \in Ids(a) /\ k \notin Ids(h) /\ Ids(a) = Ids(h) \cup {k} /\ a.chunks[k] = c
      /\ a.buckets = h.buckets /\ a.large = h.large /\ a.large_free = h.large_free
  BY <1>2 DEF Behind
<1>5. t = get_type(c.elm_size)
  BY ClassTypes DEF Fits
<1>6. Class(h, t) \in SUBSET Ids(a) /\ k \notin Class(h, t) /\ Class(h, t) \subseteq Ids(h)
  BY <1>4 DEF Class
<1>7. Chain(Links(a), a.buckets[t], Class(h, t))
  BY <1>1, <1>3, <1>4, <1>6
<1>8. Fronted(a, f, k, t, Class(h, t))
  BY <1>3, <1>4, <1>5, <1>6, <1>7, PutFrontIs
<1>9. /\ Relinked(a, f) /\ Nexts(f, Len(f.chunks)) /\ f \in HeapT /\ Chain(Links(f), f.buckets[t], Class(h, t) \cup {k})
      /\ \A u \in Types : u # t => f.buckets[u] = a.buckets[u]
      /\ f.large = a.large /\ f.large_free = a.large_free
      /\ \A j \in Ids(a) : j \notin Class(h, t) \cup {k} => Links(f)[j] = Links(a)[j]
  BY <1>8 DEF Fronted, Relinked
<1>10. c.nfree \in Nat /\ f.nfrees \in [Types -> Nat]
  BY <1>9, HeapParts, ChunkFields
<1>11. /\ g \in HeapT /\ g.chunks = f.chunks /\ g.buckets = f.buckets /\ g.large = f.large /\ g.large_free = f.large_free
       /\ g.next_free = f.next_free /\ g.nfrees = [f.nfrees EXCEPT ![t] = @ + c.nfree]
  <2> DEFINE n == [f.nfrees EXCEPT ![t] = f.nfrees[t] + c.nfree]
  <2>1. n \in [Types -> Nat]
    BY <1>10
  <2>2. g = [f EXCEPT !.nfrees = n]
    OBVIOUS
  <2>3. n = [f.nfrees EXCEPT ![t] = @ + c.nfree]
    OBVIOUS
  <2> HIDE DEF n
  <2>4. /\ g \in HeapT /\ g.chunks = f.chunks /\ g.buckets = f.buckets /\ g.large = f.large /\ g.large_free = f.large_free
        /\ g.next_free = f.next_free /\ g.nfrees = n
    BY <1>9, <2>1, <2>2 DEF HeapT
  <2>. QED  BY <2>3, <2>4
<1>12. Tallied(f, g, c, t)
  BY <1>10, <1>11 DEF Tallied
<1>13. Joined(h, g, c, t)
  BY <1>1, <1>2, <1>9, <1>11, <1>12, JoinedIs
<1>14. Sound(g)
  BY <1>1, <1>13, JoinedSound
<1>15. t # LARGE_CHUNK
  BY ClassTypes
<1>16. /\ Ids(g) = Ids(h) \cup {k} /\ LargeIds(g) = LargeIds(h)
       /\ Class(g, t) = Class(h, t) \cup {k} /\ \A u \in Types : u # t => Class(g, u) = Class(h, u)
  <2>1. /\ Ids(g) = Ids(h) \cup {k} /\ \A u \in Types : Class(g, u) = Class(h, u) \cup IF u = t THEN {k} ELSE {}
        /\ LargeIds(g) = LargeIds(h) \cup IF t = LARGE_CHUNK THEN {k} ELSE {}
    BY <1>13, JoinedIds
  <2>2. LargeIds(g) = LargeIds(h)
    BY <1>15, <2>1
  <2>3. Class(g, t) = Class(h, t) \cup {k}
    BY <2>1
  <2>4. ASSUME NEW u \in Types, u # t PROVE Class(g, u) = Class(h, u)
    <3>1. Class(g, u) = Class(h, u) \cup IF u = t THEN {k} ELSE {}
      BY <2>1
    <3>. QED  BY <2>4, <3>1
  <2>. QED  BY <2>1, <2>2, <2>3, <2>4
<1>17. Links(g) = Links(f) /\ Nexts(g, Len(g.chunks))
  BY <1>9, <1>11 DEF Links, Ids, Nexts
<1>18. \A j \in Ids(h) : j \notin Class(h, t) => Links(g)[j] = Links(h)[j]
  BY <1>2, <1>4, <1>9, <1>17 DEF Behind
<1>19. ASSUME NEW u \in Types PROVE Chain(Links(g), g.buckets[u], Class(g, u))
  <2>1. CASE u = t
    BY <1>9, <1>11, <1>16, <1>17, <2>1
  <2>2. CASE u # t
    <3>1. \A j \in Class(h, u) : Links(g)[j] = Links(h)[j]
      BY <1>18, <2>2 DEF Class
    <3>2. Chain(Links(g), h.buckets[u], Class(h, u))
      BY <1>1, <3>1, ChainFrame
    <3>. QED  BY <1>4, <1>9, <1>11, <1>16, <2>2, <3>2
  <2>. QED  BY <2>1, <2>2
<1>20. Listed(g)
  BY <1>1, <1>4, <1>9, <1>11, <1>16, <1>17, <1>19 DEF Listed
<1>21. ASSUME NEW U, Larges(h, U) PROVE Larges(g, U)
  <2>1. U \subseteq LargeIds(h) /\ Chain(Links(h), h.large, U) /\ Chain(Links(h), h.large_free, LargeIds(h) \ U)
    BY <1>21 DEF Larges
  <2>2. \A j \in LargeIds(h) : Links(g)[j] = Links(h)[j]
    BY <1>18 DEF LargeIds, Class
  <2>3. Chain(Links(g), h.large, U)
    BY <2>1, <2>2, ChainFrame
  <2>4. \A j \in LargeIds(h) \ U : Links(g)[j] = Links(h)[j]
    BY <2>2
  <2>5. Chain(Links(g), h.large_free, LargeIds(h) \ U)
    BY <2>1, <2>4, ChainFrame
  <2>. QED  BY <1>4, <1>9, <1>11, <1>16, <2>1, <2>3, <2>5 DEF Larges
<1>. QED  BY <1>13, <1>14, <1>16, <1>20, <1>21 DEF Good

\* alloc_chunk of a small class: one chunkinfo_t less, as many elements more as fit.
LEMMA SmallChunk ==
    ASSUME NEW h, Good(h), h.nfrees[InfoType] # 0, NEW t \in Types, Proper(t),
           NEW g, g = alloc_chunk(h, t, ChunkBytes)
    PROVE  /\ Extended(h, g)
           /\ \A u \in Types : g.nfrees[u] = h.nfrees[u] + (IF u = t THEN Elements(t, ChunkBytes) ELSE 0)
                                                        - (IF u = InfoType THEN 1 ELSE 0)
<1> DEFINE elm == get_size(t)
           n == Elements(t, ChunkBytes)
<1>1. PICK i : i = TakeElement(h, InfoType)
  OBVIOUS
<1>2. PICK c : c = NewChunk(elm, h.next_free, ChunkBytes, i.ptr)
  OBVIOUS
<1>3. elm \in Nat \ {0} /\ ChunkBytes \in Nat /\ n \in Nat /\ n >= 1 /\ n = max_elements([elm_size |-> elm, bytes |-> ChunkBytes])
  <2>1. elm \in Nat \ {0} /\ ChunkBytes \in Nat
    BY ClassTypes, MallocAssumption
  <2>2. n = max_elements([elm_size |-> elm, bytes |-> ChunkBytes])
    BY DEF Elements
  <2>3. max_elements([elm_size |-> elm, bytes |-> ChunkBytes]) \in Int
    BY <2>1, ElementsFit
  <2>4. n >= 1
    BY SizesAssumption
  <2>. QED  BY <2>1, <2>2, <2>3, <2>4
<1> HIDE DEF elm, n
<1>4. /\ c \in ChunkT /\ c.next = 0 /\ c.elm_size = elm /\ c.bytes = ChunkBytes /\ c.nfree = n
      /\ Fits(i.heap, c, t) /\ \A u : ~ Holds(h, c.at, u)
  <2>1. elm = get_size(t)
    BY DEF elm
  <2>2. MadeFor(h, i, c, elm, ChunkBytes, n, t)
    BY <1>1, <1>2, <1>3, <2>1, InfoTaken
  <2>. QED  BY <2>2 DEF MadeFor
<1>5. InfoType \in Types /\ t # LARGE_CHUNK
  BY InfoClass, ClassTypes
<1>6. /\ Good(i.heap) /\ Grown(h, i.heap) /\ AllAlike(h, i.heap)
      /\ i.heap.nfrees = [h.nfrees EXCEPT ![InfoType] = @ - 1]
  BY <1>1, <1>5, TakeElementIs
<1>7. Extended(h, i.heap)
  BY <1>1, <1>5, TakenExtended
<1>8. PICK a : a = Added(i.heap, c, c.bytes)
  OBVIOUS
<1>9. PICK f : f = put_front(a, Len(i.heap.chunks) + 1, 0)
  OBVIOUS
<1>10. Len(i.heap.chunks) = Len(h.chunks)
  BY <1>6 DEF AllAlike
<1>11. g = [f EXCEPT !.nfrees[t] = @ + c.nfree]
  <2>1. a = [i.heap EXCEPT !.chunks = Append(@, c), !.next_free = @ + ChunkBytes]
    BY <1>4, <1>8 DEF Added
  <2>. QED  BY <1>1, <1>2, <1>5, <1>9, <1>10, <2>1 DEF alloc_chunk, elm
<1>12. /\ Joined(i.heap, g, c, t) /\ Good(g) /\ LargeIds(g) = LargeIds(i.heap)
       /\ \A U : Larges(i.heap, U) => Larges(g, U)
  BY <1>4, <1>6, <1>8, <1>9, <1>11, SmallJoins
<1>13. Grown(h, g)
  BY <1>4, <1>6, <1>12, JoinedGrown
<1>14. Extended(h, g)
  BY <1>7, <1>12, <1>13 DEF Extended
<1>15. \A u \in Types : g.nfrees[u] = i.heap.nfrees[u] + IF u = t THEN n ELSE 0
  BY <1>4, <1>12 DEF Joined
<1>16. h.nfrees \in [Types -> Nat]
  BY HeapParts DEF Good, Sound, Shaped
<1>17. ASSUME NEW u \in Types
       PROVE  g.nfrees[u] = h.nfrees[u] + (IF u = t THEN n ELSE 0) - (IF u = InfoType THEN 1 ELSE 0)
  BY <1>3, <1>5, <1>6, <1>15, <1>16
<1>. QED  BY <1>14, <1>17 DEF n

\* What only changes the lists of large chunks keeps the others.
LEMMA SplicedGood ==
    ASSUME NEW h, Good(h), NEW g, NEW list \in Lists, NEW T, Spliced(h, g, list, T), T \subseteq LargeIds(h)
    PROVE  Good(g) /\ LargeIds(g) = LargeIds(h)
<1>1. /\ Relinked(h, g) /\ Nexts(g, Len(g.chunks)) /\ g.buckets = h.buckets
      /\ g[list] \in Ids(g) \cup {0} /\ \A l \in Lists : l # list => g[l] = h[l]
      /\ \A j \in Ids(h) : j \notin T => Links(g)[j] = Links(h)[j]
  BY DEF Spliced
<1>2. Sound(g)
  BY <1>1, RelinkedSound DEF Good
<1>3. Ids(g) = Ids(h) /\ LargeIds(g) = LargeIds(h) /\ \A t : Class(g, t) = Class(h, t)
  BY <1>1, AlikeIds DEF Relinked
<1>4. \A l \in Lists : g[l] \in Ids(g) \cup {0}
  BY <1>1, <1>3 DEF Good, Listed, Lists
<1>5. ASSUME NEW t \in Types PROVE Chain(Links(g), g.buckets[t], Class(g, t))
  <2>1. Chain(Links(h), h.buckets[t], Class(h, t))
    BY DEF Good, Listed
  <2>0. \A j \in Class(h, t) : j \in Ids(h) /\ j \notin LargeIds(h)
    BY Zenon DEF Class, LargeIds
  <2>2. \A j \in Class(h, t) : Links(g)[j] = Links(h)[j]
    <3>1. \A j \in Ids(h) : j \notin T => Links(g)[j] = Links(h)[j]
      BY <1>1
    <3>. QED  BY <2>0, <3>1
  <2>3. Chain(Links(g), h.buckets[t], Class(h, t))
    BY <2>1, <2>2, ChainFrame
  <2>. QED  BY <1>1, <1>3, <2>3
<1>6. g.large \in Ids(g) \cup {0} /\ g.large_free \in Ids(g) \cup {0}
  BY <1>4 DEF Lists
<1>7. Listed(g)
  BY <1>1, <1>5, <1>6 DEF Listed
<1>. QED  BY <1>2, <1>3, <1>7 DEF Good

\* A large chunk in use comes into `large'.
LargeJoined(h, g, c, k, U) ==
    /\ Joined(h, g, c, LARGE_CHUNK) /\ Good(g) /\ LargeIds(g) = LargeIds(h) \cup {k}
    /\ Larges(g, U \cup {k})

LEMMA LargeJoins ==
    ASSUME NEW h, Good(h), NEW c \in ChunkT, c.next = 0, Fits(h, c, LARGE_CHUNK),
           NEW a, a = Added(h, c, c.bytes), NEW k, k = Len(h.chunks) + 1,
           NEW g, g = put_sorted(a, "large", k), NEW U, Larges(h, U)
    PROVE  LargeJoined(h, g, c, k, U)
<1>1. /\ h \in HeapT /\ Nexts(h, Len(h.chunks)) /\ Sound(h)
      /\ h.large \in Ids(h) \cup {0} /\ h.large_free \in Ids(h) \cup {0}
      /\ \A u \in Types : Chain(Links(h), h.buckets[u], Class(h, u))
  BY DEF Good, Sound, Shaped, Listed
<1>2. Behind(h, a, c)
  BY <1>1, AddedIs
<1>3. Nexts(a, Len(a.chunks)) /\ \A head, S : S \subseteq Ids(h) /\ Chain(Links(h), head, S) => Chain(Links(a), head, S)
  BY <1>1, <1>2, BehindLists
<1>4. /\ a \in HeapT /\ k \in Ids(a) /\ k \notin Ids(h) /\ Ids(a) = Ids(h) \cup {k} /\ a.chunks[k] = c
      /\ a.buckets = h.buckets /\ a.large = h.large /\ a.large_free = h.large_free
      /\ \A j \in Ids(h) : Links(a)[j] = Links(h)[j]
  BY <1>2 DEF Behind
<1>5. U \subseteq LargeIds(h) /\ Chain(Links(h), h.large, U) /\ Chain(Links(h), h.large_free, LargeIds(h) \ U)
      /\ LargeIds(h) \subseteq Ids(h)
  BY DEF Larges, LargeIds
<1>6. Chain(Links(a), a["large"], U) /\ U \in SUBSET Ids(a) /\ k \notin U
  BY <1>3, <1>4, <1>5
<1>7. ~ Tangles(a, "large", k)
  BY <1>4 DEF Tangles
<1>8. Spliced(a, g, "large", U \cup {k}) /\ Chain(Links(g), g["large"], U \cup {k})
  <2>1. "large" \in Lists
    BY DEF Lists
  <2>. QED  BY <1>3, <1>4, <1>6, <1>7, <2>1, PutSortedIs
<1>9. /\ Relinked(a, g) /\ Nexts(g, Len(g.chunks)) /\ g \in HeapT /\ g.buckets = a.buckets
      /\ g["large"] \in Ids(g) \cup {0} /\ g["large_free"] = a["large_free"]
      /\ \A j \in Ids(a) : j \notin U \cup {k} => Links(g)[j] = Links(a)[j]
  BY <1>8 DEF Spliced, Relinked, Lists
<1>10. Tallied(g, g, c, LARGE_CHUNK)
  <2>1. \A u \in Types : u # LARGE_CHUNK /\ g.nfrees[u] \in Nat
    BY <1>9, HeapParts, ClassTypes
  <2>. QED  BY <2>1 DEF Tallied
<1>11. Joined(h, g, c, LARGE_CHUNK)
  BY <1>1, <1>2, <1>9, <1>10, JoinedIs
<1>12. Sound(g)
  BY <1>1, <1>11, JoinedSound
<1>13. /\ Ids(g) = Ids(h) \cup {k} /\ LargeIds(g) = LargeIds(h) \cup {k}
       /\ \A u \in Types : Class(g, u) = Class(h, u)
  <2>1. /\ Ids(g) = Ids(h) \cup {k} /\ \A u \in Types : Class(g, u) = Class(h, u) \cup IF u = LARGE_CHUNK THEN {k} ELSE {}
        /\ LargeIds(g) = LargeIds(h) \cup IF LARGE_CHUNK = LARGE_CHUNK THEN {k} ELSE {}
    BY <1>11, JoinedIds
  <2>2. LargeIds(g) = LargeIds(h) \cup {k}
    BY <2>1
  <2>3. ASSUME NEW u \in Types PROVE Class(g, u) = Class(h, u)
    <3>1. Class(g, u) = Class(h, u) \cup IF u = LARGE_CHUNK THEN {k} ELSE {}
      BY <2>1
    <3>2. u # LARGE_CHUNK
      BY ClassTypes
    <3>. QED  BY <3>1, <3>2
  <2>. QED  BY <2>1, <2>2, <2>3
<1>14. \A j \in Ids(h) : j \notin U => Links(g)[j] = Links(h)[j]
  BY <1>4, <1>9
<1>15. ASSUME NEW u \in Types PROVE Chain(Links(g), g.buckets[u], Class(g, u))
  <2>1. \A j \in Class(h, u) : Links(g)[j] = Links(h)[j]
    BY <1>5, <1>14 DEF Class, LargeIds
  <2>2. Chain(Links(g), h.buckets[u], Class(h, u))
    BY <1>1, <2>1, ChainFrame
  <2>. QED  BY <1>4, <1>9, <1>13, <2>2
<1>16. g.large \in Ids(g) \cup {0} /\ g.large_free = h.large_free
  BY <1>4, <1>9
<1>17. Listed(g)
  BY <1>1, <1>9, <1>13, <1>15, <1>16 DEF Listed
<1>18. Larges(g, U \cup {k})
  <2>1. LargeIds(g) \ (U \cup {k}) = LargeIds(h) \ U
    BY <1>4, <1>5, <1>13
  <2>2. \A j \in LargeIds(h) \ U : Links(g)[j] = Links(h)[j]
    BY <1>5, <1>14
  <2>3. Chain(Links(g), h.large_free, LargeIds(h) \ U)
    BY <1>5, <2>2, ChainFrame
  <2>. QED  BY <1>5, <1>8, <1>13, <1>16, <2>1, <2>3 DEF Larges
<1>. QED  BY <1>11, <1>12, <1>13, <1>17, <1>18 DEF Good, LargeJoined

\* alloc_chunk of a large chunk.
LargeMade(h, g, k, bytes, U) ==
    /\ Good(g) /\ Grown(h, g) /\ Ids(g) = Ids(h) \cup {k} /\ k = Len(g.chunks) /\ k \notin Ids(h)
    /\ LargeIds(g) = LargeIds(h) \cup {k} /\ Larges(g, U \cup {k})
    /\ g.chunks[k].begin = h.next_free /\ g.chunks[k].bytes = bytes
    /\ \A u \in Types : g.nfrees[u] = h.nfrees[u] - (IF u = InfoType THEN 1 ELSE 0)

LEMMA LargeChunk ==
    ASSUME NEW h, Good(h), h.nfrees[InfoType] # 0, NEW bytes \in Nat, bytes >= 8, NEW U, Larges(h, U),
           NEW g, g = alloc_chunk(h, LARGE_CHUNK, bytes), NEW k, k = Len(h.chunks) + 1
    PROVE  LargeMade(h, g, k, bytes, U)
<1>1. PICK i : i = TakeElement(h, InfoType)
  OBVIOUS
<1>2. PICK c : c = NewChunk(bytes, h.next_free, bytes, i.ptr)
  OBVIOUS
<1>3. max_elements([elm_size |-> bytes, bytes |-> bytes]) = 0
  BY LargeHoldsNone
<1>4. /\ c \in ChunkT /\ c.next = 0 /\ c.elm_size = bytes /\ c.bytes = bytes /\ c.nfree = 0 /\ c.begin = h.next_free
      /\ Fits(i.heap, c, LARGE_CHUNK) /\ \A u : ~ Holds(h, c.at, u)
  <2>1. bytes \in Nat \ {0}
    OBVIOUS
  <2>2. PICK t : t = LARGE_CHUNK
    OBVIOUS
  <2>3. PICK n \in Nat : n = 0
    OBVIOUS
  <2>4. PICK elm \in Nat \ {0} : elm = bytes
    BY <2>1
  <2>5. n = max_elements([elm_size |-> elm, bytes |-> bytes]) /\ c = NewChunk(elm, h.next_free, bytes, i.ptr)
        /\ t = LARGE_CHUNK /\ elm = bytes /\ bytes >= 8
    BY <1>2, <1>3, <2>2, <2>3, <2>4
  <2>6. MadeFor(h, i, c, elm, bytes, n, t)
    BY <1>1, <2>5, InfoTaken
  <2>. QED  BY <2>2, <2>3, <2>4, <2>6 DEF MadeFor
<1>5. InfoType \in Types
  BY InfoClass
<1>6. /\ Good(i.heap) /\ Grown(h, i.heap) /\ AllAlike(h, i.heap)
      /\ i.heap.nfrees = [h.nfrees EXCEPT ![InfoType] = @ - 1]
  BY <1>1, <1>5, TakeElementIs
<1>7. LargeIds(i.heap) = LargeIds(h) /\ Larges(i.heap, U) /\ Ids(i.heap) = Ids(h)
  BY <1>1, <1>5, <1>6, TakenExtended, AlikeIds DEF Extended
<1>8. PICK a : a = Added(i.heap, c, c.bytes)
  OBVIOUS
<1>9. Len(i.heap.chunks) = Len(h.chunks)
  BY <1>6 DEF AllAlike
<1>10. g = put_sorted(a, "large", k)
  <2>1. a = [i.heap EXCEPT !.chunks = Append(@, c), !.next_free = @ + bytes]
    BY <1>4, <1>8 DEF Added
  <2>. QED  BY <1>1, <1>2, <2>1 DEF alloc_chunk
<1>11. /\ Joined(i.heap, g, c, LARGE_CHUNK) /\ Good(g) /\ LargeIds(g) = LargeIds(h) \cup {k}
       /\ Larges(g, U \cup {k})
  <2>1. PICK f : f = i.heap
    OBVIOUS
  <2>2. Good(f) /\ Fits(f, c, LARGE_CHUNK) /\ a = Added(f, c, c.bytes) /\ k = Len(f.chunks) + 1 /\ Larges(f, U)
    BY <1>4, <1>6, <1>7, <1>8, <1>9, <2>1
  <2>3. c \in ChunkT /\ c.next = 0
    BY <1>4
  <2>4. LargeJoined(f, g, c, k, U)
    BY <1>10, <2>2, <2>3, LargeJoins
  <2>. QED  BY <1>7, <2>1, <2>4 DEF LargeJoined
<1>12. Grown(h, g)
  BY <1>4, <1>6, <1>11, JoinedGrown
<1>13. Ids(g) = Ids(h) \cup {k} /\ k \notin Ids(h)
  BY <1>4, <1>7, <1>9, <1>11, JoinedIds
<1>14. k = Len(g.chunks) /\ g.chunks[k].begin = h.next_free /\ g.chunks[k].bytes = bytes
  BY <1>4, <1>9, <1>11 DEF Joined, Alike
<1>15. h.nfrees \in [Types -> Nat]
  BY HeapParts DEF Good, Sound, Shaped
<1>16. ASSUME NEW u \in Types PROVE g.nfrees[u] = h.nfrees[u] - (IF u = InfoType THEN 1 ELSE 0)
  <2>1. g.nfrees[u] = i.heap.nfrees[u] + IF u = LARGE_CHUNK THEN c.nfree ELSE 0
    BY <1>11 DEF Joined
  <2>2. u # LARGE_CHUNK
    BY ClassTypes
  <2>. QED  BY <1>5, <1>6, <1>15, <2>1, <2>2
<1>. QED  BY <1>11, <1>12, <1>13, <1>14, <1>16 DEF LargeMade

-----------------------------------------------------------------------------
(* malloc.                                                                 *)

LEMMA ExtendedSame ==
    ASSUME NEW h, Good(h)
    PROVE  Extended(h, h)
<1>1. Grown(h, h)
  BY DEF Grown, Alike
<1>. QED  BY <1>1 DEF Extended

\* After make_sure there are two chunkinfo_t.
LEMMA MakeSureIs ==
    ASSUME NEW h, Good(h), h.nfrees[InfoType] >= 1, NEW g, g = make_sure(h)
    PROVE  Extended(h, g) /\ g.nfrees[InfoType] >= 2 /\ g.nfrees[InfoType] \in Nat
<1>1. InfoType \in Types /\ Proper(InfoType)
  BY InfoClass
<1>2. h.nfrees[InfoType] \in Nat
  BY <1>1, HeapParts DEF Good, Sound, Shaped
<1>3. CASE h.nfrees[InfoType] = 1
  <2>1. g = alloc_chunk(h, InfoType, ChunkBytes) /\ h.nfrees[InfoType] # 0
    BY <1>3 DEF make_sure
  <2>2. /\ Extended(h, g)
        /\ \A u \in Types : g.nfrees[u] = h.nfrees[u] + (IF u = InfoType THEN Elements(InfoType, ChunkBytes) ELSE 0)
                                                     - (IF u = InfoType THEN 1 ELSE 0)
    BY <1>1, <2>1, SmallChunk
  <2>3. g.nfrees[InfoType] = 1 + Elements(InfoType, ChunkBytes) - 1
    BY <1>1, <1>3, <2>2
  <2>4. Elements(InfoType, ChunkBytes) >= 2
    BY SizesAssumption
  <2>5. Elements(InfoType, ChunkBytes) \in Int
    BY <1>1, ElementsFit, ClassTypes, MallocAssumption DEF Elements
  <2>. QED  BY <2>2, <2>3, <2>4, <2>5
<1>4. CASE h.nfrees[InfoType] # 1
  <2>1. g = h
    BY <1>4 DEF make_sure
  <2>2. Extended(h, g)
    BY <2>1, ExtendedSame
  <2>. QED  BY <1>2, <1>4, <2>1, <2>2
<1>. QED  BY <1>3, <1>4

\* A new element for a caller.
GotElement(h, g, a, t) ==
    /\ Extended(h, g) /\ g.nfrees[InfoType] >= 1
    /\ a \in Nat /\ Holds(g, a, t) /\ \A k \in Ids(g) : a # g.chunks[k].at
    /\ \A u : ~ Holds(h, a, u)

LEMMA TakenForCaller ==
    ASSUME NEW h, NEW f, Extended(h, f), NEW t \in Types, f.nfrees[t] # 0,
           f.nfrees[InfoType] >= IF t = InfoType THEN 2 ELSE 1,
           NEW r, r = TakeElement(f, t)
    PROVE  GotElement(h, r.heap, r.ptr, t)
<1>1. Good(f) /\ Grown(h, f)
  BY DEF Extended
<1>2. /\ Good(r.heap) /\ AllAlike(f, r.heap) /\ r.heap.nfrees = [f.nfrees EXCEPT ![t] = @ - 1]
      /\ r.ptr \in Nat /\ Holds(r.heap, r.ptr, t) /\ \A u : ~ Holds(f, r.ptr, u)
  BY <1>1, TakeElementIs
<1>3. Extended(f, r.heap)
  BY <1>1, TakenExtended
<1>4. Extended(h, r.heap)
  BY <1>3, ExtendedAgain
<1>5. \A u : ~ Holds(h, r.ptr, u)
  BY <1>1, <1>2, GrownHolds
<1>6. ASSUME NEW k \in Ids(r.heap) PROVE r.ptr # r.heap.chunks[k].at
  <2>1. k \in Ids(f) /\ r.heap.chunks[k].at = f.chunks[k].at
    BY <1>2, AlikeIds DEF AllAlike, Alike
  <2>2. Holds(f, f.chunks[k].at, InfoType)
    BY <1>1, <2>1 DEF Good, Sound, Informed
  <2>. QED  BY <1>2, <2>1, <2>2
<1>7. r.heap.nfrees[InfoType] >= 1
  <2>1. InfoType \in Types /\ f.nfrees \in [Types -> Nat]
    BY <1>1, InfoClass, HeapParts DEF Good, Sound, Shaped
  <2>. QED  BY <1>2, <2>1
<1>. QED  BY <1>2, <1>4, <1>5, <1>6, <1>7 DEF GotElement

LEMMA AllocSmallIs ==
    ASSUME NEW h, Good(h), h.nfrees[InfoType] >= 1, NEW t \in Types, Proper(t), NEW r, r = alloc_small(h, t)
    PROVE  GotElement(h, r.heap, r.ptr, t)
<1>1. PICK sure : sure = make_sure(h)
  OBVIOUS
<1>2. Extended(h, sure) /\ sure.nfrees[InfoType] >= 2 /\ sure.nfrees[InfoType] \in Nat /\ Good(sure)
  BY <1>1, MakeSureIs DEF Extended
<1>3. InfoType \in Types /\ sure.nfrees \in [Types -> Nat]
  BY <1>2, InfoClass, HeapParts DEF Good, Sound, Shaped
<1>4. CASE sure.nfrees[t] # 0
  <2>1. r = TakeElement(sure, t)
    BY <1>1, <1>4 DEF alloc_small
  <2>2. sure.nfrees[InfoType] >= IF t = InfoType THEN 2 ELSE 1
    BY <1>2
  <2>. QED  BY <1>2, <1>4, <2>1, <2>2, TakenForCaller
<1>5. CASE sure.nfrees[t] = 0
  <2>1. PICK f : f = alloc_chunk(sure, t, ChunkBytes)
    OBVIOUS
  <2>2. r = TakeElement(f, t)
    BY <1>1, <1>5, <2>1 DEF alloc_small
  <2>3. t # InfoType /\ sure.nfrees[InfoType] # 0
    BY <1>2, <1>5
  <2>4. /\ Extended(sure, f)
        /\ \A u \in Types : f.nfrees[u] = sure.nfrees[u] + (IF u = t THEN Elements(t, ChunkBytes) ELSE 0)
                                                         - (IF u = InfoType THEN 1 ELSE 0)
    BY <1>2, <2>1, <2>3, SmallChunk
  <2>5. Extended(h, f)
    BY <1>2, <2>4, ExtendedAgain
  <2>6. Elements(t, ChunkBytes) >= 1 /\ Elements(t, ChunkBytes) \in Int
    BY SizesAssumption, ElementsFit, ClassTypes, MallocAssumption DEF Elements
  <2>7. f.nfrees[t] = 0 + Elements(t, ChunkBytes) - 0
    BY <1>5, <2>3, <2>4
  <2>8. f.nfrees[InfoType] = sure.nfrees[InfoType] + 0 - 1
    BY <1>3, <2>3, <2>4
  <2>9. f.nfrees[t] # 0 /\ f.nfrees[InfoType] >= IF t = InfoType THEN 2 ELSE 1
    BY <1>2, <2>3, <2>6, <2>7, <2>8
  <2>. QED  BY <2>2, <2>5, <2>9, TakenForCaller
<1>. QED  BY <1>4, <1>5

LEMMA RelinkedGrown ==
    ASSUME NEW h, NEW g, Relinked(h, g)
    PROVE  Grown(h, g)
<1>1. Ids(g) = Ids(h)
  BY AlikeIds DEF Relinked
<1>. QED  BY <1>1 DEF Relinked, AllAlike, Grown

\* A large chunk changes its list.
Moved(h, g, from, to, S, T, k) ==
    Good(g) /\ Relinked(h, g) /\ Chain(Links(g), g[from], S \ {k}) /\ Chain(Links(g), g[to], T \cup {k})

LEMMA MoveIs ==
    ASSUME NEW h, Good(h), NEW from \in Lists, NEW to \in Lists, from # to,
           NEW S \in SUBSET LargeIds(h), NEW T \in SUBSET LargeIds(h), S \cap T = {},
           Chain(Links(h), h[from], S), Chain(Links(h), h[to], T),
           NEW k \in S, NEW prev \in S \cup {0}, prev = 0 <=> k = h[from], prev # 0 => Links(h)[prev] = k,
           NEW f, f = Unlink(h, from, k, prev), NEW g, g = put_sorted(f, to, k)
    PROVE  /\ Good(g) /\ Relinked(h, g)
           /\ ~ Tangles(f, to, k) => Moved(h, g, from, to, S, T, k)
<1>1. h \in HeapT /\ Nexts(h, Len(h.chunks)) /\ LargeIds(h) \subseteq Ids(h)
  BY DEF Good, Sound, Shaped, Listed, LargeIds
<1>2. Spliced(h, f, from, S) /\ Chain(Links(f), f[from], S \ {k})
  <2>1. S \in SUBSET Ids(h)
    BY <1>1
  <2>. QED  BY <1>1, <2>1, UnlinkIs
<1>3. Good(f) /\ LargeIds(f) = LargeIds(h)
  BY <1>2, SplicedGood
<1>4. f \in HeapT /\ Nexts(f, Len(f.chunks)) /\ LargeIds(f) \subseteq Ids(f)
  BY <1>3 DEF Good, Sound, Shaped, Listed, LargeIds
<1>5. Chain(Links(f), f[to], T)
  <2>1. \A j \in T : Links(f)[j] = Links(h)[j]
    BY <1>1, <1>2 DEF Spliced
  <2>2. Chain(Links(f), h[to], T)
    BY <2>1, ChainFrame
  <2>3. f[to] = h[to]
    BY <1>2 DEF Spliced
  <2>. QED  BY <2>2, <2>3
<1>6. T \in SUBSET Ids(f) /\ k \in Ids(f) /\ k \notin T /\ T \cup {k} \subseteq LargeIds(f)
  BY <1>3, <1>4
<1>7. Spliced(f, g, to, T \cup {k}) /\ (~ Tangles(f, to, k) => Chain(Links(g), g[to], T \cup {k}))
  BY <1>4, <1>5, <1>6, PutSortedIs
<1>8. Good(g)
  BY <1>3, <1>6, <1>7, SplicedGood
<1>9. Relinked(h, g)
  BY <1>2, <1>7, RelinkedAgain DEF Spliced
<1>10. Chain(Links(g), g[from], S \ {k})
  <2>1. \A j \in S \ {k} : j \in Ids(f) /\ j \notin T \cup {k}
    BY <1>3, <1>4
  <2>2. \A j \in S \ {k} : Links(g)[j] = Links(f)[j]
    BY <1>7, <2>1 DEF Spliced
  <2>3. Chain(Links(g), f[from], S \ {k})
    BY <1>2, <2>2, ChainFrame
  <2>4. g[from] = f[from]
    BY <1>7 DEF Spliced
  <2>. QED  BY <2>3, <2>4
<1>. QED  BY <1>7, <1>8, <1>9, <1>10 DEF Moved

LEMMA RoundedUp ==
    ASSUME NEW n \in Nat, NEW unit \in Nat \ {0}
    PROVE  RoundUp(n, unit) \in Nat /\ RoundUp(n, unit) >= n
<1>1. PICK q \in Int : q = (n + unit - 1) \div unit
  OBVIOUS
<1>2. q * unit > n - 1 /\ q >= 0
  BY <1>1
<1>3. q * unit \in Int
  BY <1>1
<1>4. RoundUp(n, unit) = q * unit
  BY <1>1 DEF RoundUp
<1>. QED  BY <1>2, <1>3, <1>4

\* A large chunk k for a caller: its block starts where the chunk does.
GotLarge(h, g, a, bytes, U, k) ==
    /\ Good(g) /\ Grown(h, g) /\ g.nfrees[InfoType] >= 1
    /\ k \in LargeIds(g) /\ LargeIds(g) = LargeIds(h) \cup {k} /\ k \notin U
    /\ a = g.chunks[k].begin /\ bytes <= g.chunks[k].bytes

\* A large chunk used again.
LEMMA ReuseLarge ==
    ASSUME NEW h, Good(h), h.nfrees[InfoType] >= 1, NEW bytes \in Nat, NEW U, Larges(h, U),
           NEW s, s = FitsIn(h, bytes), s.chunk # 0, NEW r, r = alloc_large(h, bytes)
    PROVE  /\ GotLarge(h, r.heap, r.ptr, bytes, U, s.chunk) /\ s.chunk \in LargeIds(h)
           /\ ~ Tangles(Unlink(h, "large_free", s.chunk, s.prev), "large", s.chunk) => Larges(r.heap, U \cup {s.chunk})
<1> DEFINE S == LargeIds(h) \ U
           found == {k \in DOMAIN h.chunks : h.chunks[k].elm_size >= bytes}
<1>1. U \subseteq LargeIds(h) /\ Chain(Links(h), h.large, U) /\ Chain(Links(h), h.large_free, S)
  BY DEF Larges
<1>2. h \in HeapT /\ Nexts(h, Len(h.chunks)) /\ LargeIds(h) \subseteq Ids(h) /\ Len(h.chunks) \in Nat
  BY HeapParts DEF Good, Sound, Shaped, Listed, LargeIds
<1>3. S \in SUBSET (1 .. Len(h.chunks)) /\ S \in SUBSET LargeIds(h)
  BY <1>2 DEF Ids
<1>4. s = Seek(h, h.large_free, found)
  BY DEF FitsIn
<1>5. PICK k, prev : k = s.chunk /\ prev = s.prev
  OBVIOUS
<1> HIDE DEF S, found
<1>6. /\ k \in S \cap found /\ prev \in S \cup {0} /\ (prev = 0 <=> k = h.large_free)
      /\ prev # 0 => Links(h)[prev] = k
  BY <1>1, <1>2, <1>3, <1>4, <1>5, SeekIs
<1>7. PICK f : f = Unlink(h, "large_free", k, prev)
  OBVIOUS
<1>8. r.heap = put_sorted(f, "large", k) /\ r.ptr = h.chunks[k].begin
  BY <1>5, <1>7 DEF alloc_large
<1>9. "large" \in Lists /\ "large_free" \in Lists /\ "large" # "large_free"
  BY DEF Lists
<1>10. S \cap U = {} /\ U \in SUBSET LargeIds(h)
  BY <1>1 DEF S
<1>11. /\ Good(r.heap) /\ Relinked(h, r.heap)
       /\ ~ Tangles(f, "large", k) => Moved(h, r.heap, "large_free", "large", S, U, k)
  <2>1. k \in S /\ (prev = 0 <=> k = h["large_free"]) /\ Chain(Links(h), h["large_free"], S) /\ Chain(Links(h), h["large"], U)
    BY <1>1, <1>6
  <2>. QED  BY <1>3, <1>6, <1>7, <1>8, <1>9, <1>10, <2>1, MoveIs
<1>12. LargeIds(r.heap) = LargeIds(h)
  BY <1>11, AlikeIds DEF Relinked
<1>13. k \in LargeIds(h) /\ k \notin U /\ k \in Ids(h)
  BY <1>2, <1>6 DEF S
<1>14. ~ Tangles(f, "large", k) => Larges(r.heap, U \cup {k})
  <2>1. LargeIds(r.heap) \ (U \cup {k}) = S \ {k} /\ U \cup {k} \subseteq LargeIds(r.heap)
    BY <1>10, <1>12, <1>13 DEF S
  <2>. QED  BY <1>11, <2>1 DEF Moved, Larges
<1>15. r.heap.nfrees[InfoType] >= 1 /\ r.ptr = r.heap.chunks[k].begin /\ r.heap.chunks[k].bytes = h.chunks[k].bytes
  BY <1>8, <1>11, <1>13 DEF Relinked, AllAlike, Alike
<1>16. bytes <= h.chunks[k].bytes
  <2>1. h.chunks[k].elm_size >= bytes /\ h.chunks[k].elm_size = h.chunks[k].bytes
    BY <1>6, <1>13 DEF found, LargeIds, IsLarge
  <2>2. h.chunks[k].elm_size \in Nat
    BY <1>2, <1>13, ChunkIn, ChunkFields
  <2>. QED  BY <2>1, <2>2
<1>17. GotLarge(h, r.heap, r.ptr, bytes, U, k)
  <2>1. Grown(h, r.heap)
    BY <1>11, RelinkedGrown
  <2>. QED  BY <1>11, <1>12, <1>13, <1>15, <1>16, <2>1 DEF GotLarge
<1>. QED  BY <1>5, <1>7, <1>13, <1>14, <1>17

\* A new large chunk; it lies behind everything in use.
LEMMA NewLarge ==
    ASSUME NEW h, Good(h), h.nfrees[InfoType] >= 1, NEW bytes \in Nat, bytes >= 8, NEW U, Larges(h, U),
           FitsIn(h, bytes).chunk = 0, NEW r, r = alloc_large(h, bytes)
    PROVE  \E sure, k : /\ Extended(h, sure) /\ r.ptr = sure.next_free
                        /\ GotLarge(h, r.heap, r.ptr, bytes, U, k) /\ k \notin Ids(h) /\ Larges(r.heap, U \cup {k})
<1> DEFINE B == RoundUp(bytes, LargeUnit)
<1>1. B \in Nat /\ B >= bytes
  BY RoundedUp, MallocAssumption
<1> HIDE DEF B
<1>2. PICK sure : sure = make_sure(h)
  OBVIOUS
<1>3. Extended(h, sure) /\ sure.nfrees[InfoType] >= 2 /\ sure.nfrees[InfoType] \in Nat
  BY <1>2, MakeSureIs
<1>4. Good(sure) /\ Larges(sure, U) /\ Grown(h, sure) /\ LargeIds(sure) = LargeIds(h)
  BY <1>3 DEF Extended
<1>5. PICK g, k : g = alloc_chunk(sure, LARGE_CHUNK, B) /\ k = Len(sure.chunks) + 1
  OBVIOUS
<1>6. B >= 8 /\ sure.nfrees[InfoType] # 0
  BY <1>1, <1>3
<1>7. /\ Good(g) /\ Grown(sure, g) /\ Ids(g) = Ids(sure) \cup {k} /\ k = Len(g.chunks) /\ k \notin Ids(sure)
      /\ LargeIds(g) = LargeIds(sure) \cup {k} /\ Larges(g, U \cup {k})
      /\ g.chunks[k].begin = sure.next_free /\ g.chunks[k].bytes = B
      /\ \A u \in Types : g.nfrees[u] = sure.nfrees[u] - (IF u = InfoType THEN 1 ELSE 0)
  <2>1. LargeMade(sure, g, k, B, U)
    BY <1>1, <1>4, <1>5, <1>6, LargeChunk
  <2>. QED  BY <2>1 DEF LargeMade
<1>8. r.heap = g /\ r.ptr = g.chunks[Len(g.chunks)].begin
  BY <1>2, <1>5 DEF alloc_large, B
<1>9. r.ptr = sure.next_free /\ r.ptr = g.chunks[k].begin
  BY <1>7, <1>8
<1>10. Grown(h, g)
  BY <1>4, <1>7, GrownAgain
<1>11. g.nfrees[InfoType] >= 1
  BY <1>3, <1>7, InfoClass
<1>12. k \in LargeIds(g) /\ k \notin Ids(h) /\ U \subseteq Ids(h)
  BY <1>4, <1>7 DEF Grown, Larges, LargeIds
<1>13. GotLarge(h, r.heap, r.ptr, bytes, U, k)
  BY <1>1, <1>4, <1>7, <1>8, <1>9, <1>10, <1>11, <1>12 DEF GotLarge
<1>. QED  BY <1>3, <1>7, <1>8, <1>9, <1>12, <1>13

-----------------------------------------------------------------------------
(* Blocks.                                                                 *)

\* Where an element in use lies.
LEMMA HeldElement ==
    ASSUME NEW h, Shaped(h), NEW k \in Ids(h), NEW e \in h.chunks[k].used, NEW a, a = element(h.chunks[k], e)
    PROVE  LET c == h.chunks[k] IN
           /\ e \in 0 .. (max_elements(c) - 1) /\ ~ IsLarge(c) /\ a \in Nat
           /\ c.begin + first_element(c) <= a /\ a + c.elm_size <= c.begin + c.bytes
           /\ c.elm_size \in Nat \ {0} /\ c.begin \in Nat /\ c.bytes \in Nat /\ first_element(c) \in Nat /\ first_element(c) >= 8
<1> DEFINE c == h.chunks[k]
<1>1. /\ c.elm_size \in Nat \ {0} /\ c.begin \in Nat /\ c.bytes \in Nat
      /\ c.used \in SUBSET (0 .. (max_elements(c) - 1)) /\ first_element(c) \in Nat
      /\ IsLarge(c) => max_elements(c) = 0 /\ c.used = {}
  BY ChunkNumbers
<1>2. ~ IsLarge(c) /\ e \in 0 .. (max_elements(c) - 1)
  BY <1>1
<1>3. max_elements(c) >= 1
  BY <1>2 DEF Shaped, ChunkOK
<1>4. a \in Nat /\ c.begin + first_element(c) <= a /\ a + c.elm_size <= c.begin + c.bytes
  BY <1>1, <1>2, ElementIn
<1>5. first_element(c) >= 8
  BY <1>1, <1>3, SmallIsNotLarge
<1>. QED  BY <1>1, <1>2, <1>4, <1>5

\* An element is not where a large chunk begins, and not behind the chunks.
LEMMA HeldAside ==
    ASSUME NEW h, Shaped(h), Laid(h), NEW a, NEW t, Holds(h, a, t)
    PROVE  a \in Nat /\ a < h.next_free /\ \A l \in LargeIds(h) : h.chunks[l].begin # a
<1>1. PICK k \in Class(h, t) : \E e \in h.chunks[k].used : a = element(h.chunks[k], e)
  BY DEF Holds
<1>2. PICK e \in h.chunks[k].used : a = element(h.chunks[k], e)
  BY <1>1
<1>3. k \in Ids(h) /\ h \in HeapT
  BY DEF Class, Shaped
<1> DEFINE c == h.chunks[k]
<1>4. /\ ~ IsLarge(c) /\ a \in Nat /\ c.begin + first_element(c) <= a /\ a + c.elm_size <= c.begin + c.bytes
      /\ c.elm_size \in Nat \ {0} /\ c.begin \in Nat /\ c.bytes \in Nat /\ first_element(c) \in Nat /\ first_element(c) >= 8
  BY <1>2, <1>3, HeldElement
<1>5. c.begin + c.bytes <= h.next_free /\ h.next_free \in Nat
  BY <1>3, HeapParts DEF Laid
<1> HIDE DEF c
<1>6. a < h.next_free
  BY <1>4, <1>5
<1>7. ASSUME NEW l \in LargeIds(h) PROVE h.chunks[l].begin # a
  <2>1. l \in Ids(h) /\ l # k
    BY <1>4 DEF LargeIds, c
  <2>2. \/ h.chunks[l].begin + h.chunks[l].bytes <= c.begin
        \/ c.begin + c.bytes <= h.chunks[l].begin
    BY <1>3, <2>1, ChunksApart DEF c
  <2>3. h.chunks[l].begin \in Nat /\ h.chunks[l].bytes \in Nat
    BY <2>1, ChunkNumbers
  <2>. QED  BY <1>4, <2>2, <2>3
<1>. QED  BY <1>4, <1>6, <1>7

\* Chunks begin at different places.
LEMMA BeginsApart ==
    ASSUME NEW h, Shaped(h), Laid(h), NEW j \in Ids(h), NEW k \in Ids(h), h.chunks[j].begin = h.chunks[k].begin
    PROVE  j = k
<1>1. h \in HeapT
  BY DEF Shaped
<1>2. /\ h.chunks[j].begin \in Nat /\ h.chunks[j].bytes \in Nat /\ h.chunks[j].bytes > 0
      /\ h.chunks[k].begin \in Nat /\ h.chunks[k].bytes \in Nat /\ h.chunks[k].bytes > 0
  BY ChunkNumbers
<1>. QED  BY <1>1, <1>2, ChunksApart

LEMMA PlacedBelow ==
    ASSUME NEW h, Sound(h), NEW b, Placed(h, b)
    PROVE  b.ptr \in Nat /\ b.ptr < h.next_free
<1>1. Shaped(h) /\ Laid(h) /\ h \in HeapT
  BY DEF Sound, Shaped
<1>2. CASE get_type(b.size) = LARGE_CHUNK
  <2>1. PICK k \in LargeIds(h) : b.ptr = h.chunks[k].begin
    BY <1>2 DEF Placed
  <2>2. k \in Ids(h)
    BY DEF LargeIds
  <2>3. h.chunks[k].begin \in Nat /\ h.chunks[k].bytes \in Nat /\ h.chunks[k].bytes > 0
    BY <1>1, <2>2, ChunkNumbers
  <2>4. h.chunks[k].begin + h.chunks[k].bytes <= h.next_free /\ h.next_free \in Nat
    BY <1>1, <2>2, HeapParts DEF Laid
  <2>. QED  BY <2>1, <2>3, <2>4
<1>3. CASE get_type(b.size) # LARGE_CHUNK
  BY <1>1, <1>3, HeldAside DEF Placed
<1>. QED  BY <1>2, <1>3

\* Blocks keep their place.
LEMMA GrownPlaced ==
    ASSUME NEW h, NEW g, Grown(h, g), NEW b, Placed(h, b)
    PROVE  Placed(g, b)
<1>1. /\ \A a, t : Holds(h, a, t) => Holds(g, a, t)
      /\ LargeIds(h) = LargeIds(g) \cap Ids(h)
  BY GrownHolds
<1>2. CASE get_type(b.size) = LARGE_CHUNK
  <2>1. PICK k \in LargeIds(h) : b.ptr = h.chunks[k].begin /\ b.size <= h.chunks[k].bytes
    BY <1>2 DEF Placed
  <2>2. k \in LargeIds(g) /\ k \in Ids(h)
    BY <1>1
  <2>3. g.chunks[k].begin = h.chunks[k].begin /\ g.chunks[k].bytes = h.chunks[k].bytes
    BY <2>2 DEF Grown, Alike
  <2>. QED  BY <1>2, <2>1, <2>2, <2>3 DEF Placed
<1>3. CASE get_type(b.size) # LARGE_CHUNK
  <2>1. Holds(h, b.ptr, get_type(b.size)) /\ \A k \in Ids(h) : b.ptr # h.chunks[k].at
    BY <1>3 DEF Placed
  <2>2. ASSUME NEW k \in Ids(g) PROVE b.ptr # g.chunks[k].at
    <3>1. CASE k \in Ids(h)
      BY <2>1, <3>1 DEF Grown, Alike
    <3>2. CASE k \notin Ids(h)
      BY <2>1, <3>2 DEF Grown
    <3>. QED  BY <3>1, <3>2
  <2>. QED  BY <1>1, <1>3, <2>1, <2>2 DEF Placed
<1>. QED  BY <1>2, <1>3

\* The bag of blocks after a malloc and after a free.
LEMMA OneMore ==
    ASSUME NEW L, L \in [DOMAIN L -> {1}], NEW b, b \notin DOMAIN L, NEW M, M = L (+) SetToBag({b})
    PROVE  DOMAIN M = DOMAIN L \cup {b} /\ M \in [DOMAIN M -> {1}]
<1>1. M = [x \in DOMAIN L \cup {b} |-> 1]
  BY DEF (+), SetToBag
<1>. QED  BY <1>1

LEMMA OneLess ==
    ASSUME NEW L, L \in [DOMAIN L -> {1}], NEW b \in DOMAIN L, NEW M, M = L (-) SetToBag({b})
    PROVE  DOMAIN M = DOMAIN L \ {b} /\ M \in [DOMAIN M -> {1}]
<1>1. M = [x \in DOMAIN L \ {b} |-> 1]
  BY DEF (-), SetToBag
<1>. QED  BY <1>1

Fresh(L, a) == \A d \in DOMAIN L : d.ptr # a

LEMMA OwnedMore ==
    ASSUME NEW h, NEW g, Grown(h, g), NEW L, Owned(h, L), NEW b \in [ptr : Nat, size : Requests],
           Placed(g, b), Fresh(L, b.ptr), NEW M, M = L (+) SetToBag({b})
    PROVE  Owned(g, M) /\ DOMAIN M = DOMAIN L \cup {b}
<1>1. /\ L \in [DOMAIN L -> {1}] /\ DOMAIN L \subseteq [ptr : Nat, size : Requests]
      /\ \A d \in DOMAIN L : Placed(h, d)
      /\ \A d, e \in DOMAIN L : d.ptr = e.ptr => d = e
  BY DEF Owned
<1>2. b \notin DOMAIN L
  BY DEF Fresh
<1>3. DOMAIN M = DOMAIN L \cup {b} /\ M \in [DOMAIN M -> {1}]
  BY <1>1, <1>2, OneMore
<1>4. \A d \in DOMAIN M : Placed(g, d)
  BY <1>1, <1>3, GrownPlaced
<1>5. DOMAIN M \subseteq [ptr : Nat, size : Requests]
  BY <1>1, <1>3
<1>6. \A d, e \in DOMAIN M : d.ptr = e.ptr => d = e
  BY <1>1, <1>3 DEF Fresh
<1>. QED  BY <1>3, <1>4, <1>5, <1>6 DEF Owned

\* malloc of a small block.
LEMMA SmallGot ==
    ASSUME NEW h, NEW L, Whole(h, L, FALSE), NEW size \in Requests, NEW t, t = get_type(size), t # LARGE_CHUNK,
           NEW r, r = alloc_small(h, t), NEW M, M = L (+) SetToBag({[ptr |-> r.ptr, size |-> size]})
    PROVE  Whole(r.heap, M, FALSE)
<1>1. Good(h) /\ h.nfrees[InfoType] >= 1 /\ Owned(h, L) /\ Larges(h, InUse(h, L))
  BY DEF Whole
<1>2. size \in Nat \ {0}
  BY MallocAssumption
<1>3. Proper(t) /\ t \in Types
  BY <1>2, ClassOf DEF Proper
<1>4. PICK g, b : g = r.heap /\ b = [ptr |-> r.ptr, size |-> size]
  OBVIOUS
<1>5. GotElement(h, g, r.ptr, t)
  BY <1>1, <1>3, <1>4, AllocSmallIs
<1>6. /\ Good(g) /\ Grown(h, g) /\ LargeIds(g) = LargeIds(h) /\ Larges(g, InUse(h, L)) /\ g.nfrees[InfoType] >= 1
      /\ r.ptr \in Nat /\ Holds(g, r.ptr, t) /\ \A k \in Ids(g) : r.ptr # g.chunks[k].at
      /\ \A u : ~ Holds(h, r.ptr, u)
  BY <1>1, <1>5 DEF GotElement, Extended
<1>7. b \in [ptr : Nat, size : Requests] /\ b.ptr = r.ptr /\ b.size = size
  BY <1>4, <1>6
<1>8. Placed(g, b)
  BY <1>6, <1>7 DEF Placed
<1>9. Shaped(h) /\ Laid(h) /\ Shaped(g) /\ Laid(g)
  BY <1>1, <1>6 DEF Good, Sound
<1>10. \A l \in LargeIds(g) : g.chunks[l].begin # r.ptr
  BY <1>6, <1>9, HeldAside
<1>11. \A l \in LargeIds(h) : h.chunks[l].begin = g.chunks[l].begin
  BY <1>6 DEF Grown, Alike, LargeIds
<1>12. ASSUME NEW d \in DOMAIN L, d.ptr = r.ptr PROVE FALSE
  <2>1. Placed(h, d)
    BY <1>1 DEF Owned
  <2>2. CASE get_type(d.size) = LARGE_CHUNK
    <3>1. PICK l \in LargeIds(h) : d.ptr = h.chunks[l].begin
      BY <2>1, <2>2 DEF Placed
    <3>. QED  BY <1>6, <1>7, <1>10, <1>11, <1>12, <3>1
  <2>3. CASE get_type(d.size) # LARGE_CHUNK
    <3>1. Holds(h, d.ptr, get_type(d.size))
      BY <2>1, <2>3 DEF Placed
    <3>. QED  BY <1>6, <1>7, <1>12, <3>1
  <2>. QED  BY <2>2, <2>3
<1>13. M = L (+) SetToBag({b})
  BY <1>4
<1>14. Owned(g, M) /\ DOMAIN M = DOMAIN L \cup {b}
  <2>1. Fresh(L, b.ptr)
    BY <1>7, <1>12 DEF Fresh
  <2>. QED  BY <1>1, <1>6, <1>7, <1>8, <1>13, <2>1, OwnedMore
<1>15. InUse(g, M) = InUse(h, L)
  <2>1. \A l \in LargeIds(h) : (\E d \in DOMAIN M : d.ptr = g.chunks[l].begin) <=> (\E d \in DOMAIN L : d.ptr = h.chunks[l].begin)
    BY <1>6, <1>7, <1>10, <1>11, <1>14
  <2>. QED  BY <1>6, <2>1 DEF InUse
<1>16. Larges(g, InUse(g, M))
  BY <1>6, <1>15
<1>. QED  BY <1>4, <1>6, <1>14, <1>16 DEF Whole

\* A large chunk k for a block that did not exist.
MoreInUse(h, L, g, M, k) == Owned(g, M) /\ InUse(g, M) = InUse(h, L) \cup {k}

LEMMA LargePlaced ==
    ASSUME NEW h, NEW L, Owned(h, L), NEW size \in Requests, get_type(size) = LARGE_CHUNK,
           NEW g, NEW a, NEW k, GotLarge(h, g, a, size, InUse(h, L), k), Fresh(L, a),
           NEW b, b = [ptr |-> a, size |-> size], NEW M, M = L (+) SetToBag({b})
    PROVE  MoreInUse(h, L, g, M, k)
<1>1. /\ Good(g) /\ Grown(h, g) /\ k \in LargeIds(g) /\ LargeIds(g) = LargeIds(h) \cup {k}
      /\ a = g.chunks[k].begin /\ size <= g.chunks[k].bytes
  BY DEF GotLarge
<1>2. Shaped(g) /\ Laid(g) /\ k \in Ids(g)
  BY <1>1 DEF Good, Sound, LargeIds
<1>3. a \in Nat
  BY <1>1, <1>2, ChunkNumbers
<1>5. b \in [ptr : Nat, size : Requests] /\ b.ptr = a /\ b.size = size
  BY <1>3
<1>6. Placed(g, b)
  BY <1>1, <1>5 DEF Placed
<1>8. Owned(g, M) /\ DOMAIN M = DOMAIN L \cup {b}
  <2>1. Fresh(L, b.ptr)
    BY <1>5
  <2>. QED  BY <1>1, <1>5, <1>6, <2>1, OwnedMore
<1>9. \A l \in LargeIds(h) : l \in LargeIds(g) /\ l \in Ids(g) /\ h.chunks[l].begin = g.chunks[l].begin
  BY <1>1 DEF Grown, Alike, LargeIds
<1>10. ASSUME NEW l \in LargeIds(g), l # k PROVE l \in InUse(g, M) <=> l \in InUse(h, L)
  <2>1. l \in LargeIds(h) /\ l \in Ids(g)
    BY <1>1, <1>9, <1>10
  <2>2. g.chunks[l].begin # a
    BY <1>1, <1>2, <1>10, <2>1, BeginsApart
  <2>. QED  BY <1>5, <1>8, <1>9, <1>10, <2>1, <2>2 DEF InUse
<1>11. k \in InUse(g, M)
  BY <1>1, <1>5, <1>8 DEF InUse
<1>12. InUse(g, M) \subseteq LargeIds(g) /\ InUse(h, L) \subseteq LargeIds(h)
  BY DEF InUse
<1>13. InUse(g, M) = InUse(h, L) \cup {k}
  BY <1>1, <1>10, <1>11, <1>12
<1>. QED  BY <1>8, <1>13 DEF MoreInUse

\* malloc of a large block.
LEMMA LargeGot ==
    ASSUME NEW h, NEW L, Whole(h, L, FALSE), NEW size \in Requests, get_type(size) = LARGE_CHUNK,
           NEW r, r = alloc_large(h, size), NEW M, M = L (+) SetToBag({[ptr |-> r.ptr, size |-> size]}),
           NEW s, s = FitsIn(h, size),
           NEW tng, tng = (s.chunk # 0 /\ Tangles(Unlink(h, "large_free", s.chunk, s.prev), "large", s.chunk))
    PROVE  Whole(r.heap, M, tng)
<1> DEFINE U == InUse(h, L)
<1>1. Good(h) /\ h.nfrees[InfoType] >= 1 /\ Owned(h, L) /\ Larges(h, U)
  BY DEF Whole
<1>2. size \in Nat /\ size >= 8
  <2>1. size \in Nat \ {0}
    BY MallocAssumption
  <2>2. size > Pow2[UpperPow] /\ Pow2[UpperPow] >= 8
    BY <2>1, ClassOf, ClassTypes
  <2>3. Pow2[UpperPow] \in Nat
    BY PowersOfTwo, MallocAssumption
  <2>. QED  BY <2>1, <2>2, <2>3
<1> HIDE DEF U
<1>0. PICK b : b = [ptr |-> r.ptr, size |-> size] /\ M = L (+) SetToBag({b})
  OBVIOUS
<1>3. CASE s.chunk # 0
  <2>1. /\ GotLarge(h, r.heap, r.ptr, size, U, s.chunk) /\ s.chunk \in LargeIds(h)
        /\ ~ Tangles(Unlink(h, "large_free", s.chunk, s.prev), "large", s.chunk) => Larges(r.heap, U \cup {s.chunk})
    BY <1>1, <1>2, <1>3, ReuseLarge
  <2>2. s.chunk \notin U /\ r.ptr = h.chunks[s.chunk].begin
    BY <2>1 DEF GotLarge, Grown, Alike, LargeIds
  <2>3. Fresh(L, r.ptr)
    BY <2>1, <2>2 DEF InUse, U, Fresh
  <2>4. Owned(r.heap, M) /\ InUse(r.heap, M) = U \cup {s.chunk}
    <3>1. GotLarge(h, r.heap, r.ptr, size, InUse(h, L), s.chunk)
      BY <2>1 DEF U
    <3>2. MoreInUse(h, L, r.heap, M, s.chunk)
      BY <1>0, <1>1, <2>3, <3>1, LargePlaced
    <3>. QED  BY <3>2 DEF U, MoreInUse
  <2>. QED  BY <1>3, <2>1, <2>4 DEF Whole, GotLarge
<1>4. CASE s.chunk = 0
  <2>1. PICK sure, k : /\ Extended(h, sure) /\ r.ptr = sure.next_free
                       /\ GotLarge(h, r.heap, r.ptr, size, U, k) /\ Larges(r.heap, U \cup {k})
    BY <1>1, <1>2, <1>4, NewLarge
  <2>2. ASSUME NEW d \in DOMAIN L PROVE d.ptr # r.ptr
    <3>1. Placed(sure, d) /\ Sound(sure)
      BY <1>1, <2>1, GrownPlaced DEF Owned, Extended, Good
    <3>2. d.ptr \in Nat /\ d.ptr < sure.next_free
      BY <3>1, PlacedBelow
    <3>3. sure.next_free \in Nat
      BY <3>1, HeapParts DEF Sound, Shaped
    <3>. QED  BY <2>1, <3>2, <3>3
  <2>3. Owned(r.heap, M) /\ InUse(r.heap, M) = U \cup {k}
    <3>1. GotLarge(h, r.heap, r.ptr, size, InUse(h, L), k) /\ Fresh(L, r.ptr)
      BY <2>1, <2>2 DEF U, Fresh
    <3>2. MoreInUse(h, L, r.heap, M, k)
      BY <1>0, <1>1, <3>1, LargePlaced
    <3>. QED  BY <3>2 DEF U, MoreInUse
  <2>. QED  BY <2>1, <2>3 DEF Whole, GotLarge
<1>. QED  BY <1>3, <1>4

-----------------------------------------------------------------------------
(* free.                                                                   *)

\* Element e of chunk k, at address a, is given back; every other one stays.
GaveBack(h, g, k, t, a) ==
    /\ Marked(h, g, k, t) /\ Sound(g) /\ g.nfrees = [h.nfrees EXCEPT ![t] = @ + 1]
    /\ \A x, u : Holds(h, x, u) /\ x # a => Holds(g, x, u)

LEMMA FreedIs ==
    ASSUME NEW h, Sound(h), NEW t \in Types, NEW k \in Class(h, t), NEW e \in h.chunks[k].used,
           NEW a, a = element(h.chunks[k], e), \A j \in Ids(h) : h.chunks[j].at # a,
           NEW d, d = Freed(h.chunks[k], a), NEW g, g = Remade(h, k, d, t, h.nfrees[t] + 1)
    PROVE  GaveBack(h, g, k, t, a)
<1> DEFINE c == h.chunks[k]
           n == h.nfrees[t] + 1
<1>1. k \in Ids(h) /\ h \in HeapT /\ Shaped(h) /\ Laid(h)
  BY DEF Class, Sound, Shaped
<1>2. /\ c \in ChunkT /\ c.nfree \in Nat /\ max_elements(c) \in Nat /\ c.used \in SUBSET (0 .. (max_elements(c) - 1))
      /\ c.elm_size \in Nat \ {0} /\ c.begin \in Nat /\ c.bytes \in Nat
  BY <1>1, ChunkNumbers
<1>3. IsFiniteSet(c.used) /\ Cardinality(c.used) \in Nat
  <2>1. IsFiniteSet(0 .. (max_elements(c) - 1))
    BY <1>2, FS_Interval
  <2>. QED  BY <1>2, <2>1, FS_Subset, FS_CardinalityType
<1>4. (a - c.begin - first_element(c)) \div c.elm_size = e
  BY <1>2, ElementIn
<1>5. d \in ChunkT /\ Alike(c, d) /\ d.next = c.next /\ d.used = c.used \ {e} /\ d.nfree = c.nfree + 1
  <2>1. d = [c EXCEPT !.used = @ \ {e}, !.nfree = @ + 1]
    BY <1>4 DEF Freed
  <2> HIDE DEF c
  <2>2. c.nfree + 1 \in Nat
    BY <1>2
  <2>. QED  BY <1>2, <2>1, <2>2 DEF ChunkT, Alike
<1>6. n \in Nat /\ h.nfrees[t] \in Nat
  BY <1>1, HeapParts
<1>7. Marked(h, g, k, t) /\ g.chunks[k] = d /\ g.nfrees = [h.nfrees EXCEPT ![t] = n]
  <2>1. n = h.nfrees[t] + d.nfree - c.nfree
    BY <1>2, <1>5, <1>6
  <2> HIDE DEF n
  <2>2. g = Remade(h, k, d, t, n)
    BY DEF n
  <2>. QED  BY <1>1, <1>5, <1>6, <2>1, <2>2, MarkedIs
<1>8. ChunkOK(d)
  <2>1. ChunkOK(c)
    BY <1>1 DEF Shaped
  <2>2. (IsLarge(d) <=> IsLarge(c)) /\ max_elements(d) = max_elements(c) /\ d.elm_size = c.elm_size /\ d.bytes = c.bytes
    BY <1>5, AlikeFacts DEF Alike
  <2>3. Cardinality(d.used) = Cardinality(c.used) - 1
    <3>1. e \in c.used
      OBVIOUS
    <3> HIDE DEF c
    <3>2. Cardinality(c.used \ {e}) = Cardinality(c.used) - 1
      BY <1>3, <3>1, FS_RemoveElement
    <3>. QED  BY <1>5, <3>2
  <2>4. c.nfree = max_elements(c) - Cardinality(c.used)
    BY <2>1 DEF ChunkOK
  <2>5. d.nfree = max_elements(d) - Cardinality(d.used)
    BY <1>2, <1>3, <1>5, <2>2, <2>3, <2>4
  <2>6. d.used \subseteq 0 .. (max_elements(d) - 1)
    BY <1>2, <1>5, <2>2
  <2> HIDE DEF c
  <2>. QED  BY <2>1, <2>2, <2>5, <2>6 DEF ChunkOK
<1>9. Ids(g) = Ids(h) /\ \A u : Class(g, u) = Class(h, u)
  BY <1>7, AlikeIds DEF Marked
<1>10. \A j \in Ids(h) : Alike(h.chunks[j], g.chunks[j])
  BY <1>7 DEF Marked, AllAlike
<1>11. ASSUME NEW x, NEW u, Holds(h, x, u), x # a PROVE Holds(g, x, u)
  <2>1. PICK j \in Class(h, u) : \E f \in h.chunks[j].used : x = element(h.chunks[j], f)
    BY <1>11 DEF Holds
  <2>2. PICK f \in h.chunks[j].used : x = element(h.chunks[j], f)
    BY <2>1
  <2>3. j \in Ids(h)
    BY DEF Class
  <2>4. f \in g.chunks[j].used
    <3>1. CASE j # k
      BY <1>7, <2>3, <3>1 DEF Marked
    <3>2. CASE j = k
      <4>1. f # e
        BY <1>11, <2>2, <3>2
      <4>. QED  BY <1>5, <1>7, <3>2, <4>1
    <3>. QED  BY <3>1, <3>2
  <2>5. x = element(g.chunks[j], f)
    BY <1>10, <2>2, <2>3, AlikeFacts
  <2>. QED  BY <1>9, <2>4, <2>5 DEF Holds
<1>12. Informed(g)
  <2>1. \A j \in Ids(h) : g.chunks[j].at = h.chunks[j].at
    BY <1>10 DEF Alike
  <2>2. \A j \in Ids(h) : Holds(h, h.chunks[j].at, InfoType) /\ h.chunks[j].at # a
    BY DEF Sound, Informed
  <2>3. \A j \in Ids(g) : Holds(g, g.chunks[j].at, InfoType)
    BY <1>9, <1>11, <2>1, <2>2
  <2>. QED  BY <1>9, <2>1, <2>3 DEF Informed, Sound
<1>13. Sound(g)
  BY <1>7, <1>8, <1>12, MarkedSound
<1>14. g.nfrees = [h.nfrees EXCEPT ![t] = @ + 1]
  BY <1>7
<1>. QED  BY <1>7, <1>11, <1>13, <1>14 DEF GaveBack

\* The count may be set before or after the chunk moves.
LEMMA Recounted ==
    ASSUME NEW h, NEW f, NEW k, NEW t, NEW S, Fronted(h, f, k, t, S), NEW n \in [Types -> Nat],
           NEW m, m = [h EXCEPT !.nfrees = n], NEW g, g = [f EXCEPT !.nfrees = n]
    PROVE  Fronted(m, g, k, t, S)
<1>1. h \in HeapT /\ f \in HeapT
  BY DEF Fronted, Relinked
<1>2. /\ m \in HeapT /\ m.chunks = h.chunks /\ m.buckets = h.buckets /\ m.large = h.large /\ m.large_free = h.large_free
      /\ m.next_free = h.next_free /\ m.nfrees = n
  BY <1>1 DEF HeapT
<1>3. /\ g \in HeapT /\ g.chunks = f.chunks /\ g.buckets = f.buckets /\ g.large = f.large /\ g.large_free = f.large_free
      /\ g.next_free = f.next_free /\ g.nfrees = n
  BY <1>1 DEF HeapT
<1>4. Ids(m) = Ids(h) /\ Links(m) = Links(h) /\ Links(g) = Links(f)
  BY <1>2, <1>3 DEF Ids, Links
<1>5. Relinked(m, g)
  BY <1>2, <1>3, <1>4 DEF Fronted, Relinked, AllAlike
<1>6. Nexts(g, Len(g.chunks))
  BY <1>3 DEF Fronted, Nexts
<1>. QED  BY <1>2, <1>3, <1>4, <1>5, <1>6 DEF Fronted

\* An address is part of one chunk only.
LEMMA PartOfOne ==
    ASSUME NEW h, Shaped(h), Laid(h), NEW k \in Ids(h), NEW a \in Nat,
           h.chunks[k].begin <= a, a < h.chunks[k].begin + h.chunks[k].bytes,
           NEW j \in Ids(h), is_part(h.chunks[j], a)
    PROVE  j = k
<1>1. h \in HeapT
  BY DEF Shaped
<1>2. /\ h.chunks[j].begin \in Nat /\ h.chunks[j].bytes \in Nat /\ first_element(h.chunks[j]) \in Nat
      /\ h.chunks[k].begin \in Nat /\ h.chunks[k].bytes \in Nat
  BY ChunkNumbers
<1>3. a >= h.chunks[j].begin + first_element(h.chunks[j]) /\ a < h.chunks[j].begin + h.chunks[j].bytes
  BY DEF is_part
<1>. QED  BY <1>1, <1>2, <1>3, ChunksApart

\* The search of a class for an address in chunk k.
LocatedIn(h, s, t, a, k) ==
    /\ k \in Class(h, t) /\ is_part(h.chunks[k], a) =>
        /\ s.chunk = k /\ s.prev \in Class(h, t) \cup {0} /\ (s.prev = 0 <=> k = h.buckets[t])
        /\ s.prev # 0 => Links(h)[s.prev] = k
    /\ k \notin Class(h, t) => s.chunk = 0

LEMMA FoundInIs ==
    ASSUME NEW h, Good(h), NEW t \in Types, NEW k \in Ids(h), NEW a \in Nat,
           h.chunks[k].begin <= a, a < h.chunks[k].begin + h.chunks[k].bytes
    PROVE  LocatedIn(h, FoundIn(h, t, a), t, a, k)
<1> DEFINE found == {j \in DOMAIN h.chunks : is_part(h.chunks[j], a)}
           s == Seek(h, h.buckets[t], found)
<1>1. h \in HeapT /\ Shaped(h) /\ Laid(h) /\ Listed(h) /\ DOMAIN h.chunks = Ids(h)
  BY HeapParts DEF Good, Sound, Shaped
<1>2. PICK N \in Nat : N = Len(h.chunks) /\ Ids(h) = 1 .. N /\ Nexts(h, N)
  BY <1>1, HeapParts DEF Ids, Listed
<1>3. Class(h, t) \in SUBSET (1 .. N) /\ Chain(Links(h), h.buckets[t], Class(h, t))
  BY <1>1, <1>2 DEF Class, Listed
<1>4. \A j \in found : j = k
  BY <1>1, PartOfOne
<1>5. is_part(h.chunks[k], a) => k \in found
  BY <1>1
<1>6. FoundIn(h, t, a) = s
  BY DEF FoundIn
<1> HIDE DEF found
<1>7. /\ s.chunk \in (Class(h, t) \cap found) \cup {0} /\ (s.chunk = 0 => Class(h, t) \cap found = {})
      /\ s.prev \in (Class(h, t) \ found) \cup {0} /\ (s.prev = 0 <=> s.chunk = h.buckets[t])
      /\ s.prev # 0 => Links(h)[s.prev] = s.chunk
  BY <1>2, <1>3, SeekIs
<1> HIDE DEF s
<1>8. k \notin Class(h, t) => s.chunk = 0
  BY <1>4, <1>7
<1>9. k \in Class(h, t) /\ is_part(h.chunks[k], a) => s.chunk = k
  BY <1>4, <1>5, <1>7
<1>. QED  BY <1>6, <1>7, <1>8, <1>9 DEF LocatedIn

\* Where a block in use lies: in chunk k, which is of its class.
Within(h, b, k) ==
    /\ k \in Ids(h) /\ b.ptr \in Nat
    /\ h.chunks[k].begin <= b.ptr /\ b.ptr < h.chunks[k].begin + h.chunks[k].bytes
    /\ \A t \in Types : k \in Class(h, t) <=> t = get_type(b.size)
    /\ get_type(b.size) = LARGE_CHUNK => k \in LargeIds(h) /\ b.ptr = h.chunks[k].begin
    /\ get_type(b.size) # LARGE_CHUNK =>
        /\ get_type(b.size) \in Types /\ is_part(h.chunks[k], b.ptr)
        /\ \E e \in h.chunks[k].used : b.ptr = element(h.chunks[k], e)

LEMMA WithinOne ==
    ASSUME NEW h, Sound(h), NEW b, b.size \in Requests, Placed(h, b)
    PROVE  \E k : Within(h, b, k)
<1>1. Shaped(h) /\ Laid(h) /\ h \in HeapT
  BY DEF Sound, Shaped
<1>2. CASE get_type(b.size) = LARGE_CHUNK
  <2>1. PICK k \in LargeIds(h) : b.ptr = h.chunks[k].begin
    BY <1>2 DEF Placed
  <2>2. k \in Ids(h) /\ \A t \in Types : k \notin Class(h, t)
    BY DEF LargeIds, Class
  <2>3. h.chunks[k].begin \in Nat /\ h.chunks[k].bytes \in Nat /\ h.chunks[k].bytes > 0
    BY <1>1, <2>2, ChunkNumbers
  <2>4. \A t \in Types : t # get_type(b.size)
    BY <1>2, ClassTypes
  <2>5. h.chunks[k].begin <= b.ptr /\ b.ptr < h.chunks[k].begin + h.chunks[k].bytes /\ b.ptr \in Nat
    BY <2>1, <2>3
  <2>. QED  BY <1>2, <2>1, <2>2, <2>4, <2>5 DEF Within
<1>3. CASE get_type(b.size) # LARGE_CHUNK
  <2>1. PICK k \in Class(h, get_type(b.size)) : \E e \in h.chunks[k].used : b.ptr = element(h.chunks[k], e)
    BY <1>3 DEF Placed, Holds
  <2>2. PICK e \in h.chunks[k].used : b.ptr = element(h.chunks[k], e)
    BY <2>1
  <2>3. k \in Ids(h) /\ \A t \in Types : k \in Class(h, t) <=> t = get_type(b.size)
    BY DEF Class
  <2> DEFINE c == h.chunks[k]
  <2>4. /\ b.ptr \in Nat /\ c.begin + first_element(c) <= b.ptr /\ b.ptr + c.elm_size <= c.begin + c.bytes
        /\ c.elm_size \in Nat \ {0} /\ c.begin \in Nat /\ c.bytes \in Nat /\ first_element(c) \in Nat
    BY <1>1, <2>2, <2>3, HeldElement
  <2>5. c.begin <= b.ptr /\ b.ptr < c.begin + c.bytes /\ is_part(c, b.ptr)
    BY <2>4 DEF is_part
  <2>6. get_type(b.size) \in Types
    <3>1. b.size \in Nat \ {0}
      BY MallocAssumption
    <3>. QED  BY <1>3, <3>1, ClassOf DEF Proper
  <2>. QED  BY <1>3, <2>1, <2>3, <2>4, <2>5, <2>6 DEF Within
<1>. QED  BY <1>2, <1>3

LEMMA SearchedAre == SearchedTypes = Types \ {UpperPow - LowerPow} /\ LARGE_CHUNK \notin SearchedTypes
<1>1. SearchedTypes = 0 .. (UpperPow - LowerPow - 1)
  <2>1. \A i \in LowerPow .. (UpperPow - 1) : i - LowerPow \in 0 .. (UpperPow - LowerPow - 1)
    BY MallocAssumption
  <2>2. ASSUME NEW t \in 0 .. (UpperPow - LowerPow - 1) PROVE \E i \in LowerPow .. (UpperPow - 1) : t = i - LowerPow
    <3>1. PICK i : i = t + LowerPow
      OBVIOUS
    <3>2. i \in LowerPow .. (UpperPow - 1) /\ t = i - LowerPow
      BY <3>1, MallocAssumption
    <3>. QED  BY <3>2
  <2>. QED  BY <2>1, <2>2 DEF SearchedTypes
<1>2. 0 .. (UpperPow - LowerPow - 1) = Types \ {UpperPow - LowerPow}
  BY MallocAssumption DEF Types
<1>. QED  BY <1>1, <1>2, ClassTypes

\* find_chunk finds a small block in its own class, if it looks there.
LEMMA FoundSmallIs ==
    ASSUME NEW h, Good(h), NEW b, b.size \in Requests, Placed(h, b)
    PROVE  FoundSmall(h, b.ptr) = {get_type(b.size)} \cap SearchedTypes
<1>1. PICK k : Within(h, b, k)
  BY WithinOne DEF Good
<1>2. ASSUME NEW t \in SearchedTypes PROVE FoundIn(h, t, b.ptr).chunk # 0 <=> t = get_type(b.size)
  <2>1. t \in Types
    BY SearchedAre
  <2>2. /\ k \in Ids(h) /\ b.ptr \in Nat /\ h.chunks[k].begin <= b.ptr
        /\ b.ptr < h.chunks[k].begin + h.chunks[k].bytes
    BY <1>1 DEF Within
  <2>3. LocatedIn(h, FoundIn(h, t, b.ptr), t, b.ptr, k)
    BY <2>1, <2>2, FoundInIs
  <2>4. k # 0
    BY <2>2, HeapParts DEF Good, Sound, Shaped
  <2>5. CASE t = get_type(b.size)
    <3>1. t # LARGE_CHUNK
      BY SearchedAre
    <3>2. k \in Class(h, t) /\ is_part(h.chunks[k], b.ptr)
      BY <1>1, <2>1, <2>5, <3>1 DEF Within
    <3>. QED  BY <2>3, <2>4, <2>5, <3>2 DEF LocatedIn
  <2>6. CASE t # get_type(b.size)
    <3>1. k \notin Class(h, t)
      BY <1>1, <2>1, <2>6 DEF Within
    <3>. QED  BY <2>3, <2>6, <3>1 DEF LocatedIn
  <2>. QED  BY <2>5, <2>6
<1>. QED  BY <1>2 DEF FoundSmall

\* What is left of the blocks after one of them is free.
HoldsBut(h, g, a) ==
    /\ Ids(g) = Ids(h) /\ LargeIds(g) = LargeIds(h) /\ \A k \in Ids(h) : Alike(h.chunks[k], g.chunks[k])
    /\ \A x, u : Holds(h, x, u) /\ x # a => Holds(g, x, u)

OwnedBut(g, L, M, b) == Owned(g, M) /\ DOMAIN M = DOMAIN L \ {b}

LEMMA OwnedLess ==
    ASSUME NEW h, NEW g, NEW L, Owned(h, L), NEW b \in DOMAIN L, HoldsBut(h, g, b.ptr),
           NEW M, M = L (-) SetToBag({b})
    PROVE  OwnedBut(g, L, M, b)
<1>0. /\ Ids(g) = Ids(h) /\ LargeIds(g) = LargeIds(h) /\ \A k \in Ids(h) : Alike(h.chunks[k], g.chunks[k])
      /\ \A x, u : Holds(h, x, u) /\ x # b.ptr => Holds(g, x, u)
  BY DEF HoldsBut
<1>1. /\ L \in [DOMAIN L -> {1}] /\ DOMAIN L \subseteq [ptr : Nat, size : Requests]
      /\ \A d \in DOMAIN L : Placed(h, d)
      /\ \A d, e \in DOMAIN L : d.ptr = e.ptr => d = e
  BY DEF Owned
<1>2. DOMAIN M = DOMAIN L \ {b} /\ M \in [DOMAIN M -> {1}]
  BY <1>1, OneLess
<1>3. ASSUME NEW d \in DOMAIN M PROVE Placed(g, d)
  <2>1. d \in DOMAIN L /\ d.ptr # b.ptr /\ Placed(h, d)
    BY <1>1, <1>2
  <2>2. CASE get_type(d.size) = LARGE_CHUNK
    <3>1. PICK k \in LargeIds(h) : d.ptr = h.chunks[k].begin /\ d.size <= h.chunks[k].bytes
      BY <2>1, <2>2 DEF Placed
    <3>2. k \in LargeIds(g) /\ k \in Ids(h)
      BY <1>0 DEF LargeIds
    <3>3. g.chunks[k].begin = h.chunks[k].begin /\ g.chunks[k].bytes = h.chunks[k].bytes
      BY <1>0, <3>2 DEF Alike
    <3>. QED  BY <2>2, <3>1, <3>2, <3>3 DEF Placed
  <2>3. CASE get_type(d.size) # LARGE_CHUNK
    <3>1. Holds(h, d.ptr, get_type(d.size)) /\ \A k \in Ids(h) : d.ptr # h.chunks[k].at
      BY <2>1, <2>3 DEF Placed
    <3>2. \A k \in Ids(g) : d.ptr # g.chunks[k].at
      BY <1>0, <3>1 DEF Alike
    <3>. QED  BY <1>0, <2>1, <2>3, <3>1, <3>2 DEF Placed
  <2>. QED  BY <2>2, <2>3
<1>4. DOMAIN M \subseteq [ptr : Nat, size : Requests] /\ \A d, e \in DOMAIN M : d.ptr = e.ptr => d = e
  BY <1>1, <1>2
<1>. QED  BY <1>2, <1>3, <1>4 DEF Owned, OwnedBut

\* free of a small block in a class find_chunk looks through.
FreeIn(h, k, prev, a) ==
    LET f == [h EXCEPT !.chunks[k] = Freed(@, a)] IN
    [put_front(f, k, prev) EXCEPT !.nfrees[get_type(h.chunks[k].elm_size)] = @ + 1]

LEMMA SmallFreed ==
    ASSUME NEW h, NEW L, Whole(h, L, FALSE), NEW b \in DOMAIN L,
           NEW t \in Types, t = get_type(b.size), NEW s, s = FoundIn(h, t, b.ptr),
           NEW g, g = FreeIn(h, s.chunk, s.prev, b.ptr), NEW M, M = L (-) SetToBag({b})
    PROVE  Whole(g, M, FALSE)
<1>1. Good(h) /\ h.nfrees[InfoType] >= 1 /\ Owned(h, L) /\ Larges(h, InUse(h, L))
  BY DEF Whole
<1>2. /\ h \in HeapT /\ Sound(h) /\ Shaped(h) /\ Laid(h) /\ Nexts(h, Len(h.chunks))
      /\ h.large \in Ids(h) \cup {0} /\ h.large_free \in Ids(h) \cup {0}
      /\ \A u \in Types : Chain(Links(h), h.buckets[u], Class(h, u))
  BY <1>1 DEF Good, Sound, Shaped, Listed
<1>3. Placed(h, b) /\ b.size \in Requests
  BY <1>1 DEF Owned
<1>4. t # LARGE_CHUNK
  BY ClassTypes
<1>5. PICK k : Within(h, b, k)
  BY <1>2, <1>3, WithinOne
<1>6. /\ k \in Ids(h) /\ b.ptr \in Nat /\ h.chunks[k].begin <= b.ptr
      /\ b.ptr < h.chunks[k].begin + h.chunks[k].bytes
      /\ k \in Class(h, t) /\ is_part(h.chunks[k], b.ptr)
      /\ \E e \in h.chunks[k].used : b.ptr = element(h.chunks[k], e)
  BY <1>4, <1>5 DEF Within
<1>7. LocatedIn(h, s, t, b.ptr, k)
  BY <1>1, <1>6, FoundInIs
<1>8. PICK prev : prev = s.prev
  OBVIOUS
<1>9. /\ s.chunk = k /\ prev \in Class(h, t) \cup {0} /\ (prev = 0 <=> k = h.buckets[t])
      /\ prev # 0 => Links(h)[prev] = k
  BY <1>6, <1>7, <1>8 DEF LocatedIn
<1>10. PICK e \in h.chunks[k].used : b.ptr = element(h.chunks[k], e)
  BY <1>6
<1>11. \A j \in Ids(h) : h.chunks[j].at # b.ptr
  BY <1>3, <1>4 DEF Placed
<1>12. PICK d, n : d = Freed(h.chunks[k], b.ptr) /\ n = [h.nfrees EXCEPT ![t] = h.nfrees[t] + 1]
  OBVIOUS
<1>13. PICK m : m = Remade(h, k, d, t, h.nfrees[t] + 1)
  OBVIOUS
<1>14. GaveBack(h, m, k, t, b.ptr)
  BY <1>2, <1>6, <1>10, <1>11, <1>12, <1>13, FreedIs
<1>15. /\ m \in HeapT /\ AllAlike(h, m) /\ Links(m) = Links(h) /\ m.buckets = h.buckets /\ m.large = h.large
       /\ m.large_free = h.large_free /\ Sound(m) /\ m.nfrees = n /\ n \in [Types -> Nat]
       /\ \A x, u : Holds(h, x, u) /\ x # b.ptr => Holds(m, x, u)
  <2>1. h.nfrees \in [Types -> Nat]
    BY <1>2, HeapParts
  <2>2. n \in [Types -> Nat]
    BY <1>12, <2>1
  <2>. QED  BY <1>12, <1>14, <2>2 DEF GaveBack, Marked
<1>16. Ids(m) = Ids(h) /\ LargeIds(m) = LargeIds(h) /\ \A u : Class(m, u) = Class(h, u)
  BY <1>15, AlikeIds
<1>f. PICK f : f = [h EXCEPT !.chunks[k] = Freed(@, b.ptr)]
  OBVIOUS
<1>17. f = [m EXCEPT !.nfrees = h.nfrees] /\ m = [f EXCEPT !.nfrees = n]
  <2>1. f = [h EXCEPT !.chunks = [h.chunks EXCEPT ![k] = d]]
    BY <1>12, <1>f
  <2>2. m = [h EXCEPT !.chunks = [h.chunks EXCEPT ![k] = d], !.nfrees = n]
    BY <1>12, <1>13 DEF Remade
  <2>. QED  BY <1>2, <2>1, <2>2 DEF HeapT
<1>18. f \in HeapT /\ f.chunks = m.chunks /\ f.buckets = m.buckets /\ f.nfrees = h.nfrees
  <2>1. h.nfrees \in [Types -> Nat]
    BY <1>2, HeapParts
  <2>. QED  BY <1>15, <1>17, <2>1 DEF HeapT
<1>19. Ids(f) = Ids(h) /\ Links(f) = Links(h) /\ Len(f.chunks) = Len(m.chunks)
  BY <1>15, <1>16, <1>18 DEF Ids, Links
<1>20. t = get_type(f.chunks[k].elm_size) /\ t = get_type(h.chunks[k].elm_size)
  <2>1. t = get_type(h.chunks[k].elm_size)
    BY <1>6 DEF Class
  <2>2. f.chunks[k].elm_size = h.chunks[k].elm_size
    BY <1>6, <1>15, <1>18 DEF AllAlike, Alike
  <2>. QED  BY <2>1, <2>2
<1>21. PICK p : p = put_front(f, k, prev)
  OBVIOUS
<1>22. Fronted(f, p, k, t, Class(h, t))
  <2>1. Class(h, t) \in SUBSET Ids(f) /\ k \in Ids(f) /\ k \in Class(h, t)
    BY <1>6, <1>19 DEF Class
  <2>2. Chain(Links(f), f.buckets[t], Class(h, t))
    BY <1>2, <1>15, <1>18, <1>19
  <2>3. Nexts(f, Len(f.chunks))
    BY <1>2, <1>18, <1>19, NextsAre
  <2>4. prev \in Class(h, t) \cup {0} /\ (prev = 0 <=> k = f.buckets[t]) /\ (prev # 0 => Links(f)[prev] = k)
    BY <1>9, <1>15, <1>18, <1>19
  <2>. QED  BY <1>18, <1>20, <1>21, <2>1, <2>2, <2>3, <2>4, PutFrontIs
<1>23. g = [p EXCEPT !.nfrees = n]
  <2>1. p.nfrees = h.nfrees
    BY <1>18, <1>22 DEF Fronted, Relinked
  <2>2. g = [p EXCEPT !.nfrees[t] = @ + 1]
    BY <1>8, <1>9, <1>20, <1>21, <1>f DEF FreeIn
  <2>. QED  BY <1>12, <2>1, <2>2
<1>24. Fronted(m, g, k, t, Class(h, t))
  <2>1. n \in [Types -> Nat]
    BY <1>15
  <2>2. m = [f EXCEPT !.nfrees = n]
    BY <1>17
  <2>. QED  BY <1>22, <1>23, <2>1, <2>2, Recounted
<1>25. Relinked(m, g)
  BY <1>24 DEF Fronted
<1>26. Sound(g)
  BY <1>15, <1>25, RelinkedSound
<1>27. Listed(g)
  <2>1. Class(h, t) \in SUBSET Class(m, t) /\ Class(h, t) \cup {k} = Class(m, t) /\ k \in Class(m, t) /\ k \in Ids(m)
    BY <1>6, <1>16
  <2>2. \A u \in Types : u # t => Chain(Links(m), m.buckets[u], Class(m, u))
    BY <1>2, <1>15, <1>16
  <2>3. m.large \in Ids(m) \cup {0} /\ m.large_free \in Ids(m) \cup {0}
    BY <1>2, <1>15, <1>16
  <2>. QED  BY <1>15, <1>24, <2>1, <2>2, <2>3, PutFrontListed
<1>28. Ids(g) = Ids(h) /\ LargeIds(g) = LargeIds(h)
  BY <1>16, <1>25, AlikeIds DEF Relinked
<1>29. \A j \in Ids(h) : Alike(h.chunks[j], g.chunks[j])
  BY <1>15, <1>16, <1>25 DEF Relinked, AllAlike, Alike
<1>30. \A x, u : Holds(h, x, u) /\ x # b.ptr => Holds(g, x, u)
  BY <1>15, <1>25, RelinkedHolds
<1>31. Owned(g, M) /\ DOMAIN M = DOMAIN L \ {b}
  <2>1. HoldsBut(h, g, b.ptr)
    BY <1>28, <1>29, <1>30 DEF HoldsBut
  <2>2. OwnedBut(g, L, M, b)
    BY <1>1, <2>1, OwnedLess
  <2>. QED  BY <2>2 DEF OwnedBut
<1>32. InUse(g, M) = InUse(h, L)
  <2>1. \A l \in LargeIds(h) : h.chunks[l].begin # b.ptr
    BY <1>2, <1>3, <1>4, HeldAside DEF Placed
  <2>2. \A l \in LargeIds(h) : g.chunks[l].begin = h.chunks[l].begin
    BY <1>29 DEF Alike, LargeIds
  <2>. QED  BY <1>28, <1>31, <2>1, <2>2 DEF InUse
<1>33. Larges(g, InUse(h, L))
  <2>1. \A l \in LargeIds(h) : l \in Ids(m) /\ l \notin Class(h, t) \cup {k}
    BY <1>6, <1>16 DEF LargeIds, Class
  <2>2. \A l \in LargeIds(h) : Links(g)[l] = Links(h)[l]
    BY <1>15, <1>24, <2>1 DEF Fronted
  <2>3. Aside(h, g)
    BY <1>14, <1>15, <1>24, <2>2 DEF Aside, Fronted, Relinked, GaveBack, Marked
  <2>. QED  BY <1>1, <1>28, <2>3, AsideLarges
<1>34. g.nfrees[InfoType] >= 1
  <2>1. g.nfrees = n /\ InfoType \in Types /\ h.nfrees \in [Types -> Nat]
    BY <1>2, <1>15, <1>25, InfoClass, HeapParts DEF Relinked
  <2>. QED  BY <1>1, <1>12, <2>1
<1>. QED  BY <1>26, <1>27, <1>31, <1>32, <1>33, <1>34 DEF Whole, Good

\* find_chunk in `large'.
LocatedLarge(h, s, a, U) ==
    /\ s.chunk \in U \cup {0} /\ (s.chunk # 0 => h.chunks[s.chunk].begin = a)
    /\ s.chunk = 0 => \A k \in U : h.chunks[k].begin # a
    /\ s.prev \in U \cup {0} /\ (s.prev = 0 <=> s.chunk = h.large)
    /\ s.prev # 0 => Links(h)[s.prev] = s.chunk

LEMMA FoundLargeIs ==
    ASSUME NEW h, Good(h), NEW U, Larges(h, U), NEW a
    PROVE  LocatedLarge(h, FoundLarge(h, a), a, U)
<1> DEFINE found == {j \in DOMAIN h.chunks : h.chunks[j].begin = a}
           s == Seek(h, h.large, found)
<1>1. h \in HeapT /\ Listed(h) /\ DOMAIN h.chunks = Ids(h)
  BY HeapParts DEF Good, Sound, Shaped
<1>2. PICK N \in Nat : N = Len(h.chunks) /\ Ids(h) = 1 .. N /\ Nexts(h, N)
  BY <1>1, HeapParts DEF Ids, Listed
<1>3. U \in SUBSET (1 .. N) /\ Chain(Links(h), h.large, U)
  BY <1>2 DEF Larges, LargeIds
<1>4. \A j \in U : j \in found <=> h.chunks[j].begin = a
  BY <1>1, <1>2, <1>3
<1>5. FoundLarge(h, a) = s
  BY DEF FoundLarge
<1> HIDE DEF found
<1>6. /\ s.chunk \in (U \cap found) \cup {0} /\ (s.chunk = 0 => U \cap found = {})
      /\ s.prev \in (U \ found) \cup {0} /\ (s.prev = 0 <=> s.chunk = h.large)
      /\ s.prev # 0 => Links(h)[s.prev] = s.chunk
  BY <1>2, <1>3, SeekIs
<1> HIDE DEF s
<1>7. s.chunk # 0 => s.chunk \in U /\ h.chunks[s.chunk].begin = a
  BY <1>4, <1>6
<1>8. s.chunk = 0 => \A k \in U : h.chunks[k].begin # a
  BY <1>4, <1>6
<1>9. s.chunk \in U \cup {0} /\ s.prev \in U \cup {0}
  BY <1>6
<1>. QED  BY <1>5, <1>6, <1>7, <1>8, <1>9 DEF LocatedLarge

\* free of a large block.
LEMMA LargeFreed ==
    ASSUME NEW h, NEW L, Whole(h, L, FALSE), NEW b \in DOMAIN L,
           NEW s, s = FoundLarge(h, b.ptr), s.chunk # 0,
           NEW f, f = Unlink(h, "large", s.chunk, s.prev), NEW g, g = put_sorted(f, "large_free", s.chunk),
           NEW tng, tng = Tangles(f, "large_free", s.chunk), NEW M, M = L (-) SetToBag({b})
    PROVE  Whole(g, M, tng)
<1> DEFINE U == InUse(h, L)
           V == LargeIds(h) \ U
<1>1. Good(h) /\ h.nfrees[InfoType] >= 1 /\ Owned(h, L) /\ Larges(h, U)
  BY DEF Whole
<1>2. h \in HeapT /\ Shaped(h) /\ Laid(h) /\ LargeIds(h) \subseteq Ids(h)
  BY <1>1 DEF Good, Sound, Shaped, LargeIds
<1>3. U \in SUBSET LargeIds(h) /\ V \in SUBSET LargeIds(h) /\ U \cap V = {}
      /\ Chain(Links(h), h["large"], U) /\ Chain(Links(h), h["large_free"], V)
  BY <1>1 DEF Larges
<1>4. \A l \in LargeIds(h) : l \in U <=> \E d \in DOMAIN L : d.ptr = h.chunks[l].begin
  BY DEF InUse
<1> HIDE DEF U
<1>5. LocatedLarge(h, s, b.ptr, U)
  BY <1>1, FoundLargeIs
<1>6. PICK k, prev : k = s.chunk /\ prev = s.prev
  OBVIOUS
<1>7. /\ k \in U /\ h.chunks[k].begin = b.ptr /\ prev \in U \cup {0} /\ (prev = 0 <=> k = h["large"])
      /\ prev # 0 => Links(h)[prev] = k
  BY <1>5, <1>6 DEF LocatedLarge
<1>8. /\ Good(g) /\ Relinked(h, g)
      /\ ~ Tangles(f, "large_free", k) => Moved(h, g, "large", "large_free", U, V, k)
  <2>1. "large" \in Lists /\ "large_free" \in Lists /\ "large" # "large_free"
    BY DEF Lists
  <2>2. f = Unlink(h, "large", k, prev) /\ g = put_sorted(f, "large_free", k)
    BY <1>6
  <2> HIDE DEF V
  <2>. QED  BY <1>1, <1>3, <1>7, <2>1, <2>2, MoveIs
<1>9. Ids(g) = Ids(h) /\ LargeIds(g) = LargeIds(h) /\ \A j \in Ids(h) : Alike(h.chunks[j], g.chunks[j])
  BY <1>8, AlikeIds DEF Relinked, AllAlike
<1>10. \A x, u : Holds(h, x, u) /\ x # b.ptr => Holds(g, x, u)
  BY <1>8, RelinkedHolds
<1>11. Owned(g, M) /\ DOMAIN M = DOMAIN L \ {b}
  <2>1. HoldsBut(h, g, b.ptr)
    BY <1>9, <1>10 DEF HoldsBut
  <2>2. OwnedBut(g, L, M, b)
    BY <1>1, <2>1, OwnedLess
  <2>. QED  BY <2>2 DEF OwnedBut
<1>12. \A d, e \in DOMAIN L : d.ptr = e.ptr => d = e
  BY <1>1 DEF Owned
<1>13. \A l \in LargeIds(h) : l \in Ids(h) /\ g.chunks[l].begin = h.chunks[l].begin
  BY <1>2, <1>9 DEF Alike
<1>14. ASSUME NEW l \in LargeIds(h) PROVE l \in InUse(g, M) <=> l \in U \ {k}
  <2>1. l \in InUse(g, M) <=> \E d \in DOMAIN L : d # b /\ d.ptr = h.chunks[l].begin
    BY <1>9, <1>11, <1>13 DEF InUse
  <2>2. CASE l = k
    BY <1>7, <1>12, <2>1, <2>2
  <2>3. CASE l # k
    <3>1. l \in Ids(h) /\ k \in Ids(h)
      BY <1>3, <1>7, <1>13
    <3>2. h.chunks[l].begin # b.ptr
      BY <1>2, <1>7, <2>3, <3>1, BeginsApart
    <3>. QED  BY <1>4, <2>1, <2>3, <3>2
  <2>. QED  BY <2>2, <2>3
<1>15. InUse(g, M) = U \ {k}
  <2>1. InUse(g, M) \subseteq LargeIds(h)
    BY <1>9 DEF InUse
  <2>. QED  BY <1>3, <1>14, <2>1
<1>16. ~ tng => Larges(g, InUse(g, M))
  <2>1. LargeIds(g) \ (U \ {k}) = V \cup {k} /\ U \ {k} \subseteq LargeIds(g)
    BY <1>3, <1>7, <1>9
  <2>2. ~ tng => Chain(Links(g), g.large, U \ {k}) /\ Chain(Links(g), g.large_free, V \cup {k})
    BY <1>6, <1>8 DEF Moved
  <2>. QED  BY <1>15, <2>1, <2>2 DEF Larges
<1>17. g.nfrees[InfoType] >= 1
  BY <1>1, <1>8 DEF Relinked
<1>. QED  BY <1>8, <1>11, <1>16, <1>17 DEF Whole

-----------------------------------------------------------------------------
(* The invariant.                                                          *)

\* The first chunk holds its own chunkinfo_t.
BootIs(c) ==
    /\ c \in ChunkT /\ ChunkOK(c) /\ ~ IsLarge(c) /\ get_type(c.elm_size) = InfoType
    /\ c.begin = 0 /\ c.bytes = BootBytes /\ c.next = 0 /\ c.nfree >= 1
    /\ \E e \in c.used : c.at = element(c, e)

LEMMA BootChunk == BootIs(Boot)
<1> DEFINE elm == get_size(InfoType)
           n == Elements(InfoType, BootBytes)
<1>1. InfoType \in Types /\ Proper(InfoType)
  BY InfoClass
<1>2. elm \in Nat \ {0} /\ BootBytes \in Nat
  BY <1>1, ClassTypes, MallocAssumption
<1>3. n = max_elements([elm_size |-> elm, bytes |-> BootBytes]) /\ n \in Nat /\ n >= 2
  <2>1. n = max_elements([elm_size |-> elm, bytes |-> BootBytes])
    BY DEF Elements
  <2>2. max_elements([elm_size |-> elm, bytes |-> BootBytes]) \in Int
    BY <1>2, ElementsFit
  <2>3. n >= 2
    BY SizesAssumption
  <2>. QED  BY <2>1, <2>2, <2>3
<1>4. PICK c : c = NewChunk(elm, 0, BootBytes, 0)
  OBVIOUS
<1>5. PICK e : e = alloc_free(c)
  OBVIOUS
<1>6. PICK b : b = [c EXCEPT !.used = {e}, !.nfree = @ - 1, !.at = element(c, e)]
  OBVIOUS
<1>7. Boot = b
  BY <1>4, <1>5, <1>6 DEF Boot
<1>8. elm = get_size(InfoType)
  OBVIOUS
<1> HIDE DEF elm, n
<1>9. /\ c \in ChunkT /\ c.elm_size = elm /\ c.begin = 0 /\ c.bytes = BootBytes
      /\ c.next = 0 /\ c.used = {} /\ c.nfree = n /\ max_elements(c) = n
  BY <1>2, <1>3, <1>4, NewChunkIs
<1>10. e \in 0 .. (n - 1)
  <2>1. \E x \in 0 .. (n - 1) : x \notin {}
    BY <1>3
  <2>2. alloc_free(c) = CHOOSE x \in 0 .. (n - 1) : x \notin {}
    BY <1>9 DEF alloc_free
  <2>. QED  BY <1>5, <2>1, <2>2
<1>11. element(c, e) \in Nat
  BY <1>2, <1>9, <1>10, ElementIn
<1>12. /\ b \in ChunkT /\ b.elm_size = elm /\ b.begin = 0 /\ b.bytes = BootBytes /\ b.next = 0
       /\ b.used = {e} /\ b.nfree = n - 1 /\ b.at = element(c, e)
  <2>1. n - 1 \in Nat /\ e \in Nat
    BY <1>3, <1>10
  <2>. QED  BY <1>6, <1>9, <1>11, <2>1 DEF ChunkT
<1>13. max_elements(b) = n /\ first_element(b) = first_element(c)
  BY <1>9, <1>12, SameElements
<1>14. ~ IsLarge(b)
  <2>1. b.elm_size # b.bytes
    BY <1>2, <1>3, <1>12, <1>13, SmallIsNotLarge
  <2>. QED  BY <2>1 DEF IsLarge
<1>15. get_type(b.elm_size) = InfoType /\ b.elm_size = get_size(InfoType)
  BY <1>1, <1>8, <1>12 DEF Proper
<1>16. ChunkOK(b)
  <2>1. Cardinality({e}) = 1
    BY FS_Singleton
  <2>2. b.nfree = max_elements(b) - Cardinality(b.used) /\ b.used \subseteq 0 .. (max_elements(b) - 1)
    BY <1>3, <1>10, <1>12, <1>13, <2>1
  <2>3. max_elements(b) >= 1
    BY <1>3, <1>13
  <2>. QED  BY <1>1, <1>14, <1>15, <2>2, <2>3 DEF ChunkOK
<1>17. element(b, e) = element(c, e)
  BY <1>9, <1>12, <1>13 DEF element
<1>. QED  BY <1>3, <1>7, <1>12, <1>14, <1>15, <1>16, <1>17 DEF BootIs

LEMMA InitInv == Init => MallocInv
<1> SUFFICES ASSUME Init PROVE MallocInv
  OBVIOUS
<1>1. PICK c : c = Boot
  OBVIOUS
<1>2. BootIs(c)
  BY <1>1, BootChunk
<1>3. /\ c \in ChunkT /\ ChunkOK(c) /\ ~ IsLarge(c) /\ get_type(c.elm_size) = InfoType
      /\ c.begin = 0 /\ c.bytes = BootBytes /\ c.next = 0 /\ c.nfree >= 1 /\ c.nfree \in Nat
  BY <1>2, ChunkFields DEF BootIs
<1>4. PICK h : h = heap
  OBVIOUS
<1>5. /\ h = [chunks |-> <<c>>,
              buckets |-> [type \in Types |-> IF type = InfoType THEN 1 ELSE 0],
              nfrees |-> [type \in Types |-> IF type = InfoType THEN c.nfree ELSE 0],
              large |-> 0, large_free |-> 0, next_free |-> BootBytes]
      /\ live = EmptyBag /\ halted = "no" /\ tangled = FALSE
  BY <1>1, <1>4 DEF Init
<1>6. /\ h.chunks = <<c>> /\ h.buckets = [type \in Types |-> IF type = InfoType THEN 1 ELSE 0]
      /\ h.nfrees = [type \in Types |-> IF type = InfoType THEN c.nfree ELSE 0]
      /\ h.large = 0 /\ h.large_free = 0 /\ h.next_free = BootBytes
  BY <1>5
<1>7. h \in HeapT
  <2>1. <<c>> \in Seq(ChunkT)
    BY <1>3
  <2>2. /\ [type \in Types |-> IF type = InfoType THEN 1 ELSE 0] \in [Types -> Nat]
        /\ [type \in Types |-> IF type = InfoType THEN c.nfree ELSE 0] \in [Types -> Nat]
    BY <1>3
  <2>3. BootBytes \in Nat
    BY MallocAssumption
  <2>. QED  BY <1>5, <2>1, <2>2, <2>3 DEF HeapT
<1>8. Len(h.chunks) = 1 /\ Ids(h) = {1} /\ h.chunks[1] = c
  BY <1>6 DEF Ids
<1>9. Class(h, InfoType) = {1} /\ LargeIds(h) = {} /\ \A t : t # InfoType => Class(h, t) = {}
  BY <1>3, <1>8 DEF Class, LargeIds
<1>10. InfoType \in Types
  BY InfoClass
<1>11. Shaped(h)
  BY <1>3, <1>7, <1>8 DEF Shaped
<1>12. Laid(h)
  <2>1. c.begin + c.bytes <= h.next_free
    BY <1>3, <1>6, MallocAssumption
  <2>. QED  BY <1>8, <2>1 DEF Laid
<1>13. Counted(h)
  <2> SUFFICES ASSUME NEW t \in Types PROVE h.nfrees[t] = SumTo(Frees(h, t), 1)
    BY <1>8 DEF Counted
  <2>1. Frees(h, t) \in [1 .. 1 -> Int] /\ Frees(h, t)[1] = IF t = InfoType THEN c.nfree ELSE 0
    <3>1. 1 .. 1 = {1}
      OBVIOUS
    <3>2. Frees(h, t) = [k \in {1} |-> IF t = InfoType THEN c.nfree ELSE 0]
      <4>1. CASE t = InfoType
        BY <1>8, <1>9, <4>1 DEF Frees
      <4>2. CASE t # InfoType
        BY <1>8, <1>9, <4>2 DEF Frees
      <4>. QED  BY <4>1, <4>2
    <3>. QED  BY <1>3, <3>1, <3>2
  <2>2. PICK s : Sums(Frees(h, t), 1, s) /\ SumTo(Frees(h, t), 1) = s[1]
    BY <2>1, SumToIsSum
  <2>3. s[1] = s[0] + Frees(h, t)[1] /\ s[0] = 0
    BY <2>2 DEF Sums
  <2>4. h.nfrees[t] = IF t = InfoType THEN c.nfree ELSE 0
    BY <1>6
  <2>. QED  BY <1>3, <2>1, <2>2, <2>3, <2>4
<1>14. Informed(h)
  <2>1. Holds(h, c.at, InfoType)
    BY <1>2, <1>8, <1>9 DEF Holds, BootIs
  <2>. QED  BY <1>8, <2>1 DEF Informed
<1>15. Links(h) = [k \in {1} |-> 0]
  BY <1>3, <1>8 DEF Links
<1>16. Listed(h)
  <2>1. Nexts(h, Len(h.chunks))
    BY <1>3, <1>8 DEF Nexts
  <2>2. Chain(Links(h), 0, {})
    BY ChainEmpty
  <2>3. Chain(Links(h), 1, {} \cup {1})
    BY <1>15, <2>2, ChainFront
  <2>4. ASSUME NEW t \in Types PROVE Chain(Links(h), h.buckets[t], Class(h, t))
    <3>1. CASE t = InfoType
      <4>1. h.buckets[t] = 1 /\ Class(h, t) = {} \cup {1}
        BY <1>6, <1>9, <3>1
      <4>. QED  BY <2>3, <4>1
    <3>2. CASE t # InfoType
      <4>1. h.buckets[t] = 0 /\ Class(h, t) = {}
        BY <1>6, <1>9, <3>2
      <4>. QED  BY <2>2, <4>1
    <3>. QED  BY <3>1, <3>2
  <2>. QED  BY <1>6, <2>1, <2>4 DEF Listed
<1>17. DOMAIN EmptyBag = {} /\ EmptyBag \in [{} -> {1}]
  BY DEF EmptyBag, SetToBag
<1>18. Owned(h, EmptyBag)
  BY <1>17 DEF Owned
<1>19. InUse(h, EmptyBag) = {}
  BY <1>9 DEF InUse
<1>20. Larges(h, {})
  <2>1. Chain(Links(h), 0, {}) /\ {} \ {} = {}
    BY ChainEmpty
  <2>. QED  BY <1>6, <1>9, <2>1 DEF Larges
<1>21. h.nfrees[InfoType] >= 1
  BY <1>3, <1>6, <1>10
<1>22. Whole(h, EmptyBag, FALSE)
  BY <1>11, <1>12, <1>13, <1>14, <1>16, <1>18, <1>19, <1>20, <1>21 DEF Whole, Good, Sound
<1>. QED  BY <1>4, <1>5, <1>22 DEF MallocInv

LEMMA MallocStep ==
    ASSUME MallocInv, NEW size \in Requests, MallocSmall(size) \/ MallocLarge(size)
    PROVE  MallocInv'
<1>1. Whole(heap, live, FALSE) /\ tangled = FALSE /\ halted = "no"
  BY DEF MallocInv, MallocSmall, MallocLarge, Running, Whole
<1>2. ~ OutOfInfo(heap, size)
  BY <1>1 DEF Whole, OutOfInfo
<1>3. CASE MallocSmall(size)
  <2>1. get_type(size) # LARGE_CHUNK /\ Gets(size, alloc_small(heap, get_type(size))) /\ UNCHANGED tangled
    BY <1>2, <1>3 DEF MallocSmall
  <2>2. PICK r : r = alloc_small(heap, get_type(size))
    OBVIOUS
  <2>3. heap' = r.heap /\ live' = live (+) SetToBag({[ptr |-> r.ptr, size |-> size]}) /\ UNCHANGED halted
    BY <2>1, <2>2 DEF Gets
  <2>4. Whole(r.heap, live', FALSE)
    BY <1>1, <2>1, <2>2, <2>3, SmallGot
  <2>5. Whole(heap', live', tangled')
    BY <1>1, <2>1, <2>3, <2>4
  <2>. QED  BY <1>1, <2>1, <2>3, <2>5 DEF MallocInv
<1>4. CASE MallocLarge(size)
  <2>1. PICK r, s : r = alloc_large(heap, size) /\ s = FitsIn(heap, size)
    OBVIOUS
  <2>2. /\ get_type(size) = LARGE_CHUNK /\ Gets(size, r)
        /\ tangled' = (s.chunk # 0 /\ Tangles(Unlink(heap, "large_free", s.chunk, s.prev), "large", s.chunk))
    BY <1>2, <1>4, <2>1 DEF MallocLarge
  <2>3. heap' = r.heap /\ live' = live (+) SetToBag({[ptr |-> r.ptr, size |-> size]}) /\ UNCHANGED halted
    BY <2>2 DEF Gets
  <2>4. Whole(r.heap, live', tangled')
    BY <1>1, <2>1, <2>2, <2>3, LargeGot
  <2>5. tangled' \in BOOLEAN
    BY <2>2 DEF Tangles
  <2>. QED  BY <1>1, <2>3, <2>4, <2>5 DEF MallocInv
<1>. QED  BY <1>3, <1>4

LEMMA FreeStep ==
    ASSUME MallocInv, NEW b \in DOMAIN live, FreeSmall(b) \/ FreeLarge(b) \/ FreeFails(b)
    PROVE  MallocInv'
<1>1. Whole(heap, live, FALSE) /\ tangled = FALSE /\ halted = "no"
  BY DEF MallocInv, FreeSmall, FreeLarge, FreeFails, Running, Whole
<1>2. Good(heap) /\ Placed(heap, b) /\ b.size \in Requests
  BY <1>1 DEF Whole, Owned
<1>3. CASE FreeSmall(b)
  <2>1. PICK t : t = get_type(b.size)
    OBVIOUS
  <2>2. FoundSmall(heap, b.ptr) = {t} \cap SearchedTypes
    BY <1>2, <2>1, FoundSmallIs
  <2>3. FoundSmall(heap, b.ptr) # {}
    BY <1>3 DEF FreeSmall
  <2>4. FoundSmall(heap, b.ptr) = {t} /\ t \in Types /\ t \in Nat
    BY <2>2, <2>3, SearchedAre, ClassTypes
  <2>5. (CHOOSE x \in FoundSmall(heap, b.ptr) : \A u \in FoundSmall(heap, b.ptr) : x <= u) = t
    BY <2>4
  <2>6. PICK s : s = FoundIn(heap, t, b.ptr)
    OBVIOUS
  <2>7. heap' = FreeIn(heap, s.chunk, s.prev, b.ptr) /\ live' = live (-) SetToBag({b}) /\ UNCHANGED <<halted, tangled>>
    BY <1>3, <2>5, <2>6 DEF FreeSmall, FreeIn
  <2>8. Whole(heap', live', FALSE)
    BY <1>1, <2>1, <2>4, <2>6, <2>7, SmallFreed
  <2>. QED  BY <1>1, <2>7, <2>8 DEF MallocInv
<1>4. CASE FreeLarge(b)
  <2>1. PICK s : s = FoundLarge(heap, b.ptr)
    OBVIOUS
  <2>2. PICK f : f = Unlink(heap, "large", s.chunk, s.prev)
    OBVIOUS
  <2>3. /\ s.chunk # 0 /\ heap' = put_sorted(f, "large_free", s.chunk)
        /\ tangled' = Tangles(f, "large_free", s.chunk) /\ live' = live (-) SetToBag({b}) /\ UNCHANGED halted
    BY <1>4, <2>1, <2>2 DEF FreeLarge
  <2>4. Whole(heap', live', tangled')
    BY <1>1, <2>1, <2>2, <2>3, LargeFreed
  <2>5. tangled' \in BOOLEAN
    BY <2>3 DEF Tangles
  <2>. QED  BY <1>1, <2>3, <2>4, <2>5 DEF MallocInv
<1>5. CASE FreeFails(b)
  BY <1>1, <1>5 DEF FreeFails, MallocInv
<1>. QED  BY <1>3, <1>4, <1>5

LEMMA StepInv == MallocInv /\ [Next]_vars => MallocInv'
<1> SUFFICES ASSUME MallocInv, [Next]_vars PROVE MallocInv'
  OBVIOUS
<1>1. ASSUME NEW size \in Requests, MallocSmall(size) \/ MallocLarge(size) PROVE MallocInv'
  BY <1>1, MallocStep
<1>2. ASSUME NEW b \in BagToSet(live), FreeSmall(b) \/ FreeLarge(b) \/ FreeFails(b) PROVE MallocInv'
  BY <1>2, FreeStep DEF BagToSet
<1>3. CASE UNCHANGED vars
  BY <1>3 DEF vars, MallocInv
<1>. QED  BY <1>1, <1>2, <1>3 DEF Next

\* However malloc and free are called, the heap and the blocks in use fit together:
\* the lists hold the chunks, chunks hold their chunkinfo_t, and every block has its
\* element or its chunk to itself.
THEOREM HeapStaysWhole == Spec => []MallocInv
BY InitInv, StepInv, PTL DEF Spec

-----------------------------------------------------------------------------
(* What the invariant implies.                                             *)

\* A chunkinfo_t is always in reserve: whatever is allocated and freed, the
\* assertion in alloc_chunk, that it is not entered again, never fails.
THEOREM InfoReserved == Spec => []InfoInReserve
<1>1. MallocInv => InfoInReserve
  BY DEF MallocInv, Whole, InfoInReserve
<1>. QED  BY <1>1, HeapStaysWhole, PTL

LEMMA InvTypes ==
    ASSUME MallocInv
    PROVE  TypeOK
<1>1. PICK h, L : h = heap /\ L = live
  OBVIOUS
<1>2. /\ Good(h) /\ Owned(h, L) /\ h \in HeapT /\ Shaped(h) /\ Nexts(h, Len(h.chunks))
      /\ h.large \in Ids(h) \cup {0} /\ h.large_free \in Ids(h) \cup {0}
      /\ \A t \in Types : Chain(Links(h), h.buckets[t], Class(h, t))
  BY <1>1 DEF MallocInv, Whole, Good, Sound, Shaped, Listed
<1>3. Len(h.chunks) \in Nat /\ Ids(h) = 1 .. Len(h.chunks) /\ h.buckets \in [Types -> Nat] /\ h.nfrees \in [Types -> Nat]
  BY <1>2, HeapParts DEF Ids
<1>4. ASSUME NEW k \in Ids(h)
      PROVE  LET c == h.chunks[k] IN
             /\ c.elm_size \in Nat \ {0} /\ c.bytes \in Nat /\ c.begin \in Nat /\ c.at \in Nat
             /\ c.used \subseteq 0 .. (max_elements(c) - 1) /\ c.nfree \in 0 .. max_elements(c)
             /\ c.next \in 0 .. Len(h.chunks)
  <2> DEFINE c == h.chunks[k]
  <2>1. /\ c.elm_size \in Nat \ {0} /\ c.bytes \in Nat /\ c.begin \in Nat /\ c.at \in Nat
        /\ c.used \in SUBSET (0 .. (max_elements(c) - 1)) /\ c.nfree \in Nat /\ max_elements(c) \in Nat
    BY <1>2, ChunkNumbers
  <2>2. c.nfree = max_elements(c) - Cardinality(c.used)
    BY <1>2 DEF Shaped, ChunkOK
  <2>3. Cardinality(c.used) \in Nat
    <3>0. max_elements(c) - 1 \in Int
      BY <2>1
    <3>1. IsFiniteSet(0 .. (max_elements(c) - 1))
      BY <3>0, FS_Interval
    <3>. QED  BY <2>1, <3>1, FS_Subset, FS_CardinalityType
  <2>4. c.next \in 0 .. Len(h.chunks)
    BY <1>2, <1>3 DEF Nexts
  <2> HIDE DEF c
  <2>5. c.nfree \in 0 .. max_elements(c)
    BY <2>1, <2>2, <2>3
  <2>. QED  BY <2>1, <2>4, <2>5 DEF c
<1>5. h.buckets \in [Types -> 0 .. Len(h.chunks)]
  <2>1. \A t \in Types : h.buckets[t] \in Class(h, t) \cup {0}
    BY <1>2, ChainEnds
  <2>2. \A t \in Types : h.buckets[t] \in 0 .. Len(h.chunks)
    BY <1>3, <2>1 DEF Class
  <2>. QED  BY <1>3, <2>2
<1>6. h.large \in 0 .. Len(h.chunks) /\ h.large_free \in 0 .. Len(h.chunks)
  BY <1>2, <1>3
<1>7. IsABag(L) /\ BagToSet(L) \subseteq [ptr : Nat, size : Requests]
  BY <1>2 DEF Owned, IsABag, BagToSet
<1>8. halted \in {"no", "chunk", "in_alloc_chunk"} /\ tangled \in BOOLEAN
  BY DEF MallocInv
<1>9. ChunkIds = Ids(h)
  BY <1>1 DEF ChunkIds, Ids
<1>. QED  BY <1>1, <1>3, <1>4, <1>5, <1>6, <1>7, <1>8, <1>9 DEF TypeOK

\* Every variable keeps its type: no list leads out of the chunks, no chunk counts
\* more free elements than it has, no element behind the last one is in use.
THEOREM MallocTypes == Spec => []TypeOK
BY InvTypes, HeapStaysWhole, PTL

\* The extent of a block: inside of chunk k, behind its map.
Extent(h, b, k) ==
    /\ k \in Ids(h) /\ b.ptr \in Nat /\ b.size \in Nat \ {0}
    /\ h.chunks[k].begin <= b.ptr /\ b.ptr + b.size <= h.chunks[k].begin + h.chunks[k].bytes
    /\ ~ IsLarge(h.chunks[k]) =>
        /\ h.chunks[k].begin + first_element(h.chunks[k]) <= b.ptr /\ b.size <= h.chunks[k].elm_size
        /\ \E e \in h.chunks[k].used : b.ptr = element(h.chunks[k], e)
        /\ \A j \in Ids(h) : b.ptr # h.chunks[j].at
    /\ IsLarge(h.chunks[k]) => b.ptr = h.chunks[k].begin

LEMMA BlockIn ==
    ASSUME NEW h, Sound(h), NEW b \in [ptr : Nat, size : Requests], Placed(h, b)
    PROVE  \E k : Extent(h, b, k)
<1>1. Shaped(h) /\ b.size \in Nat \ {0} /\ b.ptr \in Nat
  BY MallocAssumption DEF Sound
<1>2. CASE get_type(b.size) = LARGE_CHUNK
  <2>1. PICK k \in LargeIds(h) : b.ptr = h.chunks[k].begin /\ b.size <= h.chunks[k].bytes
    BY <1>2 DEF Placed
  <2>2. k \in Ids(h) /\ IsLarge(h.chunks[k])
    BY DEF LargeIds
  <2>3. h.chunks[k].begin \in Nat /\ h.chunks[k].bytes \in Nat
    BY <1>1, <2>2, ChunkNumbers
  <2>4. h.chunks[k].begin <= b.ptr /\ b.ptr + b.size <= h.chunks[k].begin + h.chunks[k].bytes
    BY <1>1, <2>1, <2>3
  <2>. QED  BY <1>1, <2>1, <2>2, <2>4 DEF Extent
<1>3. CASE get_type(b.size) # LARGE_CHUNK
  <2>1. PICK k \in Class(h, get_type(b.size)) : \E e \in h.chunks[k].used : b.ptr = element(h.chunks[k], e)
    BY <1>3 DEF Placed, Holds
  <2>2. PICK e \in h.chunks[k].used : b.ptr = element(h.chunks[k], e)
    BY <2>1
  <2> DEFINE c == h.chunks[k]
  <2>3. k \in Ids(h) /\ get_type(c.elm_size) = get_type(b.size) /\ ~ IsLarge(c)
    BY DEF Class
  <2>4. /\ b.ptr \in Nat /\ c.begin + first_element(c) <= b.ptr /\ b.ptr + c.elm_size <= c.begin + c.bytes
        /\ c.elm_size \in Nat \ {0} /\ c.begin \in Nat /\ c.bytes \in Nat /\ first_element(c) \in Nat
    BY <1>1, <2>2, <2>3, HeldElement
  <2>5. c.elm_size = get_size(get_type(c.elm_size))
    BY <1>1, <2>3 DEF Shaped, ChunkOK
  <2>6. b.size <= c.elm_size
    BY <1>1, <1>3, <2>3, <2>5, ClassOf
  <2>7. c.begin <= b.ptr /\ b.ptr + b.size <= c.begin + c.bytes
    BY <1>1, <2>4, <2>6
  <2>8. \A j \in Ids(h) : b.ptr # h.chunks[j].at
    BY <1>3 DEF Placed
  <2>9. \E x \in c.used : b.ptr = element(c, x)
    BY <2>2
  <2>. QED  BY <1>1, <2>3, <2>4, <2>6, <2>7, <2>8, <2>9 DEF Extent
<1>. QED  BY <1>2, <1>3

\* Blocks of different chunks.
LEMMA OtherChunk ==
    ASSUME NEW h, Shaped(h), Laid(h), NEW j \in Ids(h), NEW k \in Ids(h), j # k,
           NEW a \in Nat, NEW m \in Nat, h.chunks[j].begin <= a, a + m <= h.chunks[j].begin + h.chunks[j].bytes,
           NEW b \in Nat, NEW n \in Nat, h.chunks[k].begin <= b, b + n <= h.chunks[k].begin + h.chunks[k].bytes
    PROVE  ~ Overlap(a, m, b, n)
<1>1. h \in HeapT
  BY DEF Shaped
<1>2. /\ h.chunks[j].begin \in Nat /\ h.chunks[j].bytes \in Nat
      /\ h.chunks[k].begin \in Nat /\ h.chunks[k].bytes \in Nat
  BY ChunkNumbers
<1>3. \/ h.chunks[j].begin + h.chunks[j].bytes <= h.chunks[k].begin
      \/ h.chunks[k].begin + h.chunks[k].bytes <= h.chunks[j].begin
  BY <1>1, ChunksApart
<1>4. a + m <= b \/ b + n <= a
  BY <1>2, <1>3
<1>. QED  BY <1>4 DEF Overlap

\* Two elements at different addresses.
LEMMA OtherElement ==
    ASSUME NEW h, Shaped(h), Laid(h), NEW j \in Ids(h), NEW k \in Ids(h),
           NEW d \in h.chunks[j].used, NEW e \in h.chunks[k].used,
           NEW a, a = element(h.chunks[j], d), NEW b, b = element(h.chunks[k], e), a # b,
           NEW m \in Nat, m <= h.chunks[j].elm_size, NEW n \in Nat, n <= h.chunks[k].elm_size
    PROVE  ~ Overlap(a, m, b, n)
<1>1. a \in Nat /\ d \in 0 .. (max_elements(h.chunks[j]) - 1) /\ h.chunks[j].elm_size \in Nat
  BY HeldElement
<1>2. b \in Nat /\ e \in 0 .. (max_elements(h.chunks[k]) - 1) /\ h.chunks[k].elm_size \in Nat
  BY HeldElement
<1>3. j # k \/ d # e
  OBVIOUS
<1>4. a + h.chunks[j].elm_size <= b \/ b + h.chunks[k].elm_size <= a
  BY <1>1, <1>2, <1>3, ElementsDisjoint
<1>5. a + m <= b \/ b + n <= a
  BY <1>1, <1>2, <1>4
<1>. QED  BY <1>1, <1>2, <1>5 DEF Overlap

\* Two blocks in use.
LEMMA TwoBlocks ==
    ASSUME NEW h, Shaped(h), Laid(h), NEW b, NEW d, NEW j, NEW k, Extent(h, b, j), Extent(h, d, k), b.ptr # d.ptr
    PROVE  ~ Overlap(b.ptr, b.size, d.ptr, d.size)
<1>1. /\ j \in Ids(h) /\ b.ptr \in Nat /\ b.size \in Nat /\ h.chunks[j].begin <= b.ptr
      /\ b.ptr + b.size <= h.chunks[j].begin + h.chunks[j].bytes
  BY DEF Extent
<1>2. /\ k \in Ids(h) /\ d.ptr \in Nat /\ d.size \in Nat /\ h.chunks[k].begin <= d.ptr
      /\ d.ptr + d.size <= h.chunks[k].begin + h.chunks[k].bytes
  BY DEF Extent
<1>3. CASE j # k
  BY <1>1, <1>2, <1>3, OtherChunk
<1>4. CASE j = k
  <2>1. ~ IsLarge(h.chunks[k])
    BY <1>4 DEF Extent
  <2>2. PICK x \in h.chunks[j].used : b.ptr = element(h.chunks[j], x)
    BY <1>4, <2>1 DEF Extent
  <2>3. PICK y \in h.chunks[k].used : d.ptr = element(h.chunks[k], y)
    BY <2>1 DEF Extent
  <2>4. b.size <= h.chunks[j].elm_size /\ d.size <= h.chunks[k].elm_size
    BY <1>4, <2>1 DEF Extent
  <2>. QED  BY <1>1, <1>2, <2>2, <2>3, <2>4, OtherElement
<1>. QED  BY <1>3, <1>4

\* A block in use and the allocator's own data.
LEMMA BlockAndInfo ==
    ASSUME NEW h, Sound(h), NEW b, NEW j, Extent(h, b, j), NEW k \in Ids(h)
    PROVE  ~ Overlap(b.ptr, b.size, h.chunks[k].at, InfoSize)
<1>1. /\ j \in Ids(h) /\ b.ptr \in Nat /\ b.size \in Nat /\ h.chunks[j].begin <= b.ptr
      /\ b.ptr + b.size <= h.chunks[j].begin + h.chunks[j].bytes
  BY DEF Extent
<1>2. Shaped(h) /\ Laid(h) /\ Holds(h, h.chunks[k].at, InfoType)
  BY DEF Sound, Informed
<1>3. PICK i \in Class(h, InfoType) : \E e \in h.chunks[i].used : h.chunks[k].at = element(h.chunks[i], e)
  BY <1>2 DEF Holds
<1>4. PICK e \in h.chunks[i].used : h.chunks[k].at = element(h.chunks[i], e)
  BY <1>3
<1>5. PICK c, a : c = h.chunks[i] /\ a = h.chunks[k].at
  OBVIOUS
<1>6. i \in Ids(h) /\ get_type(c.elm_size) = InfoType /\ ~ IsLarge(c)
  BY <1>5 DEF Class
<1>7. /\ a \in Nat /\ c.begin + first_element(c) <= a /\ a + c.elm_size <= c.begin + c.bytes
      /\ c.elm_size \in Nat \ {0} /\ c.begin \in Nat /\ c.bytes \in Nat /\ first_element(c) \in Nat
  BY <1>2, <1>4, <1>5, <1>6, HeldElement
<1>8. InfoSize <= c.elm_size /\ InfoSize \in Nat
  <2>1. c.elm_size = get_size(InfoType)
    BY <1>2, <1>5, <1>6 DEF Shaped, ChunkOK
  <2>. QED  BY <2>1, InfoClass, MallocAssumption
<1>9. CASE j # i
  <2>1. c.begin <= a /\ a + InfoSize <= c.begin + c.bytes
    BY <1>7, <1>8
  <2>. QED  BY <1>1, <1>2, <1>5, <1>6, <1>7, <1>8, <1>9, <2>1, OtherChunk
<1>10. CASE j = i
  <2>1. ~ IsLarge(h.chunks[j])
    BY <1>5, <1>6, <1>10
  <2>2. b.size <= h.chunks[j].elm_size /\ b.ptr # a
    BY <1>5, <2>1 DEF Extent
  <2>3. PICK x \in h.chunks[j].used : b.ptr = element(h.chunks[j], x)
    BY <2>1 DEF Extent
  <2>4. a = element(h.chunks[i], e) /\ InfoSize <= h.chunks[i].elm_size
    BY <1>4, <1>5, <1>8
  <2>5. ~ Overlap(b.ptr, b.size, a, InfoSize)
    BY <1>1, <1>2, <1>6, <1>8, <2>2, <2>3, <2>4, OtherElement
  <2>. QED  BY <1>5, <2>5
<1>. QED  BY <1>9, <1>10

LEMMA BlockAndMap ==
    ASSUME NEW h, Sound(h), NEW b, NEW j, Extent(h, b, j), NEW k \in Ids(h), ~ IsLarge(h.chunks[k])
    PROVE  ~ Overlap(b.ptr, b.size, h.chunks[k].begin, first_element(h.chunks[k]))
<1>1. /\ j \in Ids(h) /\ b.ptr \in Nat /\ b.size \in Nat /\ h.chunks[j].begin <= b.ptr
      /\ b.ptr + b.size <= h.chunks[j].begin + h.chunks[j].bytes
  BY DEF Extent
<1>2. Shaped(h) /\ Laid(h)
  BY DEF Sound
<1>3. PICK c : c = h.chunks[k]
  OBVIOUS
<1>4. c.elm_size \in Nat \ {0} /\ c.begin \in Nat /\ c.bytes \in Nat /\ first_element(c) \in Nat
  BY <1>2, <1>3, ChunkNumbers
<1>5. first_element(c) <= c.bytes
  <2>1. max_elements(c) >= 1
    BY <1>2, <1>3 DEF Shaped, ChunkOK
  <2>2. first_element(c) + c.elm_size <= c.bytes
    BY <1>4, <2>1, SmallIsNotLarge
  <2>. QED  BY <1>4, <2>2
<1>6. CASE j # k
  <2>1. c.begin <= c.begin /\ c.begin + first_element(c) <= c.begin + c.bytes
    BY <1>4, <1>5
  <2>2. ~ Overlap(b.ptr, b.size, c.begin, first_element(c))
    BY <1>1, <1>2, <1>3, <1>4, <1>6, <2>1, OtherChunk
  <2>. QED  BY <1>3, <2>2
<1>7. CASE j = k
  <2>1. c.begin + first_element(c) <= b.ptr
    BY <1>3, <1>7 DEF Extent
  <2>. QED  BY <1>1, <1>3, <1>4, <2>1 DEF Overlap
<1>. QED  BY <1>6, <1>7

LEMMA InvApart ==
    ASSUME MallocInv
    PROVE  BlocksApart
<1>1. PICK h, L : h = heap /\ L = live
  OBVIOUS
<1>2. /\ Sound(h) /\ Shaped(h) /\ Laid(h) /\ Owned(h, L)
  BY <1>1 DEF MallocInv, Whole, Good, Sound
<1>3. ASSUME NEW b \in DOMAIN L PROVE L[b] = 1 /\ b \in [ptr : Nat, size : Requests] /\ \E k : Extent(h, b, k)
  <2>1. L[b] = 1 /\ b \in [ptr : Nat, size : Requests] /\ Placed(h, b)
    BY <1>2 DEF Owned
  <2>. QED  BY <1>2, <2>1, BlockIn
<1>4. ASSUME NEW b \in DOMAIN L, NEW d \in DOMAIN L, b # d PROVE ~ Overlap(b.ptr, b.size, d.ptr, d.size)
  <2>1. PICK j, k : Extent(h, b, j) /\ Extent(h, d, k)
    BY <1>3
  <2>2. b.ptr # d.ptr
    BY <1>2, <1>4 DEF Owned
  <2>. QED  BY <1>2, <2>1, <2>2, TwoBlocks
<1>5. ASSUME NEW b \in DOMAIN L, NEW k \in Ids(h)
      PROVE  /\ ~ Overlap(b.ptr, b.size, h.chunks[k].at, InfoSize)
             /\ ~ IsLarge(h.chunks[k]) => ~ Overlap(b.ptr, b.size, h.chunks[k].begin, first_element(h.chunks[k]))
  <2>1. PICK j : Extent(h, b, j)
    BY <1>3
  <2>. QED  BY <1>2, <2>1, BlockAndInfo, BlockAndMap
<1>6. ASSUME NEW b \in DOMAIN L
      PROVE  \E k \in Ids(h) : h.chunks[k].begin <= b.ptr /\ b.ptr + b.size <= h.chunks[k].begin + h.chunks[k].bytes
  <2>1. PICK j : Extent(h, b, j)
    BY <1>3
  <2>. QED  BY <2>1 DEF Extent
<1>7. ChunkIds = Ids(h) /\ BagToSet(live) = DOMAIN L
  BY <1>1 DEF ChunkIds, Ids, BagToSet
<1>. QED  BY <1>1, <1>3, <1>4, <1>5, <1>6, <1>7 DEF BlocksApart

\* malloc() gives memory out once: for every size of the classes and chunks and
\* every sequence of calls, no two blocks in use share a byte, and no block shares
\* one with a chunkinfo_t or a map of used bits.
THEOREM BlocksStayApart == Spec => []BlocksApart
BY InvApart, HeapStaysWhole, PTL

LEMMA InvKept ==
    ASSUME MallocInv
    PROVE  ChunksKept
<1> SUFFICES ASSUME ~ tangled PROVE ChunksKept
  BY DEF ChunksKept
<1>1. PICK h, L : h = heap /\ L = live
  OBVIOUS
<1>2. PICK U : U = InUse(h, L)
  OBVIOUS
<1>3. /\ Good(h) /\ Sound(h) /\ Shaped(h) /\ h \in HeapT /\ Larges(h, U)
      /\ \A t \in Types : Chain(Links(h), h.buckets[t], Class(h, t))
  BY <1>1, <1>2 DEF MallocInv, Whole, Good, Sound, Shaped, Listed
<1>4. PICK N \in Nat : N = Len(h.chunks) /\ Ids(h) = 1 .. N /\ Nexts(h, N)
  BY <1>3, HeapParts DEF Ids, Good, Listed
<1>5. \A head, k : Reaches(head, k) = Cardinality({i \in 0 .. Len(h.chunks) : Walk(h, head)[i] = k})
  BY <1>1 DEF Reaches
<1>6. ASSUME NEW head, NEW S \in SUBSET (1 .. N), Chain(Links(h), head, S), NEW k \in 1 .. N
      PROVE  Reaches(head, k) = IF k \in S THEN 1 ELSE 0
  <2>1. Cardinality({i \in 0 .. Len(h.chunks) : Walk(h, head)[i] = k}) = IF k \in S THEN 1 ELSE 0
    BY <1>4, <1>6, ReachesOnce
  <2>2. Reaches(head, k) = Cardinality({i \in 0 .. Len(h.chunks) : Walk(h, head)[i] = k})
    BY <1>5
  <2>. QED  BY <2>1, <2>2
<1>7. ASSUME NEW k \in Ids(h), IsLarge(h.chunks[k])
      PROVE  LET inUse == \E b \in BagToSet(live) : b.ptr = h.chunks[k].begin IN
             /\ Reaches(h.large, k) = (IF inUse THEN 1 ELSE 0)
             /\ Reaches(h.large_free, k) = (IF inUse THEN 0 ELSE 1)
  <2> DEFINE inUse == \E b \in BagToSet(live) : b.ptr = h.chunks[k].begin
  <2>1. k \in LargeIds(h) /\ (inUse <=> k \in U)
    BY <1>1, <1>2, <1>7 DEF LargeIds, InUse, BagToSet
  <2> HIDE DEF inUse
  <2>2. /\ U \in SUBSET (1 .. N) /\ Chain(Links(h), h.large, U)
        /\ LargeIds(h) \ U \in SUBSET (1 .. N) /\ Chain(Links(h), h.large_free, LargeIds(h) \ U)
    BY <1>3, <1>4 DEF Larges, LargeIds
  <2>3. Reaches(h.large, k) = IF k \in U THEN 1 ELSE 0
    BY <1>4, <1>6, <2>2
  <2>4. Reaches(h.large_free, k) = IF k \in LargeIds(h) \ U THEN 1 ELSE 0
    BY <1>4, <1>6, <2>2
  <2>5. /\ Reaches(h.large, k) = (IF inUse THEN 1 ELSE 0)
        /\ Reaches(h.large_free, k) = (IF inUse THEN 0 ELSE 1)
    BY <2>1, <2>3, <2>4
  <2>. QED  BY <2>5 DEF inUse
<1>8. ASSUME NEW k \in Ids(h), ~ IsLarge(h.chunks[k])
      PROVE  LET c == h.chunks[k] IN
             /\ Reaches(h.buckets[get_type(c.elm_size)], k) = 1
             /\ c.nfree = max_elements(c) - Cardinality(c.used)
             /\ c.nfree <= h.nfrees[get_type(c.elm_size)]
  <2>1. PICK c, t : c = h.chunks[k] /\ t = get_type(c.elm_size)
    OBVIOUS
  <2>2. t \in Types /\ c.nfree = max_elements(c) - Cardinality(c.used)
    BY <1>3, <1>8, <2>1 DEF Shaped, ChunkOK, Proper
  <2>3. k \in Class(h, t) /\ Class(h, t) \in SUBSET (1 .. N)
    BY <1>4, <1>8, <2>1 DEF Class
  <2>4. Chain(Links(h), h.buckets[t], Class(h, t))
    BY <1>3, <2>2
  <2>5. Reaches(h.buckets[t], k) = 1
    BY <1>4, <1>6, <2>3, <2>4
  <2>6. c.nfree <= h.nfrees[t]
    BY <1>3, <2>1, <2>2, <2>3, FreeSomewhere
  <2>. QED  BY <2>1, <2>2, <2>5, <2>6
<1>9. ChunkIds = Ids(h)
  BY <1>1 DEF ChunkIds, Ids
<1>. QED  BY <1>1, <1>7, <1>8, <1>9 DEF ChunksKept

\* No chunk is lost and none is in two lists, whichever end of a list chunks leave
\* and join, until one joins with the successor it had before.
THEOREM ChunksAreKept == Spec => []ChunksKept
BY InvKept, HeapStaysWhole, PTL

LEMMA InvFinds ==
    ASSUME MallocInv
    PROVE  FreeFinds
<1> SUFFICES ASSUME ~ tangled PROVE FreeFinds
  BY DEF FreeFinds
<1>1. PICK h, L : h = heap /\ L = live
  OBVIOUS
<1>2. PICK U : U = InUse(h, L)
  OBVIOUS
<1>3. Good(h) /\ Owned(h, L) /\ Larges(h, U)
  BY <1>1, <1>2 DEF MallocInv, Whole
<1>4. ASSUME NEW b \in DOMAIN L
      PROVE  LET type == get_type(b.size) IN
             IF type = LARGE_CHUNK
             THEN FoundSmall(h, b.ptr) = {} /\ FoundLarge(h, b.ptr).chunk # 0
             ELSE type = UpperPow - LowerPow \/ FoundSmall(h, b.ptr) = {type}
  <2>1. Placed(h, b) /\ b.size \in Requests
    BY <1>3 DEF Owned
  <2>2. PICK type : type = get_type(b.size)
    OBVIOUS
  <2>3. FoundSmall(h, b.ptr) = {type} \cap SearchedTypes
    BY <1>3, <2>1, <2>2, FoundSmallIs
  <2>4. CASE type = LARGE_CHUNK
    <3>1. FoundSmall(h, b.ptr) = {}
      BY <2>3, <2>4, SearchedAre
    <3>2. PICK k \in LargeIds(h) : b.ptr = h.chunks[k].begin
      BY <2>1, <2>2, <2>4 DEF Placed
    <3>3. k \in U
      BY <1>2, <3>2 DEF InUse
    <3>4. LocatedLarge(h, FoundLarge(h, b.ptr), b.ptr, U)
      BY <1>3, FoundLargeIs
    <3>5. FoundLarge(h, b.ptr).chunk # 0
      BY <3>2, <3>3, <3>4 DEF LocatedLarge
    <3>. QED  BY <2>2, <2>4, <3>1, <3>5
  <2>5. CASE type # LARGE_CHUNK
    <3>1. type \in Types
      <4>1. b.size \in Nat \ {0}
        BY <2>1, MallocAssumption
      <4>. QED  BY <2>2, <2>5, <4>1, ClassOf DEF Proper
    <3>2. type = UpperPow - LowerPow \/ FoundSmall(h, b.ptr) = {type}
      BY <2>3, <3>1, SearchedAre
    <3>. QED  BY <2>2, <2>5, <3>2
  <2>. QED  BY <2>4, <2>5
<1>. QED  BY <1>1, <1>4 DEF FreeFinds, BagToSet

\* free() finds a block in use in its own class or in `large', at most one chunk
\* can be taken for it, and only the last small class is not looked through.
THEOREM FreeFindsBlocks == Spec => []FreeFinds
BY InvFinds, HeapStaysWhole, PTL

=============================================================================
