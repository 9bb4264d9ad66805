--------------------------- MODULE InductionFacts ---------------------------
(***************************************************************************)
(* Induction over numbers and what follows from it: facts the proofs about *)
(* single components share.  The induction theorems of the library take an *)
(* operator; the one here takes a set, the numbers for which a formula     *)
(* holds.                                                                  *)
(***************************************************************************)
EXTENDS Integers, TLAPS, WellFoundedInduction

LEMMA LeastNumber ==
    ASSUME NEW S \in SUBSET Nat, S # {}
    PROVE  \E n \in S : \A k \in S : n <= k
<1>1. IsWellFoundedOn(OpToRel(<, Nat), Nat)
  BY NatLessThanWellFounded
<1>2. PICK n \in S : \A k \in S : ~ (<<k, n>> \in OpToRel(<, Nat))
  BY <1>1, WFMin
<1>3. \A k \in S : ~ (k < n)
  BY <1>2 DEF OpToRel
<1>. QED  BY <1>3

LEMMA Induction ==
    ASSUME NEW S, 0 \in S, \A n \in Nat : n \in S => n + 1 \in S
    PROVE  \A n \in Nat : n \in S
<1> SUFFICES ASSUME Nat \ S # {} PROVE FALSE
  OBVIOUS
<1>1. PICK n \in Nat \ S : \A k \in Nat \ S : n <= k
  BY LeastNumber
<1>2. n # 0 /\ n - 1 \in Nat
  BY <1>1
<1>3. n - 1 \in S
  BY <1>1, <1>2
<1>. QED  BY <1>1, <1>2, <1>3

-----------------------------------------------------------------------------
(* Sums.                                                                   *)

\* f[1] + ... + f[n]
SumTo(f, n) ==
    LET t[i \in 0 .. n] == IF i = 0 THEN 0 ELSE t[i - 1] + f[i]
    IN  t[n]

\* The sums of the first i numbers, for i = 0 .. n.
Sums(f, n, t) ==
    /\ t \in [0 .. n -> Int]
    /\ t[0] = 0 /\ \A i \in 1 .. n : t[i] = t[i - 1] + f[i]

LEMMA SumsExist ==
    ASSUME NEW f, \A i \in Nat \ {0} : f[i] \in Int
    PROVE  \A n \in Nat : \E t : Sums(f, n, t)
<1> DEFINE S == {n \in Nat : \E t : Sums(f, n, t)}
<1>1. 0 \in S
  <2>1. Sums(f, 0, [i \in 0 .. 0 |-> 0])
    BY DEF Sums
  <2>. QED  BY <2>1
<1>2. ASSUME NEW n \in Nat, n \in S PROVE n + 1 \in S
  <2>1. PICK t : Sums(f, n, t)
    BY <1>2
  <2> DEFINE u == [i \in 0 .. (n + 1) |-> IF i <= n THEN t[i] ELSE t[n] + f[n + 1]]
  <2>2. u \in [0 .. (n + 1) -> Int]
    BY <2>1 DEF Sums
  <2>3. u[0] = 0
    BY <2>1 DEF Sums
  <2>4. ASSUME NEW i \in 1 .. (n + 1) PROVE u[i] = u[i - 1] + f[i]
    <3>1. CASE i <= n
      BY <3>1, <2>1 DEF Sums
    <3>2. CASE i = n + 1
      BY <3>2, <2>1 DEF Sums
    <3>. QED  BY <3>1, <3>2
  <2>5. Sums(f, n + 1, u)
    BY <2>2, <2>3, <2>4 DEF Sums
  <2>. QED  BY <2>5
<1>3. \A k \in Nat : k \in S
  <2> HIDE DEF S
  <2>. QED  BY <1>1, <1>2, Induction DEF S
<1>. QED  BY <1>3

LEMMA SumToIsSum ==
    ASSUME NEW n \in Nat, NEW f \in [1 .. n -> Int]
    PROVE  \E t : Sums(f, n, t) /\ SumTo(f, n) = t[n]
<1> DEFINE g == [i \in Nat \ {0} |-> IF i <= n THEN f[i] ELSE 0]
           T(t) == t = [i \in 0 .. n |-> IF i = 0 THEN 0 ELSE t[i - 1] + f[i]]
<1>1. \E t : Sums(g, n, t)
  <2>1. \A i \in Nat \ {0} : g[i] \in Int
    OBVIOUS
  <2> HIDE DEF g
  <2>. QED  BY <2>1, SumsExist
<1>2. PICK t : Sums(g, n, t)
  BY <1>1
<1>3. Sums(f, n, t)
  <2>1. \A i \in 1 .. n : g[i] = f[i]
    OBVIOUS
  <2> HIDE DEF g
  <2>. QED  BY <1>2, <2>1 DEF Sums
<1>4. T(t)
  BY <1>3 DEF Sums
<1>5. T(CHOOSE u : T(u))
  BY <1>4
<1> DEFINE u == CHOOSE v : T(v)
<1>6. SumTo(f, n) = u[n]
  BY DEF SumTo
<1>7. u = [i \in 0 .. n |-> IF i = 0 THEN 0 ELSE u[i - 1] + f[i]]
  BY <1>5
<1> HIDE DEF u
<1>8. u[0] = 0 /\ \A i \in 1 .. n : u[i] = u[i - 1] + f[i]
  BY <1>7
<1>9. \A i \in Nat : i <= n => u[i] \in Int
  <2> DEFINE S == {i \in Nat : i <= n => u[i] \in Int}
  <2>1. 0 \in S
    BY <1>8
  <2>2. ASSUME NEW i \in Nat, i \in S PROVE i + 1 \in S
    BY <1>8, <2>2
  <2>3. \A k \in Nat : k \in S
    <3> HIDE DEF S
    <3>. QED  BY <2>1, <2>2, Induction
  <2>. QED  BY <2>3
<1>10. Sums(f, n, u)
  <2>1. u = [i \in 0 .. n |-> u[i]]
    BY <1>7
  <2>2. \A i \in 0 .. n : u[i] \in Int
    BY <1>9
  <2>3. u \in [0 .. n -> Int]
    BY <2>1, <2>2
  <2>. QED  BY <1>8, <2>3 DEF Sums
<1>. QED  BY <1>6, <1>10

LEMMA SumToGrows ==
    ASSUME NEW n \in Nat, NEW f \in [1 .. n -> Int], NEW g \in [1 .. n -> Int],
           \A i \in 1 .. n : f[i] <= g[i]
    PROVE  /\ SumTo(f, n) \in Int /\ SumTo(g, n) \in Int
           /\ SumTo(f, n) <= SumTo(g, n)
           /\ (\E i \in 1 .. n : f[i] < g[i]) => SumTo(f, n) < SumTo(g, n)
<1>1. PICK t : Sums(f, n, t) /\ SumTo(f, n) = t[n]
  BY SumToIsSum
<1>2. PICK u : Sums(g, n, u) /\ SumTo(g, n) = u[n]
  BY SumToIsSum
<1> DEFINE S == {i \in Nat : i <= n =>
                    t[i] <= u[i] /\ ((\E k \in 1 .. i : f[k] < g[k]) => t[i] < u[i])}
<1>3. 0 \in S
  BY <1>1, <1>2 DEF Sums
<1>4. ASSUME NEW i \in Nat, i \in S PROVE i + 1 \in S
  <2> SUFFICES ASSUME i + 1 <= n
               PROVE  /\ t[i + 1] <= u[i + 1]
                      /\ (\E k \in 1 .. (i + 1) : f[k] < g[k]) => t[i + 1] < u[i + 1]
    OBVIOUS
  <2>1. t[i + 1] = t[i] + f[i + 1] /\ u[i + 1] = u[i] + g[i + 1] /\ f[i + 1] <= g[i + 1]
    <3>1. i + 1 \in 1 .. n /\ (i + 1) - 1 = i
      OBVIOUS
    <3>. QED  BY <3>1, <1>1, <1>2 DEF Sums
  <2>2. t[i] \in Int /\ u[i] \in Int /\ f[i + 1] \in Int /\ g[i + 1] \in Int
    BY <1>1, <1>2 DEF Sums
  <2>3. t[i] <= u[i] /\ ((\E k \in 1 .. i : f[k] < g[k]) => t[i] < u[i])
    BY <1>4
  <2>4. ASSUME NEW k \in 1 .. (i + 1), f[k] < g[k] PROVE t[i + 1] < u[i + 1]
    <3>1. CASE k = i + 1
      BY <3>1, <2>1, <2>2, <2>3, <2>4
    <3>2. CASE k \in 1 .. i
      BY <3>2, <2>1, <2>2, <2>3, <2>4
    <3>. QED  BY <3>1, <3>2
  <2>. QED  BY <2>1, <2>2, <2>3, <2>4
<1>5. \A k \in Nat : k \in S
  <2> HIDE DEF S
  <2>. QED  BY <1>3, <1>4, Induction
<1>6. n \in S /\ t[n] \in Int /\ u[n] \in Int
  BY <1>1, <1>2, <1>5 DEF Sums
<1>. QED  BY <1>1, <1>2, <1>6

LEMMA SumToBounded ==
    ASSUME NEW n \in Nat, NEW B \in Nat, NEW f \in [1 .. n -> Int], \A i \in 1 .. n : f[i] <= B
    PROVE  SumTo(f, n) \in Int /\ SumTo(f, n) <= n * B
<1>1. PICK t : Sums(f, n, t) /\ SumTo(f, n) = t[n]
  BY SumToIsSum
<1> DEFINE S == {i \in Nat : i <= n => t[i] <= i * B}
<1>2. 0 \in S
  BY <1>1 DEF Sums
<1>3. ASSUME NEW i \in Nat, i \in S PROVE i + 1 \in S
  <2> SUFFICES ASSUME i + 1 <= n PROVE t[i + 1] <= (i + 1) * B
    OBVIOUS
  <2>1. t[i + 1] = t[i] + f[i + 1] /\ f[i + 1] <= B
    BY <1>1 DEF Sums
  <2>2. t[i] \in Int /\ f[i + 1] \in Int /\ t[i] <= i * B
    BY <1>1, <1>3 DEF Sums
  <2>3. (i + 1) * B = i * B + B /\ i * B \in Int
    OBVIOUS
  <2>. QED  BY <2>1, <2>2, <2>3
<1>4. \A k \in Nat : k \in S
  <2> HIDE DEF S
  <2>. QED  BY <1>2, <1>3, Induction
<1>5. n \in S /\ t[n] \in Int
  BY <1>1, <1>4 DEF Sums
<1>. QED  BY <1>1, <1>5

LEMMA SumToNatural ==
    ASSUME NEW n \in Nat, NEW f \in [1 .. n -> Int], \A i \in 1 .. n : f[i] >= 0
    PROVE  SumTo(f, n) \in Nat
<1>1. PICK t : Sums(f, n, t) /\ SumTo(f, n) = t[n]
  BY SumToIsSum
<1> DEFINE S == {i \in Nat : i <= n => t[i] >= 0}
<1>2. 0 \in S
  BY <1>1 DEF Sums
<1>3. ASSUME NEW i \in Nat, i \in S PROVE i + 1 \in S
  <2> SUFFICES ASSUME i + 1 <= n PROVE t[i + 1] >= 0
    OBVIOUS
  <2>1. t[i + 1] = t[i] + f[i + 1] /\ f[i + 1] >= 0
    BY <1>1 DEF Sums
  <2>2. t[i] \in Int /\ f[i + 1] \in Int /\ t[i] >= 0
    BY <1>1, <1>3 DEF Sums
  <2>. QED  BY <2>1, <2>2
<1>4. \A k \in Nat : k \in S
  <2> HIDE DEF S
  <2>. QED  BY <1>2, <1>3, Induction
<1>5. n \in S /\ t[n] \in Int
  BY <1>1, <1>4 DEF Sums
<1>. QED  BY <1>1, <1>5

LEMMA SumToChange ==
    ASSUME NEW n \in Nat, NEW f \in [1 .. n -> Int], NEW g \in [1 .. n -> Int], NEW k \in 1 .. n,
           \A i \in 1 .. n : i # k => g[i] = f[i]
    PROVE  /\ SumTo(f, n) \in Int /\ SumTo(g, n) \in Int
           /\ SumTo(g, n) = SumTo(f, n) + g[k] - f[k]
<1>1. PICK t : Sums(f, n, t) /\ SumTo(f, n) = t[n]
  BY SumToIsSum
<1>2. PICK u : Sums(g, n, u) /\ SumTo(g, n) = u[n]
  BY SumToIsSum
<1> DEFINE S == {i \in Nat : i <= n => u[i] = IF i < k THEN t[i] ELSE t[i] + g[k] - f[k]}
<1>3. 0 \in S
  BY <1>1, <1>2 DEF Sums
<1>4. ASSUME NEW i \in Nat, i \in S PROVE i + 1 \in S
  <2> SUFFICES ASSUME i + 1 <= n
               PROVE  u[i + 1] = IF i + 1 < k THEN t[i + 1] ELSE t[i + 1] + g[k] - f[k]
    OBVIOUS
  <2>1. t[i + 1] = t[i] + f[i + 1] /\ u[i + 1] = u[i] + g[i + 1]
    <3>1. i + 1 \in 1 .. n /\ (i + 1) - 1 = i
      OBVIOUS
    <3>. QED  BY <3>1, <1>1, <1>2 DEF Sums
  <2>2. t[i] \in Int /\ u[i] \in Int /\ f[i + 1] \in Int /\ g[i + 1] \in Int /\ f[k] \in Int /\ g[k] \in Int
    <3>1. i \in 0 .. n /\ i + 1 \in 1 .. n
      OBVIOUS
    <3>2. t[i] \in Int /\ u[i] \in Int
      BY <3>1, <1>1, <1>2 DEF Sums
    <3>. QED  BY <3>1, <3>2
  <2>3. u[i] = IF i < k THEN t[i] ELSE t[i] + g[k] - f[k]
    BY <1>4
  <2>4. CASE i + 1 = k
    <3>1. i < k /\ ~ (i + 1 < k) /\ g[i + 1] = g[k] /\ f[i + 1] = f[k]
      BY <2>4
    <3>. QED  BY <2>1, <2>2, <2>3, <3>1
  <2>5. CASE i + 1 # k
    <3>1. g[i + 1] = f[i + 1]
      BY <2>5
    <3>. QED  BY <2>1, <2>2, <2>3, <2>5, <3>1
  <2>. QED  BY <2>4, <2>5
<1>5. \A i \in Nat : i \in S
  <2> HIDE DEF S
  <2>. QED  BY <1>3, <1>4, Induction
<1>6. t[n] \in Int /\ u[n] \in Int /\ u[n] = t[n] + g[k] - f[k]
  BY <1>1, <1>2, <1>5 DEF Sums
<1>. QED  BY <1>1, <1>2, <1>6

LEMMA SumToAppend ==
    ASSUME NEW n \in Nat, NEW f \in [1 .. n -> Int], NEW g \in [1 .. (n + 1) -> Int],
           \A i \in 1 .. n : g[i] = f[i]
    PROVE  /\ SumTo(f, n) \in Int /\ SumTo(g, n + 1) \in Int
           /\ SumTo(g, n + 1) = SumTo(f, n) + g[n + 1]
<1>1. PICK t : Sums(f, n, t) /\ SumTo(f, n) = t[n]
  BY SumToIsSum
<1>2. PICK u : Sums(g, n + 1, u) /\ SumTo(g, n + 1) = u[n + 1]
  <2>1. n + 1 \in Nat
    OBVIOUS
  <2>. QED  BY <2>1, SumToIsSum
<1> DEFINE S == {i \in Nat : i <= n => u[i] = t[i]}
<1>3. 0 \in S
  BY <1>1, <1>2 DEF Sums
<1>4. ASSUME NEW i \in Nat, i \in S PROVE i + 1 \in S
  <2> SUFFICES ASSUME i + 1 <= n PROVE u[i + 1] = t[i + 1]
    OBVIOUS
  <2>1. i + 1 \in 1 .. n /\ i + 1 \in 1 .. (n + 1) /\ (i + 1) - 1 = i
    OBVIOUS
  <2>2. t[i + 1] = t[i] + f[i + 1] /\ u[i + 1] = u[i] + g[i + 1] /\ g[i + 1] = f[i + 1]
    BY <2>1, <1>1, <1>2 DEF Sums
  <2>. QED  BY <1>4, <2>2
<1>5. \A i \in Nat : i \in S
  <2> HIDE DEF S
  <2>. QED  BY <1>3, <1>4, Induction
<1>6. u[n + 1] = u[n] + g[n + 1] /\ u[n] = t[n] /\ t[n] \in Int /\ g[n + 1] \in Int
  <2>1. n + 1 \in 1 .. (n + 1) /\ (n + 1) - 1 = n
    OBVIOUS
  <2>. QED  BY <2>1, <1>1, <1>2, <1>5 DEF Sums
<1>. QED  BY <1>1, <1>2, <1>6

\* A sum of natural numbers is at least each of them, and positive only when one is.
LEMMA SumToMember ==
    ASSUME NEW n \in Nat, NEW f \in [1 .. n -> Nat]
    PROVE  /\ SumTo(f, n) \in Nat /\ \A k \in 1 .. n : f[k] <= SumTo(f, n)
           /\ SumTo(f, n) # 0 => \E k \in 1 .. n : f[k] # 0
<1>1. f \in [1 .. n -> Int] /\ \A i \in 1 .. n : f[i] >= 0
  OBVIOUS
<1>2. SumTo(f, n) \in Nat
  BY <1>1, SumToNatural
<1>3. ASSUME NEW k \in 1 .. n PROVE f[k] <= SumTo(f, n)
  <2> DEFINE g == [i \in 1 .. n |-> IF i = k THEN 0 ELSE f[i]]
  <2>1. g \in [1 .. n -> Int] /\ (\A i \in 1 .. n : g[i] >= 0) /\ g[k] = 0 /\ \A i \in 1 .. n : i # k => g[i] = f[i]
    OBVIOUS
  <2> HIDE DEF g
  <2>2. SumTo(g, n) \in Nat
    BY <2>1, SumToNatural
  <2>3. SumTo(g, n) = SumTo(f, n) + g[k] - f[k]
    BY <1>1, <2>1, SumToChange
  <2>4. f[k] \in Nat
    OBVIOUS
  <2>. QED  BY <1>2, <2>1, <2>2, <2>3, <2>4
<1>4. ASSUME \A k \in 1 .. n : f[k] = 0 PROVE SumTo(f, n) = 0
  <2>1. SumTo(f, n) <= n * 0
    <3>1. 0 \in Nat /\ \A i \in 1 .. n : f[i] <= 0
      BY <1>4
    <3>. QED  BY <1>1, <3>1, SumToBounded
  <2>. QED  BY <1>2, <2>1
<1>. QED  BY <1>2, <1>3, <1>4

=============================================================================
