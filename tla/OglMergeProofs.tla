--------------------------- MODULE OglMergeProofs ---------------------------
(***************************************************************************)
(* What merge() makes of any three trees, of any width and depth: the      *)
(* three-way merge when it returns true, dst untouched when it does not,   *)
(* a conflict exactly when both sides changed the same thing, and every    *)
(* directory of dst that a commit has to write marked.                     *)
(***************************************************************************)
EXTENDS OglMerge, InductionFacts, FiniteSetTheorems, SequenceTheorems

-----------------------------------------------------------------------------
(* Paths.                                                                  *)

LEMMA IsPath ==
    ASSUME NEW p \in Seq(Names), Len(p) <= Depth
    PROVE  p \in Paths
<1>1. Depth \in Nat
  BY TreeAssumption
<1>2. p \in [1 .. Len(p) -> Names] /\ Len(p) \in 0 .. Depth
  BY <1>1
<1>. QED  BY <1>2 DEF Paths

LEMMA PathType ==
    ASSUME NEW p \in Paths
    PROVE  p \in Seq(Names) /\ Len(p) \in Nat /\ Len(p) <= Depth /\ Depth \in Nat
<1>1. Depth \in Nat
  BY TreeAssumption
<1>2. PICK d \in 0 .. Depth : p \in [1 .. d -> Names]
  BY DEF Paths
<1>. QED  BY <1>1, <1>2

LEMMA RootPath == Root \in Paths /\ Len(Root) = 0
<1>1. Depth \in Nat
  BY TreeAssumption
<1>2. Root \in Seq(Names) /\ Len(Root) = 0
  BY DEF Root
<1>3. Len(Root) <= Depth
  BY <1>1, <1>2
<1>. QED  BY <1>2, <1>3, IsPath

LEMMA PrefixPath ==
    ASSUME NEW p \in Paths, NEW i \in 0 .. Len(p)
    PROVE  /\ Prefix(p, i) \in Paths /\ Len(Prefix(p, i)) = i
           /\ \A k \in 1 .. i : Prefix(p, i)[k] = p[k]
<1>1. p \in Seq(Names) /\ Len(p) <= Depth /\ Depth \in Nat
  BY PathType, TreeAssumption
<1>2. /\ SubSeq(p, 1, i) \in Seq(Names) /\ Len(SubSeq(p, 1, i)) = i
      /\ \A k \in 1 .. i : SubSeq(p, 1, i)[k] = p[k]
  BY <1>1
<1>3. SubSeq(p, 1, i) \in Paths
  <2>1. i <= Depth
    BY <1>1
  <2>. QED  BY <1>2, <2>1, IsPath
<1>. QED  BY <1>2, <1>3 DEF Prefix

LEMMA PathEqual ==
    ASSUME NEW p \in Paths, NEW q \in Paths, Len(p) = Len(q), \A i \in 1 .. Len(p) : p[i] = q[i]
    PROVE  p = q
<1>1. p \in Seq(Names) /\ q \in Seq(Names)
  BY PathType
<1>. QED  BY <1>1

LEMMA BelowMeans ==
    ASSUME NEW p \in Paths, NEW q \in Paths
    PROVE  Below(q, p) <=> Len(q) > Len(p) /\ \A i \in 1 .. Len(p) : q[i] = p[i]
<1>1. p \in Seq(Names) /\ q \in Seq(Names) /\ Len(p) \in Nat /\ Len(q) \in Nat
  BY PathType
<1>2. CASE Len(q) > Len(p)
  <2>1. /\ Prefix(q, Len(p)) \in Paths /\ Len(Prefix(q, Len(p))) = Len(p)
        /\ \A k \in 1 .. Len(p) : Prefix(q, Len(p))[k] = q[k]
    BY <1>1, <1>2, PrefixPath
  <2>2. Prefix(q, Len(p)) = p <=> \A i \in 1 .. Len(p) : q[i] = p[i]
    BY <2>1, PathEqual
  <2>. QED  BY <1>2, <2>2 DEF Below
<1>3. CASE ~ (Len(q) > Len(p))
  BY <1>3 DEF Below
<1>. QED  BY <1>2, <1>3

LEMMA PathLen == \A p \in Paths : Len(p) \in Nat /\ Len(p) <= Depth /\ Depth \in Nat
BY PathType

LEMMA BelowTrans ==
    ASSUME NEW p \in Paths, NEW q \in Paths, NEW r \in Paths, Below(q, p), Below(r, q)
    PROVE  Below(r, p)
BY BelowMeans, PathLen

LEMMA BelowOther ==
    ASSUME NEW p \in Paths, NEW q \in Paths, Below(q, p)
    PROVE  p # q /\ ~ Below(p, q) /\ q # Root
BY BelowMeans, PathLen, RootPath

LEMMA BelowRoot ==
    ASSUME NEW p \in Paths
    PROVE  p = Root \/ Below(p, Root)
<1>1. CASE Len(p) = 0
  BY <1>1, RootPath, PathEqual
<1>2. CASE Len(p) # 0
  BY <1>2, RootPath, PathLen, BelowMeans
<1>. QED  BY <1>1, <1>2

\* What lies below both p and r makes them comparable.
LEMMA BelowChain ==
    ASSUME NEW p \in Paths, NEW q \in Paths, NEW r \in Paths, Below(q, p), Below(q, r)
    PROVE  p = r \/ Below(p, r) \/ Below(r, p)
<1>1. /\ Len(q) > Len(p) /\ \A i \in 1 .. Len(p) : q[i] = p[i]
      /\ Len(q) > Len(r) /\ \A i \in 1 .. Len(r) : q[i] = r[i]
  BY BelowMeans
<1>2. Len(p) \in Nat /\ Len(r) \in Nat
  BY PathLen
<1>3. CASE Len(p) = Len(r)
  BY <1>1, <1>3, PathEqual
<1>4. CASE Len(p) < Len(r)
  BY <1>1, <1>2, <1>4, BelowMeans
<1>5. CASE Len(p) > Len(r)
  BY <1>1, <1>2, <1>5, BelowMeans
<1>. QED  BY <1>2, <1>3, <1>4, <1>5

-----------------------------------------------------------------------------
(* Children and parents.                                                   *)

Child(p, n) == Append(p, n)

LEMMA ChildPath ==
    ASSUME NEW p \in Paths, NEW n \in Names, Len(p) # Depth
    PROVE  /\ Child(p, n) \in Paths /\ Len(Child(p, n)) = Len(p) + 1
           /\ Child(p, n)[Len(p) + 1] = n
           /\ Below(Child(p, n), p) /\ Parent(Child(p, n)) = p
           /\ Child(p, n) # Root
<1>1. p \in Seq(Names) /\ Len(p) \in Nat /\ Len(p) <= Depth /\ Depth \in Nat
  BY PathType, PathLen
<1>2. /\ Append(p, n) \in Seq(Names) /\ Len(Append(p, n)) = Len(p) + 1
      /\ Append(p, n)[Len(p) + 1] = n /\ \A i \in 1 .. Len(p) : Append(p, n)[i] = p[i]
  BY <1>1
<1>3. Append(p, n) \in Paths
  <2>1. Len(Append(p, n)) <= Depth
    BY <1>1, <1>2
  <2>. QED  BY <1>2, <2>1, IsPath
<1>4. Below(Append(p, n), p)
  <2>1. PICK q \in Paths : q = Append(p, n)
    BY <1>3
  <2>2. Len(q) > Len(p) /\ \A i \in 1 .. Len(p) : q[i] = p[i]
    BY <1>1, <1>2, <2>1
  <2>. QED  BY <2>1, <2>2, BelowMeans
<1>5. Parent(Append(p, n)) = p
  <2>1. (Len(p) + 1) - 1 = Len(p)
    BY <1>1
  <2>. QED  BY <1>2, <1>4, <2>1 DEF Parent, Below
<1>6. Append(p, n) # Root
  BY <1>3, <1>4, BelowOther
<1>. QED  BY <1>2, <1>3, <1>4, <1>5, <1>6 DEF Child

\* A path below p is a child of p or below one.
LEMMA ChildAbove ==
    ASSUME NEW p \in Paths, NEW q \in Paths, Below(q, p)
    PROVE  /\ Len(p) # Depth /\ q[Len(p) + 1] \in Names
           /\ IF Len(q) = Len(p) + 1 THEN q = Child(p, q[Len(p) + 1])
              ELSE Below(q, Child(p, q[Len(p) + 1]))
<1>1. p \in Seq(Names) /\ q \in Seq(Names) /\ Len(p) \in Nat /\ Len(q) \in Nat /\ Len(q) <= Depth
      /\ Depth \in Nat
  BY PathType, PathLen
<1>2. Len(q) > Len(p) /\ \A i \in 1 .. Len(p) : q[i] = p[i]
  BY BelowMeans
<1>3. Len(p) # Depth /\ q[Len(p) + 1] \in Names
  BY <1>1, <1>2
<1>4. PICK n \in Names : n = q[Len(p) + 1]
  BY <1>3
<1>5. /\ Child(p, n) \in Paths /\ Len(Child(p, n)) = Len(p) + 1
      /\ \A i \in 1 .. (Len(p) + 1) : Child(p, n)[i] = q[i]
  <2>1. Child(p, n) \in Paths /\ Len(Child(p, n)) = Len(p) + 1
    BY <1>3, ChildPath
  <2>2. \A i \in 1 .. (Len(p) + 1) : Append(p, n)[i] = q[i]
    BY <1>1, <1>2, <1>4
  <2>. QED  BY <2>1, <2>2 DEF Child
<1>6. CASE Len(q) = Len(p) + 1
  BY <1>3, <1>4, <1>5, <1>6, PathEqual
<1>7. CASE Len(q) # Len(p) + 1
  <2>1. Len(q) > Len(Child(p, n))
    BY <1>1, <1>2, <1>5, <1>7
  <2>2. Below(q, Child(p, n))
    BY <1>5, <2>1, BelowMeans
  <2>. QED  BY <1>3, <1>4, <1>7, <2>2
<1>. QED  BY <1>6, <1>7

LEMMA ParentPath ==
    ASSUME NEW p \in Paths, p # Root
    PROVE  /\ Parent(p) \in Paths /\ Len(Parent(p)) = Len(p) - 1 /\ Len(p) \in Nat \ {0}
           /\ Below(p, Parent(p)) /\ Len(Parent(p)) # Depth
           /\ p[Len(p)] \in Names /\ p = Child(Parent(p), p[Len(p)])
           /\ \A q \in Paths : Below(p, q) <=> q = Parent(p) \/ Below(Parent(p), q)
<1>1. Len(p) \in Nat /\ Len(p) # 0
  BY PathLen, RootPath, PathEqual
<1>2. /\ Parent(p) \in Paths /\ Len(Parent(p)) = Len(p) - 1
      /\ \A k \in 1 .. (Len(p) - 1) : Parent(p)[k] = p[k]
  BY <1>1, PrefixPath DEF Parent
<1>3. Below(p, Parent(p))
  BY <1>1, <1>2, BelowMeans
<1>4. Len(Parent(p)) # Depth /\ p[Len(p)] \in Names /\ p = Child(Parent(p), p[Len(p)])
  <2>1. Len(Parent(p)) + 1 = Len(p)
    BY <1>1, <1>2
  <2>. QED  BY <1>2, <1>3, <2>1, ChildAbove
<1>5. ASSUME NEW q \in Paths, Below(p, q) PROVE q = Parent(p) \/ Below(Parent(p), q)
  <2>1. ~ Below(q, Parent(p))
    <3>1. Len(q) \in Nat /\ Len(p) > Len(q)
      BY <1>5, PathLen, BelowMeans
    <3>. QED  BY <1>1, <1>2, <3>1, BelowMeans
  <2>. QED  BY <1>2, <1>3, <1>5, <2>1, BelowChain
<1>6. ASSUME NEW q \in Paths, q = Parent(p) \/ Below(Parent(p), q) PROVE Below(p, q)
  BY <1>2, <1>3, <1>6, BelowTrans
<1>. QED  BY <1>1, <1>2, <1>3, <1>4, <1>5, <1>6

-----------------------------------------------------------------------------
(* The order of paths: a is p or above it.                                 *)

Over(a, p) == a = p \/ Below(p, a)

LEMMA OverFacts ==
    /\ \A p \in Paths : Over(p, p) /\ Over(Root, p)
    /\ \A a, b, c \in Paths : Over(a, b) /\ Over(b, c) => Over(a, c)
    /\ \A a, b \in Paths : Over(a, b) /\ Over(b, a) => a = b
    /\ \A a, b \in Paths : Below(b, a) <=> Over(a, b) /\ a # b
<1>1. \A p \in Paths : Over(p, p) /\ Over(Root, p)
  BY BelowRoot DEF Over
<1>2. \A a, b, c \in Paths : Over(a, b) /\ Over(b, c) => Over(a, c)
  BY BelowTrans DEF Over
<1>3. \A a, b \in Paths : Over(a, b) /\ Over(b, a) => a = b
  BY BelowOther DEF Over
<1>4. \A a, b \in Paths : Below(b, a) <=> Over(a, b) /\ a # b
  BY BelowOther DEF Over
<1>. QED  BY <1>1, <1>2, <1>3, <1>4

LEMMA OverChain ==
    ASSUME NEW a \in Paths, NEW b \in Paths, NEW p \in Paths, Over(a, p), Over(b, p)
    PROVE  Over(a, b) \/ Over(b, a)
BY BelowChain DEF Over

LEMMA OverParent ==
    ASSUME NEW p \in Paths, p # Root
    PROVE  /\ Parent(p) \in Paths /\ Below(p, Parent(p)) /\ ~ Over(p, Parent(p)) /\ Over(Parent(p), p)
           /\ \A a \in Paths : Over(a, p) <=> a = p \/ Over(a, Parent(p))
<1>1. /\ Parent(p) \in Paths /\ Below(p, Parent(p))
      /\ \A q \in Paths : Below(p, q) <=> q = Parent(p) \/ Below(Parent(p), q)
  BY ParentPath
<1>2. ~ Over(p, Parent(p))
  BY <1>1, BelowOther DEF Over
<1>. QED  BY <1>1, <1>2 DEF Over

\* What holds at a and passes from every directory to what is in it holds
\* everywhere below a.
LEMMA DownTree ==
    ASSUME NEW S, NEW a \in Paths, a \in S,
           \A p \in Paths : Below(p, a) /\ Parent(p) \in S => p \in S
    PROVE  \A p \in Paths : Over(a, p) => p \in S
<1> DEFINE T == {n \in Nat : \A p \in Paths : Over(a, p) /\ Len(p) = n => p \in S}
<1>0. ASSUME NEW p \in Paths, Over(a, p), p # a PROVE /\ Below(p, a) /\ Parent(p) \in Paths
                                                 /\ Over(a, Parent(p)) /\ Len(Parent(p)) = Len(p) - 1
  <2>1. Below(p, a) /\ p # Root
    BY <1>0, BelowOther DEF Over
  <2>. QED  BY <1>0, <2>1, ParentPath, OverParent
<1>1. 0 \in T
  <2> SUFFICES ASSUME NEW p \in Paths, Over(a, p), Len(p) = 0 PROVE p \in S
    OBVIOUS
  <2>1. p = a
    <3>1. Below(p, a) => Len(a) \in Nat /\ Len(p) > Len(a)
      BY PathLen, BelowMeans
    <3>. QED  BY <3>1 DEF Over
  <2>. QED  BY <2>1
<1>2. ASSUME NEW n \in Nat, n \in T PROVE n + 1 \in T
  <2> SUFFICES ASSUME NEW p \in Paths, Over(a, p), Len(p) = n + 1 PROVE p \in S
    OBVIOUS
  <2>1. CASE p = a
    BY <2>1
  <2>2. CASE p # a
    <3>1. Parent(p) \in Paths /\ Over(a, Parent(p)) /\ Len(Parent(p)) = n /\ Below(p, a)
      BY <1>0, <2>2
    <3>. QED  BY <1>2, <3>1
  <2>. QED  BY <2>1, <2>2
<1>3. \A n \in Nat : n \in T
  <2> HIDE DEF T
  <2>. QED  BY <1>1, <1>2, Induction
<1>. QED  BY <1>3, PathLen

\* What passes from the entries of a directory to the directory holds everywhere.
LEMMA UpTree ==
    ASSUME NEW S,
           \A p \in Paths : (\A n \in Names : Len(p) # Depth => Child(p, n) \in S) => p \in S
    PROVE  Paths \subseteq S
<1> DEFINE T == {n \in Nat : \A p \in Paths : Len(p) + n >= Depth => p \in S}
<1>1. 0 \in T
  BY PathLen
<1>2. ASSUME NEW n \in Nat, n \in T PROVE n + 1 \in T
  <2> SUFFICES ASSUME NEW p \in Paths, Len(p) + (n + 1) >= Depth PROVE p \in S
    OBVIOUS
  <2>1. ASSUME NEW m \in Names, Len(p) # Depth PROVE Child(p, m) \in S
    <3>1. Child(p, m) \in Paths /\ Len(Child(p, m)) = Len(p) + 1
      BY <2>1, ChildPath
    <3>2. Len(Child(p, m)) + n >= Depth
      BY <3>1, PathLen
    <3>. QED  BY <1>2, <3>1, <3>2
  <2>. QED  BY <2>1
<1>3. \A n \in Nat : n \in T
  <2> HIDE DEF T
  <2>. QED  BY <1>1, <1>2, Induction
<1>4. Depth \in T
  BY <1>3, TreeAssumption
<1>. QED  BY <1>4, PathLen

\* Where the way from a down to p leaves S.
LEMMA Frontier ==
    ASSUME NEW S, NEW a \in Paths, a \in S, NEW p \in Paths, Over(a, p), p \notin S
    PROVE  \E c \in Paths \ {Root} : Below(c, a) /\ Over(c, p) /\ c \notin S /\ Parent(c) \in S
<1> DEFINE T == {q \in Paths : Over(q, p) => q \in S}
<1> SUFFICES ASSUME \A c \in Paths \ {Root} : ~ (Below(c, a) /\ Over(c, p) /\ c \notin S /\ Parent(c) \in S)
             PROVE  FALSE
  OBVIOUS
<1>1. ASSUME NEW q \in Paths, Below(q, a), Parent(q) \in T PROVE q \in T
  <2>1. q # Root
    BY <1>1, BelowOther
  <2>2. Over(q, p) => Over(Parent(q), p)
    BY <2>1, OverParent, OverFacts
  <2>. QED  BY <1>1, <2>1, <2>2
<1>2. a \in T
  OBVIOUS
<1>3. \A q \in Paths : Over(a, q) => q \in T
  <2> HIDE DEF T
  <2>. QED  BY <1>1, <1>2, DownTree
<1>. QED  BY <1>3, OverFacts

LEMMA TowardsChild ==
    ASSUME NEW p \in Paths, NEW q \in Paths, Below(q, p)
    PROVE  \E c \in Paths \ {Root} : Parent(c) = p /\ Over(c, q)
<1>1. PICK c \in Paths \ {Root} : Below(c, p) /\ Over(c, q) /\ c \notin {p} /\ Parent(c) \in {p}
  <2>1. q \notin {p} /\ Over(p, q)
    BY BelowOther DEF Over
  <2>. QED  BY <2>1, Frontier
<1>. QED  BY <1>1

-----------------------------------------------------------------------------
(* Committed trees.                                                        *)

\* What a tree has that was committed and read as a whole.
TreeKinds == {"none", "nonexistent", "file", "dir", "symlink", "local"}

EntryAt(t, p) ==
    /\ t[p].kind \in TreeKinds
    /\ t[p] = Entry(t[p].kind, t[p].hash, FALSE, t[p].kind = "dir")
    /\ t[p].kind = "dir" => t[p].hash = DirObj(t, p)
    /\ t[p].kind = "file" => t[p].hash = FileHash(t[p].hash.data)
    /\ t[p].kind = "symlink" => t[p].hash = LinkObj(t[p].hash.data)
    /\ t[p].kind \in {"none", "nonexistent", "local"} => t[p].hash = NoHash

TreeOK(t) ==
    /\ t = [p \in Paths |-> t[p]]
    /\ t[Root].kind = "dir"
    /\ \A p \in Paths : EntryAt(t, p)
    /\ \A p \in Paths \ {Root} : t[p].kind # "none" => t[Parent(p)].kind = "dir"

\* The parts of Committed.
At(shape, p) ==
    IF p = Root THEN Entry("dir", NoHash, FALSE, TRUE) ELSE IF p \in Slots THEN shape[p] ELSE None
EntsOf(shape, h, p) ==
    [n \in Names |->
        IF Len(p) = Depth \/ At(shape, Append(p, n)).kind = "none" THEN NoDentry
        ELSE Dentry(At(shape, Append(p, n)).kind, h[Append(p, n)])]
HashAt(shape, h, p) ==
    IF At(shape, p).kind = "dir" THEN Hash("DIR", EntsOf(shape, h, p), 0) ELSE At(shape, p).hash

LEMMA HashAtSame ==
    ASSUME NEW shape, NEW g, NEW h, NEW p \in Paths,
           \A n \in Names : Len(p) # Depth => g[Child(p, n)] = h[Child(p, n)]
    PROVE  HashAt(shape, g, p) = HashAt(shape, h, p)
<1>1. EntsOf(shape, g, p) = EntsOf(shape, h, p)
  BY DEF EntsOf, Child
<1>. QED  BY <1>1 DEF HashAt

Hashed(shape, n, g) == \A p \in Paths : Len(p) + n >= Depth => g[p] = HashAt(shape, g, p)

LEMMA HashesExist ==
    ASSUME NEW shape
    PROVE  \E h : h = [p \in Paths |-> HashAt(shape, h, p)]
<1> DEFINE S == {n \in Nat : \E g : g = [p \in Paths |-> g[p]] /\ Hashed(shape, n, g)}
<1>1. 0 \in S
  <2> DEFINE g == [p \in Paths |-> HashAt(shape, <<>>, p)]
  <2>1. ASSUME NEW p \in Paths, Len(p) + 0 >= Depth PROVE g[p] = HashAt(shape, g, p)
    <3>1. Len(p) = Depth
      BY <2>1, PathLen
    <3>2. g[p] = HashAt(shape, <<>>, p)
      OBVIOUS
    <3> HIDE DEF g
    <3>. QED  BY <3>1, <3>2, HashAtSame
  <2>2. g = [p \in Paths |-> g[p]]
    OBVIOUS
  <2> HIDE DEF g
  <2>3. Hashed(shape, 0, g)
    BY <2>1 DEF Hashed
  <2>. QED  BY <2>2, <2>3
<1>2. ASSUME NEW n \in Nat, n \in S PROVE n + 1 \in S
  <2>1. PICK g : Hashed(shape, n, g)
    BY <1>2
  <2> DEFINE u == [p \in Paths |-> IF Len(p) + n >= Depth THEN g[p] ELSE HashAt(shape, g, p)]
  <2>2. \A p \in Paths : Len(p) + n >= Depth => u[p] = g[p]
    OBVIOUS
  <2>3. \A p \in Paths : ~ (Len(p) + n >= Depth) => u[p] = HashAt(shape, g, p)
    OBVIOUS
  <2>4. u = [p \in Paths |-> u[p]]
    OBVIOUS
  <2> HIDE DEF u
  <2>5. ASSUME NEW p \in Paths, Len(p) + (n + 1) >= Depth PROVE u[p] = HashAt(shape, u, p)
    <3>1. u[p] = HashAt(shape, g, p)
      BY <2>1, <2>2, <2>3 DEF Hashed
    <3>2. ASSUME NEW m \in Names, Len(p) # Depth PROVE u[Child(p, m)] = g[Child(p, m)]
      <4>1. Child(p, m) \in Paths /\ Len(Child(p, m)) = Len(p) + 1
        BY <3>2, ChildPath
      <4>2. Len(Child(p, m)) + n >= Depth
        BY <2>5, <4>1, PathLen
      <4>. QED  BY <2>2, <4>1, <4>2
    <3>3. HashAt(shape, u, p) = HashAt(shape, g, p)
      BY <3>2, HashAtSame
    <3>. QED  BY <3>1, <3>3
  <2>6. Hashed(shape, n + 1, u)
    BY <2>5 DEF Hashed
  <2>. QED  BY <2>4, <2>6
<1>3. \A n \in Nat : n \in S
  <2> HIDE DEF S
  <2>. QED  BY <1>1, <1>2, Induction
<1>4. PICK g : g = [p \in Paths |-> g[p]] /\ Hashed(shape, Depth, g)
  BY <1>3, TreeAssumption
<1>5. \A p \in Paths : g[p] = HashAt(shape, g, p)
  BY <1>4, PathLen DEF Hashed
<1>6. g = [p \in Paths |-> HashAt(shape, g, p)]
  BY <1>4, <1>5
<1>. QED  BY <1>6

LEMMA CommittedIs ==
    ASSUME NEW shape
    PROVE  \E h : /\ h = [p \in Paths |-> HashAt(shape, h, p)]
                  /\ Committed(shape) = [p \in Paths |-> [At(shape, p) EXCEPT !.hash = h[p]]]
<1> DEFINE T(h) == h = [p \in Paths |-> HashAt(shape, h, p)]
           u == CHOOSE h : T(h)
<1>1. T(u)
  <2>1. \E h : T(h)
    BY HashesExist
  <2> HIDE DEF T
  <2>. QED  BY <2>1
<1>2. Committed(shape) = [p \in Paths |-> [At(shape, p) EXCEPT !.hash = u[p]]]
  BY DEF Committed, At, EntsOf, HashAt
<1> HIDE DEF u
<1>. QED  BY <1>1, <1>2

SlotOK(e) ==
    /\ e.kind \in TreeKinds
    /\ e = Entry(e.kind, e.hash, FALSE, e.kind = "dir")
    /\ e.kind = "file" => e.hash = FileHash(e.hash.data)
    /\ e.kind = "symlink" => e.hash = LinkObj(e.hash.data)
    /\ e.kind \in {"none", "nonexistent", "local"} => e.hash = NoHash

LEMMA EntryFields ==
    \A k, h, m, l : /\ Entry(k, h, m, l).kind = k /\ Entry(k, h, m, l).hash = h
                    /\ Entry(k, h, m, l).modified = m /\ Entry(k, h, m, l).loaded = l
BY DEF Entry

LEMMA HashFields ==
    /\ \A t, e, d : Hash(t, e, d).type = t /\ Hash(t, e, d).ents = e /\ Hash(t, e, d).data = d
    /\ \A c : FileHash(c).data = c /\ LinkObj(c).data = c
    /\ NoHash.data = 0
BY DEF Hash, FileHash, LinkObj, NoHash

LEMMA DentryFields ==
    \A k, h : Dentry(k, h).kind = k /\ Dentry(k, h).hash = h
BY DEF Dentry

LEMMA EntryRehashed ==
    ASSUME NEW k, NEW g, NEW f, NEW l, NEW h
    PROVE  [Entry(k, g, f, l) EXCEPT !.hash = h] = Entry(k, h, f, l)
<1> DEFINE D == {"kind", "hash", "modified", "loaded"}
<1>1. PICK x : x = Entry(k, g, f, l)
  OBVIOUS
<1>2. PICK y : y = Entry(k, h, f, l)
  OBVIOUS
<1>3. PICK z : z = [x EXCEPT !.hash = h]
  OBVIOUS
<1>4. \A i \in D : z[i] = y[i]
  BY <1>1, <1>2, <1>3 DEF Entry
<1>5. z = [i \in D |-> z[i]]
  BY <1>1, <1>3 DEF Entry
<1>6. y = [i \in D |-> y[i]]
  BY <1>2 DEF Entry
<1>. QED  BY <1>1, <1>2, <1>3, <1>4, <1>5, <1>6

LEMMA SlotEntriesOK ==
    ASSUME NEW e \in SlotEntries
    PROVE  SlotOK(e)
<1>1. CASE e = None
  <2>1. e.kind = "none" /\ e.hash = NoHash /\ e = Entry("none", NoHash, FALSE, FALSE)
    BY <1>1 DEF None, Entry
  <2>2. (e.kind = "dir") = FALSE
    BY <2>1
  <2>. QED  BY <2>1, <2>2 DEF SlotOK, TreeKinds
<1>2. CASE e = Entry("dir", NoHash, FALSE, TRUE)
  <2>1. e.kind = "dir" /\ e.hash = NoHash
    BY <1>2 DEF Entry
  <2>2. (e.kind = "dir") = TRUE
    BY <2>1
  <2>. QED  BY <1>2, <2>1, <2>2 DEF SlotOK, TreeKinds
<1>3. CASE \E k \in Leaves \ {"file", "symlink"} : e = Entry(k, NoHash, FALSE, FALSE)
  <2>1. PICK k \in Leaves \ {"file", "symlink"} : e = Entry(k, NoHash, FALSE, FALSE)
    BY <1>3
  <2>2. k \in {"nonexistent", "local"}
    BY TreeAssumption
  <2>3. e.kind = k /\ e.hash = NoHash
    BY <2>1 DEF Entry
  <2>4. (e.kind = "dir") = FALSE
    BY <2>2, <2>3
  <2>. QED  BY <2>1, <2>2, <2>3, <2>4 DEF SlotOK, TreeKinds
<1>4. CASE \E c \in Contents : e = Entry("file", FileHash(c), FALSE, FALSE)
  <2>1. PICK c \in Contents : e = Entry("file", FileHash(c), FALSE, FALSE)
    BY <1>4
  <2>2. e.kind = "file" /\ e.hash = FileHash(c) /\ e.hash.data = c
    BY <2>1, HashFields DEF Entry
  <2>3. (e.kind = "dir") = FALSE
    BY <2>2
  <2>. QED  BY <2>1, <2>2, <2>3 DEF SlotOK, TreeKinds
<1>5. CASE \E c \in Contents : e = Entry("symlink", LinkObj(c), FALSE, FALSE)
  <2>1. PICK c \in Contents : e = Entry("symlink", LinkObj(c), FALSE, FALSE)
    BY <1>5
  <2>2. e.kind = "symlink" /\ e.hash = LinkObj(c) /\ e.hash.data = c
    BY <2>1, HashFields DEF Entry
  <2>3. (e.kind = "dir") = FALSE
    BY <2>2
  <2>. QED  BY <2>1, <2>2, <2>3 DEF SlotOK, TreeKinds
<1>. QED  BY <1>1, <1>2, <1>3, <1>4, <1>5 DEF SlotEntries

LEMMA TreesOK ==
    ASSUME NEW t \in Trees
    PROVE  TreeOK(t)
<1>1. PICK shape \in [Slots -> SlotEntries] :
        /\ t = Committed(shape)
        /\ \A p \in Slots : shape[p].kind # "none" /\ Parent(p) \in Slots => shape[Parent(p)].kind = "dir"
  BY DEF Trees
<1>2. PICK h : /\ h = [p \in Paths |-> HashAt(shape, h, p)]
               /\ t = [p \in Paths |-> [At(shape, p) EXCEPT !.hash = h[p]]]
  BY <1>1, CommittedIs
<1>3. ASSUME NEW p \in Paths PROVE SlotOK(At(shape, p))
  <2>1. At(shape, p) \in SlotEntries
    BY <1>1 DEF At, SlotEntries
  <2>. QED  BY <2>1, SlotEntriesOK
<1>4. ASSUME NEW p \in Paths
      PROVE  /\ t[p].kind = At(shape, p).kind /\ t[p].hash = h[p]
             /\ t[p] = Entry(t[p].kind, t[p].hash, FALSE, t[p].kind = "dir")
  <2>0. PICK k, g, f, l : k = At(shape, p).kind /\ g = At(shape, p).hash /\ f = FALSE /\ l = (k = "dir")
    OBVIOUS
  <2>1. At(shape, p) = Entry(k, g, f, l) /\ k = At(shape, p).kind /\ f = FALSE /\ l = (k = "dir")
    BY <1>3, <2>0 DEF SlotOK
  <2>2. t[p] = [Entry(k, g, f, l) EXCEPT !.hash = h[p]]
    BY <1>2, <2>1
  <2>3. t[p] = Entry(k, h[p], f, l)
    BY <2>2, EntryRehashed
  <2>4. t[p].kind = k /\ t[p].hash = h[p]
    BY <2>3 DEF Entry
  <2>. QED  BY <2>1, <2>3, <2>4
<1>5. ASSUME NEW p \in Paths, t[p].kind = "dir" PROVE t[p].hash = DirObj(t, p)
  <2>1. h[p] = Hash("DIR", EntsOf(shape, h, p), 0)
    <3>1. h[p] = HashAt(shape, h, p)
      BY <1>2
    <3>. QED  BY <1>4, <1>5, <3>1 DEF HashAt
  <2> DEFINE ents == [n \in Names |->
            IF Len(p) = Depth \/ t[Append(p, n)].kind \in {"none", "removed"} THEN NoDentry
            ELSE Dentry(t[Append(p, n)].kind,
                    IF t[Append(p, n)].kind \in {"local", "nonexistent"} THEN NoHash ELSE t[Append(p, n)].hash)]
  <2>2. DirObj(t, p) = Hash("DIR", ents, 0)
    BY DEF DirObj
  <2>3. ASSUME NEW n \in Names PROVE EntsOf(shape, h, p)[n] = ents[n]
    <3>1. CASE Len(p) = Depth
      BY <3>1 DEF EntsOf
    <3>2. CASE Len(p) # Depth
      <4>1. PICK c \in Paths : c = Append(p, n)
        BY <3>2, ChildPath DEF Child
      <4>2. /\ t[c].kind = At(shape, c).kind /\ t[c].hash = h[c] /\ At(shape, c).kind \in TreeKinds
            /\ At(shape, c).kind \in {"none", "nonexistent", "local"} => At(shape, c).hash = NoHash
        BY <1>3, <1>4 DEF SlotOK
      <4>3. At(shape, c).kind \in {"local", "nonexistent"} => h[c] = NoHash
        BY <1>2, <4>2 DEF HashAt
      <4>4. At(shape, c).kind # "removed"
        BY <4>2 DEF TreeKinds
      <4>5. EntsOf(shape, h, p)[n] = IF At(shape, c).kind = "none" THEN NoDentry
                                     ELSE Dentry(At(shape, c).kind, h[c])
        BY <3>2, <4>1 DEF EntsOf
      <4>6. ents[n] = IF t[c].kind \in {"none", "removed"} THEN NoDentry
                      ELSE Dentry(t[c].kind, IF t[c].kind \in {"local", "nonexistent"} THEN NoHash ELSE t[c].hash)
        BY <3>2, <4>1
      <4> HIDE DEF ents
      <4>. QED  BY <4>2, <4>3, <4>4, <4>5, <4>6
    <3>. QED  BY <3>1, <3>2
  <2>4. EntsOf(shape, h, p) = [n \in Names |-> EntsOf(shape, h, p)[n]] /\ ents = [n \in Names |-> ents[n]]
    BY DEF EntsOf
  <2> HIDE DEF ents
  <2>5. EntsOf(shape, h, p) = ents
    BY <2>3, <2>4
  <2>. QED  BY <1>4, <2>1, <2>2, <2>5
<1>6. ASSUME NEW p \in Paths PROVE EntryAt(t, p)
  <2>1. t[p].kind # "dir" => t[p].hash = At(shape, p).hash
    BY <1>2, <1>4 DEF HashAt
  <2>. QED  BY <1>3, <1>4, <1>5, <2>1 DEF EntryAt, SlotOK
<1>7. t[Root].kind = "dir"
  <2>1. At(shape, Root).kind = "dir"
    BY DEF At, Entry
  <2>. QED  BY <1>4, <2>1, RootPath
<1>8. ASSUME NEW p \in Paths \ {Root}, t[p].kind # "none" PROVE t[Parent(p)].kind = "dir"
  <2>1. At(shape, p).kind # "none"
    BY <1>4, <1>8
  <2>2. p \in Slots /\ shape[p].kind # "none"
    BY <2>1 DEF At, None, Entry
  <2>3. Parent(p) \in Slots \cup {Root} /\ Parent(p) \in Paths
    BY <2>2, SlotsAssumption, ParentPath
  <2>4. CASE Parent(p) = Root
    BY <1>7, <2>4
  <2>5. CASE Parent(p) # Root
    <3>1. At(shape, Parent(p)).kind = "dir"
      BY <1>1, <2>2, <2>3, <2>5 DEF At
    <3>. QED  BY <1>4, <2>3, <3>1
  <2>. QED  BY <2>4, <2>5
<1>9. t = [p \in Paths |-> t[p]]
  BY <1>2
<1>. QED  BY <1>6, <1>7, <1>8, <1>9 DEF TreeOK

-----------------------------------------------------------------------------
(* Equal hashes are equal trees.                                           *)

LEMMA TreeParts ==
    ASSUME NEW t, TreeOK(t)
    PROVE  /\ t = [p \in Paths |-> t[p]] /\ t[Root].kind = "dir"
           /\ \A p \in Paths : EntryAt(t, p)
           /\ \A p \in Paths : p # Root /\ t[p].kind # "none" => t[Parent(p)].kind = "dir"
BY DEF TreeOK

\* A tree has nothing below what is no directory.
LEMMA TreeAbove ==
    ASSUME NEW t, TreeOK(t), NEW a \in Paths, NEW p \in Paths, Below(p, a), t[p].kind # "none"
    PROVE  t[a].kind = "dir"
<1> DEFINE S == {q \in Paths : q # a => (t[q].kind # "none" => t[a].kind = "dir")}
<1>1. a \in S
  OBVIOUS
<1>2. ASSUME NEW q \in Paths, Below(q, a), Parent(q) \in S PROVE q \in S
  <2>1. q # Root /\ Parent(q) \in Paths
    BY <1>2, BelowOther, OverParent
  <2>2. t[q].kind # "none" => t[Parent(q)].kind = "dir"
    BY <2>1, TreeParts
  <2>. QED  BY <1>2, <2>2
<1>3. \A q \in Paths : Over(a, q) => q \in S
  <2> HIDE DEF S
  <2>. QED  BY <1>1, <1>2, DownTree
<1>. QED  BY <1>3, OverFacts

LEMMA EntrySame ==
    ASSUME NEW t, NEW u, NEW p, EntryAt(t, p), EntryAt(u, p), t[p].kind = u[p].kind, t[p].hash = u[p].hash
    PROVE  t[p] = u[p]
<1>1. PICK k, h, l : k = t[p].kind /\ h = t[p].hash /\ l = (k = "dir")
  OBVIOUS
<1>2. t[p] = Entry(k, h, FALSE, l)
  BY <1>1 DEF EntryAt
<1>3. u[p] = Entry(k, h, FALSE, l)
  BY <1>1 DEF EntryAt
<1>. QED  BY <1>2, <1>3

LEMMA NoneSame ==
    ASSUME NEW t, NEW u, NEW p, EntryAt(t, p), EntryAt(u, p), t[p].kind = "none", u[p].kind = "none"
    PROVE  t[p] = u[p]
<1>1. t[p].hash = NoHash /\ u[p].hash = NoHash
  BY DEF EntryAt
<1>. QED  BY <1>1, EntrySame

LEMMA DirObjIs ==
    ASSUME NEW m, NEW r, NEW n \in Names, Len(r) # Depth
    PROVE  DirObj(m, r).ents[n] =
            IF m[Child(r, n)].kind \in {"none", "removed"} THEN NoDentry
            ELSE Dentry(m[Child(r, n)].kind,
                    IF m[Child(r, n)].kind \in {"local", "nonexistent"} THEN NoHash ELSE m[Child(r, n)].hash)
<1> DEFINE ents == [x \in Names |->
            IF Len(r) = Depth \/ m[Append(r, x)].kind \in {"none", "removed"} THEN NoDentry
            ELSE Dentry(m[Append(r, x)].kind,
                    IF m[Append(r, x)].kind \in {"local", "nonexistent"} THEN NoHash ELSE m[Append(r, x)].hash)]
<1>1. DirObj(m, r) = Hash("DIR", ents, 0)
  BY DEF DirObj
<1>2. ents[n] = IF m[Child(r, n)].kind \in {"none", "removed"} THEN NoDentry
            ELSE Dentry(m[Child(r, n)].kind,
                    IF m[Child(r, n)].kind \in {"local", "nonexistent"} THEN NoHash ELSE m[Child(r, n)].hash)
  BY DEF Child
<1> HIDE DEF ents
<1>3. DirObj(m, r).ents = ents
  BY <1>1 DEF Hash
<1>. QED  BY <1>2, <1>3

LEMMA DirObjSame ==
    ASSUME NEW m, NEW k, NEW p \in Paths,
           \A n \in Names : Len(p) # Depth =>
                m[Child(p, n)].kind = k[Child(p, n)].kind /\ m[Child(p, n)].hash = k[Child(p, n)].hash
    PROVE  DirObj(m, p) = DirObj(k, p)
BY DEF DirObj, Child

\* In a committed tree the object of a directory has just the entries' kinds and hashes.
LEMMA DirObjTree ==
    ASSUME NEW t, NEW c \in Paths, c # Root, EntryAt(t, c)
    PROVE  DirObj(t, Parent(c)).ents[c[Len(c)]] = Dentry(t[c].kind, t[c].hash)
<1>1. /\ Parent(c) \in Paths /\ c[Len(c)] \in Names /\ c = Child(Parent(c), c[Len(c)])
      /\ Len(Parent(c)) # Depth
  BY ParentPath
<1>2. /\ t[c].kind # "removed"
      /\ t[c].kind \in {"none", "nonexistent", "local"} => t[c].hash = NoHash
  BY DEF EntryAt, TreeKinds
<1>3. DirObj(t, Parent(c)).ents[c[Len(c)]] =
            IF t[c].kind \in {"none", "removed"} THEN NoDentry
            ELSE Dentry(t[c].kind, IF t[c].kind \in {"local", "nonexistent"} THEN NoHash ELSE t[c].hash)
  BY <1>1, DirObjIs
<1>4. CASE t[c].kind = "none"
  BY <1>2, <1>3, <1>4 DEF NoDentry
<1>5. CASE t[c].kind \in {"local", "nonexistent"}
  BY <1>2, <1>3, <1>5
<1>6. CASE t[c].kind \notin {"none", "local", "nonexistent"}
  BY <1>2, <1>3, <1>6
<1>. QED  BY <1>4, <1>5, <1>6

LEMMA HashSame ==
    ASSUME NEW t, NEW u, TreeOK(t), TreeOK(u), NEW p \in Paths,
           t[p].kind = u[p].kind, t[p].hash = u[p].hash
    PROVE  \A q \in Paths : Over(p, q) => t[q] = u[q]
<1> DEFINE S == {q \in Paths : t[q] = u[q]}
<1>1. p \in S
  <2>1. EntryAt(t, p) /\ EntryAt(u, p)
    BY TreeParts
  <2>. QED  BY <2>1, EntrySame
<1>2. ASSUME NEW q \in Paths, Below(q, p), Parent(q) \in S PROVE q \in S
  <2>1. q # Root /\ Parent(q) \in Paths
    BY <1>2, BelowOther, OverParent
  <2>2. EntryAt(t, q) /\ EntryAt(u, q) /\ EntryAt(t, Parent(q)) /\ EntryAt(u, Parent(q)) /\ t[Parent(q)] = u[Parent(q)]
    BY <1>2, <2>1, TreeParts
  <2>3. CASE t[Parent(q)].kind = "dir"
    <3>1. DirObj(t, Parent(q)) = DirObj(u, Parent(q))
      BY <2>2, <2>3 DEF EntryAt
    <3>2. Dentry(t[q].kind, t[q].hash) = Dentry(u[q].kind, u[q].hash)
      BY <2>1, <2>2, <3>1, DirObjTree
    <3>3. t[q].kind = u[q].kind /\ t[q].hash = u[q].hash
      BY <3>2 DEF Dentry
    <3>. QED  BY <2>2, <3>3, EntrySame
  <2>4. CASE t[Parent(q)].kind # "dir"
    <3>1. t[q].kind = "none" /\ u[q].kind = "none"
      BY <2>1, <2>2, <2>4, TreeParts
    <3>. QED  BY <2>2, <3>1, NoneSame
  <2>. QED  BY <2>3, <2>4
<1>3. \A q \in Paths : Over(p, q) => q \in S
  <2> HIDE DEF S
  <2>. QED  BY <1>1, <1>2, DownTree
<1>. QED  BY <1>3

\* What Look shows of an entry.
SameLook(t, u, p) == t[p].kind = u[p].kind /\ (t[p].kind # "dir" => t[p].hash.data = u[p].hash.data)

LEMMA LookIs ==
    ASSUME NEW t, NEW u, NEW p \in Paths
    PROVE  (Look(t)[p] = Look(u)[p]) <=> SameLook(t, u, p)
<1>1. /\ Look(t)[p] = <<t[p].kind, IF t[p].kind = "dir" THEN 0 ELSE t[p].hash.data>>
      /\ Look(u)[p] = <<u[p].kind, IF u[p].kind = "dir" THEN 0 ELSE u[p].hash.data>>
  BY DEF Look
<1>. QED  BY <1>1 DEF SameLook

\* Two entries of committed trees that are no directories are the same when they look the same.
LEMMA LeafSame ==
    ASSUME NEW t, NEW u, NEW p, EntryAt(t, p), EntryAt(u, p), SameLook(t, u, p), t[p].kind # "dir"
    PROVE  t[p] = u[p]
<1>1. t[p].kind = u[p].kind /\ t[p].hash.data = u[p].hash.data /\ t[p].kind \in TreeKinds
  BY DEF SameLook, EntryAt
<1>2. t[p].hash = u[p].hash
  BY <1>1 DEF EntryAt, TreeKinds
<1>. QED  BY <1>1, <1>2, EntrySame

LEMMA LookSame ==
    ASSUME NEW t, NEW u, TreeOK(t), TreeOK(u), NEW p \in Paths,
           \A q \in Paths : Over(p, q) => SameLook(t, u, q)
    PROVE  t[p] = u[p]
<1> DEFINE S == {q \in Paths : (\A r \in Paths : Over(q, r) => SameLook(t, u, r)) => t[q] = u[q]}
<1>1. ASSUME NEW q \in Paths, \A n \in Names : Len(q) # Depth => Child(q, n) \in S PROVE q \in S
  <2> SUFFICES ASSUME \A r \in Paths : Over(q, r) => SameLook(t, u, r) PROVE t[q] = u[q]
    OBVIOUS
  <2>1. EntryAt(t, q) /\ EntryAt(u, q) /\ SameLook(t, u, q)
    BY TreeParts, OverFacts
  <2>2. CASE t[q].kind # "dir"
    BY <2>1, <2>2, LeafSame
  <2>3. CASE t[q].kind = "dir"
    <3>1. ASSUME NEW n \in Names, Len(q) # Depth PROVE t[Child(q, n)] = u[Child(q, n)]
      <4>1. Child(q, n) \in Paths /\ Over(q, Child(q, n))
        BY <3>1, ChildPath DEF Over
      <4>2. \A r \in Paths : Over(Child(q, n), r) => SameLook(t, u, r)
        BY <4>1, OverFacts
      <4>. QED  BY <1>1, <3>1, <4>1, <4>2
    <3>2. DirObj(t, q) = DirObj(u, q)
      BY <3>1, DirObjSame
    <3>3. t[q].kind = u[q].kind /\ t[q].hash = u[q].hash
      BY <2>1, <2>3, <3>2 DEF SameLook, EntryAt
    <3>. QED  BY <2>1, <3>3, EntrySame
  <2>. QED  BY <2>2, <2>3
<1>2. Paths \subseteq S
  <2> HIDE DEF S
  <2>. QED  BY <1>1, UpTree
<1>. QED  BY <1>2

-----------------------------------------------------------------------------
(* What merge() does with the entry at a path p: s, b and c stand for src, *)
(* dst as it was, and common.                                              *)

Absent(t, p) == t[p].kind = "none"
IsDir(t, p) == t[p].kind = "dir"
Same(t, u, p) == t[p].kind = u[p].kind /\ t[p].hash = u[p].hash

Adds(s, c, p) == ~ Absent(s, p) /\ Absent(c, p)
Rems(s, c, p) == Absent(s, p) /\ ~ Absent(c, p)
Mods(s, c, p) == ~ Absent(s, p) /\ ~ Absent(c, p) /\ ~ Same(s, c, p)

\* The directories both passes visit.
Joint(s, b, c, d) ==
    /\ IsDir(s, d) /\ IsDir(b, d) /\ IsDir(c, d)
    /\ d # Root => s[d].hash # c[d].hash

\* check_conflictions lets the entry pass.
Clean(s, b, c, p) ==
    /\ Adds(s, c, p) => Absent(b, p)
    /\ Rems(s, c, p) => ~ Absent(b, p) /\ Same(b, c, p)
    /\ Mods(s, c, p) => ~ Absent(b, p) /\ (Same(b, c, p) \/ (IsDir(b, p) /\ IsDir(c, p)))
Agreed(s, b, c) == \A p \in Paths \ {Root} : Joint(s, b, c, Parent(p)) => Clean(s, b, c, p)

\* apply_changes puts the entry of src in the place of the one of dst.
Takes(s, b, c, p) ==
    \/ Adds(s, c, p)
    \/ Rems(s, c, p)
    \/ Mods(s, c, p) /\ ~ (IsDir(s, p) /\ IsDir(b, p))
Taken(s, b, c, p) ==
    \E a \in Paths \ {Root} : Over(a, p) /\ Joint(s, b, c, Parent(a)) /\ Takes(s, b, c, a)

\* t and u are the same from p down.
SameDown(t, u, p) == \A q \in Paths : Over(p, q) => t[q] = u[q]

LEMMA AbsentDown ==
    ASSUME NEW t, NEW u, TreeOK(t), TreeOK(u), NEW p \in Paths, Absent(t, p), Absent(u, p)
    PROVE  SameDown(t, u, p)
<1>1. t[p] = u[p]
  BY TreeParts, NoneSame DEF Absent
<1>. QED  BY <1>1, HashSame DEF SameDown

LEMMA SameIsDown ==
    ASSUME NEW t, NEW u, TreeOK(t), TreeOK(u), NEW p \in Paths, Same(t, u, p)
    PROVE  SameDown(t, u, p)
BY HashSame DEF SameDown, Same

LEMMA DirAbove ==
    ASSUME NEW t, TreeOK(t), NEW a \in Paths, NEW p \in Paths, Over(a, p), IsDir(t, p)
    PROVE  IsDir(t, a)
<1>1. CASE a = p
  BY <1>1
<1>2. CASE Below(p, a)
  <2>1. t[p].kind # "none"
    BY DEF IsDir
  <2>. QED  BY <1>2, <2>1, TreeAbove DEF IsDir
<1>. QED  BY <1>1, <1>2 DEF Over

LEMMA JointUp ==
    ASSUME NEW s, NEW b, NEW c, TreeOK(s), TreeOK(b), TreeOK(c),
           NEW a \in Paths, NEW d \in Paths, Over(a, d), Joint(s, b, c, d)
    PROVE  Joint(s, b, c, a)
<1>1. IsDir(s, a) /\ IsDir(b, a) /\ IsDir(c, a)
  BY DirAbove DEF Joint
<1>2. ASSUME a # Root PROVE s[a].hash # c[a].hash
  <2>1. d # Root
    BY <1>2, OverFacts, RootPath
  <2>2. s[d].hash # c[d].hash
    BY <2>1 DEF Joint
  <2>3. s[a].kind = c[a].kind
    BY <1>1 DEF IsDir
  <2>. QED  BY <2>2, <2>3, HashSame
<1>. QED  BY <1>1, <1>2 DEF Joint

LEMMA JointRoot ==
    ASSUME NEW s, NEW b, NEW c, TreeOK(s), TreeOK(b), TreeOK(c)
    PROVE  Joint(s, b, c, Root)
BY TreeParts DEF Joint, IsDir

LEMMA JointStays ==
    ASSUME NEW s, NEW b, NEW c, NEW p, Joint(s, b, c, p)
    PROVE  ~ Takes(s, b, c, p)
BY DEF Joint, Takes, Adds, Rems, Mods, Absent, IsDir

LEMMA JointNotTaken ==
    ASSUME NEW s, NEW b, NEW c, TreeOK(s), TreeOK(b), TreeOK(c), NEW p \in Paths, Joint(s, b, c, p)
    PROVE  ~ Taken(s, b, c, p)
<1> SUFFICES ASSUME NEW a \in Paths \ {Root}, Over(a, p), Takes(s, b, c, a) PROVE FALSE
  BY DEF Taken
<1>1. Joint(s, b, c, a)
  BY JointUp
<1>. QED  BY <1>1, JointStays

\* Where the way down to p leaves the visited directories: what happens there
\* happens to p.
LEMMA TakenAt ==
    ASSUME NEW s, NEW b, NEW c, TreeOK(s), TreeOK(b), TreeOK(c), NEW p \in Paths,
           NEW a \in Paths \ {Root}, Over(a, p), Joint(s, b, c, Parent(a)), ~ Joint(s, b, c, a)
    PROVE  Taken(s, b, c, p) <=> Takes(s, b, c, a)
<1>1. Takes(s, b, c, a) => Taken(s, b, c, p)
  BY DEF Taken
<1>2. ASSUME NEW e \in Paths \ {Root}, Over(e, p), Joint(s, b, c, Parent(e)), Takes(s, b, c, e)
      PROVE  e = a
  <2>1. Parent(e) \in Paths /\ Parent(a) \in Paths
    BY OverParent
  <2>2. ~ Over(a, Parent(e))
    BY <1>2, <2>1, JointUp
  <2>3. ~ Over(e, Parent(a))
    <3>1. ~ Joint(s, b, c, e)
      BY <1>2, JointStays
    <3>. QED  BY <2>1, <3>1, JointUp
  <2>4. Over(a, e) \/ Over(e, a)
    BY <1>2, OverChain
  <2>. QED  BY <2>2, <2>3, <2>4, OverParent
<1>3. Taken(s, b, c, p) => Takes(s, b, c, a)
  BY <1>2 DEF Taken
<1>. QED  BY <1>1, <1>3

LEMMA JointFrontier ==
    ASSUME NEW s, NEW b, NEW c, TreeOK(s), TreeOK(b), TreeOK(c), NEW p \in Paths, ~ Joint(s, b, c, p)
    PROVE  \E a \in Paths \ {Root} : Over(a, p) /\ Joint(s, b, c, Parent(a)) /\ ~ Joint(s, b, c, a)
<1> DEFINE S == {q \in Paths : Joint(s, b, c, q)}
<1>1. Root \in S /\ Root \in Paths /\ Over(Root, p) /\ p \notin S
  BY JointRoot, RootPath, OverFacts
<1>2. PICK a \in Paths \ {Root} : Below(a, Root) /\ Over(a, p) /\ a \notin S /\ Parent(a) \in S
  <2> HIDE DEF S
  <2>. QED  BY <1>1, Frontier
<1>. QED  BY <1>2

\* What both passes find at an entry they do not descend into.
LEMMA Exits ==
    ASSUME NEW s, NEW b, NEW c, TreeOK(s), TreeOK(b), TreeOK(c),
           NEW p \in Paths \ {Root}, ~ Joint(s, b, c, p), Clean(s, b, c, p)
    PROVE  IF Takes(s, b, c, p)
           THEN \/ SameDown(b, c, p)
                \/ IsDir(b, p) /\ IsDir(c, p) /\ ~ IsDir(s, p) /\ ~ Absent(s, p)
           ELSE SameDown(s, c, p)
<1>1. CASE Adds(s, c, p)
  <2>1. Absent(b, p) /\ Absent(c, p)
    BY <1>1 DEF Clean, Adds
  <2>. QED  BY <1>1, <2>1, AbsentDown DEF Takes
<1>2. CASE Rems(s, c, p)
  <2>1. Same(b, c, p)
    BY <1>2 DEF Clean
  <2>. QED  BY <1>2, <2>1, SameIsDown DEF Takes
<1>3. CASE Mods(s, c, p)
  <2>1. Same(b, c, p) \/ (IsDir(b, p) /\ IsDir(c, p))
    BY <1>3 DEF Clean
  <2>2. ~ (IsDir(s, p) /\ IsDir(b, p))
    <3> SUFFICES ASSUME IsDir(s, p), IsDir(b, p) PROVE FALSE
      OBVIOUS
    <3>1. IsDir(c, p)
      BY <2>1 DEF Same, IsDir
    <3>2. s[p].hash # c[p].hash
      BY <1>3, <3>1 DEF Mods, Same, IsDir
    <3>. QED  BY <3>1, <3>2 DEF Joint
  <2>3. Takes(s, b, c, p)
    BY <1>3, <2>2 DEF Takes
  <2>4. CASE Same(b, c, p)
    BY <2>3, <2>4, SameIsDown
  <2>5. CASE IsDir(b, p) /\ IsDir(c, p)
    BY <1>3, <2>2, <2>3, <2>5 DEF Mods
  <2>. QED  BY <2>1, <2>4, <2>5
<1>4. CASE ~ Adds(s, c, p) /\ ~ Rems(s, c, p) /\ ~ Mods(s, c, p)
  <2>1. ~ Takes(s, b, c, p)
    BY <1>4 DEF Takes
  <2>2. CASE Absent(s, p) /\ Absent(c, p)
    BY <2>1, <2>2, AbsentDown
  <2>3. CASE ~ (Absent(s, p) /\ Absent(c, p))
    <3>1. Same(s, c, p)
      BY <1>4, <2>3 DEF Adds, Rems, Mods
    <3>. QED  BY <2>1, <3>1, SameIsDown
  <2>. QED  BY <2>2, <2>3
<1>. QED  BY <1>1, <1>2, <1>3, <1>4

-----------------------------------------------------------------------------
(* What has been taken from src and left in dst is the three-way merge.    *)

LEMMA PrefixAbove ==
    ASSUME NEW p \in Paths
    PROVE  /\ \A i \in 0 .. (Len(p) - 1) : Prefix(p, i) \in Paths /\ Below(p, Prefix(p, i))
           /\ \A a \in Paths : Below(p, a) => Len(a) \in 0 .. (Len(p) - 1) /\ Prefix(p, Len(a)) = a
<1>1. Len(p) \in Nat
  BY PathLen
<1>2. ASSUME NEW i \in 0 .. (Len(p) - 1) PROVE Prefix(p, i) \in Paths /\ Below(p, Prefix(p, i))
  <2>1. Prefix(p, i) \in Paths /\ Len(Prefix(p, i)) = i /\ i < Len(p)
    BY <1>1, <1>2, PrefixPath
  <2>. QED  BY <2>1 DEF Below
<1>3. ASSUME NEW a \in Paths, Below(p, a) PROVE Len(a) \in 0 .. (Len(p) - 1) /\ Prefix(p, Len(a)) = a
  <2>1. Len(p) > Len(a) /\ Prefix(p, Len(a)) = a
    BY <1>3 DEF Below
  <2>2. Len(a) \in Nat
    BY PathLen
  <2>. QED  BY <1>1, <2>1, <2>2
<1>. QED  BY <1>2, <1>3

PickAt(s, b, c, p) == IF SameLook(s, c, p) THEN Look(b)[p] ELSE Look(s)[p]
DirsAbove(s, b, c, p) == \A a \in Paths : Below(p, a) => PickAt(s, b, c, a)[1] = "dir"
MergeAt(s, b, c, p) == IF DirsAbove(s, b, c, p) THEN PickAt(s, b, c, p) ELSE Nowhere[p]

LEMMA ThreeWayIs ==
    ThreeWay = [p \in Paths |-> MergeAt(src, before, common, p)]
<1> DEFINE pick == [p \in Paths |->
                    IF Look(src)[p] # Look(common)[p] THEN Look(src)[p] ELSE Look(before)[p]]
<1>1. ASSUME NEW p \in Paths PROVE pick[p] = PickAt(src, before, common, p)
  BY LookIs DEF PickAt
<1>2. ThreeWay = [p \in Paths |->
        IF \A i \in 0 .. (Len(p) - 1) : pick[Prefix(p, i)][1] = "dir" THEN pick[p] ELSE Nowhere[p]]
  BY DEF ThreeWay
<1> HIDE DEF pick
<1>3. ASSUME NEW p \in Paths
      PROVE  (\A i \in 0 .. (Len(p) - 1) : pick[Prefix(p, i)][1] = "dir")
                <=> DirsAbove(src, before, common, p)
  <2>1. ASSUME \A i \in 0 .. (Len(p) - 1) : pick[Prefix(p, i)][1] = "dir", NEW a \in Paths, Below(p, a)
        PROVE  PickAt(src, before, common, a)[1] = "dir"
    <3>1. Len(a) \in 0 .. (Len(p) - 1) /\ Prefix(p, Len(a)) = a
      BY <2>1, PrefixAbove
    <3>2. pick[a][1] = "dir"
      BY <2>1, <3>1
    <3>. QED  BY <1>1, <3>2
  <2>2. ASSUME DirsAbove(src, before, common, p), NEW i \in 0 .. (Len(p) - 1) PROVE pick[Prefix(p, i)][1] = "dir"
    <3>1. Prefix(p, i) \in Paths /\ Below(p, Prefix(p, i))
      BY PrefixAbove
    <3>. QED  BY <1>1, <2>2, <3>1 DEF DirsAbove
  <2>. QED  BY <2>1, <2>2 DEF DirsAbove
<1>. QED  BY <1>1, <1>2, <1>3 DEF MergeAt

LEMMA LookAt ==
    ASSUME NEW t, NEW p \in Paths
    PROVE  /\ Look(t)[p][1] = t[p].kind
           /\ EntryAt(t, p) /\ Absent(t, p) => Look(t)[p] = Nowhere[p]
<1>1. Look(t)[p] = <<t[p].kind, IF t[p].kind = "dir" THEN 0 ELSE t[p].hash.data>>
  BY DEF Look
<1>2. Nowhere[p] = <<"none", NoHash.data>>
  BY DEF Nowhere, Look, None, Entry
<1>3. Look(t)[p][1] = t[p].kind
  BY <1>1
<1>4. ASSUME EntryAt(t, p), Absent(t, p) PROVE Look(t)[p] = Nowhere[p]
  <2>1. t[p].kind = "none" /\ t[p].hash = NoHash
    BY <1>4 DEF EntryAt, Absent
  <2>. QED  BY <1>1, <1>2, <2>1
<1>. QED  BY <1>3, <1>4

LEMMA PickJoint ==
    ASSUME NEW s, NEW b, NEW c, NEW p \in Paths, Joint(s, b, c, p)
    PROVE  PickAt(s, b, c, p) = Look(b)[p] /\ PickAt(s, b, c, p)[1] = "dir"
<1>1. SameLook(s, c, p) /\ b[p].kind = "dir"
  BY DEF Joint, IsDir, SameLook
<1>. QED  BY <1>1, LookAt DEF PickAt

LEMMA AboveFrontier ==
    ASSUME NEW s, NEW b, NEW c, TreeOK(s), TreeOK(b), TreeOK(c), NEW p \in Paths,
           NEW e \in Paths \ {Root}, Over(e, p), Joint(s, b, c, Parent(e)), NEW a \in Paths, Below(p, a)
    PROVE  PickAt(s, b, c, a)[1] = "dir" \/ Over(e, a)
<1>1. Over(a, p)
  BY DEF Over
<1>2. Over(a, e) \/ Over(e, a)
  BY <1>1, OverChain
<1>3. ASSUME ~ Over(e, a) PROVE PickAt(s, b, c, a)[1] = "dir"
  <2>1. Over(a, Parent(e)) /\ Parent(e) \in Paths
    BY <1>2, <1>3, OverParent, OverFacts
  <2>2. Joint(s, b, c, a)
    BY <2>1, JointUp
  <2>. QED  BY <2>2, PickJoint
<1>. QED  BY <1>3

\* From e down the merge has what the tree t has.
LEMMA MergeAsTree ==
    ASSUME NEW s, NEW b, NEW c, TreeOK(s), TreeOK(b), TreeOK(c), NEW p \in Paths,
           NEW e \in Paths \ {Root}, Over(e, p), Joint(s, b, c, Parent(e)),
           NEW t, TreeOK(t), \A q \in Paths : Over(e, q) => PickAt(s, b, c, q) = Look(t)[q]
    PROVE  MergeAt(s, b, c, p) = Look(t)[p]
<1>1. CASE DirsAbove(s, b, c, p)
  BY <1>1 DEF MergeAt
<1>2. CASE ~ DirsAbove(s, b, c, p)
  <2>1. PICK a \in Paths : Below(p, a) /\ PickAt(s, b, c, a)[1] # "dir"
    BY <1>2 DEF DirsAbove
  <2>2. Over(e, a)
    BY <2>1, AboveFrontier
  <2>3. t[a].kind # "dir"
    BY <2>1, <2>2, LookAt
  <2>4. Absent(t, p)
    BY <2>1, <2>3, TreeAbove DEF Absent
  <2>5. Look(t)[p] = Nowhere[p]
    BY <2>4, LookAt, TreeParts
  <2>. QED  BY <1>2, <2>5 DEF MergeAt
<1>. QED  BY <1>1, <1>2

LEMMA MergeIs ==
    ASSUME NEW s, NEW b, NEW c, TreeOK(s), TreeOK(b), TreeOK(c), Agreed(s, b, c), NEW p \in Paths
    PROVE  MergeAt(s, b, c, p) = IF Taken(s, b, c, p) THEN Look(s)[p] ELSE Look(b)[p]
<1>1. CASE Joint(s, b, c, p)
  <2>1. ~ Taken(s, b, c, p)
    BY <1>1, JointNotTaken
  <2>2. DirsAbove(s, b, c, p)
    <3> SUFFICES ASSUME NEW a \in Paths, Below(p, a) PROVE PickAt(s, b, c, a)[1] = "dir"
      BY DEF DirsAbove
    <3>1. Over(a, p)
      BY DEF Over
    <3>2. Joint(s, b, c, a)
      BY <1>1, <3>1, JointUp
    <3>. QED  BY <3>2, PickJoint
  <2>. QED  BY <1>1, <2>1, <2>2, PickJoint DEF MergeAt
<1>2. CASE ~ Joint(s, b, c, p)
  <2>1. PICK e \in Paths \ {Root} : Over(e, p) /\ Joint(s, b, c, Parent(e)) /\ ~ Joint(s, b, c, e)
    BY <1>2, JointFrontier
  <2>2. Clean(s, b, c, e) /\ (Taken(s, b, c, p) <=> Takes(s, b, c, e))
    BY <2>1, TakenAt DEF Agreed
  <2>3. CASE ~ Takes(s, b, c, e)
    <3>1. SameDown(s, c, e)
      BY <2>1, <2>2, <2>3, Exits
    <3>2. ASSUME NEW q \in Paths, Over(e, q) PROVE PickAt(s, b, c, q) = Look(b)[q]
      BY <3>1, <3>2 DEF PickAt, SameLook, SameDown
    <3>3. MergeAt(s, b, c, p) = Look(b)[p]
      BY <2>1, <3>2, MergeAsTree
    <3>. QED  BY <2>2, <2>3, <3>3
  <2>4. CASE Takes(s, b, c, e) /\ SameDown(b, c, e)
    <3>1. ASSUME NEW q \in Paths, Over(e, q) PROVE PickAt(s, b, c, q) = Look(s)[q]
      <4>1. b[q] = c[q]
        BY <2>4, <3>1 DEF SameDown
      <4>2. CASE SameLook(s, c, q)
        <5>1. SameLook(b, s, q)
          BY <4>1, <4>2 DEF SameLook
        <5>2. Look(b)[q] = Look(s)[q]
          BY <5>1, LookIs
        <5>. QED  BY <4>2, <5>2 DEF PickAt
      <4>. QED  BY <4>2 DEF PickAt
    <3>2. MergeAt(s, b, c, p) = Look(s)[p]
      BY <2>1, <3>1, MergeAsTree
    <3>. QED  BY <2>2, <2>4, <3>2
  <2>5. CASE Takes(s, b, c, e) /\ ~ SameDown(b, c, e)
    <3>1. IsDir(b, e) /\ IsDir(c, e) /\ ~ IsDir(s, e) /\ ~ Absent(s, e)
      BY <2>1, <2>2, <2>5, Exits
    <3>2. PickAt(s, b, c, e) = Look(s)[e] /\ PickAt(s, b, c, e)[1] # "dir"
      <4>1. ~ SameLook(s, c, e) /\ s[e].kind # "dir"
        BY <3>1 DEF SameLook, IsDir
      <4>. QED  BY <4>1, LookAt DEF PickAt
    <3>3. CASE p = e
      <4>1. DirsAbove(s, b, c, p)
        <5> SUFFICES ASSUME NEW a \in Paths, Below(p, a) PROVE PickAt(s, b, c, a)[1] = "dir"
          BY DEF DirsAbove
        <5>1. ~ Over(e, a)
          BY <3>3, OverFacts
        <5>. QED  BY <2>1, <5>1, AboveFrontier
      <4>. QED  BY <2>2, <2>5, <3>2, <3>3, <4>1 DEF MergeAt
    <3>4. CASE p # e
      <4>1. Below(p, e)
        BY <2>1, <3>4 DEF Over
      <4>2. ~ DirsAbove(s, b, c, p)
        BY <3>2, <4>1 DEF DirsAbove
      <4>3. Absent(s, p)
        BY <3>1, <4>1, TreeAbove DEF Absent, IsDir
      <4>4. Look(s)[p] = Nowhere[p]
        BY <4>3, LookAt, TreeParts
      <4>. QED  BY <2>2, <2>5, <4>2, <4>4 DEF MergeAt
    <3>. QED  BY <3>3, <3>4
  <2>. QED  BY <2>3, <2>4, <2>5
<1>. QED  BY <1>1, <1>2

-----------------------------------------------------------------------------
(* Conflicts.                                                              *)

LEMMA DiffersIs ==
    ASSUME NEW t, NEW p \in Paths
    PROVE  /\ Differs(t, p) <=> ~ SameLook(t, common, p)
           /\ DiffersBelow(t, p) <=> \E q \in Paths : Over(p, q) /\ ~ SameLook(t, common, q)
<1>1. \A q \in Paths : Differs(t, q) <=> ~ SameLook(t, common, q)
  BY LookIs DEF Differs
<1>2. \A q : q \in {p} \cup Under(p) <=> q \in Paths /\ Over(p, q)
  BY DEF Under, Over
<1>. QED  BY <1>1, <1>2 DEF DiffersBelow

LEMMA NotSameDiffers ==
    ASSUME NEW t, NEW u, TreeOK(t), TreeOK(u), NEW p \in Paths, ~ Same(t, u, p)
    PROVE  /\ \E q \in Paths : Over(p, q) /\ ~ SameLook(t, u, q)
           /\ ~ (IsDir(t, p) /\ IsDir(u, p)) => ~ SameLook(t, u, p)
<1>1. ~ (t[p] = u[p])
  BY DEF Same
<1>2. \E q \in Paths : Over(p, q) /\ ~ SameLook(t, u, q)
  BY <1>1, LookSame
<1>3. ASSUME ~ (IsDir(t, p) /\ IsDir(u, p)), SameLook(t, u, p) PROVE FALSE
  <2>1. t[p].kind # "dir"
    BY <1>3 DEF IsDir, SameLook
  <2>. QED  BY <1>1, <1>3, <2>1, LeafSame, TreeParts
<1>. QED  BY <1>2, <1>3

\* An entry that check_conflictions does not let pass was changed by both sides.
LEMMA ConflictClash ==
    ASSUME TreeOK(src), TreeOK(before), TreeOK(common), NEW p \in Paths, ~ Clean(src, before, common, p)
    PROVE  Clash(p)
<1>0. Over(p, p)
  BY OverFacts
<1>1. CASE Adds(src, common, p) /\ ~ Absent(before, p)
  <2>1. ~ SameLook(src, common, p) /\ ~ SameLook(before, common, p)
    BY <1>1 DEF SameLook, Adds, Absent
  <2>. QED  BY <1>0, <2>1, DiffersIs DEF Clash
<1>2. CASE Rems(src, common, p) /\ (Absent(before, p) \/ ~ Same(before, common, p))
  <2>1. ~ SameLook(src, common, p)
    BY <1>2 DEF SameLook, Rems, Absent
  <2>2. ~ Same(before, common, p)
    BY <1>2 DEF Same, Rems, Absent
  <2>3. \E q \in Paths : Over(p, q) /\ ~ SameLook(before, common, q)
    BY <2>2, NotSameDiffers
  <2>. QED  BY <2>1, <2>3, DiffersIs DEF Clash
<1>3. CASE Mods(src, common, p) /\ (Absent(before, p) \/ ~ (Same(before, common, p) \/ (IsDir(before, p) /\ IsDir(common, p))))
  <2>1. \E q \in Paths : Over(p, q) /\ ~ SameLook(src, common, q)
    BY <1>3, NotSameDiffers DEF Mods
  <2>2. ~ SameLook(before, common, p)
    <3>1. CASE Absent(before, p)
      BY <1>3, <3>1 DEF SameLook, Mods, Absent
    <3>2. CASE ~ (Same(before, common, p) \/ (IsDir(before, p) /\ IsDir(common, p)))
      BY <3>2, NotSameDiffers
    <3>. QED  BY <1>3, <3>1, <3>2
  <2>. QED  BY <2>1, <2>2, DiffersIs DEF Clash
<1>. QED  BY <1>1, <1>2, <1>3 DEF Clean

\* When every entry has passed, the two sides have changed the same thing only
\* below a directory that src has replaced.
LEMMA ClashExcused ==
    ASSUME TreeOK(src), TreeOK(before), TreeOK(common), Agreed(src, before, common),
           NEW p \in Paths, Clash(p)
    PROVE  \E i \in 0 .. Len(p) : Replaces(Prefix(p, i))
<1>1. PICK x \in Paths, y \in Paths :
        /\ Over(p, x) /\ ~ SameLook(src, common, x)
        /\ Over(p, y) /\ ~ SameLook(before, common, y)
        /\ x = p \/ y = p
  <2>1. CASE Differs(src, p) /\ DiffersBelow(before, p)
    <3>1. ~ SameLook(src, common, p)
      BY <2>1, DiffersIs
    <3>2. PICK y \in Paths : Over(p, y) /\ ~ SameLook(before, common, y)
      BY <2>1, DiffersIs
    <3>. QED  BY <3>1, <3>2, OverFacts
  <2>2. CASE Differs(before, p) /\ DiffersBelow(src, p)
    <3>1. ~ SameLook(before, common, p)
      BY <2>2, DiffersIs
    <3>2. PICK x \in Paths : Over(p, x) /\ ~ SameLook(src, common, x)
      BY <2>2, DiffersIs
    <3>. QED  BY <3>1, <3>2, OverFacts
  <2>. QED  BY <2>1, <2>2 DEF Clash
<1>2. ~ Joint(src, before, common, p)
  BY <1>1 DEF Joint, IsDir, SameLook
<1>3. PICK e \in Paths \ {Root} :
        Over(e, p) /\ Joint(src, before, common, Parent(e)) /\ ~ Joint(src, before, common, e)
  BY <1>2, JointFrontier
<1>4. Over(e, x) /\ Over(e, y)
  BY <1>1, <1>3, OverFacts
<1>5. ~ SameDown(src, common, e) /\ ~ SameDown(before, common, e)
  BY <1>1, <1>4 DEF SameDown, SameLook
<1>6. Clean(src, before, common, e)
  BY <1>3 DEF Agreed
<1>7. IsDir(before, e) /\ IsDir(common, e) /\ ~ IsDir(src, e) /\ ~ Absent(src, e)
  BY <1>3, <1>5, <1>6, Exits
<1>8. Replaces(e)
  BY <1>7 DEF Replaces, Is, IsDir, Absent
<1>9. Len(e) \in 0 .. Len(p) /\ Prefix(p, Len(e)) = e
  <2>1. Len(p) \in Nat /\ Len(e) \in Nat
    BY PathLen
  <2>2. CASE e = p
    <3>1. Prefix(p, Len(p)) \in Paths /\ Len(Prefix(p, Len(p))) = Len(p)
          /\ \A k \in 1 .. Len(p) : Prefix(p, Len(p))[k] = p[k]
      BY <2>1, PrefixPath
    <3>2. Prefix(p, Len(p)) = p
      BY <3>1, PathEqual
    <3>. QED  BY <2>1, <2>2, <3>2
  <2>3. CASE Below(p, e)
    <3>1. Len(e) \in 0 .. (Len(p) - 1) /\ Prefix(p, Len(e)) = e
      BY <2>3, PrefixAbove
    <3>. QED  BY <2>1, <3>1
  <2>. QED  BY <1>3, <2>2, <2>3 DEF Over
<1>. QED  BY <1>8, <1>9

-----------------------------------------------------------------------------
(* The operators of the two passes in these terms.                         *)

LEMMA UnderIs ==
    ASSUME NEW d \in Paths, NEW p
    PROVE  p \in Under(d) /\ Parent(p) = d <=> p \in Paths \ {Root} /\ Parent(p) = d
BY BelowOther, OverParent DEF Under

LEMMA DiffIs ==
    ASSUME NEW d \in Paths, NEW p
    PROVE  /\ p \in Added(d) <=> p \in Paths \ {Root} /\ Parent(p) = d /\ Adds(src, common, p)
           /\ p \in Removed(d) <=> p \in Paths \ {Root} /\ Parent(p) = d /\ Rems(src, common, p)
           /\ p \in Modified(d) <=> p \in Paths \ {Root} /\ Parent(p) = d /\ Mods(src, common, p)
<1>1. p \in Added(d) <=> p \in Paths \ {Root} /\ Parent(p) = d /\ Adds(src, common, p)
  BY UnderIs DEF Added, Adds, lookup, Absent
<1>2. p \in Removed(d) <=> p \in Paths \ {Root} /\ Parent(p) = d /\ Rems(src, common, p)
  BY UnderIs DEF Removed, Rems, lookup, Absent
<1>3. p \in Modified(d) <=> p \in Paths \ {Root} /\ Parent(p) = d /\ Mods(src, common, p)
  BY UnderIs DEF Modified, Mods, lookup, Absent, Same
<1>. QED  BY <1>1, <1>2, <1>3

LEMMA ConflictIs ==
    ASSUME NEW d \in Paths
    PROVE  Conflict(d) <=> \E p \in Paths \ {Root} : Parent(p) = d /\ ~ Clean(src, dst, common, p)
<1>1. \A p : lookup(dst, p) <=> ~ Absent(dst, p)
  BY DEF lookup, Absent
<1>2. \A p : Unchanged(p) <=> Same(dst, common, p)
  BY DEF Unchanged, Same
<1>3. \A p : ModifyConflicts(p) <=> ~ (Same(dst, common, p) \/ (IsDir(dst, p) /\ IsDir(common, p)))
  BY <1>2 DEF ModifyConflicts, Both, Is, IsDir
<1>. QED  BY <1>1, <1>2, <1>3, DiffIs DEF Conflict, Clean

-----------------------------------------------------------------------------
(* The queue.                                                              *)

Elems(q) == {q[i] : i \in 1 .. Len(q)}
Distinct(q) == \A i, j \in 1 .. Len(q) : i # j => q[i] # q[j]

LEMMA EntriesFinite ==
    ASSUME NEW d \in Paths, NEW S \in SUBSET (Paths \ {Root}), \A p \in S : Parent(p) = d
    PROVE  Cardinality(S) \in Nat
<1> DEFINE f == [p \in S |-> p[Len(p)]]
<1>1. \A p \in S : f[p] \in Names /\ p = Child(d, f[p])
  BY ParentPath
<1>2. f \in [S -> Names] /\ \A p, q \in S : p # q => f[p] # f[q]
  <2>1. f = [p \in S |-> f[p]]
    OBVIOUS
  <2> HIDE DEF f
  <2>. QED  BY <1>1, <2>1
<1>3. f \in Injection(S, Names)
  <2> HIDE DEF f
  <2>. QED  BY <1>2 DEF Injection, IsInjective
<1>4. IsFiniteSet(S)
  <2> HIDE DEF f
  <2>. QED  BY <1>3, TreeAssumption, FS_Injection
<1>. QED  BY <1>4, FS_CardinalityType

LEMMA PushFacts ==
    ASSUME NEW q \in Seq(Paths), q # <<>>, Distinct(q),
           NEW d \in Paths, NEW S \in SUBSET (Paths \ {Root}), \A p \in S : Parent(p) = d,
           \A p \in S : p \notin Elems(q),
           NEW s \in InOrder(S), NEW new, new = Prefix(q, Len(q) - 1) \o s
    PROVE  /\ new \in Seq(Paths) /\ Distinct(new)
           /\ Elems(new) = (Elems(q) \ {q[Len(q)]}) \cup S
<1>1. PICK k \in Nat : k = Cardinality(S)
  BY EntriesFinite
<1>2. /\ s \in [1 .. k -> S]
      /\ \A i, j \in 1 .. k : i < j => s[i][Len(s[i])] < s[j][Len(s[j])]
      /\ \A p \in S : \E i \in 1 .. k : s[i] = p
  BY <1>1 DEF InOrder
<1>3. s \in Seq(Paths) /\ Len(s) = k
  BY <1>2
<1>4. ASSUME NEW i \in 1 .. k, NEW j \in 1 .. k, i # j PROVE s[i] # s[j]
  <2>1. s[i] \in S /\ s[j] \in S
    BY <1>2
  <2>2. s[i][Len(s[i])] \in Nat /\ s[j][Len(s[j])] \in Nat
    BY <2>1, ParentPath, TreeAssumption
  <2>3. s[i][Len(s[i])] < s[j][Len(s[j])] \/ s[j][Len(s[j])] < s[i][Len(s[i])]
    <3>1. i < j \/ j < i
      BY <1>4
    <3>. QED  BY <1>2, <3>1
  <2>. QED  BY <2>2, <2>3
<1>5. PICK n \in Nat : n + 1 = Len(q)
  <2>1. Len(q) \in Nat /\ Len(q) # 0
    OBVIOUS
  <2>. QED  BY <2>1
<1>6. PICK r \in Seq(Paths) : r = Prefix(q, Len(q) - 1) /\ Len(r) = n /\ \A i \in 1 .. n : r[i] = q[i]
  <2>1. Len(q) - 1 = n /\ n \in 0 .. Len(q)
    BY <1>5
  <2>2. SubSeq(q, 1, n) \in Seq(Paths) /\ Len(SubSeq(q, 1, n)) = n
        /\ \A i \in 1 .. n : SubSeq(q, 1, n)[i] = q[i]
    BY <2>1
  <2>. QED  BY <2>1, <2>2 DEF Prefix
<1>7. /\ new \in Seq(Paths) /\ Len(new) = n + k
      /\ \A i \in 1 .. n : new[i] = q[i]
      /\ \A i \in 1 .. k : new[n + i] = s[i]
  <2>1. new = r \o s
    BY <1>6
  <2>2. new \in Seq(Paths) /\ Len(new) = n + k
    <3>1. r \o s \in Seq(Paths)
      BY <1>3
    <3>2. Len(r \o s) = Len(r) + Len(s)
      BY <1>3, ConcatProperties
    <3>. QED  BY <1>3, <1>6, <2>1, <3>1, <3>2
  <2>3. ASSUME NEW i \in 1 .. n PROVE new[i] = q[i]
    BY <1>3, <1>6, <2>1
  <2>4. ASSUME NEW i \in 1 .. k PROVE new[n + i] = s[i]
    BY <1>3, <1>6, <2>1
  <2>. QED  BY <2>2, <2>3, <2>4
<1>8. \A i \in 1 .. (n + k) : i \in 1 .. n \/ (i - n \in 1 .. k /\ i = n + (i - n))
  BY <1>1, <1>5
<1>9. ASSUME NEW i \in 1 .. (n + k), NEW j \in 1 .. (n + k), i # j PROVE new[i] # new[j]
  <2>1. CASE i \in 1 .. n /\ j \in 1 .. n
    BY <1>5, <1>7, <1>9, <2>1 DEF Distinct
  <2>2. CASE i \in 1 .. n /\ j - n \in 1 .. k
    <3>1. new[j] \in S /\ new[i] \in Elems(q)
      BY <1>2, <1>5, <1>7, <1>8, <2>2 DEF Elems
    <3>. QED  BY <3>1
  <2>3. CASE i - n \in 1 .. k /\ j \in 1 .. n
    <3>1. new[i] \in S /\ new[j] \in Elems(q)
      BY <1>2, <1>5, <1>7, <1>8, <2>3 DEF Elems
    <3>. QED  BY <3>1
  <2>4. CASE i - n \in 1 .. k /\ j - n \in 1 .. k
    <3>1. new[i] = s[i - n] /\ new[j] = s[j - n] /\ i - n # j - n
      BY <1>7, <1>8, <1>9, <2>4
    <3>. QED  BY <1>4, <2>4, <3>1
  <2>. QED  BY <1>8, <2>1, <2>2, <2>3, <2>4
<1>10. Elems(new) \subseteq (Elems(q) \ {q[Len(q)]}) \cup S
  <2> SUFFICES ASSUME NEW i \in 1 .. (n + k) PROVE new[i] \in (Elems(q) \ {q[Len(q)]}) \cup S
    BY <1>7 DEF Elems
  <2>1. CASE i \in 1 .. n
    <3>1. new[i] = q[i] /\ i \in 1 .. Len(q) /\ Len(q) \in 1 .. Len(q) /\ i # Len(q)
      BY <1>5, <1>7, <2>1
    <3>2. q[i] # q[Len(q)]
      BY <3>1 DEF Distinct
    <3>. QED  BY <3>1, <3>2 DEF Elems
  <2>2. CASE i - n \in 1 .. k
    BY <1>2, <1>7, <1>8, <2>2
  <2>. QED  BY <1>8, <2>1, <2>2
<1>11. ASSUME NEW p \in Elems(q), p # q[Len(q)] PROVE p \in Elems(new)
  <2>1. PICK i \in 1 .. Len(q) : p = q[i]
    BY <1>11 DEF Elems
  <2>2. i \in 1 .. n /\ i \in 1 .. (n + k)
    BY <1>5, <1>11, <2>1
  <2>3. new[i] = p
    BY <1>7, <2>1, <2>2
  <2>. QED  BY <1>7, <2>2, <2>3 DEF Elems
<1>12. ASSUME NEW p \in S PROVE p \in Elems(new)
  <2>1. PICK i \in 1 .. k : s[i] = p
    BY <1>2
  <2>2. new[n + i] = p /\ n + i \in 1 .. (n + k)
    BY <1>7, <2>1
  <2>. QED  BY <1>7, <2>2 DEF Elems
<1>13. Distinct(new)
  BY <1>7, <1>9 DEF Distinct
<1>. QED  BY <1>7, <1>10, <1>11, <1>12, <1>13

LEMMA TopFacts ==
    ASSUME NEW q \in Seq(Paths), q # <<>>
    PROVE  q[Len(q)] \in Paths /\ q[Len(q)] \in Elems(q)
<1>1. Len(q) \in 1 .. Len(q) /\ q[Len(q)] \in Paths
  OBVIOUS
<1>. QED  BY <1>1 DEF Elems

LEMMA ElemsPaths ==
    ASSUME NEW q \in Seq(Paths)
    PROVE  Elems(q) \subseteq Paths
BY DEF Elems

LEMMA RootQueue ==
    <<Root>> \in Seq(Paths) /\ Distinct(<<Root>>) /\ Elems(<<Root>>) = {Root}
BY RootPath DEF Distinct, Elems

-----------------------------------------------------------------------------
(* The invariant.                                                          *)

Visited(d) == Joint(src, before, common, d)
Queued == Elems(dir_queue)

\* The entry at p cannot change any more, or has not changed yet.
Reached(p) == ~ \E d \in Queued : Below(p, d)
Passed(d) == \A p \in Paths \ {Root} : Parent(p) = d => Clean(src, before, common, p)

TreesInv == TreeOK(src) /\ TreeOK(before) /\ TreeOK(common)

QueueInv ==
    /\ dir_queue \in Seq(Paths) /\ Distinct(dir_queue)
    /\ \A d \in Queued : Visited(d)
    /\ \A d, e \in Queued : d # e => ~ Over(d, e)

\* Every directory to visit has passed, or waits at or below one in the queue.
CheckInv ==
    /\ dst = before
    /\ \A d \in Paths : Visited(d) => Passed(d) \/ \E e \in Queued : Over(e, d)

\* dst at a path is what src has there, if it is to be taken and its directory
\* has been visited, and otherwise what it was.
ValueAt(p) ==
    /\ ~ Reached(p) => dst[p] = before[p]
    /\ Reached(p) /\ Taken(src, before, common, p) => dst[p] = clone(src[p])
    /\ Reached(p) /\ ~ Taken(src, before, common, p) =>
        dst[p] = Entry(before[p].kind, before[p].hash, dst[p].modified, before[p].loaded)

\* A visited directory something of which was replaced is marked.
MarkedAt(p) ==
    Visited(Parent(p)) /\ Takes(src, before, common, p) /\ (~ \E d \in Queued : Over(d, Parent(p)))
        => dst[Parent(p)].modified = TRUE

ApplyInv ==
    /\ Agreed(src, before, common)
    /\ \A p \in Paths : ValueAt(p)
    /\ \A p \in Paths \ {Root} : MarkedAt(p)

MergeInv ==
    /\ TreesInv /\ QueueInv
    /\ pc \in {"check", "apply", "merged", "conflict"}
    /\ pc = "check" => CheckInv
    /\ pc = "conflict" => dst = before /\ \E p \in Paths : ~ Clean(src, before, common, p)
    /\ pc \in {"apply", "merged"} => ApplyInv
    /\ pc = "merged" => dir_queue = <<>>

Static == src' = src /\ before' = before /\ common' = common

LEMMA StaticSame ==
    ASSUME Static
    PROVE  /\ TreesInv => TreesInv'
           /\ \A d : Visited(d)' <=> Visited(d)
           /\ \A d : Passed(d)' <=> Passed(d)
           /\ Agreed(src, before, common) => Agreed(src, before, common)'
           /\ \A p : Clean(src, before, common, p)' <=> Clean(src, before, common, p)
           /\ \A p : Takes(src, before, common, p)' <=> Takes(src, before, common, p)
           /\ \A p : Taken(src, before, common, p)' <=> Taken(src, before, common, p)
<1>1. TreesInv => TreesInv'
  BY DEF Static, TreesInv
<1>2. \A d : Visited(d)' <=> Visited(d)
  BY DEF Static, Visited
<1>3. \A p : Clean(src, before, common, p)' <=> Clean(src, before, common, p)
  BY DEF Static
<1>4. \A d : Passed(d)' <=> Passed(d)
  BY <1>3 DEF Passed
<1>5. \A p : Takes(src, before, common, p)' <=> Takes(src, before, common, p)
  BY DEF Static
<1>6. \A p : Taken(src, before, common, p)' <=> Taken(src, before, common, p)
  BY DEF Static
<1>7. Agreed(src, before, common) => Agreed(src, before, common)'
  BY DEF Static
<1>. QED  BY <1>1, <1>2, <1>3, <1>4, <1>5, <1>6, <1>7

\* The entries of a directory that are to be visited as well.
ToVisit(d) == {p \in Paths \ {Root} : Parent(p) = d /\ Visited(p)}

LEMMA QueueStep ==
    ASSUME TreesInv, QueueInv, Static, dir_queue # <<>>,
           NEW s \in InOrder(ToVisit(Top)), dir_queue' = Pop \o s
    PROVE  /\ QueueInv' /\ Top \in Queued /\ Top \in Paths /\ Visited(Top)
           /\ Queued' = (Queued \ {Top}) \cup ToVisit(Top)
<1>1. PICK q \in Seq(Paths) : q = dir_queue
  BY DEF QueueInv
<1>2. PICK top \in Paths : top = q[Len(q)] /\ top = Top /\ top \in Elems(q)
  BY <1>1, TopFacts DEF Top
<1>3. PICK S : S = ToVisit(top)
  OBVIOUS
<1>4. S \in SUBSET (Paths \ {Root}) /\ \A p \in S : Parent(p) = top /\ Over(top, p) /\ ~ Over(p, top)
  BY <1>3, OverParent DEF ToVisit
<1>5. \A d, e \in Elems(q) : d # e => ~ Over(d, e)
  BY <1>1 DEF QueueInv, Queued
<1>6. \A p \in S : p \notin Elems(q)
  BY <1>2, <1>4, <1>5
<1>7. PICK new : new = dir_queue'
  OBVIOUS
<1>8. /\ new \in Seq(Paths) /\ Distinct(new)
      /\ Elems(new) = (Elems(q) \ {top}) \cup S
  <2>1. new = Prefix(q, Len(q) - 1) \o s
    BY <1>1, <1>7 DEF Pop
  <2>2. Distinct(q) /\ q # <<>> /\ s \in InOrder(S)
    BY <1>1, <1>2, <1>3 DEF QueueInv
  <2>. QED  BY <1>2, <1>4, <1>6, <2>1, <2>2, PushFacts
<1>9. ASSUME NEW d \in Elems(new) PROVE Visited(d)
  BY <1>1, <1>3, <1>8 DEF QueueInv, Queued, ToVisit
<1>10. ASSUME NEW d \in Elems(new), NEW e \in Elems(new), d # e, Over(d, e) PROVE FALSE
  <2>0. d \in Paths /\ e \in Paths
    BY <1>8, ElemsPaths
  <2>1. CASE d \in Elems(q) \ {top} /\ e \in Elems(q) \ {top}
    BY <1>5, <1>10, <2>1
  <2>2. CASE d \in Elems(q) \ {top} /\ e \in S
    <3>1. Over(d, top)
      BY <1>4, <1>10, <2>0, <2>2, OverParent
    <3>. QED  BY <1>2, <1>5, <2>2, <3>1
  <2>3. CASE d \in S /\ e \in Elems(q) \ {top}
    <3>1. Over(top, e)
      BY <1>2, <1>4, <1>10, <2>0, <2>3, OverFacts
    <3>. QED  BY <1>2, <1>5, <2>3, <3>1
  <2>4. CASE d \in S /\ e \in S
    <3>1. Over(d, top)
      BY <1>4, <1>10, <2>0, <2>4, OverParent
    <3>. QED  BY <1>4, <2>4, <3>1
  <2>. QED  BY <1>8, <2>1, <2>2, <2>3, <2>4
<1>11. QueueInv'
  <2>1. \A d : Visited(d)' <=> Visited(d)
    BY StaticSame
  <2>. QED  BY <1>7, <1>8, <1>9, <1>10, <2>1 DEF QueueInv, Queued
<1>12. Visited(Top)
  BY <1>1, <1>2 DEF QueueInv, Queued
<1>. QED  BY <1>1, <1>2, <1>3, <1>7, <1>8, <1>11, <1>12 DEF Queued

LEMMA InvParts ==
    ASSUME MergeInv
    PROVE  /\ TreesInv /\ QueueInv /\ TreeOK(src) /\ TreeOK(before) /\ TreeOK(common)
           /\ pc = "check" => CheckInv
           /\ pc = "conflict" => dst = before /\ \E p \in Paths : ~ Clean(src, before, common, p)
           /\ pc \in {"apply", "merged"} => ApplyInv
BY DEF MergeInv, TreesInv

LEMMA InitInv ==
    ASSUME Init
    PROVE  MergeInv
<1>1. TreeOK(src) /\ TreeOK(before) /\ TreeOK(common) /\ dst = before
  BY TreesOK DEF Init
<1>2. dir_queue \in Seq(Paths) /\ Distinct(dir_queue) /\ Queued = {Root}
  BY RootQueue DEF Init, Queued
<1>3. Visited(Root)
  BY <1>1, JointRoot DEF Visited
<1>4. \A d \in Paths : \E e \in Queued : Over(e, d)
  BY <1>2, OverFacts
<1>. QED  BY <1>1, <1>2, <1>3, <1>4 DEF MergeInv, TreesInv, QueueInv, CheckInv, Init

LEMMA CheckDirInv ==
    ASSUME MergeInv, CheckDir
    PROVE  MergeInv'
<1>1. /\ pc = "check" /\ dir_queue # <<>> /\ ~ Conflict(Top) /\ Static /\ dst' = dst /\ pc' = pc
      /\ \E s \in InOrder({p \in Modified(Top) : Both(p, dst, common) /\ Is(src, p, "dir")}) : dir_queue' = Pop \o s
  BY DEF CheckDir, Static
<1>2. TreesInv /\ QueueInv /\ CheckInv /\ dst = before
  BY <1>1, InvParts DEF CheckInv
<1>3. Top \in Paths
  BY <1>1, <1>2, TopFacts DEF QueueInv, Top
<1>4. {p \in Modified(Top) : Both(p, dst, common) /\ Is(src, p, "dir")} = ToVisit(Top)
  <2>1. ASSUME NEW p
        PROVE  p \in Modified(Top) /\ Both(p, dst, common) /\ Is(src, p, "dir") <=> p \in ToVisit(Top)
    <3>1. p \in Modified(Top) <=> p \in Paths \ {Root} /\ Parent(p) = Top /\ Mods(src, common, p)
      BY <1>3, DiffIs
    <3>2. Both(p, dst, common) /\ Is(src, p, "dir") <=> IsDir(src, p) /\ IsDir(before, p) /\ IsDir(common, p)
      BY <1>2 DEF Both, Is, IsDir
    <3>3. IsDir(src, p) /\ IsDir(common, p) => (Mods(src, common, p) <=> src[p].hash # common[p].hash)
      BY DEF Mods, IsDir, Absent, Same
    <3>. QED  BY <3>1, <3>2, <3>3 DEF ToVisit, Visited, Joint
  <2>. QED  BY <2>1
<1>5. PICK s \in InOrder(ToVisit(Top)) : dir_queue' = Pop \o s
  BY <1>1, <1>4
<1>6. QueueInv' /\ Top \in Queued /\ Queued' = (Queued \ {Top}) \cup ToVisit(Top)
  BY <1>1, <1>2, <1>5, QueueStep
<1>7. Passed(Top)
  BY <1>1, <1>2, <1>3, ConflictIs DEF Passed
<1>8. ASSUME NEW d \in Paths, Visited(d) PROVE Passed(d) \/ \E e \in Queued' : Over(e, d)
  <2>1. CASE Passed(d)
    BY <2>1
  <2>2. CASE ~ Passed(d)
    <3>1. PICK e \in Queued : Over(e, d)
      BY <1>2, <1>8, <2>2 DEF CheckInv
    <3>2. CASE e # Top
      BY <1>6, <3>1, <3>2
    <3>3. CASE e = Top
      <4>1. Below(d, Top)
        BY <1>7, <2>2, <3>1, <3>3 DEF Over
      <4>2. PICK c \in Paths \ {Root} : Parent(c) = Top /\ Over(c, d)
        BY <1>3, <4>1, TowardsChild
      <4>3. Visited(c)
        BY <1>2, <1>8, <4>2, JointUp DEF Visited, TreesInv
      <4>4. c \in Queued'
        BY <1>6, <4>2, <4>3 DEF ToVisit
      <4>. QED  BY <4>2, <4>4
    <3>. QED  BY <3>2, <3>3
  <2>. QED  BY <2>1, <2>2
<1>9. CheckInv'
  <2>1. dst' = before'
    BY <1>1, <1>2 DEF Static
  <2>2. \A d : (Visited(d)' <=> Visited(d)) /\ (Passed(d)' <=> Passed(d))
    BY <1>1, StaticSame
  <2>. QED  BY <1>8, <2>1, <2>2 DEF CheckInv
<1>10. TreesInv'
  BY <1>1, <1>2, StaticSame
<1>. QED  BY <1>1, <1>6, <1>9, <1>10 DEF MergeInv

LEMMA CheckFailsInv ==
    ASSUME MergeInv, CheckFails
    PROVE  MergeInv'
<1>1. /\ pc = "check" /\ dir_queue # <<>> /\ Conflict(Top) /\ Static /\ dst' = dst /\ dir_queue' = dir_queue
      /\ pc' = "conflict"
  BY DEF CheckFails, Static
<1>2. TreesInv /\ QueueInv /\ CheckInv /\ dst = before
  BY <1>1, InvParts DEF CheckInv
<1>3. Top \in Paths
  BY <1>1, <1>2, TopFacts DEF QueueInv, Top
<1>4. \E p \in Paths : ~ Clean(src, before, common, p)
  BY <1>1, <1>2, <1>3, ConflictIs
<1>5. QueueInv'
  <2>1. \A d : Visited(d)' <=> Visited(d)
    BY <1>1, StaticSame
  <2>. QED  BY <1>1, <1>2, <2>1 DEF QueueInv, Queued
<1>6. (\E p \in Paths : ~ Clean(src, before, common, p))' /\ TreesInv' /\ dst' = before'
  BY <1>1, <1>2, <1>4, StaticSame DEF Static
<1>. QED  BY <1>1, <1>5, <1>6 DEF MergeInv

LEMMA CheckEndInv ==
    ASSUME MergeInv, CheckEnd
    PROVE  MergeInv'
<1>1. /\ pc = "check" /\ dir_queue = <<>> /\ Static /\ dst' = dst /\ dir_queue' = <<Root>> /\ pc' = "apply"
  BY DEF CheckEnd, Static
<1>2. TreesInv /\ CheckInv /\ dst = before /\ TreeOK(src) /\ TreeOK(before) /\ TreeOK(common)
  BY <1>1, InvParts DEF CheckInv
<1>3. Queued = {}
  BY <1>1 DEF Queued, Elems
<1>4. Agreed(src, before, common)
  <2> SUFFICES ASSUME NEW p \in Paths \ {Root}, Joint(src, before, common, Parent(p))
               PROVE  Clean(src, before, common, p)
    BY DEF Agreed
  <2>1. Parent(p) \in Paths /\ Visited(Parent(p))
    BY OverParent DEF Visited
  <2>2. Passed(Parent(p))
    BY <1>2, <1>3, <2>1 DEF CheckInv
  <2>. QED  BY <2>2 DEF Passed
<1>5. dir_queue' \in Seq(Paths) /\ Distinct(dir_queue') /\ Queued' = {Root}
  BY <1>1, RootQueue DEF Queued
<1>6. Visited(Root)
  BY <1>2, JointRoot DEF Visited
<1>7. QueueInv'
  <2>1. Visited(Root)'
    BY <1>1, <1>6, StaticSame
  <2>. QED  BY <1>5, <2>1 DEF QueueInv
<1>8. ASSUME NEW p \in Paths PROVE ValueAt(p)'
  <2>1. dst'[p] = before'[p]
    BY <1>1, <1>2 DEF Static
  <2>2. CASE p = Root
    <3>1. ~ Taken(src, before, common, Root)
      BY <1>2, <1>6, JointNotTaken, RootPath DEF Visited
    <3>2. ~ Taken(src, before, common, Root)'
      BY <1>1, <3>1, StaticSame
    <3>3. EntryAt(before, p)
      BY <1>2, TreeParts
    <3>4. before[p] = Entry(before[p].kind, before[p].hash, before[p].modified, before[p].loaded)
      BY <3>3 DEF EntryAt, Entry
    <3>5. dst'[p] = Entry(before'[p].kind, before'[p].hash, dst'[p].modified, before'[p].loaded)
      BY <1>1, <2>1, <3>4 DEF Static
    <3>. QED  BY <2>1, <2>2, <3>2, <3>5 DEF ValueAt
  <2>3. CASE p # Root
    <3>1. ~ Reached(p)'
      BY <1>5, <2>3, BelowRoot DEF Reached
    <3>. QED  BY <2>1, <3>1 DEF ValueAt
  <2>. QED  BY <2>2, <2>3
<1>9. ASSUME NEW p \in Paths \ {Root} PROVE MarkedAt(p)'
  <2>1. Parent(p) \in Paths
    BY OverParent
  <2>2. Over(Root, Parent(p))
    BY <2>1, OverFacts
  <2>. QED  BY <1>5, <2>2 DEF MarkedAt
<1>10. TreesInv' /\ Agreed(src, before, common)'
  BY <1>1, <1>2, <1>4, StaticSame
<1>11. ApplyInv'
  BY <1>8, <1>9, <1>10 DEF ApplyInv
<1>. QED  BY <1>1, <1>7, <1>10, <1>11 DEF MergeInv

-----------------------------------------------------------------------------
(* A step of the second pass.                                              *)

LEMMA EntryMarked ==
    ASSUME NEW k, NEW h, NEW f, NEW l, NEW v
    PROVE  [Entry(k, h, f, l) EXCEPT !.modified = v] = Entry(k, h, v, l)
<1> DEFINE D == {"kind", "hash", "modified", "loaded"}
<1>1. PICK x : x = Entry(k, h, f, l)
  OBVIOUS
<1>2. PICK y : y = Entry(k, h, v, l)
  OBVIOUS
<1>3. PICK z : z = [x EXCEPT !.modified = v]
  OBVIOUS
<1>4. \A i \in D : z[i] = y[i]
  BY <1>1, <1>2, <1>3 DEF Entry
<1>5. z = [i \in D |-> z[i]]
  BY <1>1, <1>3 DEF Entry
<1>6. y = [i \in D |-> y[i]]
  BY <1>2 DEF Entry
<1>. QED  BY <1>1, <1>2, <1>3, <1>4, <1>5, <1>6

\* The names that Applied replaces.
Replaced(d) == {p \in Paths \ {Root} : Parent(p) = d /\ Takes(src, before, common, p)}
Hit(d, q) == \E p \in Replaced(d) : Over(p, q)

LEMMA AppliedIs ==
    ASSUME NEW d \in Paths, Changed(d) = Replaced(d), NEW q \in Paths
    PROVE  /\ Hit(d, q) => Applied(d)[q] = clone(src[q])
           /\ ~ Hit(d, q) /\ Replaced(d) # {} /\ Over(q, d) => Applied(d)[q] = [dst[q] EXCEPT !.modified = TRUE]
           /\ ~ Hit(d, q) /\ ~ (Replaced(d) # {} /\ Over(q, d)) => Applied(d)[q] = dst[q]
<1>0. Replaced(d) \subseteq Paths
  BY DEF Replaced
<1>1. CASE Replaced(d) = {}
  BY <1>1 DEF Applied, Hit
<1>2. CASE Replaced(d) # {}
  <2>1. PICK m : m = mark_modified(dst, d)
    OBVIOUS
  <2>2. m[q] = IF Over(q, d) THEN [dst[q] EXCEPT !.modified = TRUE] ELSE dst[q]
    BY <2>1 DEF mark_modified, Over
  <2>3. Applied(d) = Copied(m, Replaced(d))
    BY <1>2, <2>1 DEF Applied
  <2>4. Copied(m, Replaced(d))[q] = IF \E p \in Replaced(d) : q = p \/ Below(q, p) THEN clone(src[q]) ELSE m[q]
    BY DEF Copied
  <2>5. (\E p \in Replaced(d) : q = p \/ Below(q, p)) <=> Hit(d, q)
    BY DEF Hit, Over
  <2>. QED  BY <1>2, <2>2, <2>3, <2>4, <2>5
<1>. QED  BY <1>1, <1>2

\* The directory next to visit, as the second pass finds it.
LEMMA ApplySets ==
    ASSUME TreesInv, QueueInv, ApplyInv, NEW d \in Queued
    PROVE  Descend(d) = ToVisit(d) /\ Changed(d) = Replaced(d)
<1>1. d \in Paths /\ Visited(d)
  BY ElemsPaths DEF QueueInv, Queued
<1>2. ASSUME NEW p \in Paths \ {Root}, Parent(p) = d
      PROVE  dst[p] = before[p] /\ Clean(src, before, common, p)
  <2>1. Below(p, d)
    BY <1>2, OverParent
  <2>2. ~ Reached(p)
    BY <2>1 DEF Reached
  <2>3. dst[p] = before[p]
    BY <2>2 DEF ApplyInv, ValueAt
  <2>4. Clean(src, before, common, p)
    BY <1>1, <1>2 DEF ApplyInv, Agreed, Visited
  <2>. QED  BY <2>3, <2>4
<1>3. ASSUME NEW p PROVE p \in Descend(d) <=> p \in ToVisit(d)
  <2>1. p \in Descend(d) <=> /\ p \in Paths \ {Root} /\ Parent(p) = d
                             /\ Mods(src, common, p) /\ IsDir(src, p) /\ IsDir(dst, p)
    BY <1>1, DiffIs DEF Descend, Both, Is, IsDir
  <2>2. ASSUME p \in Paths \ {Root}, Parent(p) = d
        PROVE  Mods(src, common, p) /\ IsDir(src, p) /\ IsDir(dst, p) <=> Joint(src, before, common, p)
    <3>1. dst[p] = before[p] /\ Clean(src, before, common, p)
      BY <1>2, <2>2
    <3>2. ASSUME Mods(src, common, p), IsDir(src, p), IsDir(before, p) PROVE Joint(src, before, common, p)
      <4>1. IsDir(common, p)
        BY <3>1, <3>2 DEF Clean, Same, IsDir
      <4>2. src[p].hash # common[p].hash
        BY <3>2, <4>1 DEF Mods, Same, IsDir
      <4>. QED  BY <3>2, <4>1, <4>2 DEF Joint
    <3>3. ASSUME Joint(src, before, common, p) PROVE Mods(src, common, p) /\ IsDir(src, p) /\ IsDir(before, p)
      BY <2>2, <3>3 DEF Joint, Mods, IsDir, Absent, Same
    <3>. QED  BY <3>1, <3>2, <3>3 DEF IsDir
  <2>. QED  BY <2>1, <2>2 DEF ToVisit, Visited
<1>4. ASSUME NEW p PROVE p \in Changed(d) <=> p \in Replaced(d)
  <2>1. p \in Descend(d) <=> /\ p \in Paths \ {Root} /\ Parent(p) = d
                             /\ Mods(src, common, p) /\ IsDir(src, p) /\ IsDir(dst, p)
    BY <1>1, DiffIs DEF Descend, Both, Is, IsDir
  <2>2. p \in Changed(d) <=> /\ p \in Paths \ {Root} /\ Parent(p) = d
                             /\ \/ Adds(src, common, p) \/ Rems(src, common, p)
                                \/ Mods(src, common, p) /\ ~ (IsDir(src, p) /\ IsDir(dst, p))
    BY <1>1, <2>1, DiffIs DEF Changed
  <2>3. p \in Paths \ {Root} /\ Parent(p) = d => (IsDir(dst, p) <=> IsDir(before, p))
    BY <1>2 DEF IsDir
  <2>. QED  BY <2>2, <2>3 DEF Replaced, Takes
<1>. QED  BY <1>3, <1>4

LEMMA OneEntryOver ==
    ASSUME NEW c \in Paths \ {Root}, NEW x \in Paths \ {Root}, Parent(x) = Parent(c),
           NEW p \in Paths, Over(c, p), Over(x, p)
    PROVE  x = c
<1>1. Over(c, x) \/ Over(x, c)
  BY OverChain
<1>2. ~ Over(c, Parent(c)) /\ ~ Over(x, Parent(x))
  BY OverParent
<1>. QED  BY <1>1, <1>2, OverParent

LEMMA HitBelow ==
    ASSUME NEW d \in Paths, NEW q \in Paths, Hit(d, q)
    PROVE  Below(q, d)
<1>1. PICK p \in Paths \ {Root} : Parent(p) = d /\ Over(p, q)
  BY DEF Hit, Replaced
<1>2. Over(d, p) /\ ~ Over(p, d)
  BY <1>1, OverParent
<1>3. Over(d, q)
  BY <1>1, <1>2, OverFacts
<1>4. d # q
  BY <1>1, <1>2
<1>. QED  BY <1>3, <1>4, OverFacts

\* The way up from a directory in the queue is settled but for the marks.
LEMMA AboveQueue ==
    ASSUME TreesInv, QueueInv, ApplyInv, NEW d \in Queued, NEW p \in Paths, Over(p, d)
    PROVE  /\ Reached(p) /\ ~ Taken(src, before, common, p)
           /\ dst[p] = Entry(before[p].kind, before[p].hash, dst[p].modified, before[p].loaded)
           /\ [dst[p] EXCEPT !.modified = TRUE] = Entry(before[p].kind, before[p].hash, TRUE, before[p].loaded)
<1>1. d \in Paths /\ Queued \subseteq Paths /\ Visited(d)
  BY ElemsPaths DEF QueueInv, Queued
<1>2. Visited(p)
  BY <1>1, JointUp DEF Visited, TreesInv
<1>3. ~ Taken(src, before, common, p)
  BY <1>2, JointNotTaken DEF Visited, TreesInv
<1>4. Reached(p)
  <2> SUFFICES ASSUME NEW e \in Queued, Below(p, e) PROVE FALSE
    BY DEF Reached
  <2>1. e \in Paths /\ Over(e, p) /\ e # p
    BY <1>1, OverFacts
  <2>2. Over(e, d)
    BY <1>1, <2>1, OverFacts
  <2>3. e # d
    BY <1>1, <2>1, OverFacts
  <2>. QED  BY <2>2, <2>3 DEF QueueInv
<1>5. dst[p] = Entry(before[p].kind, before[p].hash, dst[p].modified, before[p].loaded)
  BY <1>3, <1>4 DEF ApplyInv, ValueAt
<1>6. [dst[p] EXCEPT !.modified = TRUE] = Entry(before[p].kind, before[p].hash, TRUE, before[p].loaded)
  <2>1. PICK k, h, f, l, v : k = before[p].kind /\ h = before[p].hash /\ f = dst[p].modified
                             /\ l = before[p].loaded /\ v = TRUE
    OBVIOUS
  <2>2. dst[p] = Entry(k, h, f, l)
    BY <1>5, <2>1
  <2>3. [Entry(k, h, f, l) EXCEPT !.modified = v] = Entry(k, h, v, l)
    BY EntryMarked
  <2>. QED  BY <2>1, <2>2, <2>3
<1>. QED  BY <1>3, <1>4, <1>5, <1>6

LEMMA WholeEntry ==
    ASSUME TreesInv, NEW p \in Paths
    PROVE  before[p] = Entry(before[p].kind, before[p].hash, before[p].modified, before[p].loaded)
<1>1. EntryAt(before, p)
  BY TreeParts DEF TreesInv
<1>. QED  BY <1>1 DEF EntryAt, Entry

LEMMA ApplyDirInv ==
    ASSUME MergeInv, ApplyDir
    PROVE  MergeInv'
<1>1. /\ pc = "apply" /\ dir_queue # <<>> /\ Static /\ dst' = Applied(Top) /\ pc' = pc
      /\ \E s \in InOrder(Descend(Top)) : dir_queue' = Pop \o s
  BY DEF ApplyDir, Static
<1>2. TreesInv /\ QueueInv /\ ApplyInv /\ TreeOK(src) /\ TreeOK(before) /\ TreeOK(common)
  BY <1>1, InvParts
<1>3. PICK d \in Paths : d = Top /\ d \in Queued
  BY <1>1, <1>2, TopFacts DEF QueueInv, Top, Queued
<1>4. Descend(d) = ToVisit(d) /\ Changed(d) = Replaced(d)
  BY <1>2, <1>3, ApplySets
<1>5. PICK s \in InOrder(ToVisit(Top)) : dir_queue' = Pop \o s
  BY <1>1, <1>3, <1>4
<1>6. QueueInv' /\ Visited(d) /\ Queued' = (Queued \ {d}) \cup ToVisit(d)
  BY <1>1, <1>2, <1>3, <1>5, QueueStep
<1>7. Queued \subseteq Paths /\ \A e, f \in Queued : e # f => ~ Over(e, f)
  BY <1>2, ElemsPaths DEF QueueInv, Queued
<1>8. ASSUME NEW q \in Paths
      PROVE  /\ Hit(d, q) => dst'[q] = clone(src[q])
             /\ ~ Hit(d, q) /\ Replaced(d) # {} /\ Over(q, d) => dst'[q] = [dst[q] EXCEPT !.modified = TRUE]
             /\ ~ Hit(d, q) /\ ~ (Replaced(d) # {} /\ Over(q, d)) => dst'[q] = dst[q]
  BY <1>1, <1>3, <1>4, AppliedIs
<1>9. ASSUME NEW p \in Paths PROVE ValueAt(p)'
  <2>1. CASE Below(p, d)
    <3>1. PICK c \in Paths \ {Root} : Parent(c) = d /\ Over(c, p)
      BY <2>1, TowardsChild
    <3>2. dst[p] = before[p]
      <4>1. ~ Reached(p)
        BY <1>3, <2>1 DEF Reached
      <4>. QED  BY <1>2, <4>1 DEF ApplyInv, ValueAt
    <3>3. ~ Over(p, d)
      BY <2>1, OverFacts
    <3>4. Hit(d, p) <=> Takes(src, before, common, c)
      <4>1. Takes(src, before, common, c) => Hit(d, p)
        BY <3>1 DEF Hit, Replaced
      <4>2. ASSUME Hit(d, p) PROVE Takes(src, before, common, c)
        <5>1. PICK x \in Paths \ {Root} : Parent(x) = d /\ Over(x, p) /\ Takes(src, before, common, x)
          BY <4>2 DEF Hit, Replaced
        <5>. QED  BY <3>1, <5>1, OneEntryOver
      <4>. QED  BY <4>1, <4>2
    <3>5. ~ Takes(src, before, common, c) =>
            /\ dst'[p] = before'[p]
            /\ dst'[p] = Entry(before'[p].kind, before'[p].hash, dst'[p].modified, before'[p].loaded)
      <4> HAVE ~ Takes(src, before, common, c)
      <4>1. dst'[p] = before[p]
        BY <1>8, <3>2, <3>3, <3>4
      <4>2. before[p] = Entry(before[p].kind, before[p].hash, before[p].modified, before[p].loaded)
        BY <1>2, WholeEntry
      <4>. QED  BY <1>1, <4>1, <4>2 DEF Static
    <3>6. CASE Visited(c)
      <4>1. ~ Takes(src, before, common, c)
        BY <3>6, JointStays DEF Visited
      <4>2. ~ Reached(p)' \/ ~ Taken(src, before, common, p)'
        <5>1. CASE p = c
          <6>1. ~ Taken(src, before, common, p)
            BY <1>2, <3>6, <5>1, JointNotTaken DEF Visited
          <6>. QED  BY <1>1, <6>1, StaticSame
        <5>2. CASE p # c
          <6>1. Below(p, c) /\ c \in Queued'
            BY <1>6, <3>1, <3>6, <5>2 DEF Over, ToVisit
          <6>. QED  BY <6>1 DEF Reached
        <5>. QED  BY <5>1, <5>2
      <4>. QED  BY <3>5, <4>1, <4>2 DEF ValueAt
    <3>7. CASE ~ Visited(c)
      <4>1. Reached(p)'
        <5> SUFFICES ASSUME NEW e \in Queued', Below(p, e) PROVE FALSE
          BY DEF Reached
        <5>1. CASE e \in Queued \ {d}
          <6>1. e \in Paths /\ Over(e, p) /\ Over(d, p)
            BY <1>7, <2>1, <5>1 DEF Over
          <6>2. Over(e, d) \/ Over(d, e)
            BY <6>1, OverChain
          <6>. QED  BY <1>3, <1>7, <5>1, <6>2
        <5>2. CASE e \in ToVisit(d)
          <6>1. e \in Paths \ {Root} /\ Parent(e) = d /\ Visited(e) /\ Over(e, p)
            BY <5>2 DEF ToVisit, Over
          <6>2. e = c
            BY <3>1, <6>1, OneEntryOver
          <6>. QED  BY <3>7, <6>1, <6>2
        <5>. QED  BY <1>6, <5>1, <5>2
      <4>2. Taken(src, before, common, p) <=> Takes(src, before, common, c)
        BY <1>2, <1>6, <3>1, <3>7, TakenAt DEF Visited
      <4>3. Taken(src, before, common, p)' <=> Takes(src, before, common, c)
        BY <1>1, <4>2, StaticSame
      <4>4. CASE Takes(src, before, common, c)
        <5>1. dst'[p] = clone(src[p])
          BY <1>8, <3>4, <4>4
        <5>2. dst'[p] = clone(src[p])'
          BY <1>1, <5>1 DEF Static, clone
        <5>. QED  BY <4>1, <4>3, <4>4, <5>2 DEF ValueAt
      <4>5. CASE ~ Takes(src, before, common, c)
        BY <3>5, <4>1, <4>3, <4>5 DEF ValueAt
      <4>. QED  BY <4>4, <4>5
    <3>. QED  BY <3>6, <3>7
  <2>2. CASE ~ Below(p, d)
    <3>1. ~ Hit(d, p)
      BY <2>2, HitBelow
    <3>2. Reached(p)' <=> Reached(p)
      <4>1. ASSUME NEW e \in ToVisit(d), Below(p, e) PROVE FALSE
        <5>1. e \in Paths /\ Below(e, d)
          BY OverParent DEF ToVisit
        <5>. QED  BY <2>2, <4>1, <5>1, BelowTrans
      <4>. QED  BY <1>6, <2>2, <4>1 DEF Reached
    <3>3. Taken(src, before, common, p)' <=> Taken(src, before, common, p)
      BY <1>1, StaticSame
    <3>4. CASE Over(p, d) /\ Replaced(d) # {}
      <4>1. /\ Reached(p) /\ ~ Taken(src, before, common, p)
            /\ [dst[p] EXCEPT !.modified = TRUE] = Entry(before[p].kind, before[p].hash, TRUE, before[p].loaded)
        BY <1>2, <1>3, <3>4, AboveQueue
      <4>2. dst'[p] = Entry(before[p].kind, before[p].hash, TRUE, before[p].loaded)
        BY <1>8, <3>1, <3>4, <4>1
      <4>3. dst'[p].modified = TRUE
        BY <4>2 DEF Entry
      <4>4. dst'[p] = Entry(before'[p].kind, before'[p].hash, dst'[p].modified, before'[p].loaded)
        BY <1>1, <4>2, <4>3 DEF Static
      <4>. QED  BY <3>2, <3>3, <4>1, <4>4 DEF ValueAt
    <3>5. CASE ~ (Over(p, d) /\ Replaced(d) # {})
      <4>1. dst'[p] = dst[p]
        BY <1>8, <3>1, <3>5
      <4>2. ValueAt(p)
        BY <1>2 DEF ApplyInv
      <4>3. clone(src[p])' = clone(src[p])
        BY <1>1 DEF Static, clone
      <4>. QED  BY <1>1, <3>2, <3>3, <4>1, <4>2, <4>3 DEF ValueAt, Static
    <3>. QED  BY <3>4, <3>5
  <2>. QED  BY <2>1, <2>2
<1>10. ASSUME NEW p \in Paths \ {Root} PROVE MarkedAt(p)'
  <2>0. PICK r \in Paths : r = Parent(p)
    BY OverParent
  <2> SUFFICES ASSUME Visited(r), Takes(src, before, common, p), ~ \E e \in Queued' : Over(e, r)
               PROVE  dst'[r].modified = TRUE
    BY <1>1, <2>0, StaticSame DEF MarkedAt
  <2>1. ~ Below(r, d)
    <3> SUFFICES ASSUME Below(r, d) PROVE FALSE
      OBVIOUS
    <3>1. PICK c \in Paths \ {Root} : Parent(c) = d /\ Over(c, r)
      BY TowardsChild
    <3>2. Visited(c)
      BY <1>2, <3>1, JointUp DEF Visited
    <3>. QED  BY <1>6, <3>1, <3>2 DEF ToVisit
  <2>2. ~ Hit(d, r)
    BY <2>1, HitBelow
  <2>3. CASE Over(r, d) /\ Replaced(d) # {}
    <3>1. [dst[r] EXCEPT !.modified = TRUE] = Entry(before[r].kind, before[r].hash, TRUE, before[r].loaded)
      BY <1>2, <1>3, <2>3, AboveQueue
    <3>2. dst'[r] = Entry(before[r].kind, before[r].hash, TRUE, before[r].loaded)
      BY <1>8, <2>2, <2>3, <3>1
    <3>. QED  BY <3>2 DEF Entry
  <2>4. CASE ~ (Over(r, d) /\ Replaced(d) # {})
    <3>1. r # d
      BY <2>0, <2>4, OverFacts DEF Replaced
    <3>2. ~ \E e \in Queued : Over(e, r)
      BY <1>6, <2>1, <3>1 DEF Over
    <3>3. dst[r].modified = TRUE
      BY <1>2, <2>0, <3>2 DEF ApplyInv, MarkedAt
    <3>. QED  BY <1>8, <2>2, <2>4, <3>3
  <2>. QED  BY <2>3, <2>4
<1>11. TreesInv' /\ Agreed(src, before, common)'
  BY <1>1, <1>2, StaticSame DEF ApplyInv
<1>12. ApplyInv'
  BY <1>9, <1>10, <1>11 DEF ApplyInv
<1>. QED  BY <1>1, <1>6, <1>11, <1>12 DEF MergeInv

-----------------------------------------------------------------------------
(* The remaining steps, and what the invariant says.                       *)

LEMMA SameStateInv ==
    ASSUME MergeInv, UNCHANGED vars
    PROVE  MergeInv'
<1>1. Static /\ dst' = dst /\ dir_queue' = dir_queue /\ pc' = pc
  BY DEF vars, Static
<1>. QED  BY <1>1 DEF MergeInv, TreesInv, QueueInv, CheckInv, ApplyInv, ValueAt, MarkedAt, Reached, Passed,
                     Visited, Queued, Static, clone

LEMMA ApplyEndInv ==
    ASSUME MergeInv, ApplyEnd
    PROVE  MergeInv'
<1>1. /\ pc = "apply" /\ dir_queue = <<>> /\ pc' = "merged"
      /\ Static /\ dst' = dst /\ dir_queue' = dir_queue
  BY DEF ApplyEnd, Static
<1>2. TreesInv /\ QueueInv /\ ApplyInv
  BY <1>1, InvParts
<1>3. TreesInv' /\ QueueInv' /\ ApplyInv'
  BY <1>1, <1>2 DEF TreesInv, QueueInv, ApplyInv, ValueAt, MarkedAt, Reached, Visited, Queued, Static, clone
<1>. QED  BY <1>1, <1>3 DEF MergeInv

LEMMA NextInv ==
    ASSUME MergeInv, [Next]_vars
    PROVE  MergeInv'
<1>1. CASE CheckDir
  BY <1>1, CheckDirInv
<1>2. CASE CheckFails
  BY <1>2, CheckFailsInv
<1>3. CASE CheckEnd
  BY <1>3, CheckEndInv
<1>4. CASE ApplyDir
  BY <1>4, ApplyDirInv
<1>5. CASE ApplyEnd
  BY <1>5, ApplyEndInv
<1>6. CASE Returned
  BY <1>6, SameStateInv DEF Returned
<1>7. CASE UNCHANGED vars
  BY <1>7, SameStateInv
<1>. QED  BY <1>1, <1>2, <1>3, <1>4, <1>5, <1>6, <1>7 DEF Next

LEMMA MergeInvHolds == Spec => []MergeInv
<1>1. Init => MergeInv
  BY InitInv
<1>2. MergeInv /\ [Next]_vars => MergeInv'
  BY NextInv
<1>. QED  BY <1>1, <1>2, PTL DEF Spec

LEMMA CloneFields ==
    ASSUME NEW e
    PROVE  /\ clone(e).kind = e.kind
           /\ clone(e).hash = IF e.kind = "dir" THEN NoHash ELSE e.hash
<1>1. PICK k, h, f, l : /\ k = e.kind /\ h = (IF e.kind = "dir" THEN NoHash ELSE e.hash)
                        /\ f = (e.kind = "symlink" \/ e.modified) /\ l = e.loaded
  OBVIOUS
<1>2. clone(e) = Entry(k, h, f, l)
  BY <1>1 DEF clone
<1>3. clone(e).kind = k /\ clone(e).hash = h
  BY <1>2 DEF Entry
<1>. QED  BY <1>1, <1>3

\* What dst has at a path during the second pass.
LEMMA DstAt ==
    ASSUME TreesInv, ApplyInv, NEW p \in Paths
    PROVE  IF Reached(p) /\ Taken(src, before, common, p)
           THEN dst[p] = clone(src[p])
           ELSE dst[p].kind = before[p].kind /\ dst[p].hash = before[p].hash
<1>1. ValueAt(p)
  BY DEF ApplyInv
<1>2. CASE Reached(p) /\ Taken(src, before, common, p)
  BY <1>1, <1>2 DEF ValueAt
<1>3. CASE Reached(p) /\ ~ Taken(src, before, common, p)
  <2>1. dst[p] = Entry(before[p].kind, before[p].hash, dst[p].modified, before[p].loaded)
    BY <1>1, <1>3 DEF ValueAt
  <2>. QED  BY <1>3, <2>1 DEF Entry
<1>4. CASE ~ Reached(p)
  BY <1>1, <1>4 DEF ValueAt
<1>. QED  BY <1>2, <1>3, <1>4

LEMMA DstKind ==
    ASSUME TreesInv, ApplyInv, NEW p \in Paths
    PROVE  dst[p].kind = IF Reached(p) /\ Taken(src, before, common, p) THEN src[p].kind ELSE before[p].kind
BY DstAt, CloneFields

LEMMA TakenDown ==
    ASSUME NEW r \in Paths, NEW p \in Paths, Over(r, p), Taken(src, before, common, r)
    PROVE  Taken(src, before, common, p)
BY OverFacts DEF Taken

\* dst stays a tree in the middle of the second pass.
LEMMA DstTree ==
    ASSUME TreesInv, QueueInv, ApplyInv, NEW p \in Paths \ {Root}, dst[p].kind # "none"
    PROVE  dst[Parent(p)].kind = "dir"
<1>1. PICK r \in Paths : r = Parent(p) /\ Over(r, p) /\ Below(p, r)
  BY OverParent
<1>2. TreeOK(src) /\ TreeOK(before) /\ TreeOK(common) /\ Queued \subseteq Paths
  BY ElemsPaths DEF TreesInv, QueueInv, Queued
<1>3. Reached(p) => Reached(r)
  <2> SUFFICES ASSUME NEW e \in Queued, Below(r, e) PROVE Below(p, e)
    BY DEF Reached
  <2>. QED  BY <1>1, <1>2, BelowTrans
<1>4. CASE Reached(p) /\ Taken(src, before, common, p)
  <2>1. src[p].kind # "none"
    BY <1>4, DstKind
  <2>2. CASE Taken(src, before, common, r)
    <3>1. dst[r].kind = src[r].kind
      BY <1>3, <1>4, <2>2, DstKind
    <3>. QED  BY <1>1, <1>2, <2>1, <3>1, TreeParts
  <2>3. CASE ~ Taken(src, before, common, r)
    <3>1. PICK a \in Paths \ {Root} : Over(a, p) /\ Joint(src, before, common, Parent(a)) /\ Takes(src, before, common, a)
      BY <1>4 DEF Taken
    <3>2. a = p
      <4>1. ~ Over(a, r)
        BY <2>3, <3>1 DEF Taken
      <4>. QED  BY <1>1, <3>1, <4>1, OverParent
    <3>3. before[r].kind = "dir"
      BY <1>1, <3>1, <3>2 DEF Joint, IsDir
    <3>. QED  BY <1>1, <2>3, <3>3, DstKind
  <2>. QED  BY <2>2, <2>3
<1>5. CASE ~ (Reached(p) /\ Taken(src, before, common, p))
  <2>1. before[p].kind # "none"
    BY <1>5, DstKind
  <2>2. before[r].kind = "dir"
    BY <1>1, <1>2, <2>1, TreeParts
  <2>3. ~ (Reached(r) /\ Taken(src, before, common, r))
    <3> SUFFICES ASSUME Reached(r), Taken(src, before, common, r) PROVE FALSE
      OBVIOUS
    <3>1. ~ Reached(p)
      BY <1>1, <1>5, TakenDown
    <3>2. PICK e \in Queued : Below(p, e) /\ ~ Below(r, e)
      BY <3>1 DEF Reached
    <3>3. e = r
      <4>1. e \in Paths /\ Over(e, p) /\ e # p
        BY <1>2, <3>2, OverFacts
      <4>2. Over(e, r)
        BY <1>1, <4>1, OverParent
      <4>. QED  BY <3>2, <4>2 DEF Over
    <3>4. Joint(src, before, common, r)
      BY <3>2, <3>3 DEF QueueInv, Visited
    <3>. QED  BY <1>2, <3>4, JointNotTaken
  <2>. QED  BY <1>1, <2>2, <2>3, DstKind
<1>. QED  BY <1>4, <1>5

LEMMA InvTypes ==
    ASSUME MergeInv
    PROVE  TypeOK
<1>1. TreesInv /\ QueueInv /\ pc \in {"check", "apply", "merged", "conflict"}
  BY DEF MergeInv
<1>2. CASE dst = before
  <2>1. \A p \in Paths \ {Root} : lookup(dst, p) => Is(dst, Parent(p), "dir")
    BY <1>1, <1>2, TreeParts DEF lookup, Is, TreesInv
  <2>2. ASSUME NEW i \in 1 .. Len(dir_queue), NEW t \in {src, dst, common} PROVE Is(t, dir_queue[i], "dir")
    <3>1. dir_queue[i] \in Queued
      BY DEF Queued, Elems
    <3>. QED  BY <1>1, <1>2, <3>1 DEF QueueInv, Visited, Joint, Is, IsDir
  <2>. QED  BY <1>1, <2>1, <2>2 DEF TypeOK
<1>3. CASE ApplyInv
  <2>1. \A p \in Paths \ {Root} : lookup(dst, p) => Is(dst, Parent(p), "dir")
    BY <1>1, <1>3, DstTree DEF lookup, Is
  <2>2. ASSUME NEW i \in 1 .. Len(dir_queue), NEW t \in {src, dst, common} PROVE Is(t, dir_queue[i], "dir")
    <3>1. PICK d \in Queued : d = dir_queue[i]
      BY DEF Queued, Elems
    <3>2. IsDir(src, d) /\ IsDir(before, d) /\ IsDir(common, d) /\ d \in Paths
      BY <1>1, ElemsPaths DEF QueueInv, Queued, Visited, Joint
    <3>3. Over(d, d)
      BY <3>2, OverFacts
    <3>4. ~ Taken(src, before, common, d)
      BY <1>1, <1>3, <3>2, <3>3, AboveQueue
    <3>5. IsDir(dst, d)
      BY <1>1, <1>3, <3>2, <3>4, DstKind DEF IsDir
    <3>. QED  BY <3>1, <3>2, <3>5 DEF Is, IsDir
  <2>. QED  BY <1>1, <2>1, <2>2 DEF TypeOK
<1>. QED  BY <1>1, <1>2, <1>3, InvParts DEF CheckInv

LEMMA InvMergeCorrect ==
    ASSUME MergeInv
    PROVE  MergeCorrect
<1>1. ASSUME pc = "merged" PROVE Look(dst) = ThreeWay
  <2>1. TreesInv /\ QueueInv /\ ApplyInv /\ Queued = {} /\ Agreed(src, before, common)
        /\ TreeOK(src) /\ TreeOK(before) /\ TreeOK(common)
    BY <1>1, InvParts DEF MergeInv, Queued, Elems, ApplyInv
  <2>2. ASSUME NEW p \in Paths PROVE Look(dst)[p] = MergeAt(src, before, common, p)
    <3>1. Reached(p)
      BY <2>1 DEF Reached
    <3>2. CASE Taken(src, before, common, p)
      <4>1. dst[p] = clone(src[p])
        BY <2>1, <3>1, <3>2, DstAt
      <4>2. SameLook(dst, src, p)
        BY <4>1, CloneFields DEF SameLook
      <4>. QED  BY <2>1, <3>2, <4>2, LookIs, MergeIs
    <3>3. CASE ~ Taken(src, before, common, p)
      <4>1. SameLook(dst, before, p)
        BY <2>1, <3>3, DstAt DEF SameLook
      <4>. QED  BY <2>1, <3>3, <4>1, LookIs, MergeIs
    <3>. QED  BY <3>2, <3>3
  <2>3. Look(dst) = [p \in Paths |-> Look(dst)[p]]
    BY DEF Look
  <2>. QED  BY <2>2, <2>3, ThreeWayIs
<1>2. pc = "conflict" => dst = before
  BY InvParts
<1>. QED  BY <1>1, <1>2 DEF MergeCorrect

LEMMA InvConflictsExact ==
    ASSUME MergeInv
    PROVE  ConflictsExact
<1>1. TreeOK(src) /\ TreeOK(before) /\ TreeOK(common)
  BY InvParts
<1>2. ASSUME pc = "conflict" PROVE \E p \in Paths : Clash(p)
  BY <1>1, <1>2, InvParts, ConflictClash
<1>3. ASSUME pc \in {"apply", "merged"}, NEW p \in Paths, Clash(p)
      PROVE  \E i \in 0 .. Len(p) : Replaces(Prefix(p, i))
  <2>1. Agreed(src, before, common)
    BY <1>3, InvParts DEF ApplyInv
  <2>. QED  BY <1>1, <1>3, <2>1, ClashExcused
<1>. QED  BY <1>2, <1>3 DEF ConflictsExact

LEMMA InvMergeMarks ==
    ASSUME MergeInv
    PROVE  MergeMarks
<1> SUFFICES ASSUME pc = "merged", NEW p \in Paths, Is(dst, p, "dir"), ~ dst[p].modified
             PROVE  \/ dst[p].hash = DirObj(dst, p)
                    \/ dst[p].hash = NoHash /\ ~ Is(before, p, "dir")
  BY DEF MergeMarks
<1>1. TreesInv /\ QueueInv /\ ApplyInv /\ Queued = {} /\ Agreed(src, before, common)
      /\ TreeOK(src) /\ TreeOK(before) /\ TreeOK(common) /\ \A q : Reached(q)
  BY InvParts DEF MergeInv, Queued, Elems, ApplyInv, Reached
<1>2. CASE Taken(src, before, common, p)
  <2>1. dst[p] = clone(src[p])
    BY <1>1, <1>2, DstAt
  <2>2. src[p].kind = "dir" /\ dst[p].hash = NoHash
    BY <2>1, CloneFields DEF Is
  <2>3. PICK a \in Paths \ {Root} : Over(a, p) /\ Joint(src, before, common, Parent(a)) /\ Takes(src, before, common, a)
    BY <1>2 DEF Taken
  <2>4. IsDir(src, a)
    BY <1>1, <2>2, <2>3, DirAbove DEF IsDir
  <2>5. Clean(src, before, common, a)
    BY <1>1, <2>3 DEF Agreed
  <2>6. ~ IsDir(before, a)
    BY <2>3, <2>4, <2>5 DEF Clean, Takes, Adds, Rems, Absent, IsDir
  <2>7. ~ IsDir(before, p)
    BY <1>1, <2>3, <2>6, DirAbove
  <2>. QED  BY <2>2, <2>7 DEF Is, IsDir
<1>3. CASE ~ Taken(src, before, common, p)
  <2>1. dst[p].kind = before[p].kind /\ dst[p].hash = before[p].hash
    BY <1>1, <1>3, DstAt
  <2>2. before[p].hash = DirObj(before, p)
    <3>1. EntryAt(before, p)
      BY <1>1, TreeParts
    <3>. QED  BY <2>1, <3>1 DEF Is, EntryAt
  <2>3. ASSUME NEW n \in Names, Len(p) # Depth
        PROVE  /\ dst[Child(p, n)].kind = before[Child(p, n)].kind
               /\ dst[Child(p, n)].hash = before[Child(p, n)].hash
    <3>1. PICK c \in Paths \ {Root} : c = Child(p, n) /\ Parent(c) = p
      BY <2>3, ChildPath
    <3>2. ~ Taken(src, before, common, c)
      <4> SUFFICES ASSUME NEW a \in Paths \ {Root}, Over(a, c), Joint(src, before, common, Parent(a)),
                          Takes(src, before, common, a)
                   PROVE  FALSE
        BY DEF Taken
      <4>1. ~ Over(a, p)
        BY <1>3 DEF Taken
      <4>2. a = c
        BY <3>1, <4>1, OverParent
      <4>3. dst[p].modified = TRUE
        BY <1>1, <3>1, <4>2 DEF ApplyInv, MarkedAt, Visited
      <4>. QED  BY <4>3
    <3>. QED  BY <1>1, <3>1, <3>2, DstAt
  <2>4. DirObj(dst, p) = DirObj(before, p)
    BY <2>3, DirObjSame
  <2>. QED  BY <2>1, <2>2, <2>4
<1>. QED  BY <1>2, <1>3

-----------------------------------------------------------------------------

\* The passes of merge() visit directories of all three trees only, and dst is a
\* tree after every one of its steps, for all trees of every width and depth.
THEOREM MergeTypes == Spec => []TypeOK
BY MergeInvHolds, InvTypes, PTL

\* merge() that returns true has made the three-way merge of src and dst over
\* common, and merge() that returns false has left dst alone: two passes down the
\* directories that differ are enough, for all trees of every width and depth.
THEOREM MergeIsThreeWay == Spec => []MergeCorrect
BY MergeInvHolds, InvMergeCorrect, PTL

\* check_conflictions stops at a conflict when both sides changed the same thing,
\* and only then, but for what dst did in a directory src has replaced.
THEOREM ConflictsAreExact == Spec => []ConflictsExact
BY MergeInvHolds, InvConflictsExact, PTL

\* Every directory of dst whose entries merge() has changed is marked modified up
\* to the root, so that the next commit writes it.
THEOREM ChangesAreMarked == Spec => []MergeMarks
BY MergeInvHolds, InvMergeMarks, PTL

=============================================================================
